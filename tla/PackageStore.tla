---------------------------- MODULE PackageStore ----------------------------
(***************************************************************************)
(* The content-addressed artifact store, `CircuitPackageStore` in          *)
(* src/package.rs, on a directory several processes share.  An artifact's  *)
(* path holds its digest, so different artifacts never meet at a path and  *)
(* a file there is some prefix of the one artifact it is named for: its    *)
(* content is the number of chunks written, Size when it is complete.      *)
(*                                                                         *)
(* Each process runs one call at a time; the steps of a call are its file  *)
(* operations.  A process may be killed between any two of them, which     *)
(* leaves the file as it stands, and a write or a sync may fail.  Part     *)
(* libraries and circuit libraries are published and loaded by the same    *)
(* steps.  Power loss is not modelled.                                     *)
(***************************************************************************)
EXTENDS Integers, FiniteSets

CONSTANTS
  Processes,   \* processes sharing the store's root
  Artifacts,   \* artifacts, each standing for its path
  Size,        \* chunks a complete artifact is written in
  CanFail,     \* TRUE when a write or a sync may fail
  MaxDeaths    \* bound: how often a process may be killed

ASSUME StoreAssumption ==
  /\ Size \in Nat \ {0}
  /\ CanFail \in BOOLEAN
  /\ MaxDeaths \in Nat

VARIABLES
  files,       \* content of each path: Absent, or the chunks written
  step,        \* where each process's call stands
  holding,     \* the artifact each process's call is about
  result,      \* what each process's last call returned
  confirmed,   \* artifacts some publish call has returned Ok for
  deaths       \* kills so far

callsAndFiles == <<files, step, holding, result, confirmed>>
storeVars == <<callsAndFiles, deaths>>

Absent == -1
WholeFile == Size
Steps == {"idle", "create", "write", "sync", "remove", "compare", "load"}
Results == {"None", "Created", "Existing", "DigestCollision", "Io",
            "Loaded", "DigestMismatch"}

StoreInit ==
  /\ files = [a \in Artifacts |-> Absent]
  /\ step = [p \in Processes |-> "idle"]
  /\ holding \in [Processes -> Artifacts]
  /\ result = [p \in Processes |-> "None"]
  /\ confirmed = {}
  /\ deaths = 0

Goto(p, s) == step' = [step EXCEPT ![p] = s] /\ UNCHANGED result

Return(p, r) ==
  /\ step' = [step EXCEPT ![p] = "idle"]
  /\ result' = [result EXCEPT ![p] = r]

(* A new call, about artifact a. *)
Start(p, a, s) ==
  /\ step[p] = "idle"
  /\ step' = [step EXCEPT ![p] = s]
  /\ holding' = [holding EXCEPT ![p] = a]
  /\ result' = [result EXCEPT ![p] = "None"]
  /\ UNCHANGED <<files, confirmed>>

Write(a, n) == files' = [files EXCEPT ![a] = n]

-----------------------------------------------------------------------------
(* publish and publish_circuit_library                                     *)

PublishArtifact(p, a) == Start(p, a, "create")

(* An open that truncates a file already there. *)
OpenTruncating(p) ==
  /\ step[p] = "create"
  /\ Write(holding[p], 0)
  /\ Goto(p, "write")
  /\ UNCHANGED <<holding, confirmed>>

(* create_new: exactly one process creates the path, the others compare *)
Open(p) ==
  /\ step[p] = "create"
  /\ \/ /\ files[holding[p]] = Absent
        /\ Write(holding[p], 0)
        /\ Goto(p, "write")
     \/ /\ files[holding[p]] # Absent
        /\ Goto(p, "compare")
        /\ UNCHANGED files
  /\ UNCHANGED <<holding, confirmed>>

(* write_all proceeds by chunks, and sync_all follows the last one. *)
WriteChunk(p) ==
  /\ step[p] = "write"
  /\ files[holding[p]] \in 0..Size - 1
  /\ Write(holding[p], files[holding[p]] + 1)
  /\ Goto(p, IF files[holding[p]] + 1 = WholeFile THEN "sync" ELSE "write")
  /\ UNCHANGED <<holding, confirmed>>

Sync(p) ==
  /\ step[p] = "sync"
  /\ Return(p, "Created")
  /\ confirmed' = confirmed \cup {holding[p]}
  /\ UNCHANGED <<files, holding>>

(* A failed write or sync leads to the removal of the file, which may fail *)
(* too: its error is dropped.                                              *)
Fail(p) ==
  /\ CanFail
  /\ step[p] \in {"write", "sync"}
  /\ Goto(p, "remove")
  /\ UNCHANGED <<files, holding, confirmed>>

RemovePartial(p) ==
  /\ step[p] = "remove"
  /\ Write(holding[p], Absent) \/ UNCHANGED files
  /\ Return(p, "Io")
  /\ UNCHANGED <<holding, confirmed>>

(* The bytes at the path are the artifact's own. *)
SameBytes(a) == files[a] = WholeFile

(* The path was taken: identical bytes are a hit, anything else is reported *)
(* as a collision.                                                          *)
Compare(p) ==
  /\ step[p] = "compare"
  /\ LET a == holding[p]
     IN \/ /\ SameBytes(a)
           /\ Return(p, "Existing")
           /\ confirmed' = confirmed \cup {a}
        \/ /\ ~SameBytes(a) /\ files[a] # Absent
           /\ Return(p, "DigestCollision")
           /\ UNCHANGED confirmed
        \/ /\ files[a] = Absent
           /\ Return(p, "Io")
           /\ UNCHANGED confirmed
  /\ UNCHANGED <<files, holding>>

-----------------------------------------------------------------------------
(* load and load_circuit_library, of a coordinate from a lock              *)

Load(p, a) == Start(p, a, "load")

Read(p) ==
  /\ step[p] = "load"
  /\ LET a == holding[p]
     IN \/ files[a] = Absent /\ Return(p, "Io")
        \/ SameBytes(a) /\ Return(p, "Loaded")
        \/ ~SameBytes(a) /\ files[a] # Absent /\ Return(p, "DigestMismatch")
  /\ UNCHANGED <<files, holding, confirmed>>

(* A process is killed and later runs a new call. *)
Die(p) ==
  /\ deaths < MaxDeaths
  /\ step[p] # "idle"
  /\ deaths' = deaths + 1
  /\ Return(p, "None")
  /\ UNCHANGED <<files, holding, confirmed>>

-----------------------------------------------------------------------------
Proceed(p) ==
  \/ Open(p)
  \/ WriteChunk(p)
  \/ Sync(p)
  \/ RemovePartial(p)
  \/ Compare(p)
  \/ Read(p)

StoreNext ==
  \E p \in Processes :
    \/ /\ \/ \E a \in Artifacts : PublishArtifact(p, a)
          \/ \E a \in Artifacts : Load(p, a)
          \/ Proceed(p)
          \/ Fail(p)
       /\ UNCHANGED deaths
    \/ Die(p)

StoreSpec == StoreInit /\ [][StoreNext]_storeVars

-----------------------------------------------------------------------------
(* Properties.                                                             *)

StoreTypeOK ==
  /\ files \in [Artifacts -> {Absent} \cup 0..Size]
  /\ step \in [Processes -> Steps]
  /\ holding \in [Processes -> Artifacts]
  /\ result \in [Processes -> Results]
  /\ confirmed \subseteq Artifacts
  /\ deaths \in 0..MaxDeaths

Writing(p) == step[p] \in {"write", "sync", "remove"}

(* A path has one writer: whoever created the file.  No other process       *)
(* touches it until that one has finished, given up or died, and a writer   *)
(* finds the file as far as it wrote it itself.                             *)
OneWriter ==
  \A p, q \in Processes :
    /\ Writing(p) /\ Writing(q) /\ holding[p] = holding[q] => p = q
    /\ step[p] = "write" => files[holding[p]] \in 0..Size - 1
    /\ step[p] = "sync" => files[holding[p]] = WholeFile

(* A complete file whose creator is done with it stays: so what a publish   *)
(* call has returned as created the store holds for good, and no failure,   *)
(* kill or concurrent call takes it away or cuts it short.                  *)
CreatedIsForever ==
  [][\A a \in Artifacts :
       (files[a] = WholeFile /\ ~\E p \in Processes : Writing(p) /\ holding[p] = a)
         => files'[a] = WholeFile]_storeVars
=============================================================================
