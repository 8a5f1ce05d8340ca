------------------------ MODULE ManufacturingRelease ------------------------
(***************************************************************************)
(* Release bundles, src/manufacturing_release.rs over the catalog of       *)
(* src/release_artifact.rs: processes that build, sign, write and read     *)
(* bundles share one release directory and one archive, and may fail, be   *)
(* killed, or find files that somebody else has changed.                   *)
(*                                                                         *)
(* A digest stands for the content it was made of, so a descriptor is the  *)
(* content it describes, and a catalog maps paths to contents.  One file   *)
(* stands for each kind of artifact; the files whose content is the same   *)
(* in every release (the JSON schemas, the CSV dialects) are left out.     *)
(* Errors keep the stage that reports them.  Places are regular files.     *)
(***************************************************************************)
EXTENDS Integers, Sequences, FiniteSets, FiniteSetsExt

CONSTANTS
  Processes,   \* processes that share the places below
  Reports,     \* documents with their release report and options
  Signers,     \* signing services: [algorithm, key]
  Policies,    \* signature policies, as the algorithms they can verify
  Edits,       \* <<place, content>>: what somebody else may put at a place,
               \* archives made by other programs included
  Limits,      \* ReleaseArchiveLimits: [bytes, entries, file, total, ratio]
  MaxCalls     \* bound: signatures, writes, directory reads and edits

VARIABLES
  place,    \* content of every file of the directory, and of the archive
  bundle,   \* the bundle each process holds
  pc,       \* what each process is doing
  todo,     \* files still to be written or read, with their contents
  found,    \* the bundle read so far
  calls,    \* signatures, writes, directory reads and edits so far
  kept,     \* the last bundle written, if nobody has interfered since
  disturbed \* writers another process or somebody else has interfered with

callVars == <<pc, todo, found>>
historyVars == <<calls, kept, disturbed>>
releaseVars == <<place, bundle, callVars, historyVars>>

ManifestPath == "manufacturing-release.json"
ArchivePath == "release.zip"
DesignPath == "source/design.hypercircuit.json"
DrcPath == "evidence/hyperdrc.json"
FabricationPath == "fabrication/manifest.json"
AssemblyPath == "assembly/assembly-v2.json"

(* The order of the paths in a bundle: the manifest is written among the   *)
(* artifacts, not after them.                                              *)
PathOrder == <<AssemblyPath, DrcPath, FabricationPath, ManifestPath,
               DesignPath, "test/test-intent.json">>

Paths == {PathOrder[i] : i \in DOMAIN PathOrder}
Places == Paths \cup {ArchivePath}

(* The positions of some paths, and the path that comes first.             *)
Listed(D) == {i \in DOMAIN PathOrder : PathOrder[i] \in D}
First(D) ==
  CHOOSE q \in D : \A r \in D \ {q} :
    \E i, j \in DOMAIN PathOrder : i < j /\ PathOrder[i] = q /\ PathOrder[j] = r

Nothing == [held |-> {}]
Absent == [lost |-> "never written"]   \* no file
Partial == [lost |-> "cut short"]      \* a file whose write has not ended
Lost == {Absent, Partial}

NoFiles == [q \in {} |-> Absent]
Without(files, q) == [x \in DOMAIN files \ {q} |-> files[x]]

-----------------------------------------------------------------------------
(* Building a bundle.                                                      *)

(* The check records DRC could not certify: coverage.blocking_count and    *)
(* the count verify_drc_evidence makes itself.                             *)
CoverageGaps(drc) ==
  {c \in DOMAIN drc.checks :
     \/ drc.checks[c].status = "uncertain"
     \/ drc.checks[c].status = "skipped" /\ ~drc.checks[c].reason}

Counted(kind, n) == IF n = 0 THEN {} ELSE {<<kind, n>>}

(* Every gate a report leaves open. *)
ReleaseBlockers(r) ==
  r.otherBlockers
    \cup Counted("DrcErrors", r.drc.errors)
    \cup Counted("DrcCoverage", Cardinality(CoverageGaps(r.drc)))
    \cup Counted("CamRoundTrip", r.fabrication.issues)

Artifacts(r) ==
  [q \in {DesignPath, FabricationPath, AssemblyPath, DrcPath} \cup DOMAIN r.optional |->
     CASE q = DesignPath -> r.design
       [] q = FabricationPath -> r.fabrication
       [] q = AssemblyPath -> r.assembly
       [] q = DrcPath -> r.drc
       [] OTHER -> r.optional[q]]

Core(r) ==
  [product     |-> r.product,
   profile     |-> r.drc.profile,
   fabrication |-> r.fabrication,
   assembly    |-> r.assembly,
   drc         |-> r.drc,
   intent      |-> r.design.intent,
   evidence    |-> r.mixedSignal \cup DOMAIN r.optional,
   blockers    |-> ReleaseBlockers(r),
   clean       |-> ReleaseBlockers(r) = {},
   artifacts   |-> Artifacts(r)]

(* A manifest names its core a second time, by its digest. *)
Manifest(core) == [core |-> core, digest |-> core, signatures |-> {}]

WithFile(b, q, content) ==
  [manifest |-> b.manifest,
   files |-> [x \in DOMAIN b.files \cup {q} |-> IF x = q THEN content ELSE b.files[x]]]

WithManifest(manifest, files) ==
  WithFile([manifest |-> manifest, files |-> files], ManifestPath, manifest)

Bundle(r) == WithManifest(Manifest(Core(r)), Artifacts(r))

-----------------------------------------------------------------------------
(* Verification.                                                           *)

(* verify_integrity                                                        *)
IntegrityHolds(b) ==
  LET core == b.manifest.core IN
  /\ core = b.manifest.digest
  /\ \A p \in DOMAIN core.artifacts :
       p \in DOMAIN b.files /\ b.files[p] = core.artifacts[p]
  /\ DOMAIN b.files \subseteq DOMAIN core.artifacts \cup {ManifestPath}
  /\ ManifestPath \in DOMAIN b.files /\ b.files[ManifestPath] = b.manifest

(* verify_blocker_count: the release states exactly what was counted here. *)
BlockerCounted(core, kind, n) == {x \in core.blockers : x[1] = kind} = Counted(kind, n)

DrcEvidenceHolds(b) ==
  LET core == b.manifest.core IN
  /\ DrcPath \in DOMAIN b.files
  /\ LET drc == b.files[DrcPath] IN
     /\ drc = core.drc /\ drc.profile = core.profile
     /\ DOMAIN drc.checks # {}
     /\ \A c \in DOMAIN drc.checks :
          drc.checks[c].status \in {"passed", "failed", "not_applicable", "uncertain", "skipped"}
     /\ BlockerCounted(core, "DrcCoverage", Cardinality(CoverageGaps(drc)))
     /\ BlockerCounted(core, "DrcErrors", drc.errors)

FabricationEvidenceHolds(b) ==
  /\ FabricationPath \in DOMAIN b.files
  /\ b.files[FabricationPath] = b.manifest.core.fabrication
  /\ BlockerCounted(b.manifest.core, "CamRoundTrip", b.files[FabricationPath].issues)

AssemblyEvidenceHolds(b) ==
  AssemblyPath \in DOMAIN b.files /\ b.files[AssemblyPath] = b.manifest.core.assembly

(* verify_evidence that trusts the blockers a release states. *)
EvidenceHoldsAsStated(b) ==
  /\ b.manifest.core.clean <=> b.manifest.core.blockers = {}
  /\ DesignPath \in DOMAIN b.files /\ b.files[DesignPath].intent = b.manifest.core.intent
  /\ AssemblyEvidenceHolds(b)
  /\ b.manifest.core.evidence \subseteq DOMAIN b.files

(* verify_evidence *)
EvidenceHolds(b) ==
  /\ b.manifest.core.clean <=> b.manifest.core.blockers = {}
  /\ DesignPath \in DOMAIN b.files /\ b.files[DesignPath].intent = b.manifest.core.intent
  /\ DrcEvidenceHolds(b)
  /\ FabricationEvidenceHolds(b)
  /\ AssemblyEvidenceHolds(b)
  /\ b.manifest.core.evidence \subseteq DOMAIN b.files

(* Every envelope names this core and was made for it, by an algorithm the *)
(* policy can verify; a policy is the built-in verifier or a caller's own. *)
SignaturesHold(b, algorithms) ==
  \A e \in b.manifest.signatures :
    e.names = b.manifest.digest /\ e.algorithm \in algorithms /\ e.covers = b.manifest.digest

(* verify_with_signature_verifier *)
Verification(b, algorithms) ==
  IF ~IntegrityHolds(b) THEN "Integrity"
  ELSE IF ~EvidenceHolds(b) THEN "Evidence"
  ELSE IF ~SignaturesHold(b, algorithms) THEN "Signature"
  ELSE "Ok"

BuiltIn == {"ed25519"}

-----------------------------------------------------------------------------
(* Archives.                                                               *)

(* One path for all that PortableArtifactPath refuses.  An archive has its  *)
(* entries at increasing positions, those of their paths if it is one that *)
(* this library has made.                                                  *)
Unportable == "../release"

FileEntry(path, content) ==
  [path |-> path, kind |-> "file", size |-> 1, packed |-> 1, yields |-> 1, content |-> content]

Archive(files) ==
  LET listed == Listed(DOMAIN files)
  IN [bytes |-> Cardinality(listed), declared |-> Cardinality(listed),
      entries |-> [i \in listed |-> FileEntry(PathOrder[i], files[PathOrder[i]])]]

Names(entries) == {entries[i].path : i \in DOMAIN entries}

(* What is wrong with an entry when those before it unpack to `total`. *)
EntryRefusal(e, total) ==
  CASE e.kind # "file" -> "Archive"
    [] e.kind = "file" /\ e.path = Unportable -> "Catalog"
    [] e.kind = "file" /\ e.path # Unportable /\
         (\/ e.size > Limits.file
          \/ e.size > 0 /\ e.size > e.packed * Limits.ratio
          \/ total + e.size > Limits.total) -> "ArchiveLimit"
    [] OTHER -> IF e.yields = e.size THEN "Ok" ELSE "Archive"

(* How many bytes the entries before the i-th unpack to.                   *)
UnpackedBefore(entries, i) ==
  Cardinality(UNION {{j} \X (1 .. entries[j].size) : j \in {k \in DOMAIN entries : k < i}})

(* read_archive_bytes and from_zip_bytes_integrity up to the manifest: the *)
(* first refusal, or "Ok".                                                 *)
ArchiveRefusal(a) ==
  IF a = Absent THEN "Io"
  ELSE IF a = Partial THEN "Archive"
  ELSE IF a.bytes > Limits.bytes \/ a.declared > Limits.entries THEN "ArchiveLimit"
  ELSE IF Cardinality(Names(a.entries)) # a.declared THEN "Archive"
  ELSE LET refusals == [i \in DOMAIN a.entries |->
                          EntryRefusal(a.entries[i], UnpackedBefore(a.entries, i))]
           refused == {i \in DOMAIN refusals : refusals[i] # "Ok"}
       IN IF refused # {} THEN refusals[Min(refused)]
          ELSE IF ManifestPath \notin Names(a.entries) THEN "MissingArtifact"
          ELSE "Ok"

Unpacked(a) ==
  LET files == [p \in Names(a.entries) |->
                  a.entries[CHOOSE i \in DOMAIN a.entries : a.entries[i].path = p].content]
  IN [manifest |-> files[ManifestPath], files |-> files]

-----------------------------------------------------------------------------
(* What is taken as given of the parameters: a manifest or an archive that *)
(* somebody else has made has the fields of one, and names no more paths   *)
(* than the model has (one that does not parse counts as lost), and the    *)
(* limits admit one small file of each kind, as the defaults do.  No        *)
(* catalog lists the manifest: it would hold its own digest, and the       *)
(* optional reports of a release are written under names of their own.     *)

IsFiles(files) ==
  files = [q \in DOMAIN files |-> files[q]] /\ DOMAIN files \subseteq Paths

IsManifest(m) ==
  /\ m = [core |-> m.core, digest |-> m.digest, signatures |-> m.signatures]
  /\ IsFiles(m.core.artifacts) /\ ManifestPath \notin DOMAIN m.core.artifacts

IsArchive(a) ==
  /\ DOMAIN a.entries \subseteq Nat
  /\ \A i \in DOMAIN a.entries :
       a.entries[i].path = ManifestPath => IsManifest(a.entries[i].content)

ASSUME ReleaseAssumption ==
  /\ \A r \in Reports : IsFiles(r.optional) /\ ManifestPath \notin DOMAIN r.optional
  /\ \A change \in Edits :
       /\ change[1] = ManifestPath => change[2] \in Lost \/ IsManifest(change[2])
       /\ change[1] = ArchivePath => change[2] \in Lost \/ IsArchive(change[2])
  /\ \A limit \in {Limits.bytes, Limits.entries, Limits.total} :
       limit \in Nat /\ limit >= Len(PathOrder)
  /\ Limits.file \in Nat \ {0} /\ Limits.ratio \in Nat \ {0}

-----------------------------------------------------------------------------
(* Calls.  A call that is refused leaves everything as it was, and is no   *)
(* step here, unless files were read or written before the refusal.        *)

Init ==
  /\ place = [q \in Places |-> Absent]
  /\ bundle = [p \in Processes |-> Nothing]
  /\ pc = [p \in Processes |-> "idle"]
  /\ todo = [p \in Processes |-> NoFiles]
  /\ found = [p \in Processes |-> Nothing]
  /\ calls = 0
  /\ kept = Nothing
  /\ disturbed = {}

Idle(p) == pc[p] = "idle"
Holds(p) == bundle[p] # Nothing

(* The call is over, with its files read or written so far forgotten. *)
End(p) ==
  /\ pc' = [pc EXCEPT ![p] = "idle"]
  /\ todo' = [todo EXCEPT ![p] = NoFiles]
  /\ found' = [found EXCEPT ![p] = Nothing]

(* build_manufacturing_release: a blank product, or evidence that names a  *)
(* file the bundle does not have, is refused.                              *)
Build(p, r) ==
  /\ Idle(p)
  /\ r.product # "" /\ Verification(Bundle(r), BuiltIn) = "Ok"
  /\ bundle' = [bundle EXCEPT ![p] = Bundle(r)]
  /\ UNCHANGED <<place, callVars, historyVars>>

Envelope(s, digest) ==
  [algorithm |-> s.algorithm, key |-> s.key, names |-> digest, covers |-> digest]

Signed(manifest, s) ==
  LET others == {e \in manifest.signatures : e.algorithm # s.algorithm \/ e.key # s.key}
  IN [core |-> manifest.core, digest |-> manifest.digest,
      signatures |-> others \cup {Envelope(s, manifest.digest)}]

(* sign_with: the key's own envelope is replaced and the manifest file     *)
(* rewritten.                                                              *)
Sign(p, s) ==
  /\ Idle(p) /\ Holds(p) /\ calls < MaxCalls
  /\ calls' = calls + 1
  /\ IntegrityHolds(bundle[p])
  /\ bundle' = [bundle EXCEPT ![p] = WithManifest(Signed(@.manifest, s), @.files)]
  /\ UNCHANGED <<place, callVars, kept, disturbed>>

(* write_directory and write_zip verify first, signatures excepted. *)
BeginWrite(p, files) ==
  /\ Idle(p) /\ Holds(p) /\ calls < MaxCalls
  /\ IntegrityHolds(bundle[p]) /\ EvidenceHolds(bundle[p])
  /\ pc' = [pc EXCEPT ![p] = "write"]
  /\ todo' = [todo EXCEPT ![p] = files]
  /\ calls' = calls + 1
  /\ disturbed' = disturbed \ {p}
  /\ UNCHANGED <<place, bundle, found, kept>>

(* A writer that keeps the files it finds. *)
WriteMissing(p) ==
  BeginWrite(p, [q \in {x \in DOMAIN bundle[p].files : place[x] = Absent} |->
                   bundle[p].files[q]])

WriteDirectory(p) == BeginWrite(p, bundle[p].files)
WriteZip(p) == BeginWrite(p, [q \in {ArchivePath} |-> Archive(bundle[p].files)])

Writers == {p \in Processes : pc[p] = "write"}
NextFile(p) == First(DOMAIN todo[p])

(* fs::write of the next file; the call goes on to the one after it or     *)
(* returns.                                                                *)
WriteFile(p) ==
  /\ pc[p] = "write"
  /\ place' = [place EXCEPT ![NextFile(p)] = todo[p][NextFile(p)]]
  /\ disturbed' = disturbed \cup (Writers \ {p})
  /\ IF DOMAIN todo[p] # {NextFile(p)}
     THEN /\ todo' = [todo EXCEPT ![p] = Without(@, NextFile(p))]
          /\ kept' = Nothing
          /\ UNCHANGED <<pc, found>>
     ELSE /\ End(p)
          /\ kept' = IF p \in disturbed THEN Nothing
                     ELSE [zipped |-> NextFile(p) = ArchivePath, bundle |-> bundle[p]]
  /\ UNCHANGED <<bundle, calls>>

(* A call ends early.  fs::write empties a file before it fills it: the    *)
(* one it was about to write may be left cut short.                        *)
Interrupted(p) ==
  /\ \/ UNCHANGED <<place, kept, disturbed>>
     \/ /\ pc[p] = "write"
        /\ place' = [place EXCEPT ![NextFile(p)] = Partial]
        /\ kept' = Nothing
        /\ disturbed' = disturbed \cup (Writers \ {p})
  /\ End(p)
  /\ UNCHANGED calls

WriteFails(p) == pc[p] = "write" /\ Interrupted(p) /\ UNCHANGED bundle

(* read_directory up to its manifest. *)
ReadDirectory(p) ==
  /\ Idle(p) /\ calls < MaxCalls
  /\ calls' = calls + 1
  /\ place[ManifestPath] \notin Lost
  /\ pc' = [pc EXCEPT ![p] = "read"]
  /\ todo' = [todo EXCEPT ![p] = place[ManifestPath].core.artifacts]
  /\ found' = [found EXCEPT ![p] = WithManifest(place[ManifestPath], NoFiles)]
  /\ UNCHANGED <<place, bundle, kept, disturbed>>

(* What a reader finds at a path: a file being written may be cut short.   *)
Seen(q) ==
  {place[q]} \cup {Partial : w \in {v \in Writers : NextFile(v) = q}}

ReadArtifact(p) ==
  /\ pc[p] = "read" /\ DOMAIN todo[p] # {}
  /\ \E content \in Seen(NextFile(p)) :
       IF content = Absent
       THEN End(p)
       ELSE /\ found' = [found EXCEPT ![p] = WithFile(@, NextFile(p), content)]
            /\ todo' = [todo EXCEPT ![p] = Without(@, NextFile(p))]
            /\ UNCHANGED pc
  /\ UNCHANGED <<place, bundle, historyVars>>

(* What a read returns: the bundle it has read if it verifies. *)
Judge(p, b, algorithms) ==
  bundle' = IF Verification(b, algorithms) = "Ok" THEN [bundle EXCEPT ![p] = b] ELSE bundle

FinishRead(p, algorithms) ==
  /\ pc[p] = "read" /\ DOMAIN todo[p] = {}
  /\ Judge(p, found[p], algorithms)
  /\ End(p)
  /\ UNCHANGED <<place, historyVars>>

(* read_zip reads the whole archive before it looks at it. *)
ReadZip(p, algorithms) ==
  /\ Idle(p)
  /\ ArchiveRefusal(place[ArchivePath]) = "Ok"
  /\ Judge(p, Unpacked(place[ArchivePath]), algorithms)
  /\ UNCHANGED <<place, callVars, historyVars>>

(* The process ends in the middle of a call, and starts again with nothing. *)
Kill(p) ==
  /\ ~Idle(p)
  /\ bundle' = [bundle EXCEPT ![p] = Nothing]
  /\ Interrupted(p)

(* Somebody else changes or removes a file. *)
Edit(change) ==
  /\ calls < MaxCalls
  /\ calls' = calls + 1
  /\ place' = [place EXCEPT ![change[1]] = change[2]]
  /\ kept' = Nothing
  /\ disturbed' = disturbed \cup Writers
  /\ UNCHANGED <<bundle, callVars>>

Next ==
  \/ \E p \in Processes :
       \/ \E r \in Reports : Build(p, r)
       \/ \E s \in Signers : Sign(p, s)
       \/ WriteDirectory(p)
       \/ WriteZip(p)
       \/ WriteFile(p)
       \/ WriteFails(p)
       \/ ReadDirectory(p)
       \/ \E a \in Policies : FinishRead(p, a) \/ ReadZip(p, a)
       \/ ReadArtifact(p)
       \/ Kill(p)
  \/ \E change \in Edits : Edit(change)

Spec == Init /\ [][Next]_releaseVars

-----------------------------------------------------------------------------
(* Comparison.                                                             *)

Compare(a, b) ==
  IF a = b THEN "Identical"
  ELSE IF a.manifest.digest = b.manifest.digest THEN "SignatureOnly"
  ELSE IF a.manifest.core.intent # b.manifest.core.intent THEN "Semantic"
  ELSE IF a.manifest.core.artifacts = b.manifest.core.artifacts THEN "MetadataOnly"
  ELSE "ArtifactOnly"

-----------------------------------------------------------------------------
(* Properties.                                                             *)

Held == {bundle[p] : p \in {q \in Processes : Holds(q)}}
FilesOf(b) == [p \in DOMAIN b.files \ {ManifestPath} |-> b.files[p]]

(* The gates a bundle's own files leave open. *)
GatesShown(b) ==
  Counted("DrcErrors", b.files[DrcPath].errors)
    \cup Counted("DrcCoverage", Cardinality(CoverageGaps(b.files[DrcPath])))
    \cup Counted("CamRoundTrip", b.files[FabricationPath].issues)

(* Whatever was written over it, cut short, removed or edited meanwhile, a  *)
(* bundle a call has returned is one release: its files are the ones its    *)
(* core lists and no others, the evidence it refers to is among them, it    *)
(* states exactly the gates its files show, and is clean only without any,  *)
(* and every signature on it was made for this core.                        *)
AcceptedIsTrue ==
  \A b \in Held :
    LET core == b.manifest.core IN
    /\ DOMAIN b.files \ {ManifestPath} = DOMAIN core.artifacts
    /\ \A p \in DOMAIN core.artifacts : b.files[p] = core.artifacts[p]
    /\ core.evidence \subseteq DOMAIN b.files
    /\ b.files[DesignPath].intent = core.intent
    /\ {x \in core.blockers : x[1] \in {"DrcErrors", "DrcCoverage", "CamRoundTrip"}} = GatesShown(b)
    /\ core.clean => GatesShown(b) = {}
    /\ \A e \in b.manifest.signatures : e.covers = core

(* A directory or archive that was written to the end and that nobody has   *)
(* touched since the write began reads back as the bundle written, over     *)
(* whatever an earlier release, an interrupted write or somebody else had   *)
(* left there, under a policy that knows the signatures' algorithms.        *)
IntactReadsBack ==
  kept # Nothing =>
    LET b == kept.bundle
        files == [q \in DOMAIN b.files |-> place[q]]
        read == IF kept.zipped THEN Unpacked(place[ArchivePath])
                  ELSE [manifest |-> place[ManifestPath], files |-> files]
    IN /\ kept.zipped => ArchiveRefusal(place[ArchivePath]) = "Ok"
       /\ read = b
       /\ Verification(b, {e.algorithm : e \in b.manifest.signatures}) = "Ok"

(* What the difference between two bundles in hand means: Semantic that the *)
(* designs in their files differ in intent, ArtifactOnly that they do not   *)
(* but files differ, SignatureOnly that nothing but signatures does.        *)
ComparisonIsTrue ==
  \A a, b \in Held :
    LET sameCore == a.manifest.core = b.manifest.core
        sameFiles == FilesOf(a) = FilesOf(b)
        sameIntent == a.files[DesignPath].intent = b.files[DesignPath].intent
    IN CASE Compare(a, b) = "Identical" -> a = b
         [] Compare(a, b) = "SignatureOnly" ->
              sameCore /\ sameFiles /\ a.manifest.signatures # b.manifest.signatures
         [] Compare(a, b) = "Semantic" -> ~sameIntent
         [] Compare(a, b) = "ArtifactOnly" -> sameIntent /\ ~sameFiles
         [] Compare(a, b) = "MetadataOnly" -> sameIntent /\ sameFiles /\ ~sameCore

(* What bundles mean once they are at rest: an undisturbed one reads back,  *)
(* and two in hand differ in what their comparison says.                    *)
BundlesAreTrue == IntactReadsBack /\ ComparisonIsTrue
=============================================================================
