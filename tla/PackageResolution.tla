-------------------------- MODULE PackageResolution --------------------------
(***************************************************************************)
(* Package resolution and locks: `CircuitPackageCatalog::resolve` and      *)
(* `verify_lock`, and `CircuitPackageStore::load_verified_lock`, all in    *)
(* src/package.rs.                                                         *)
(*                                                                         *)
(* The resolver takes the least name that is required and not selected,    *)
(* tries its matching releases from the highest version down, adds the     *)
(* requirements of the one it tries, and backs out of a choice that a      *)
(* later requirement refuses.  A frame stands for one call of              *)
(* resolve_recursive: its constraints, what was selected before it, and    *)
(* the candidates its loop has not reached.                                *)
(*                                                                         *)
(* A requirement holds the set of versions and the set of sources it       *)
(* admits; a digest stands for the artifact it belongs to.  Between two calls the catalog    *)
(* and a retained lock may change: a lock is a file its users edit.        *)
(***************************************************************************)
EXTENDS Naturals, Sequences, FiniteSets

CONSTANTS
  Names,       \* package names, in the order of BTreeMap keys
  Versions,    \* versions, in semver order
  Sources,     \* package sources, in their order
  Digests,     \* artifact digests
  Releases,    \* releases a catalog may list
  Catalogs,    \* catalogs a run may start with
  RootLists,   \* requirement lists a caller may resolve
  MaxEdits     \* bound: changes of the catalog, the lock or the store

Requirement == [name : Names, version : SUBSET Versions, source : SUBSET Sources]

Release ==
  [name : Names, version : Versions, source : Sources, digest : Digests,
   dependencies : SUBSET Requirement]

ASSUME ResolutionAssumption ==
  /\ Names \subseteq Nat
  /\ Versions \subseteq Nat
  /\ Sources \subseteq Nat
  /\ Releases \subseteq Release
  /\ Catalogs \subseteq SUBSET Releases
  /\ RootLists \subseteq Seq(Requirement)
  /\ MaxEdits \in Nat

VARIABLES
  catalog,     \* the releases listed
  stored,      \* digests whose artifact the store holds
  roots,       \* the requirements being resolved
  stack,       \* the frames of the search, innermost last
  answer,      \* what the last resolve returned
  lock,        \* the retained lock: a set of locked releases
  loaded,      \* the artifacts the last load returned
  edits        \* changes so far

resolutionVars == <<catalog, stored, roots, stack, answer, lock, loaded, edits>>

Answers == {"None", "Searching", "Locked", "DuplicateRelease", "Unsatisfied"}

-----------------------------------------------------------------------------
(* Releases and requirements                                               *)

Matches(r, q) ==
  /\ r.name = q.name
  /\ r.version \in q.version
  /\ r.source \in q.source

Coordinate(r) == <<r.name, r.version, r.source>>

(* CircuitPackageCatalog::validate *)
ValidCatalog(c) ==
  \A r, s \in c : Coordinate(r) = Coordinate(s) => r = s

(* The roots as the constraints the search starts from. *)
Constraints(list) == {list[i] : i \in DOMAIN list}

NamesOf(S) == {x.name : x \in S}

(* Some selected release fails a constraint on its name. *)
Conflict(constraints, selected) ==
  \E r \in selected, q \in constraints : q.name = r.name /\ ~Matches(r, q)

Complete(constraints, selected) == NamesOf(constraints) \subseteq NamesOf(selected)

(* A sort that puts the lowest version first. *)
PreferredAscending(r, s) ==
  \/ r.version < s.version
  \/ r.version = s.version /\ r.source < s.source

(* candidates.sort_by: the higher version first, then the lesser source *)
Preferred(r, s) ==
  \/ r.version > s.version
  \/ r.version = s.version /\ r.source < s.source

Least(n, S) == n \in S /\ \A k \in S : n <= k

(* The frame of a call: its candidates fit every constraint on the name.    *)
Frame(constraints, selected, n) ==
  [constraints |-> constraints,
   selected |-> selected,
   name |-> n,
   rest |-> {r \in catalog : /\ r.name = n
                             /\ \A q \in constraints : q.name = n => Matches(r, q)}]

-----------------------------------------------------------------------------
(* resolve                                                                 *)

(* Clears what an earlier call left; the retained lock stays. *)
Begin ==
  /\ answer # "Searching"
  /\ loaded' = {}
  /\ UNCHANGED <<catalog, stored, edits>>

ResolveRefused(list) ==
  /\ Begin
  /\ ~ValidCatalog(catalog)
  /\ answer' = "DuplicateRelease"
  /\ roots' = list
  /\ stack' = <<>>
  /\ UNCHANGED lock

ResolveNothing(list) ==
  /\ Begin
  /\ ValidCatalog(catalog)
  /\ list = <<>>
  /\ answer' = "Locked"
  /\ lock' = {}
  /\ roots' = list
  /\ stack' = <<>>

Resolve(list) ==
  /\ Begin
  /\ ValidCatalog(catalog)
  /\ list # <<>>
  /\ \E n \in Names :
       /\ Least(n, NamesOf(Constraints(list)))
       /\ stack' = <<Frame(Constraints(list), {}, n)>>
  /\ answer' = "Searching"
  /\ roots' = list
  /\ UNCHANGED lock

Top == stack[Len(stack)]

(* The candidate the loop of the innermost call takes next. *)
Takes(c) ==
  /\ answer = "Searching"
  /\ stack # <<>>
  /\ c \in Top.rest
  /\ \A d \in Top.rest : ~Preferred(d, c)

(* The frame's loop has taken c. *)
Taken(f, c) ==
  [constraints |-> f.constraints, selected |-> f.selected, name |-> f.name,
   rest |-> f.rest \ {c}]

Without(c) == [stack EXCEPT ![Len(stack)] = Taken(Top, c)]
WithConstraints(c) == Top.constraints \cup c.dependencies
WithSelected(c) == Top.selected \cup {c}

(* A loop that stays with a refused candidate. *)
SkipStays(c) ==
  /\ Takes(c)
  /\ Conflict(WithConstraints(c), WithSelected(c))
  /\ stack' = stack
  /\ UNCHANGED <<catalog, stored, roots, answer, lock, loaded, edits>>

(* The candidate's requirements refuse it or a release selected earlier:    *)
(* the call for the rest returns None, or the last check fails.             *)
Skip(c) ==
  /\ Takes(c)
  /\ Conflict(WithConstraints(c), WithSelected(c))
  /\ stack' = Without(c)
  /\ UNCHANGED <<catalog, stored, roots, answer, lock, loaded, edits>>

(* Every required name is selected and every requirement holds.  A locked   *)
(* package is its release without exports and dependencies.                 *)
Locked(r) == [name |-> r.name, version |-> r.version, source |-> r.source, digest |-> r.digest]

Accept(c) ==
  /\ Takes(c)
  /\ ~Conflict(WithConstraints(c), WithSelected(c))
  /\ Complete(WithConstraints(c), WithSelected(c))
  /\ stack' = Without(c)
  /\ answer' = "Locked"
  /\ lock' = {Locked(r) : r \in WithSelected(c)}
  /\ UNCHANGED <<catalog, stored, roots, loaded, edits>>

Descend(c) ==
  /\ Takes(c)
  /\ ~Conflict(WithConstraints(c), WithSelected(c))
  /\ \E n \in Names :
       /\ Least(n, NamesOf(WithConstraints(c)) \ NamesOf(WithSelected(c)))
       /\ stack' = Append(Without(c), Frame(WithConstraints(c), WithSelected(c), n))
  /\ UNCHANGED <<catalog, stored, roots, answer, lock, loaded, edits>>

(* A search whose first dead end is its last. *)
GiveUp ==
  /\ answer = "Searching"
  /\ stack # <<>>
  /\ Top.rest = {}
  /\ stack' = SubSeq(stack, 1, Len(stack) - 1)
  /\ answer' = "Unsatisfied"
  /\ UNCHANGED <<catalog, stored, roots, lock, loaded, edits>>

(* The innermost call has tried its candidates and returns None. *)
Backtrack ==
  /\ answer = "Searching"
  /\ stack # <<>>
  /\ Top.rest = {}
  /\ stack' = SubSeq(stack, 1, Len(stack) - 1)
  /\ answer' = IF Len(stack) = 1 THEN "Unsatisfied" ELSE answer
  /\ UNCHANGED <<catalog, stored, roots, lock, loaded, edits>>

Search ==
  \/ \E c \in Releases : Skip(c) \/ Accept(c) \/ Descend(c)
  \/ Backtrack

-----------------------------------------------------------------------------
(* verify_lock and load_verified_lock                                      *)

(* A verification that trusts the digest written in the lock. *)
VerifiedButDigest ==
  /\ ValidCatalog(catalog)
  /\ \A p, q \in lock : p.name = q.name => p = q
  /\ \A p \in lock : \E r \in catalog :
       /\ Coordinate(r) = Coordinate(p)
       /\ \A q \in r.dependencies : \E s \in lock : Matches(s, q)

(* verify_lock: one package per name, each a listed release with that       *)
(* digest, each of its dependencies met by what the lock holds.             *)
VerifiedLock ==
  /\ ValidCatalog(catalog)
  /\ \A p, q \in lock : p.name = q.name => p = q
  /\ \A p \in lock : \E r \in catalog :
       /\ Coordinate(r) = Coordinate(p)
       /\ r.digest = p.digest
       /\ \A q \in r.dependencies : \E s \in lock : Matches(s, q)

(* Where the store keeps an artifact; its bytes are the digest's.           *)
Path(p) == <<p.name, p.version, p.digest>>

(* The artifacts of a verified lock, when the store holds all of them. *)
LoadVerifiedLock ==
  /\ answer # "Searching"
  /\ VerifiedLock
  /\ \A p \in lock : Path(p) \in stored
  /\ loaded' = {Path(p) : p \in lock}
  /\ UNCHANGED <<catalog, stored, roots, stack, answer, lock, edits>>

LoadRefused ==
  /\ answer # "Searching"
  /\ ~VerifiedLock \/ \E p \in lock : Path(p) \notin stored
  /\ loaded' = {}
  /\ UNCHANGED <<catalog, stored, roots, stack, answer, lock, edits>>

-----------------------------------------------------------------------------
(* Changes between two calls                                               *)

Edit ==
  /\ answer # "Searching"
  /\ edits < MaxEdits
  /\ edits' = edits + 1
  /\ loaded' = {}
  /\ answer' = "None"
  /\ stack' = <<>>
  /\ UNCHANGED roots

(* What an artifact's own validation asks of its dependencies. *)
ValidDependencies(r) ==
  /\ r.name \notin NamesOf(r.dependencies)
  /\ \A p, q \in r.dependencies : p.name = q.name => p = q

(* An artifact is published, and its release listed; or it is withdrawn     *)
(* from the catalog; or the store loses it.                                 *)
Publish(r) ==
  /\ Edit
  /\ ValidDependencies(r)
  /\ catalog' = catalog \cup {r}
  /\ stored' = stored \cup {Path(r)}
  /\ UNCHANGED lock

Withdraw(r) == Edit /\ r \in catalog /\ catalog' = catalog \ {r} /\ UNCHANGED <<stored, lock>>

Lose(a) == Edit /\ a \in stored /\ stored' = stored \ {a} /\ UNCHANGED <<catalog, lock>>

(* A line of the lockfile is removed, or written anew by hand.              *)
DropLocked(p) == Edit /\ lock' = lock \ {p} /\ UNCHANGED <<catalog, stored>>

Relock(p, r, s) ==
  /\ Edit
  /\ p.name = r.name /\ r.name = s.name
  /\ lock' = (lock \ {p}) \cup
       {[name |-> r.name, version |-> r.version, source |-> r.source, digest |-> s.digest]}
  /\ UNCHANGED <<catalog, stored>>

-----------------------------------------------------------------------------
Init ==
  /\ catalog \in Catalogs
  /\ stored = {Path(r) : r \in catalog}
  /\ roots = <<>>
  /\ stack = <<>>
  /\ answer = "None"
  /\ lock = {}
  /\ loaded = {}
  /\ edits = 0

Call ==
  \/ \E list \in RootLists : ResolveRefused(list) \/ ResolveNothing(list) \/ Resolve(list)
  \/ LoadVerifiedLock
  \/ LoadRefused

Change ==
  \/ \E r \in Releases : Publish(r) \/ Withdraw(r)
  \/ \E a \in stored : Lose(a)
  \/ \E p \in lock : DropLocked(p) \/ \E r, s \in Releases : Relock(p, r, s)

Next == Call \/ Search \/ Change

Spec == Init /\ [][Next]_resolutionVars

(* resolve is one call: once begun, its loops run on. *)
FairSpec == Spec /\ WF_resolutionVars(Search)

-----------------------------------------------------------------------------
(* Properties.                                                             *)

(* The reference: a set of listed releases, one per name, that meets the    *)
(* roots and every requirement of its own members.                          *)
Consistent(list, S) ==
  /\ \A r, s \in S : r.name = s.name => r = s
  /\ \A q \in Constraints(list) : \E r \in S : Matches(r, q)
  /\ \A r \in S : \A q \in r.dependencies : \E s \in S : Matches(s, q)

Selections == {S \in SUBSET catalog : Consistent(roots, S)}

(* The resolver's frames hold releases of the catalog it was called on, and *)
(* the answers, locks and loads are well-formed.                            *)
ResolutionTypeOK ==
  /\ catalog \subseteq Releases
  /\ stored \subseteq Names \X Versions \X Digests
  /\ roots \in Seq(Requirement)
  /\ stack \in Seq([constraints : SUBSET Requirement, selected : SUBSET catalog,
                    name : Names, rest : SUBSET catalog])
  /\ answer \in Answers
  /\ lock \subseteq [name : Names, version : Versions, source : Sources, digest : Digests]
  /\ loaded \subseteq Names \X Versions \X Digests
  /\ edits \in 0..MaxEdits

(* What resolve locks is a consistent selection with nothing in it that no  *)
(* requirement asked for: every set of its names that holds the roots' and  *)
(* is closed under dependencies holds all of them.                          *)
LockIsConsistent ==
  answer = "Locked" =>
    \E S \in SUBSET catalog :
      /\ lock = {Locked(r) : r \in S}
      /\ Consistent(roots, S)
      /\ \A N \in SUBSET NamesOf(S) :
           /\ NamesOf(Constraints(roots)) \subseteq N
           /\ \A r \in S : r.name \in N => NamesOf(r.dependencies) \subseteq N
           => N = NamesOf(S)

(* A search that answers "unsatisfied" has missed nothing: no selection     *)
(* from the catalog is consistent.                                          *)
SearchIsComplete == answer = "Unsatisfied" => Selections = {}

(* The highest compatible versions: at no choice the search made was there  *)
(* a higher version in some consistent selection that keeps the choices     *)
(* made before it.                                                          *)
HighestCompatible ==
  answer = "Locked" =>
    \A i \in DOMAIN stack : \A c, r \in catalog :
      (/\ c.name = stack[i].name /\ Locked(c) \in lock
       /\ r.name = stack[i].name /\ r.version > c.version)
      => ~\E S \in Selections : stack[i].selected \cup {r} \subseteq S

(* What resolve locks is right: consistent, without anything superfluous,   *)
(* and the highest (`resolve`).                                             *)
LockIsRight == LockIsConsistent /\ HighestCompatible

(* What a verified lock loads is complete: one artifact per name, each with *)
(* its dependencies among the others, whatever happened to the catalog, the *)
(* store and the lockfile since the lock was made.                          *)
LoadedIsClosed ==
  /\ \A a, b \in loaded : a[1] = b[1] => a = b
  /\ \A a \in loaded : \E r \in catalog :
       /\ Path(r) = a
       /\ \A q \in r.dependencies : \E b \in loaded : b[1] = q.name /\ b[2] \in q.version

(* Every search ends. *)
SearchEnds == answer = "Searching" ~> answer \in {"Locked", "Unsatisfied"}
=============================================================================
