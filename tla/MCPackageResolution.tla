------------------------- MODULE MCPackageResolution -------------------------
(* Bounds for model-checking PackageResolution: three names, two releases   *)
(* of each (of the third, one version from two sources), and every way to   *)
(* give each release one of a few dependencies.  The file operations under  *)
(* the artifacts are checked beside it: one of the two is under way.        *)
EXTENDS PackageResolution, PackageStore

MCNames == 1..3
MCVersions == 1..2
MCSources == 1..2

Needs(n, vs, src) == [name |-> n, version |-> vs, source |-> src]
On(n, vs) == {Needs(n, vs, MCSources)}

(* Releases that differ in anything have different digests. *)
Rel(n, v, s, deps) ==
  [name |-> n, version |-> v, source |-> s, digest |-> <<n, v, s, deps>>, dependencies |-> deps]

First(v) == {Rel(1, v, 1, d) : d \in {On(2, {1}), On(2, {1, 2}) \cup On(3, {1}), {}}}
Second(v) == {Rel(2, v, 1, d) : d \in {On(1, {1}), On(3, {1})}}
(* One release needs another version of itself: no artifact may, but a       *)
(* catalog written by hand can list it.                                      *)
Third(s) == {Rel(3, 1, s, d) : d \in {{Needs(2, {s}, {1})}, IF s = 1 THEN {} ELSE On(3, {2})}}

MCReleases == First(1) \cup First(2) \cup Second(1) \cup Second(2) \cup Third(1) \cup Third(2)

MCDigests == {r.digest : r \in MCReleases}

MCCatalogs ==
  {{a, b, c, d, e, f} : a \in First(1), b \in First(2), c \in Second(1),
                        d \in Second(2), e \in Third(1), f \in Third(2)}

MCRootLists ==
  {<<>>, <<Needs(1, {1, 2}, MCSources)>>,
   <<Needs(3, {1}, {2}), Needs(2, {1, 2}, MCSources)>>}

-----------------------------------------------------------------------------
(* The part that is not under way. *)
NoResolution ==
  /\ catalog = {} /\ stored = {} /\ roots = <<>> /\ stack = <<>> /\ answer = "None"
  /\ lock = {} /\ loaded = {} /\ edits = 0

NoProcess == holding = [p \in Processes |-> CHOOSE a \in Artifacts : TRUE]

MCInit ==
  \/ Init /\ StoreInit /\ NoProcess
  \/ NoResolution /\ StoreInit

MCNext ==
  \/ catalog # {} /\ Next /\ UNCHANGED storeVars
  \/ catalog = {} /\ StoreNext /\ UNCHANGED resolutionVars

MCSpec == MCInit /\ [][MCNext]_<<resolutionVars, storeVars>> /\ WF_resolutionVars(Search)
=============================================================================
