---------------------------- MODULE DesignHistory ----------------------------
(***************************************************************************)
(* The semantic editor history of src/edit.rs: atomic edit batches over    *)
(* one document, undo and redo by generated inverse batches, and commits   *)
(* of stale batches that are rebased when no address they write was        *)
(* written since.                                                          *)
(*                                                                         *)
(* What one edit does is in DesignEdits, what makes a document valid in    *)
(* DocumentRules.  An edit may be refused for what other lists hold, and a *)
(* call stops the program when it panics.                                  *)
(***************************************************************************)
EXTENDS DocumentRules

CONSTANTS
  Documents,    \* documents a history may start from
  Batches,      \* the edit batches authors of each of them submit
  MaxRevision   \* bound: the last revision, u64::MAX in the code

ASSUME HistoryAssumption ==
  /\ MaxRevision \in Nat
  /\ \A doc \in Documents : WellFormed(doc)
  /\ \A doc \in Documents : \A edits \in Batches[doc] : WellFormedBatch(edits)

VARIABLES
  document,   \* the retained document: its lists, and whether it has a board
  revision,   \* its design revision
  base,       \* replay_base_revision
  log,        \* replay_log
  undo,       \* committed transactions, newest last
  redo,       \* undone transactions, newest last
  outcome,    \* why the last undo or redo was refused; "Panicked" when the program ended
  authored,   \* the revision the newest commit was authored on, from its report
  versions    \* content of every revision so far, from the first on

historyVars == <<document, revision, base, log, undo, redo, outcome, authored, versions>>

-----------------------------------------------------------------------------
(* The document a batch leaves is validated as a whole.                    *)

(* Placements compared with the resolution: all of them after an edit of a  *)
(* constraint, otherwise those the batch names.                             *)
Compared(doc, edits) ==
  IF \E e \in ToSet(edits) : e.kind = "PlacementConstraint"
  THEN Placed(doc)
  ELSE {e.id : e \in {e \in ToSet(edits) : e.kind = "Placement"}} \cap Placed(doc)

TouchesLayout(edits) ==
  \E e \in ToSet(edits) : e.kind \in {"Placement", "PlacementConstraint"}

Verdict(doc, edits) ==
  CASE ~Valid(doc) -> "InvalidResult"
    [] Valid(doc) /\ ~TouchesLayout(edits) -> "Ok"
    [] Valid(doc) /\ TouchesLayout(edits) /\ doc["Board"] = <<>> -> "Panicked"
    [] OTHER ->
         IF ~Satisfied(doc) THEN "UnsatisfiedPlacementConstraints"
         ELSE IF \A i \in Compared(doc, edits) :
                    Valued(doc, "Placement", i).position = Resolved(doc)[i]
              THEN "Ok" ELSE "PlacementConstraintConflict"

-----------------------------------------------------------------------------
(* One batch: edits in order on a copy, then validation of the result.     *)

Untouched(doc) == [doc |-> doc, refusal |-> "Ok", inverse |-> <<>>]

(* The next edit of a batch, unless one before it was refused.              *)
ReplayEdit(last, e) ==
  LET refusal == Refusal(last.doc, e)
  IN IF last.refusal # "Ok" THEN last
     ELSE IF refusal # "Ok" THEN [last EXCEPT !.refusal = refusal]
     ELSE [doc |-> ApplyEdit(last.doc, e), refusal |-> "Ok",
           inverse |-> <<InverseEdit(last.doc, e)>> \o last.inverse]

Replay(doc, edits) ==
  LET run[k \in 0..Len(edits)] ==
        IF k = 0 THEN Untouched(doc) ELSE ReplayEdit(run[k - 1], edits[k])
  IN run[Len(edits)]

(* How a batch replayed in run ends on the current document.                *)
Result(edits, run) ==
  IF edits = <<>> THEN "EmptyBatch"
  ELSE IF revision = MaxRevision THEN "RevisionOverflow"
  ELSE IF run.refusal # "Ok" THEN run.refusal
  ELSE Verdict(run.doc, edits)

(* A report that keeps the first address only.                              *)
FirstAddress(edits) == IF edits = <<>> THEN <<>> ELSE <<Address(edits[1])>>

Addresses(edits) == [i \in DOMAIN edits |-> Address(edits[i])]
Targets(edits) == [i \in DOMAIN edits |-> Target(edits[i])]

(* The one place a document changes: the batch becomes the next revision    *)
(* and leaves its addresses in the replay log.                              *)
Replace(edits, run) ==
  /\ document' = run.doc
  /\ revision' = revision + 1
  /\ log' = Append(log, [from |-> revision, to |-> revision + 1,
                         targets |-> Targets(edits), addresses |-> Addresses(edits)])
  /\ versions' = Append(versions, run.doc)
  /\ outcome' = "Ok"
  /\ UNCHANGED base

(* A batch and the revision it was first committed on.                      *)
Batch(edits, expected) == [edits |-> edits, expected |-> expected]

Running == outcome # "Panicked"

Init ==
  /\ document \in {doc \in Documents : Valid(doc)}
  /\ revision = 0
  /\ base = 0
  /\ log = <<>>
  /\ undo = <<>>
  /\ redo = <<>>
  /\ outcome = "Ok"
  /\ authored = 0
  /\ versions = <<document>>

(* commit on the current revision: an accepted batch abandons what was      *)
(* undone, a refused one changes nothing, and a panic ends the program.     *)
CommitCurrent(edits, expected) ==
  LET run == Replay(document, edits)
      result == Result(edits, run)
  IN \/ /\ result = "Ok"
        /\ Replace(edits, run)
        /\ undo' = Append(undo, [forward |-> Batch(edits, revision),
                                 inverse |-> Batch(run.inverse, revision + 1)])
        /\ redo' = <<>>
        /\ authored' = expected
     \/ /\ result = "Panicked"
        /\ outcome' = "Panicked"
        /\ UNCHANGED <<document, revision, base, log, undo, redo, authored, versions>>

(* commit: the batch must be authored on the current revision.              *)
Commit(edits) ==
  /\ Running
  /\ CommitCurrent(edits, revision)

(* What was written after a revision, as far as the log goes back.          *)
WrittenSince(r) ==
  UNION {ToSet(log[i].addresses) : i \in {i \in DOMAIN log : log[i].to > r}}

Conflicts(edits, expected) ==
  {a \in ToSet(Addresses(edits)) : \E b \in WrittenSince(expected) : ConflictsWith(a, b)}

(* commit_concurrent: a stale batch is rebased over writes it does not      *)
(* conflict with, as far back as the log reaches.                           *)
CommitConcurrent(edits, expected) ==
  /\ Running
  /\ expected \in base..revision
  /\ Conflicts(edits, expected) = {}
  /\ CommitCurrent(edits, expected)

(* undo: the newest inverse is committed as a revision of its own; refused, *)
(* it stays on the stack.                                                   *)
Undo ==
  /\ Running
  /\ undo # <<>>
  /\ LET inverse == Last(undo).inverse.edits
         run == Replay(document, inverse)
         result == Result(inverse, run)
     IN \/ /\ result = "Ok"
           /\ Replace(inverse, run)
           /\ undo' = Front(undo)
           /\ redo' = Append(redo, Last(undo))
           /\ UNCHANGED authored
        \/ /\ result # "Ok"
           /\ outcome' = result
           /\ UNCHANGED <<document, revision, base, log, undo, redo, authored, versions>>

(* redo: the newest undone batch is committed again as a revision.          *)
Redo ==
  /\ Running
  /\ redo # <<>>
  /\ LET forward == Last(redo).forward.edits
         run == Replay(document, forward)
         result == Result(forward, run)
     IN \/ /\ result = "Ok"
           /\ Replace(forward, run)
           /\ undo' = Append(undo, Last(redo))
           /\ redo' = Front(redo)
           /\ UNCHANGED authored
        \/ /\ result # "Ok"
           /\ outcome' = result
           /\ UNCHANGED <<document, revision, base, log, undo, redo, authored, versions>>

(* compact_replay_log, and the load of a version 1 history, which has no    *)
(* replay log.                                                              *)
Compact ==
  /\ Running
  /\ base' = revision
  /\ log' = <<>>
  /\ UNCHANGED <<document, revision, undo, redo, outcome, authored, versions>>

Next ==
  \/ \E edits \in Batches[versions[1]] :
       Commit(edits) \/ \E expected \in 0..MaxRevision : CommitConcurrent(edits, expected)
  \/ Undo
  \/ Redo
  \/ Compact

Spec == Init /\ [][Next]_historyVars

-----------------------------------------------------------------------------
(* Properties.                                                             *)

(* Undo and redo walk a line of contents: every entry of the undo stack     *)
(* leads back to exactly the content its batch was first committed on, the  *)
(* order of the lists included, and every entry of the redo stack forward   *)
(* to the content it left.  A refused undo loses nothing.                   *)
Past == [k \in DOMAIN undo |-> versions[undo[k].forward.expected + 1]]
Future == [k \in DOMAIN redo |-> versions[redo[Len(redo) - k + 1].inverse.expected + 1]]

Zipper == INSTANCE UndoZipper WITH past <- Past, present <- document, future <- Future
ImplementsUndoZipper == Zipper!Spec

(* A stale batch never overwrites what its author has not seen: everything  *)
(* it writes holds what it held in the revision it was authored on, undone  *)
(* and redone edits included.                                               *)
NoLostUpdate ==
  [][revision' > revision /\ undo' # <<>> /\ Last(undo').forward.expected = revision =>
       \A a \in ToSet(Last(log').addresses) :
         Content(versions[authored' + 1], a) = Content(document, a)]_historyVars

(* The log runs from the base to the current revision without a gap and     *)
(* names the target of every address, so a saved history loads again.       *)
HistoryLoads ==
  /\ \A i \in DOMAIN log :
       /\ log[i].from = IF i = 1 THEN base ELSE log[i - 1].to
       /\ log[i].to = log[i].from + 1
       /\ log[i].targets = [k \in DOMAIN log[i].addresses |-> TargetOf(log[i].addresses[k])]
  /\ revision = IF log = <<>> THEN base ELSE Last(log).to

(* The replay log is evidence of every change: it loads again, and wherever *)
(* a retained revision and the current document differ, a report after that *)
(* revision wrote an address that conflicts with the one that differs.      *)
LogCoversChanges ==
  /\ HistoryLoads
  /\ \A r \in base..revision : \A kind \in Kinds :
       \A id \in Ids(versions[r + 1], kind) \cup Ids(document, kind) :
         \A a \in AddressesOf(kind, id) :
           Content(versions[r + 1], a) # Content(document, a) =>
             \E b \in WrittenSince(r) : ConflictsWith(a, b)
=============================================================================
