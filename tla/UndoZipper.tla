----------------------------- MODULE UndoZipper -----------------------------
(***************************************************************************)
(* What undo and redo promise an author: the contents of a design form a   *)
(* line, one of them is in force, undo steps to the one before it, redo    *)
(* back, and a new commit takes the place of everything after it.          *)
(***************************************************************************)
EXTENDS Sequences, SequencesExt

VARIABLES
  past,      \* contents undo leads back to, oldest first
  present,   \* content in force
  future     \* contents redo leads forward to, nearest first

line == <<past, present, future>>

Init == past = <<>> /\ future = <<>>

Commit ==
  /\ past' = Append(past, present)
  /\ future' = <<>>

Undo ==
  /\ past # <<>>
  /\ present' = Last(past)
  /\ past' = Front(past)
  /\ future' = <<present>> \o future

Redo ==
  /\ future # <<>>
  /\ present' = Head(future)
  /\ past' = Append(past, present)
  /\ future' = Tail(future)

Next == Commit \/ Undo \/ Redo

Spec == Init /\ [][Next]_line
=============================================================================
