-------------------------- MODULE Ipc2581Inspection --------------------------
(***************************************************************************)
(* `inspect_ipc2581_xml` (src/intelligent_exchange.rs): one pass over the  *)
(* events of an XML reader, before any validation against a schema.  A     *)
(* document is the sequence of events the reader delivers; names and       *)
(* attributes matter only for the root element, which is either the one    *)
(* the policy names or another.  A tag that does not match is an error of  *)
(* the reader itself, "broken" here; "text" is text that is not blank, and *)
(* "other" every event that is skipped, blank text included.               *)
(***************************************************************************)
EXTENDS Integers, Sequences, FiniteSets

CONSTANTS
  MaximumDepth,     \* policy.maximum_depth
  MaximumEvents     \* policy.maximum_events

ASSUME InspectionAssumption == MaximumDepth \in Nat /\ MaximumEvents \in Nat

VARIABLES
  seen,        \* the events read so far
  depth,       \* elements that are open
  rooted,      \* whether a root element was read
  closed,      \* whether it was closed
  verdict      \* "idle", "reading", "accepted", or the error returned

inspectionVars == <<seen, depth, rooted, closed, verdict>>

Openings == [kind : {"start", "empty"}, expected : BOOLEAN]
Others == [kind : {"end", "text", "doctype", "entity", "other", "broken",
                   "eof"}]

NothingRead ==
  /\ seen = <<>>
  /\ depth = 0
  /\ rooted = FALSE
  /\ closed = FALSE

InspectionInit == NothingRead /\ verdict = "reading"

Refuse(error) == verdict' = error /\ UNCHANGED <<depth, rooted, closed>>

\* Every event but a broken one is counted before it is looked at.
Counted(event) ==
  /\ verdict = "reading"
  /\ event.kind # "broken"
  /\ seen' = Append(seen, event)
  /\ Len(seen') <= MaximumEvents

\* A document over policy.maximum_bytes is refused before any event is read.
TooLong ==
  /\ verdict = "reading"
  /\ seen = <<>>
  /\ Refuse("XmlLimit")
  /\ UNCHANGED seen

ReaderFails(event) ==
  /\ verdict = "reading"
  /\ event.kind = "broken"
  /\ seen' = Append(seen, event)
  /\ Refuse("Xml")

TooManyEvents(event) ==
  /\ verdict = "reading"
  /\ event.kind # "broken"
  /\ Len(seen) >= MaximumEvents
  /\ seen' = Append(seen, event)
  /\ Refuse("XmlLimit")

Forbidden(event) ==
  /\ Counted(event)
  /\ event.kind \in {"doctype", "entity"}
  /\ Refuse("Xml")

\* A second root, or a root other than the policy's.
BadRootUnlessFirst(event) == ~rooted /\ ~event.expected
BadRoot(event) == IF rooted THEN depth = 0 ELSE ~event.expected

Opens(event) ==
  /\ Counted(event)
  /\ event.kind \in {"start", "empty"}
  /\ IF BadRoot(event) THEN Refuse("Xml")
     ELSE /\ rooted' = TRUE
          /\ depth' = IF event.kind = "start" THEN depth + 1 ELSE depth
          /\ verdict' = IF depth + 1 > MaximumDepth THEN "XmlLimit"
                        ELSE verdict
          /\ closed' = (closed \/ (/\ event.kind = "empty"
                                   /\ depth = 0
                                   /\ depth + 1 <= MaximumDepth))

Closes(event) ==
  /\ Counted(event)
  /\ event.kind = "end"
  /\ IF depth = 0 THEN Refuse("Xml")
     ELSE /\ depth' = depth - 1
          /\ closed' = (closed \/ depth = 1)
          /\ UNCHANGED <<rooted, verdict>>

Text(event) ==
  /\ Counted(event)
  /\ event.kind = "text"
  /\ IF depth = 0 THEN Refuse("Xml")
     ELSE UNCHANGED <<depth, rooted, closed, verdict>>

Skips(event) ==
  /\ Counted(event)
  /\ event.kind = "other"
  /\ UNCHANGED <<depth, rooted, closed, verdict>>

Ends(event) ==
  /\ Counted(event)
  /\ event.kind = "eof"
  /\ verdict' = IF depth # 0 \/ ~closed \/ ~rooted THEN "Xml" ELSE "accepted"
  /\ UNCHANGED <<depth, rooted, closed>>

InspectionNext ==
  \/ TooLong
  \/ \E event \in Openings \cup Others :
       \/ ReaderFails(event) \/ TooManyEvents(event) \/ Forbidden(event)
       \/ Opens(event) \/ Closes(event) \/ Text(event) \/ Skips(event)
       \/ Ends(event)

InspectionSpec == InspectionInit /\ [][InspectionNext]_inspectionVars

-----------------------------------------------------------------------------
(* The reference: nesting counted over the whole document.                 *)

CountOf(kind, i) == Cardinality({j \in 1..i : seen[j].kind = kind})
DepthAfter(i) == CountOf("start", i) - CountOf("end", i)
RootsOpened == {i \in DOMAIN seen : /\ seen[i].kind \in {"start", "empty"}
                              /\ DepthAfter(i - 1) = 0}

\* What holds of every part of a well-formed document that begins it, and so
\* cannot be mended by what follows.
SoundSoFar ==
  /\ Len(seen) <= MaximumEvents
  /\ \A i \in DOMAIN seen :
       /\ seen[i].kind \notin {"doctype", "entity", "broken"}
       /\ DepthAfter(i) \in 0..MaximumDepth
       /\ seen[i].kind = "empty" => DepthAfter(i) < MaximumDepth
       /\ seen[i].kind = "text" => DepthAfter(i) > 0
  /\ \A i, j \in RootsOpened : i = j
  /\ \A i \in RootsOpened : seen[i].expected

AtEnd == seen # <<>> /\ seen[Len(seen)].kind = "eof"
WholeDocument == AtEnd /\ DepthAfter(Len(seen)) = 0 /\ RootsOpened # {}

\* A document is accepted exactly when it is one element of the policy's root,
\* balanced, within the limits on events and depth, with no text around it
\* and no entity or document type anywhere: the pass forgets nothing a look
\* at the whole document would see, and what it refuses before the end no
\* continuation would have made good, but for a document of too many bytes.
InspectionIsExact ==
  /\ verdict = "accepted" => SoundSoFar /\ WholeDocument
  /\ verdict \in {"Xml", "XmlLimit"} =>
       \/ seen = <<>>
       \/ ~SoundSoFar
       \/ AtEnd /\ ~WholeDocument
=============================================================================
