---------------------------- MODULE EventAgenda ----------------------------
(***************************************************************************)
(* The exact event agenda of the circuit simulator: `CircuitEventAgenda`   *)
(* in src/event_simulation.rs.  One deque of pending events ordered by     *)
(* (time, phase, sequence), a clock, the phase last delivered at that      *)
(* clock, and an append-only lifecycle log that `verify_lifecycle` replays.*)
(*                                                                         *)
(* A call that returns an error leaves the agenda as it was, so a refused  *)
(* call is a stuttering step and only the accepted calls are actions.      *)
(* Exact reals are members of Times, a set of integers; a comparison the   *)
(* exact arithmetic cannot decide and a blank provenance text are refusals.*)
(* `CircuitEvent.sequence` equals `id` by construction (from_request), so  *)
(* one field stands for both.                                              *)
(***************************************************************************)
EXTENDS Integers, Sequences, FiniteSets, SequencesExt

CONSTANTS
  Times,       \* the exact instants events may be scheduled at
  Phases,      \* the CircuitEventPhase values in use, numbered in their order
  Targets,     \* circuit identities an event may address
  StartTime,   \* the clock the agenda is created with
  U64Max,      \* largest value of an identity or counter (2^64 - 1 in the code)
  MaxTrace     \* bound: longest preordered trace offered in one call

ASSUME AgendaAssumption ==
  /\ Times \subseteq Int
  /\ StartTime \in Times
  /\ Phases \subseteq 0..4
  /\ U64Max \in Nat
  /\ MaxTrace \in Nat

VARIABLES
  now,         \* exact agenda clock
  lastPhase,   \* phase of the last event delivered at `now`, or NoPhase
  nextId,      \* next event identity
  pending,     \* pending events in execution order
  lifecycle,   \* retained lifecycle evidence
  counters     \* aggregate counters

vars == <<now, lastPhase, nextId, pending, lifecycle, counters>>

NoPhase == -1
NoId == -1

Ids == 0..U64Max
Requests == [time : Times, phase : Phases, target : Targets]

(* `from` is the part of CircuitEventCause the agenda writes itself: the   *)
(* identity a replacement was rescheduled from.                            *)
Events == [id : Ids, time : Times, phase : Phases, target : Targets,
           from : Ids \cup {NoId}]

Actions == {"Scheduled", "Canceled", "Rescheduled", "Delivered"}

Records == [event : Events, action : Actions, related : Ids \cup {NoId}]

CounterNames == {"scheduled", "canceled", "rescheduled", "delivered",
                 "preordered", "maximumPending"}

Counters == [CounterNames -> Nat]

NoCounts == [c \in CounterNames |-> 0]

-----------------------------------------------------------------------------
(* Order of events and of requests.                                        *)

OrdersBefore(a, b) ==
  \/ a.time < b.time
  \/ a.time = b.time /\ a.phase < b.phase
  \/ a.time = b.time /\ a.phase = b.phase /\ a.id < b.id

RequestAfter(a, b) ==
  a.time > b.time \/ (a.time = b.time /\ a.phase > b.phase)

FromRequest(id, req, from) ==
  [id |-> id, time |-> req.time, phase |-> req.phase, target |-> req.target,
   from |-> from]

(* First position whose event is strictly after e, one past the end if none *)
InsertionPosition(q, e) ==
  CHOOSE p \in 1..Len(q) + 1 :
    /\ \A i \in 1..p - 1 : ~OrdersBefore(e, q[i])
    /\ p <= Len(q) => OrdersBefore(e, q[p])

Inserted(q, e) == InsertAt(q, InsertionPosition(q, e), e)

(* A trace appended without looking at what is already pending. *)
MergedAppend(q, added) == q \o added

(* The two-way merge of schedule_preordered.  An added event lands behind  *)
(* exactly the existing events that are not after it, so existing events   *)
(* win ties; slot(j) is its place in the merged deque, and taken(k) the    *)
(* number of added events the merge has taken before place k.              *)
Merged(q, added) ==
  LET n == Len(q)
      m == Len(added)
      slot(j) == InsertionPosition(q, added[j]) + j - 1
      taken(k) == CHOOSE j \in 0..m : /\ j > 0 => slot(j) < k
                                      /\ j < m => slot(j + 1) >= k
  IN [k \in 1..n + m |->
        IF taken(k) < m /\ slot(taken(k) + 1) = k
        THEN added[taken(k) + 1]
        ELSE q[k - taken(k)]]

-----------------------------------------------------------------------------
(* Validation.                                                             *)

(* A schedule check that forgets the completed phases of the current time. *)
RefusesTimeOnly(req) == req.time < now

(* validate_future_time and validate_future_phase: EventInPast, PhaseInPast *)
Refuses(req) ==
  \/ req.time < now
  \/ req.time = now /\ lastPhase # NoPhase /\ req.phase < lastPhase

(* ClockWouldSkipEvent *)
WouldSkip(t) == pending # <<>> /\ Head(pending).time < t

(* checked_add on the identity and on the two schedule counters *)
HasRoom(count) ==
  /\ nextId + count <= U64Max
  /\ counters["scheduled"] + count <= U64Max
  /\ counters["preordered"] + count <= U64Max

Count(c, name, n) == [c EXCEPT ![name] = @ + n]

(* maximum_pending follows the longest deque seen. *)
Peak(c, q) == [c EXCEPT !["maximumPending"] = IF Len(q) > @ THEN Len(q) ELSE @]

Scheduled(e) == [event |-> e, action |-> "Scheduled", related |-> NoId]

-----------------------------------------------------------------------------
Init ==
  /\ now = StartTime
  /\ lastPhase = NoPhase
  /\ nextId = 0
  /\ pending = <<>>
  /\ lifecycle = <<>>
  /\ counters = NoCounts

(* advance_time: an accepted advance to a later instant.  Advancing to the  *)
(* current instant is accepted and changes nothing.                         *)
AdvanceTime(t) ==
  /\ t > now
  /\ ~WouldSkip(t)
  /\ now' = t
  /\ lastPhase' = NoPhase
  /\ UNCHANGED <<nextId, pending, lifecycle, counters>>

(* schedule *)
Schedule(req) ==
  /\ ~Refuses(req)
  /\ nextId < U64Max
  /\ counters["scheduled"] < U64Max
  /\ LET e == FromRequest(nextId, req, NoId)
         q == Inserted(pending, e)
     IN /\ pending' = q
        /\ lifecycle' = Append(lifecycle, Scheduled(e))
        /\ counters' = Peak(Count(counters, "scheduled", 1), q)
  /\ nextId' = nextId + 1
  /\ UNCHANGED <<now, lastPhase>>

(* schedule_preordered: all or nothing *)
SchedulePreordered(reqs) ==
  /\ \A i \in DOMAIN reqs : ~Refuses(reqs[i])
  /\ \A i \in DOMAIN reqs : i > 1 => ~RequestAfter(reqs[i - 1], reqs[i])
  /\ HasRoom(Len(reqs))
  /\ LET added == [i \in DOMAIN reqs |-> FromRequest(nextId + i - 1, reqs[i], NoId)]
         q == Merged(pending, added)
     IN /\ pending' = q
        /\ lifecycle' = lifecycle \o [i \in DOMAIN reqs |-> Scheduled(added[i])]
        /\ counters' = Peak(Count(Count(counters, "scheduled", Len(reqs)),
                                  "preordered", Len(reqs)), q)
  /\ nextId' = nextId + Len(reqs)
  /\ UNCHANGED <<now, lastPhase>>

(* The deque once cancel has taken the event at place i out of it. *)
Without(q, i) == RemoveAt(q, i)

(* cancel *)
Cancel(id) ==
  \E i \in DOMAIN pending :
    /\ pending[i].id = id
    /\ counters["canceled"] < U64Max
    /\ pending' = Without(pending, i)
    /\ lifecycle' = Append(lifecycle, [event |-> pending[i], action |-> "Canceled",
                                       related |-> NoId])
    /\ counters' = Count(counters, "canceled", 1)
    /\ UNCHANGED <<now, lastPhase, nextId>>

(* A reschedule that also leaves its internal cancellation counted. *)
CountRescheduledAndCanceled(c, q) ==
  Peak(Count(Count(Count(c, "scheduled", 1), "rescheduled", 1), "canceled", 1), q)

(* The internal cancel is uncounted again, the schedule stays counted. *)
CountRescheduled(c, q) ==
  Peak(Count(Count(c, "scheduled", 1), "rescheduled", 1), q)

(* reschedule: cancel and schedule on a copy that replaces the agenda only  *)
(* when both succeed; the two log records are rewritten to link each other. *)
Reschedule(id, req) ==
  \E i \in DOMAIN pending :
    /\ pending[i].id = id
    /\ counters["canceled"] < U64Max
    /\ ~Refuses(req)
    /\ nextId < U64Max
    /\ counters["scheduled"] < U64Max
    /\ counters["rescheduled"] < U64Max
    /\ LET e == FromRequest(nextId, req, id)
           q == Inserted(Without(pending, i), e)
       IN /\ pending' = q
          /\ lifecycle' = lifecycle \o
               <<[event |-> pending[i], action |-> "Rescheduled", related |-> nextId],
                 [event |-> e, action |-> "Scheduled", related |-> id]>>
          /\ counters' = CountRescheduled(counters, q)
    /\ nextId' = nextId + 1
    /\ UNCHANGED <<now, lastPhase>>

(* The phase a delivery leaves completed at its instant. *)
Completed(e) == e.phase

(* deliver_next *)
DeliverNext ==
  /\ pending # <<>>
  /\ LET e == Head(pending)
     IN /\ now' = e.time
        /\ lastPhase' = Completed(e)
        /\ pending' = Tail(pending)
        /\ lifecycle' = Append(lifecycle, [event |-> e, action |-> "Delivered",
                                           related |-> NoId])
  /\ counters' = IF counters["delivered"] < U64Max
                  THEN Count(counters, "delivered", 1) ELSE counters
  /\ UNCHANGED nextId

(* The calls that change what is pending without delivering it. *)
Requesting ==
  \/ \E req \in Requests : Schedule(req)
  \/ \E n \in 1..MaxTrace : \E reqs \in [1..n -> Requests] : SchedulePreordered(reqs)
  \/ \E id \in Ids : Cancel(id)
  \/ \E id \in Ids, req \in Requests : Reschedule(id, req)

Next ==
  \/ \E t \in Times : AdvanceTime(t)
  \/ Requesting
  \/ DeliverNext

Spec == Init /\ [][Next]_vars

-----------------------------------------------------------------------------
(* Read-only operations.                                                   *)

(* next_breakpoint_after: the time of the first pending event after `time`, *)
(* as a set of at most one element                                          *)
NextBreakpointAfter(time) ==
  LET later == {i \in DOMAIN pending : time < pending[i].time}
  IN IF later = {} THEN {} ELSE {pending[Min(later)].time}

(* One record of verify_lifecycle's replay.  `pending` is its map by         *)
(* identity, `expected` its map from a replacement to the event it replaces. *)
ReplayStep(r, rec) ==
  LET e == rec.event
      known == {p \in r.pending : p.id = e.id}
      expected == {x \in r.expected : x[1] = e.id}
  IN IF rec.action = "Scheduled"
     THEN LET left == (r.pending \ known) \cup {e}
          IN [pending |-> left,
              expected |-> r.expected \ expected,
              counters |-> [Count(r.counters, "scheduled", 1) EXCEPT
                 !["maximumPending"] = IF Cardinality(left) > @ THEN Cardinality(left) ELSE @],
              sound |-> /\ r.sound
                        /\ known = {}
                        /\ {x[2] : x \in expected} = {rec.related} \ {NoId}]
     ELSE [pending |-> r.pending \ known,
           expected |-> IF rec.action = "Rescheduled" /\ rec.related # NoId
                        THEN {x \in r.expected : x[1] # rec.related}
                               \cup {<<rec.related, e.id>>}
                        ELSE r.expected,
           counters |-> Count(r.counters, CASE rec.action = "Canceled" -> "canceled"
                                            [] rec.action = "Rescheduled" -> "rescheduled"
                                            [] rec.action = "Delivered" -> "delivered", 1),
           sound |-> /\ r.sound
                     /\ known = {e}
                     /\ rec.action = "Rescheduled" => rec.related # NoId]

(* What verify_lifecycle holds after each record of a log.                  *)
Replays(log) ==
  LET held[n \in 0..Len(log)] ==
        IF n = 0
        THEN [pending |-> {}, expected |-> {}, counters |-> NoCounts, sound |-> TRUE]
        ELSE ReplayStep(held[n - 1], log[n])
  IN held

Elements(q) == {q[i] : i \in 1..Len(q)}

Sorted(q) == \A i, j \in 1..Len(q) : i < j => OrdersBefore(q[i], q[j])

(* verify_lifecycle: no issue is reported.  The deque is what was replayed, *)
(* in execution order; how many events came preordered no record tells, and *)
(* the replay takes the agenda's word for it.                               *)
VerifyLifecycle ==
  LET end == Replays(lifecycle)[Len(lifecycle)]
  IN /\ end.sound
     /\ end.expected = {}
     /\ Elements(pending) = end.pending /\ Sorted(pending)
     /\ [end.counters EXCEPT !["preordered"] = counters["preordered"]] = counters

-----------------------------------------------------------------------------
(* Properties.                                                              *)

TypeOK ==
  /\ now \in Times
  /\ lastPhase \in Phases \cup {NoPhase}
  /\ nextId \in Ids
  /\ pending \in Seq(Events)
  /\ lifecycle \in Seq(Records)
  /\ counters \in Counters

(* The deque stays sorted by (time, phase, sequence) through single          *)
(* insertions, merges, removals and replacements.  deliver_next, peek,       *)
(* advance_time and next_breakpoint_after only look at its front.            *)
AgendaSorted == Sorted(pending)

NotInPast(e) == e.time >= now /\ (e.time = now => e.phase >= lastPhase)

(* No pending event lies before the clock or in a phase already completed at *)
(* the clock: such an event would be delivered in the past.                  *)
NothingPendingInPast == \A e \in Elements(pending) : NotInPast(e)

DeliveredIn(log) ==
  {log[i].event : i \in {j \in 1..Len(log) : log[j].action = "Delivered"}}

InDeliveryOrder(log) ==
  \A i, j \in 1..Len(log) :
    (i < j /\ log[i].action = "Delivered" /\ log[j].action = "Delivered")
      => OrdersBefore(log[i].event, log[j].event)

(* Across any mix of scheduling, cancelling and clock moves, the deliveries  *)
(* a caller observes are strictly increasing in (time, phase, sequence).     *)
DeliveriesOrdered == InDeliveryOrder(lifecycle)

(* The inductive invariant: identities below nextId, nothing pending in the  *)
(* past, and every delivery behind the clock, behind the completed phase and *)
(* ahead of everything pending.                                              *)
AgendaInv ==
  /\ TypeOK
  /\ AgendaSorted
  /\ \A e \in Elements(pending) : e.id < nextId /\ NotInPast(e)
  /\ \A d \in DeliveredIn(lifecycle) :
       /\ d.id < nextId
       /\ d.time <= now
       /\ d.time = now => d.phase <= lastPhase
       /\ \A e \in Elements(pending) : OrdersBefore(d, e)
  /\ DeliveriesOrdered

(* verify_lifecycle accepts every agenda the operations can produce: the log *)
(* alone reconstructs the deque and the counters, replacements included.     *)
LifecycleReplays == VerifyLifecycle

(* An event leaves the agenda with time passing it only by being delivered.  *)
(* The clock never runs backward.                                            *)
NoEventSkipped ==
  [][/\ now' >= now
     /\ \A e \in Elements(pending) :
          e.time < now' => e \in DeliveredIn(lifecycle')]_vars

Queue == INSTANCE EventQueue WITH
  clock <- now,
  queue <- Elements(pending),
  served <- DeliveredIn(lifecycle)

(* The sorted deque implements the abstract queue: every accepted call is    *)
(* one queue operation, and a delivery always takes the least event.         *)
ImplementsEventQueue == Queue!QueueSpec
=============================================================================
