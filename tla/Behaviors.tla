----------------------------- MODULE Behaviors -----------------------------
(***************************************************************************)
(* Behavioral callbacks over the event agenda: `BehaviorRuntime`,          *)
(* `AsyncBehaviorRuntime` and the `BehaviorContext` they hand out, in      *)
(* src/behavior.rs.  A driver delivers one event, offers it to one of the  *)
(* two runtimes, and lets the callback finish before it delivers the next. *)
(* The agenda calls a callback makes are steps of their own: each may be   *)
(* refused, and a callback may fail after any of them.                     *)
(*                                                                         *)
(* The variables after `causes` are the runtimes'; `causes` and `received` *)
(* are evidence: the cause written into each request, and the messages     *)
(* tasks were resumed with.  A task's predicate `accepts` is the set of    *)
(* phases it is currently waiting for.                                     *)
(***************************************************************************)
EXTENDS EventAgenda

CONSTANTS
  Filters,     \* the predicates an asynchronous task may wait with
  NoTask       \* no asynchronous task is registered

ASSUME FiltersAssumption == Filters \subseteq SUBSET Phases /\ NoTask \notin Filters

VARIABLES
  handlers,    \* targets with a callback in BehaviorRuntime
  tasks,       \* the filter of each target's task in AsyncBehaviorRuntime
  mailboxes,   \* delivered events waiting for each target's task
  arrived,     \* the event delivered and not yet offered, at most one
  inFlight,    \* the callback in flight: its kind, owner and event
  causes,      \* the delivered event each identity was requested for
  received     \* the events tasks were resumed with, in order

runtimeVars == <<handlers, tasks, mailboxes>>
driverVars == <<arrived, inFlight, causes, received>>
behaviorVars == <<vars, runtimeVars, driverVars>>

NoEvents == <<>>

(* A callback in flight, as a sequence of at most one record; a callback of *)
(* the synchronous runtime is a "handler", of the asynchronous one a "task" *)
NoCall == <<>>
Calling(kind, e) == <<[kind |-> kind, owner |-> e.target, event |-> e]>>
InCall == inFlight # NoCall
Context == Head(inFlight)

Idle == ~InCall /\ arrived = NoEvents

BehaviorInit ==
  /\ Init
  /\ handlers = {}
  /\ tasks = [t \in Targets |-> NoTask]
  /\ mailboxes = [t \in Targets |-> <<>>]
  /\ arrived = NoEvents
  /\ inFlight = NoCall
  /\ causes = <<>>
  /\ received = <<>>

-----------------------------------------------------------------------------
(* Authoring code between callbacks: agenda calls and registrations.       *)

(* Whatever authoring code requests has no delivered event as its cause. *)
Authoring ==
  /\ Idle
  /\ Requesting \/ \E t \in Times : AdvanceTime(t)
  /\ causes' = causes \o [i \in 1..nextId' - nextId |-> NoId]
  /\ UNCHANGED <<runtimeVars, arrived, inFlight, received>>

(* BehaviorRuntime::register *)
RegisterHandler(t) ==
  /\ Idle
  /\ handlers' = handlers \cup {t}
  /\ UNCHANGED <<vars, tasks, mailboxes, driverVars>>

(* AsyncBehaviorRuntime::register: the mailbox of a replaced task stays *)
RegisterTask(t, f) ==
  /\ Idle
  /\ tasks' = [tasks EXCEPT ![t] = f]
  /\ UNCHANGED <<vars, handlers, mailboxes, driverVars>>

-----------------------------------------------------------------------------
(* Delivery and dispatch.                                                  *)

(* The driver takes the next event from the agenda. *)
Deliver ==
  /\ Idle
  /\ DeliverNext
  /\ arrived' = <<Head(pending)>>
  /\ UNCHANGED <<runtimeVars, inFlight, causes, received>>

(* dispatch_if_registered: an event without a handler is only observed *)
Dispatch ==
  /\ arrived # NoEvents
  /\ arrived' = NoEvents
  /\ LET e == Head(arrived)
     IN inFlight' = IF e.target \in handlers THEN Calling("handler", e) ELSE NoCall
  /\ UNCHANGED <<vars, runtimeVars, causes, received>>

(* A receive that takes the newest acceptable message. *)
ReceiveLast(box, f) == {i \in DOMAIN box : box[i].phase \in f
                          /\ \A j \in i + 1..Len(box) : box[j].phase \notin f}

(* SelectiveEventMailbox::receive: the position of the first message the    *)
(* filter accepts, as a set of at most one element                          *)
Receive(box, f) == {i \in DOMAIN box : box[i].phase \in f
                      /\ \A j \in 1..i - 1 : box[j].phase \notin f}

(* AsyncBehaviorRuntime::dispatch up to the resumption: the context carries  *)
(* the selected message, which may be older than the event dispatched.       *)
DispatchAsync ==
  /\ arrived # NoEvents
  /\ arrived' = NoEvents
  /\ LET e == Head(arrived)
         box == Append(mailboxes[e.target], e)
     IN \/ /\ tasks[e.target] = NoTask
           /\ UNCHANGED <<mailboxes, inFlight, received>>
        \/ /\ tasks[e.target] # NoTask
           /\ Receive(box, tasks[e.target]) = {}
           /\ mailboxes' = [mailboxes EXCEPT ![e.target] = box]
           /\ UNCHANGED <<inFlight, received>>
        \/ /\ tasks[e.target] # NoTask
           /\ \E i \in Receive(box, tasks[e.target]) :
                /\ mailboxes' = [mailboxes EXCEPT ![e.target] = RemoveAt(box, i)]
                /\ inFlight' = Calling("task", box[i])
                /\ received' = Append(received, box[i])
  /\ UNCHANGED <<vars, handlers, tasks, causes>>

-----------------------------------------------------------------------------
(* BehaviorContext: the agenda calls a callback may make.                  *)

(* emit_at; emit_after is emit_at at the context's time plus a delay, and   *)
(* sleep_until is emit_at for the owner itself                              *)
EmitAt(req) ==
  /\ InCall
  /\ Schedule(req)
  /\ causes' = Append(causes, Context.event.id)
  /\ UNCHANGED <<runtimeVars, arrived, inFlight, received>>

CancelEvent(id) ==
  /\ InCall
  /\ Cancel(id)
  /\ UNCHANGED <<runtimeVars, driverVars>>

(* The agenda replaces the cause in the request by the replaced identity. *)
RescheduleEvent(id, req) ==
  /\ InCall
  /\ Reschedule(id, req)
  /\ causes' = Append(causes, NoId)
  /\ UNCHANGED <<runtimeVars, arrived, inFlight, received>>

(* A handler returns, or fails: neither changes the runtime. *)
HandlerReturns ==
  /\ InCall
  /\ Context.kind = "handler"
  /\ inFlight' = NoCall
  /\ UNCHANGED <<vars, runtimeVars, arrived, causes, received>>

(* A task waits again, or fails, with whatever filter it left itself. *)
TaskWaits(f) ==
  /\ InCall
  /\ Context.kind = "task"
  /\ inFlight' = NoCall
  /\ tasks' = [tasks EXCEPT ![Context.owner] = f]
  /\ UNCHANGED <<vars, handlers, mailboxes, arrived, causes, received>>

DiscardMailbox(t) == [mailboxes EXCEPT ![t] = <<>>]

(* A completed task goes, and its unread messages with it. *)
TaskCompletes ==
  /\ InCall
  /\ Context.kind = "task"
  /\ inFlight' = NoCall
  /\ tasks' = [tasks EXCEPT ![Context.owner] = NoTask]
  /\ mailboxes' = DiscardMailbox(Context.owner)
  /\ UNCHANGED <<vars, handlers, arrived, causes, received>>

CallbackStep ==
  \/ \E req \in Requests : EmitAt(req)
  \/ \E id \in Ids : CancelEvent(id)
  \/ \E id \in Ids, req \in Requests : RescheduleEvent(id, req)
  \/ HandlerReturns
  \/ \E f \in Filters : TaskWaits(f)
  \/ TaskCompletes

BehaviorNext ==
  \/ Authoring
  \/ \E t \in Targets : RegisterHandler(t)
  \/ \E t \in Targets, f \in Filters : RegisterTask(t, f)
  \/ Deliver
  \/ Dispatch
  \/ DispatchAsync
  \/ CallbackStep

BehaviorSpec == BehaviorInit /\ [][BehaviorNext]_behaviorVars

-----------------------------------------------------------------------------
(* Properties.                                                             *)

(* The event logged when identity id was scheduled. *)
ScheduledAs(id) ==
  lifecycle[CHOOSE i \in DOMAIN lifecycle :
              lifecycle[i].event.id = id /\ lifecycle[i].action = "Scheduled"].event

(* Causality in a callback's requests: the cause of an event was delivered  *)
(* before the event was requested, and stands before it in execution order, *)
(* whether the callback was resumed by the event just delivered or by one   *)
(* that had waited in its mailbox while the clock moved on.                 *)
EffectsFollowCauses ==
  \A id \in 0..nextId - 1 :
    causes[id + 1] # NoId =>
      /\ OrdersBefore(ScheduledAs(causes[id + 1]), ScheduledAs(id))
      /\ \E i, j \in DOMAIN lifecycle :
           /\ i < j
           /\ lifecycle[i].action = "Delivered"
           /\ lifecycle[i].event.id = causes[id + 1]
           /\ lifecycle[j].action = "Scheduled"
           /\ lifecycle[j].event.id = id

(* Selective receive is first-in first-out among the messages one predicate *)
(* cannot tell apart, across refused messages, changes of the predicate,    *)
(* failures and replaced tasks: no message is received twice, and none that *)
(* still waits stood ahead of one already received.  A mailbox exists only  *)
(* beside a task, so one registered after another completed starts without  *)
(* its messages.                                                            *)
SelectiveFifo ==
  LET alike(a, b) == a.target = b.target /\ a.phase = b.phase
  IN /\ \A i, j \in DOMAIN received :
          i < j /\ alike(received[i], received[j])
            => OrdersBefore(received[i], received[j])
     /\ \A t \in Targets : \A k \in DOMAIN mailboxes[t] :
          \A i \in DOMAIN received :
            alike(received[i], mailboxes[t][k])
              => OrdersBefore(received[i], mailboxes[t][k])
     /\ \A t \in Targets : tasks[t] = NoTask => mailboxes[t] = <<>>
=============================================================================
