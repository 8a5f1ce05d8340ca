-------------------------- MODULE TransientSession --------------------------
(***************************************************************************)
(* The incremental mixed-signal session, `TransientSession` in             *)
(* src/simulation.rs, over its event agenda.  A session interleaves exact  *)
(* analog steps, bounded by a policy and cut at breakpoints, with the      *)
(* delivery of the events due at the instants those steps reach.           *)
(*                                                                         *)
(* A public call is a sequence of steps (`pc` # "idle") no other call can  *)
(* interrupt; only the callbacks of step_with_runtime act in between, and  *)
(* they reach the agenda alone.  Exact reals are whole units of a grid.    *)
(* The circuit's solution is not modelled: whether an attempt's error is   *)
(* small, fair or too large is open, but an attempt that was rejected is   *)
(* rejected again while the circuit stays as it is.                        *)
(***************************************************************************)
EXTENDS EventAgenda

CONSTANTS
  StopTime,         \* policy.stop_time
  InitialTimestep,  \* policy.initial_timestep
  MinimumTimestep,  \* policy.minimum_timestep
  MaximumTimestep,  \* policy.maximum_timestep
  MaxAccepted,      \* policy.maximum_accepted_steps
  MaxRejected,      \* policy.maximum_rejected_steps
  Fixed,            \* TRUE for TransientAdaptation::Fixed
  ShrinkDivisor,    \* shrink_factor is 1 / ShrinkDivisor
  GrowthFactor,     \* growth_factor
  SourceBreaks,     \* breakpoints of the circuit's own source waveforms
  Schedules,        \* breakpoint schedules a caller may add, as sets of times
  MaxDelta,         \* maximum_delta_events of step_with_runtime
  Calls             \* the stepping calls in use: "step", "until", "runtime"

(* validate_run_policy, and a grid fine enough for every retry it allows. *)
ASSUME PolicyAssumption ==
  /\ StopTime \in Times /\ StartTime < StopTime
  /\ {MinimumTimestep, InitialTimestep, MaximumTimestep} \subseteq Int
  /\ 0 < MinimumTimestep /\ MinimumTimestep <= InitialTimestep
  /\ InitialTimestep <= MaximumTimestep
  /\ MaxAccepted \in Nat \ {0} /\ MaxRejected \in Nat \ {0}
  /\ Fixed \in BOOLEAN
  /\ ShrinkDivisor \in Nat /\ ShrinkDivisor > 1
  /\ GrowthFactor \in Nat /\ GrowthFactor > 1
  /\ \A d \in 1..MaximumTimestep :
       d >= MinimumTimestep * ShrinkDivisor => d % ShrinkDivisor = 0
  /\ StartTime..StopTime \subseteq Times
  /\ SourceBreaks \subseteq Int /\ Schedules \subseteq SUBSET Int
  /\ MaxDelta \in Nat \ {0}
  /\ Calls \subseteq {"step", "until", "runtime"}

VARIABLES
  time,          \* exact session time
  nextTimestep,  \* timestep the next analog step proposes
  schedules,     \* union of the breakpoint schedules added
  sourceBreaks,  \* breakpoints of the source waveforms still in force
  samples,       \* accepted analog endpoints
  decisions,     \* every attempt, accepted or rejected
  applied,       \* number of decisions taken when the circuit last changed
  delivered,     \* events delivered by the session
  status,        \* session status
  pc,            \* where the call in progress stands
  call,          \* the call in progress, or the last one
  outcome        \* what the last call returned

sessionVars == <<time, nextTimestep, schedules, sourceBreaks, samples, decisions,
                 applied, delivered, status>>
callVars == <<pc, call, outcome>>
allVars == <<vars, sessionVars, callVars>>

Statuses == {"Running", "Complete", "AcceptedStepLimit", "RejectedStepLimit",
             "MinimumTimestep"}

SessionInit ==
  /\ Init
  /\ time = StartTime
  /\ nextTimestep = InitialTimestep
  /\ schedules = {}
  /\ sourceBreaks = SourceBreaks
  /\ samples = <<>>
  /\ decisions = <<>>
  /\ applied = 0
  /\ delivered = <<>>
  /\ status = "Running"
  /\ pc = "idle"
  /\ call = [kind |-> "step", limit |-> StopTime, progress |-> FALSE, dispatched |-> 0]
  /\ outcome = "Ok"

Return(result) == pc' = "idle" /\ outcome' = result

-----------------------------------------------------------------------------
(* Between calls: authoring through agenda_mut, and breakpoint schedules.  *)
(* Authoring leaves the clock to the session.                              *)

Author ==
  /\ pc = "idle"
  /\ Requesting
  /\ UNCHANGED <<sessionVars, callVars>>

AddBreakpointSchedule(times) ==
  /\ pc = "idle"
  /\ ~(times \subseteq schedules)
  /\ schedules' = schedules \cup times
  /\ UNCHANGED <<vars, time, nextTimestep, sourceBreaks, samples, decisions, applied,
                 delivered, status, callVars>>

-----------------------------------------------------------------------------
(* Starting a call.                                                        *)

Due == pending # <<>> /\ Head(pending).time = time

Begin(kind, limit) ==
  /\ pc = "idle"
  /\ kind \in Calls
  /\ pc' = "deliver"
  /\ call' = [kind |-> kind, limit |-> limit, progress |-> FALSE, dispatched |-> 0]
  /\ outcome' = "Ok"
  /\ UNCHANGED <<vars, sessionVars>>

(* step, and each round of run_until_quiescent *)
BeginStep == Begin("step", StopTime)

(* step_with_runtime and step_with_async_runtime *)
BeginRuntime == Begin("runtime", StopTime)

(* step_until and step_for: the loop is entered only while there is       *)
(* something to do before or at the target                                *)
BeginUntil(target) ==
  /\ time <= target /\ target <= StopTime
  /\ status = "Running"
  /\ time < target \/ Due
  /\ Begin("until", target)

-----------------------------------------------------------------------------
(* Delivery.                                                               *)

(* apply_event: a source override replaces the waveform, breakpoints and   *)
(* all; every other kind leaves the analog circuit as it is                *)
ApplyEvent ==
  \/ sourceBreaks' = {} /\ applied' = Len(decisions)
  \/ UNCHANGED <<sourceBreaks, applied>>

(* The callback bound: the event is already delivered when it is checked.  *)
DispatchOrRefuse(e) ==
  IF call.dispatched < MaxDelta
  THEN /\ pc' = "callback"
       /\ call' = [call EXCEPT !.progress = TRUE, !.dispatched = @ + 1]
       /\ UNCHANGED <<outcome>>
  ELSE /\ Return("DeltaCycleLimit")
       /\ call' = [call EXCEPT !.progress = TRUE]

(* deliver_current_events_limit: one event; a runtime call dispatches it   *)
(* before it takes another                                                 *)
DeliverDue ==
  /\ pc = "deliver"
  /\ Due
  /\ DeliverNext
  /\ ApplyEvent
  /\ delivered' = Append(delivered, Head(pending))
  /\ IF call.kind = "runtime"
     THEN DispatchOrRefuse(Head(pending))
     ELSE /\ call' = [call EXCEPT !.progress = TRUE]
          /\ UNCHANGED <<pc, outcome>>
  /\ UNCHANGED <<time, nextTimestep, schedules, samples, decisions, status>>

(* A target loop that stops once nothing is due. *)
GoesOnWhileDue == call.kind = "until" /\ Due

(* A target loop that looks at the time only. *)
GoesOnByTime == call.kind = "until" /\ time < call.limit

(* The loop of step_until goes round again. *)
GoesOn == call.kind = "until" /\ status = "Running" /\ time < call.limit

(* Nothing is due: a step that has done nothing yet turns to the analog     *)
(* circuit, any other is over.                                              *)
EndStep ==
  /\ pc = "deliver"
  /\ ~Due
  /\ \/ /\ ~call.progress
        /\ pc' = "solve"
        /\ UNCHANGED <<call, outcome>>
     \/ /\ call.progress /\ GoesOn
        /\ call' = [call EXCEPT !.progress = FALSE]
        /\ UNCHANGED <<pc, outcome>>
     \/ /\ call.progress /\ ~GoesOn
        /\ Return("Ok")
        /\ UNCHANGED call
  /\ UNCHANGED <<vars, sessionVars>>

(* What a callback may do through its context. *)
CallbackActs ==
  /\ pc = "callback"
  /\ \/ \E req \in Requests : Schedule(req)
     \/ \E id \in Ids : Cancel(id)
     \/ \E id \in Ids, req \in Requests : Reschedule(id, req)
  /\ UNCHANGED <<sessionVars, callVars>>

CallbackReturns ==
  /\ pc = "callback"
  /\ pc' = "deliver"
  /\ UNCHANGED <<vars, sessionVars, call, outcome>>

CallbackFails ==
  /\ pc = "callback"
  /\ Return("Behavior")
  /\ UNCHANGED <<vars, sessionVars, call>>

-----------------------------------------------------------------------------
(* The analog step.                                                        *)

(* Breakpoints of the schedules and of the source waveforms. *)
Breakpoints == schedules \cup sourceBreaks

(* event_limited_timestep that only asks the schedules and the sources. *)
LimitedBySchedules(proposed) ==
  Min({proposed} \cup {b - time : b \in {x \in Breakpoints : x > time}})

(* event_limited_timestep that only asks the agenda. *)
LimitedByAgenda(proposed) ==
  Min({proposed} \cup {b - time : b \in NextBreakpointAfter(time)})

(* event_limited_timestep: the proposal, cut at the earliest breakpoint     *)
(* strictly after the session time of a source, a schedule or the agenda    *)
EventLimited(proposed) ==
  Min({proposed} \cup
      {b - time : b \in {x \in Breakpoints : x > time} \cup NextBreakpointAfter(time)})

(* The timesteps of successive attempts of one run, each after a rejection. *)
Attempts(limit) ==
  LET first == EventLimited(Min({nextTimestep, limit - time}))
      attempt[k \in 0..MaxRejected] ==
        IF k = 0 THEN first ELSE attempt[k - 1] \div ShrinkDivisor
  IN attempt

(* The kth rejection leaves a timestep the policy allows. *)
ShrinksTo(attempt, k) == attempt[k - 1] >= MinimumTimestep * ShrinkDivisor

RejectedIn(log) == {i \in DOMAIN log : ~log[i].accepted}
RejectedCount == Cardinality(RejectedIn(decisions))

(* step_policy.maximum_rejected_steps: what earlier runs have left. *)
RemainingRejections == MaxRejected - RejectedCount

Decision(timestep, accepted) ==
  [start |-> time, timestep |-> timestep, accepted |-> accepted]

Rejections(attempt, k) == [i \in 1..k |-> Decision(attempt[i - 1], FALSE)]

(* The same attempt on the same circuit was rejected before.  (An accepted  *)
(* one moved the session, so it cannot be made again.)                      *)
KnownRejection(timestep) ==
  \E i \in applied + 1..Len(decisions) : decisions[i] = Decision(timestep, FALSE)

(* The status of a session whose clock is t. *)
StatusAt(t) == IF t = StopTime THEN "Complete" ELSE status

(* A step ends without a sample; what is due is delivered before the call   *)
(* returns or goes on.                                                      *)
EndWithoutSample ==
  /\ pc' = "deliver"
  /\ call' = [call EXCEPT !.progress = TRUE]
  /\ UNCHANGED <<vars, time, nextTimestep, schedules, sourceBreaks, samples, applied,
                 delivered, outcome>>

(* The step starts at the limit: the session is complete at its stop time. *)
AtLimit ==
  /\ pc = "solve"
  /\ time = call.limit
  /\ status' = StatusAt(time)
  /\ EndWithoutSample
  /\ UNCHANGED decisions

Exhausted ==
  CASE Len(samples) >= MaxAccepted -> "AcceptedStepLimit"
    [] Len(samples) < MaxAccepted /\ RejectedCount >= MaxRejected -> "RejectedStepLimit"
    [] OTHER -> "Running"

(* A spent budget bounds the session before anything is attempted. *)
BudgetSpent ==
  /\ pc = "solve"
  /\ time # call.limit
  /\ Exhausted # "Running"
  /\ status' = Exhausted
  /\ EndWithoutSample
  /\ UNCHANGED decisions

Solving == pc = "solve" /\ time # call.limit /\ Exhausted = "Running"

(* validate_run_policy on the policy of this one step *)
PolicyRefused == nextTimestep < MinimumTimestep

RunRefused ==
  /\ Solving
  /\ PolicyRefused
  /\ Return("InvalidPolicy")
  /\ UNCHANGED <<vars, sessionVars, call>>

Sample(step) == [time |-> time + step, timestep |-> step]

(* next_session_timestep *)
NextTimestep(accepted, small) ==
  IF ~Fixed /\ small THEN Min({accepted * GrowthFactor, MaximumTimestep}) ELSE accepted

(* The run accepts its attempt after k rejections, and the agenda's clock   *)
(* follows the sample.                                                      *)
StepAccepted(k, small) ==
  /\ Solving
  /\ ~PolicyRefused
  /\ k < RemainingRejections
  /\ Fixed => k = 0 /\ ~small
  /\ LET attempt == Attempts(call.limit)
         step == attempt[k]
     IN /\ \A i \in 1..k : ShrinksTo(attempt, i)
        /\ ~KnownRejection(step)
        /\ decisions' = decisions \o Append(Rejections(attempt, k), Decision(step, TRUE))
        /\ IF WouldSkip(time + step)
           THEN /\ Return("Agenda")
                /\ UNCHANGED <<vars, time, nextTimestep, samples, status, call>>
           ELSE /\ AdvanceTime(time + step)
                /\ time' = time + step
                /\ nextTimestep' = NextTimestep(step, small)
                /\ samples' = Append(samples, Sample(step))
                /\ status' = StatusAt(time + step)
                /\ call' = [call EXCEPT !.progress = TRUE]
                /\ pc' = "deliver"
                /\ UNCHANGED outcome
  /\ UNCHANGED <<schedules, sourceBreaks, applied, delivered>>

(* The run stops after k rejections without a sample: the rejections are    *)
(* used up, or another refinement would cross the minimum timestep.         *)
StepBounded(k) ==
  /\ Solving
  /\ ~PolicyRefused
  /\ ~Fixed
  /\ k <= RemainingRejections
  /\ LET attempt == Attempts(call.limit)
     IN /\ \A i \in 1..k - 1 : ShrinksTo(attempt, i)
        /\ k < RemainingRejections => ~ShrinksTo(attempt, k)
        /\ decisions' = decisions \o Rejections(attempt, k)
  /\ status' = IF k = RemainingRejections THEN "RejectedStepLimit" ELSE "MinimumTimestep"
  /\ EndWithoutSample

-----------------------------------------------------------------------------
CallStep ==
  \/ DeliverDue
  \/ EndStep
  \/ CallbackReturns
  \/ CallbackFails
  \/ AtLimit
  \/ BudgetSpent
  \/ RunRefused
  \/ \E k \in 0..MaxRejected, small \in BOOLEAN : StepAccepted(k, small)
  \/ \E k \in 1..MaxRejected : StepBounded(k)

BeginCall ==
  \/ BeginStep
  \/ BeginRuntime
  \/ \E target \in Times : BeginUntil(target)

SessionNext ==
  \/ Author
  \/ \E times \in Schedules : AddBreakpointSchedule(times)
  \/ BeginCall
  \/ CallbackActs
  \/ CallStep

SessionSpec == SessionInit /\ [][SessionNext]_allVars

(* A call in progress runs on: it is one thread, and callbacks return.      *)
FairSessionSpec == SessionSpec /\ WF_allVars(CallStep)

-----------------------------------------------------------------------------
(* Properties.                                                             *)

(* The two clocks of a session never part: the agenda accepts every advance *)
(* the analog side asks for, because no accepted step reaches past a        *)
(* pending event, whatever callbacks and authors have scheduled meanwhile.  *)
ClocksAgree == now = time /\ outcome # "Agenda"

(* The instant sample i of a waveform starts at: where the one before it     *)
(* ends.                                                                    *)
StartOf(waveform, i) == IF i = 1 THEN StartTime ELSE waveform[i - 1].time

(* The accepted decision sample i of a waveform comes from.                 *)
DecisionOf(waveform, i) ==
  [start |-> StartOf(waveform, i), timestep |-> waveform[i].timestep, accepted |-> TRUE]

(* Where an attempt leaves the session: a rejected one does not move it.    *)
EndOf(d) == IF d.accepted THEN d.start + d.timestep ELSE d.start

(* The accepted samples tile the time from the start to the session clock   *)
(* without a gap or an overlap, and they are the accepted decisions; no     *)
(* decision starts before an earlier one has ended: the waveform a report   *)
(* shows is the one the session integrated.                                 *)
SamplesTile ==
  /\ \A i \in DOMAIN samples : samples[i].time = StartOf(samples, i) + samples[i].timestep
  /\ time = StartOf(samples, Len(samples) + 1)
  /\ {d \in Elements(decisions) : d.accepted} =
       {DecisionOf(samples, i) : i \in DOMAIN samples}
  /\ \A i, j \in DOMAIN decisions : i < j => EndOf(decisions[i]) <= decisions[j].start

(* The session's own record of deliveries is the agenda's, in order, and    *)
(* every delivery happened at an instant the analog solution stands for:    *)
(* the start, or the endpoint of an accepted sample.                        *)
DeliveredAtEndpoints ==
  /\ Elements(delivered) = DeliveredIn(lifecycle) /\ Sorted(delivered)
  /\ \A e \in Elements(delivered) :
       e.time = StartTime \/ \E j \in DOMAIN samples : samples[j].time = e.time

(* A completed session stands at its stop time, and one that stands there   *)
(* after an analog step is complete.                                        *)
CompleteAtStop ==
  /\ status = "Complete" => time = StopTime
  /\ time = StopTime => status = "Complete"

(* The budgets bound the whole session, however many calls it is run with,  *)
(* although each call starts a run with limits of its own.                  *)
BudgetsHold == Len(samples) <= MaxAccepted /\ RejectedCount <= MaxRejected

(* What a report says is what the session did: its waveform, its deliveries *)
(* and its status, within its budgets.                                      *)
ReportIsTrue == SamplesTile /\ DeliveredAtEndpoints /\ CompleteAtStop /\ BudgetsHold

(* A session stays true to its agenda's clock and to its report.            *)
SessionIsTrue == ClocksAgree /\ ReportIsTrue

(* No analog step jumps over an instant where the circuit changes: a source *)
(* or schedule breakpoint in force, or an event pending, when it is taken.  *)
NoBreakpointJumped ==
  [][\A t \in Breakpoints \cup {e.time : e \in Elements(pending)} :
       time < t => time' <= t]_allVars

(* A call that returns normally leaves nothing due at the session clock,    *)
(* callbacks' own emissions included, and step_until returns at its target  *)
(* unless the session is over.                                              *)
SettledOnReturn ==
  [][pc # "idle" /\ pc' = "idle" /\ outcome' = "Ok" =>
       /\ ~Due'
       /\ call.kind = "until" => time' = call.limit \/ status' # "Running"]_allVars

(* Every stepping call returns: the target loop of step_until ends also     *)
(* when a budget stops the session short of the target, and callbacks that  *)
(* keep emitting at the current instant are cut off.                        *)
CallsReturn == pc # "idle" ~> pc = "idle"

(* A policy the session accepted at its creation is never found invalid     *)
(* later: a step cut short by an event or a target is an exception the      *)
(* minimum timestep allows, and the session goes on after it.               *)
PolicyStaysValid == outcome # "InvalidPolicy"
=============================================================================
