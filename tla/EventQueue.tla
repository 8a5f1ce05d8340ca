----------------------------- MODULE EventQueue -----------------------------
(***************************************************************************)
(* What an event agenda promises, without its deque: a set of waiting      *)
(* events, a clock, and the events served so far.  Serving always takes    *)
(* the least waiting event by (time, phase, identity), and nothing may     *)
(* join the queue ahead of an event that was already served.               *)
(***************************************************************************)
EXTENDS Integers

CONSTANT StartTime

VARIABLES clock, queue, served

queueVars == <<clock, queue, served>>

Before(a, b) ==
  \/ a.time < b.time
  \/ a.time = b.time /\ a.phase < b.phase
  \/ a.time = b.time /\ a.phase = b.phase /\ a.id < b.id

(* An event may join while the clock and the served events are behind it. *)
MayJoin(e) == e.time >= clock /\ \A s \in served : Before(s, e)

QueueInit ==
  /\ clock = StartTime
  /\ queue = {}
  /\ served = {}

Enqueue(S) ==
  /\ S \cap queue = {}
  /\ \A e \in S : MayJoin(e)
  /\ queue' = queue \cup S
  /\ UNCHANGED <<clock, served>>

Drop(e) ==
  /\ queue' = queue \ {e}
  /\ UNCHANGED <<clock, served>>

Replace(old, new) ==
  /\ new \notin queue
  /\ MayJoin(new)
  /\ queue' = (queue \ {old}) \cup {new}
  /\ UNCHANGED <<clock, served>>

(* Time passes only while it leaves no waiting event behind. *)
Pass(t) ==
  /\ t > clock
  /\ \A e \in queue : e.time >= t
  /\ clock' = t
  /\ UNCHANGED <<queue, served>>

(* The least waiting event is served and sets the clock. *)
Serve(e) ==
  /\ e \notin served
  /\ \A o \in queue \ {e} : Before(e, o)
  /\ \A s \in served : Before(s, e)
  /\ clock' = e.time
  /\ queue' = queue \ {e}
  /\ served' = served \cup {e}

QueueNext ==
  \/ queue \subseteq queue' /\ Enqueue(queue' \ queue)
  \/ \E e \in queue : Drop(e)
  \/ \E old \in queue : \E new \in queue' : Replace(old, new)
  \/ Pass(clock')
  \/ \E e \in queue : Serve(e)

QueueSpec == QueueInit /\ [][QueueNext]_queueVars
=============================================================================
