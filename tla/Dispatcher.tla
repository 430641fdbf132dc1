------------------------------ MODULE Dispatcher ------------------------------
(***************************************************************************)
(* infrastructure/events/in_process_dispatcher.py: threads publish events  *)
(* into a queue, one thread takes them out and runs their handlers, stop() *)
(* ends that thread with a sentinel in the same queue, and a caller of     *)
(* wait_until_idle waits for a counter of unfinished events to reach 0.    *)
(*                                                                         *)
(* A handler that raises is logged and counts as run.  _stop_requested is  *)
(* never read and left out.                                                *)
(***************************************************************************)
EXTENDS Naturals, FiniteSets, SequencesExt

CONSTANTS
  Events,         \* one publish() each
  Loops,          \* identities of the threads that start() creates
  JoinCompletes,  \* TRUE: stop() always sees its thread end within 5 s
  MaxStops        \* bound

Sentinel == "sentinel"
NoThread == "none"
NoEvent == "none"

ASSUME EventsAssumption == IsFiniteSet(Events) /\ {Sentinel, NoEvent} \cap Events = {}
ASSUME LoopsAssumption == NoThread \notin Loops
ASSUME SwitchAssumption == JoinCompletes \in BOOLEAN
ASSUME BoundAssumption == MaxStops \in Nat

\* Definitions named ..._mutant are plausible bugs of the definition after them;
\* no action uses them, the properties are tested against them.

VARIABLES
  status, thread,   \* _running with the progress of stop(), _thread
  queue, pending,   \* _queue, _pending
  publisher,        \* the step of each publish()
  at, got,          \* each loop: its step in _run, the item it has taken
  waiter,           \* the caller of wait_until_idle()
  order, handled,   \* history: events in the order put, in the order handled,
  abandoned,        \* and whether stop() has given up on its thread
  stops

control == <<status, thread>>
loop == <<at, got>>
history == <<order, handled, abandoned>>
vars == <<control, queue, pending, publisher, loop, waiter, history, stops>>

\* Queue, counter and threads have their types; the sentinels, which nobody counted,
\* never take _pending below 0 (in_process_dispatcher.py:122-125).
TypeOK ==
  /\ status \in {"stopped", "running", "joining"} /\ thread \in Loops \cup {NoThread}
  /\ \A i \in DOMAIN queue : queue[i] \in Events \cup {Sentinel}
  /\ pending \in Nat
  /\ publisher \in [Events -> {"idle", "count", "put", "done", "refused"}]
  /\ at \in [Loops -> {"off", "get", "handle", "release"}]
  /\ got \in [Loops -> Events \cup {Sentinel, NoEvent}]
  /\ waiter \in {"out", "check", "blocked", "idle", "late"}
  /\ {order[i] : i \in DOMAIN order} \cup {handled[i] : i \in DOMAIN handled} \subseteq Events
  /\ abandoned \in BOOLEAN /\ stops \in Nat

Init ==
  /\ status = "stopped" /\ thread = NoThread
  /\ queue = <<>> /\ pending = 0
  /\ publisher = [e \in Events |-> "idle"]
  /\ at = [w \in Loops |-> "off"] /\ got = [w \in Loops |-> NoEvent]
  /\ waiter = "out"
  /\ order = <<>> /\ handled = <<>> /\ abandoned = FALSE
  /\ stops = 0

-----------------------------------------------------------------------------
(* publish *)

Publisher(e, from, to) == publisher[e] = from /\ publisher' = [publisher EXCEPT ![e] = to]

\* RuntimeError when the dispatcher is not running.
BeginPublish(e) ==
  /\ Publisher(e, "idle", IF status = "stopped" THEN "refused" ELSE "count")
  /\ UNCHANGED <<control, queue, pending, loop, waiter, history, stops>>

Count_mutant(e) ==   \* not counted
  /\ Publisher(e, "count", "put")
  /\ UNCHANGED <<control, queue, pending, loop, waiter, history, stops>>

Count(e) ==
  /\ Publisher(e, "count", "put")
  /\ pending' = pending + 1
  /\ UNCHANGED <<control, queue, loop, waiter, history, stops>>

Put(e) ==
  /\ Publisher(e, "put", "done")
  /\ queue' = Append(queue, e)
  /\ order' = Append(order, e)
  /\ UNCHANGED <<control, pending, loop, waiter, handled, abandoned, stops>>

-----------------------------------------------------------------------------
(* _run *)

Get_mutant(w) ==   \* leaves the item in the queue
  /\ at[w] = "get" /\ queue # <<>>
  /\ got' = [got EXCEPT ![w] = Head(queue)]
  /\ at' = [at EXCEPT ![w] = IF Head(queue) = Sentinel THEN "release" ELSE "handle"]
  /\ UNCHANGED <<control, queue, pending, publisher, waiter, history, stops>>

Get(w) ==
  /\ at[w] = "get" /\ queue # <<>>
  /\ got' = [got EXCEPT ![w] = Head(queue)]
  /\ queue' = Tail(queue)
  /\ at' = [at EXCEPT ![w] = IF Head(queue) = Sentinel THEN "release" ELSE "handle"]
  /\ UNCHANGED <<control, pending, publisher, waiter, history, stops>>

Handle_mutant(w) ==   \* an exception ends the thread
  /\ at[w] = "handle"
  /\ at' = [at EXCEPT ![w] = "off"]
  /\ UNCHANGED <<control, queue, pending, publisher, got, waiter, history, stops>>

\* dispatch: every handler of the event's type, until one raises.
Handle(w) ==
  /\ at[w] = "handle"
  /\ handled' = Append(handled, got[w])
  /\ at' = [at EXCEPT ![w] = "release"]
  /\ UNCHANGED <<control, queue, pending, publisher, got, waiter, order, abandoned, stops>>

Notify_mutant(w) == w
Notify(w) == IF w = "blocked" THEN "check" ELSE w

\* The finally clause, which the return on the sentinel goes through as well.
Release(w) ==
  /\ at[w] = "release"
  /\ pending' = IF pending > 0 THEN pending - 1 ELSE 0
  /\ waiter' = Notify(waiter)
  /\ at' = [at EXCEPT ![w] = IF got[w] = Sentinel THEN "off" ELSE "get"]
  /\ got' = [got EXCEPT ![w] = NoEvent]
  /\ UNCHANGED <<control, queue, publisher, history, stops>>

LoopStep(w) == Get(w) \/ Handle(w) \/ Release(w)

-----------------------------------------------------------------------------
(* start, stop, wait_until_idle *)

Start(w) ==
  /\ status = "stopped" /\ at[w] = "off"
  /\ status' = "running" /\ thread' = w
  /\ at' = [at EXCEPT ![w] = "get"]
  /\ UNCHANGED <<queue, pending, publisher, got, waiter, history, stops>>

Stop ==
  /\ stops < MaxStops /\ status = "running"
  /\ stops' = stops + 1
  /\ status' = "joining"
  /\ queue' = Append(queue, Sentinel)
  /\ UNCHANGED <<thread, pending, publisher, loop, waiter, history>>

\* join(timeout=5.0) returns, and _running becomes False.
Joined ==
  /\ status = "joining"
  /\ at[thread] = "off" \/ ~JoinCompletes
  /\ status' = "stopped" /\ thread' = NoThread
  /\ abandoned' = (abandoned \/ at[thread] # "off")
  /\ UNCHANGED <<queue, pending, publisher, loop, waiter, order, handled, stops>>

Wait ==
  /\ waiter \in {"out", "idle", "late"}
  /\ waiter' = "check"
  /\ UNCHANGED <<control, queue, pending, publisher, loop, history, stops>>

EvaluateIdle ==
  /\ waiter = "check"
  /\ waiter' = IF pending = 0 THEN "idle" ELSE "blocked"
  /\ UNCHANGED <<control, queue, pending, publisher, loop, history, stops>>

\* With a timeout the predicate is evaluated once more.
WaitTimesOut ==
  /\ waiter = "blocked"
  /\ waiter' = IF pending = 0 THEN "idle" ELSE "late"
  /\ UNCHANGED <<control, queue, pending, publisher, loop, history, stops>>

Next ==
  \/ \E e \in Events : BeginPublish(e) \/ Count(e) \/ Put(e)
  \/ \E w \in Loops : LoopStep(w) \/ Start(w)
  \/ Stop \/ Joined \/ Wait \/ EvaluateIdle \/ WaitTimesOut

Spec == Init /\ [][Next]_vars

\* Threads that can run are scheduled, and join() comes back after 5 seconds; a
\* waiter's timeout need not come.
Fairness ==
  /\ \A e \in Events : WF_vars(Count(e) \/ Put(e))
  /\ \A w \in Loops : WF_vars(LoopStep(w))
  /\ WF_vars(EvaluateIdle) /\ WF_vars(Joined)

FairSpec == Spec /\ Fairness

-----------------------------------------------------------------------------
(* Properties. *)

InHand == {w \in Loops : at[w] = "handle"}

\* Where an event is, once it has been put.
Places(e) ==
  ({"handled"} \X {k \in DOMAIN handled : handled[k] = e})
    \cup ({"hand"} \X {w \in InHand : got[w] = e})
    \cup ({"queue"} \X {k \in DOMAIN queue : queue[k] = e})

\* With stop() and start() at any moment events are handled in the order they were
\* put: the one in the hands of the thread comes next, those in the queue follow in
\* their order, as long as stop() has not given up on a thread
\* (in_process_dispatcher.py:42-57, 112-126).
HandledInOrder ==
  ~abandoned =>
    /\ Cardinality(InHand) <= 1
    /\ IsPrefix(handled, order)
    /\ \A w \in InHand : got[w] = order[Len(handled) + 1]
    /\ \A k, l \in DOMAIN queue : k < l /\ Sentinel \notin {queue[k], queue[l]} =>
         \E i, j \in DOMAIN order : i < j /\ order[i] = queue[k] /\ order[j] = queue[l]

\* Also when stop() gives up on its thread and start() adds a second one, an event
\* is neither lost nor handled twice: it is in one place.
HandledOnce == \A i \in DOMAIN order : Cardinality(Places(order[i])) = 1

\* Events are handled once, in order, whenever stop() and start() are called.
HandledOnceInOrder == HandledOnce /\ HandledInOrder

\* Until somebody calls stop(), wait_until_idle answers True only when every event
\* whose publish() has returned was handled (in_process_dispatcher.py:101-110).
IdleMeansHandled ==
  [][stops' = 0 /\ waiter # "idle" /\ waiter' = "idle" =>
       \A e \in Events : publisher[e] = "done" => \E i \in DOMAIN handled : handled[i] = e]_vars

\* Every published event is eventually handled, unless the dispatcher is stopped.
EveryPublishedHandled ==
  \A e \in Events :
    publisher[e] = "done" ~> status = "stopped" \/ \E i \in DOMAIN handled : handled[i] = e

\* A caller of wait_until_idle is woken and returns, unless the dispatcher is stopped.
WaiterReturns == waiter = "check" ~> status = "stopped" \/ waiter \notin {"check", "blocked"}

\* Types hold and, once the publishers have returned and nothing is left in the queue or in hand,
\* nothing is counted: wait_until_idle answers True after stop(), too, but for events
\* behind the sentinel (tests/test_in_process_event_dispatcher.py:42-43).
NothingLeftNothingCounted ==
  /\ TypeOK
  /\ (\A e \in Events : publisher[e] \in {"idle", "done", "refused"}) /\ queue = <<>>
       /\ (\A w \in Loops : at[w] \in {"off", "get"})
     => pending = 0
=============================================================================
