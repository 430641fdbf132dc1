---------------------------- MODULE OutboxWorker ----------------------------
(***************************************************************************)
(* infrastructure/events/outbox_worker.py over the SQLite outbox           *)
(* (infrastructure/sqlite/outbox_repository.py): request threads save      *)
(* events, a background loop fetches a batch, dispatches each entry to its *)
(* handlers and records the outcome, an operator requeues dead letters,    *)
(* the lifespan starts and stops the loop, and the process may crash.      *)
(*                                                                         *)
(* The outbox's own lock makes each of its operations one step for every   *)
(* other user of the outbox; everything between two of them is a point     *)
(* where another thread may run.  What the connection that the outbox      *)
(* shares with the other repositories adds is in SharedConnection.         *)
(* The rows survive a crash, the worker object does not.                   *)
(***************************************************************************)
EXTENDS Naturals, FiniteSets

CONSTANTS
  Events,         \* event ids, numbered in the order of occurred_at
  HandlerCount,   \* handlers registered for the events' type
  MaxRetry,       \* OutboxWorker.max_retry_count
  Loops,          \* identities of the loop threads that start() creates
  JoinCompletes,  \* TRUE: stop() always sees its thread end within 5 s
  MaxFailures,    \* bound: repository calls of the loop that raise
  MaxCrashes, MaxRequeues, MaxStops   \* bounds of the environment

NoThread == "none"   \* thread is None

ASSUME EventsAssumption == Events \subseteq Nat \ {0} /\ IsFiniteSet(Events)
ASSUME HandlerCountAssumption == HandlerCount \in Nat
ASSUME MaxRetryAssumption == MaxRetry \in Nat \ {0}
ASSUME SwitchAssumption == JoinCompletes \in BOOLEAN
ASSUME LoopsAssumption == NoThread \notin Loops
ASSUME BoundAssumption == {MaxFailures, MaxCrashes, MaxRequeues, MaxStops} \subseteq Nat

VARIABLES
  \* the table event_outbox
  saved, published, failed,   \* rows, rows with published = 1, with permanently_failed = 1
  retries,                    \* retry_count
  \* OutboxWorker
  status, thread, pending,   \* _running and the progress of stop(), _thread, _pending
  \* each loop thread: where it is in run_once/_run and its locals
  pc, todo, cur, step, taken, \* todo: entries not yet finished; taken: len(entries)
  waiter,                     \* the caller of wait_until_idle()
  \* history and environment
  ran, failures, crashes, requeues, stops

rows == <<saved, published, failed, retries>>
worker == <<status, thread, pending>>
locals == <<pc, todo, cur, step, taken>>
bounds == <<failures, crashes, requeues, stops>>
vars == <<rows, worker, locals, waiter, ran, bounds>>

Handlers == 1..HandlerCount

Places == {"off", "dead", "fetch", "enter", "handle", "retry", "reread", "fail",
           "finish", "loop", "rest", "sleep"}
InBatch == {"handle", "retry", "reread", "fail", "finish"}   \* inside run_once's try
AtEntry == InBatch \ {"finish"}

\* Rows, counters and locals have their types; _pending never becomes negative, which
\* max(0, ...) in run_once is there for (outbox_worker.py:133).
TypeOK ==
  /\ saved \subseteq Events /\ published \subseteq Events /\ failed \subseteq Events
  /\ retries \in [Events -> Nat]
  /\ status \in {"stopped", "running", "joining"} /\ thread \in Loops \cup {NoThread} /\ pending \in Nat
  /\ pc \in [Loops -> Places]
  /\ todo \in [Loops -> SUBSET Events]
  /\ cur \in [Loops -> Events \cup {0}]
  /\ step \in [Loops -> Nat]
  /\ taken \in [Loops -> Nat]
  /\ waiter \in {"out", "check", "blocked", "idle", "late"}
  /\ ran \in [Events -> SUBSET Handlers]
  /\ failures \in Nat /\ crashes \in Nat /\ requeues \in Nat /\ stops \in Nat

Init ==
  /\ saved = {} /\ published = {} /\ failed = {}
  /\ retries = [e \in Events |-> 0]
  /\ status = "stopped" /\ thread = NoThread /\ pending = 0
  /\ pc = [w \in Loops |-> "off"]
  /\ todo = [w \in Loops |-> {}]
  /\ cur = [w \in Loops |-> 0]
  /\ step = [w \in Loops |-> 0]
  /\ taken = [w \in Loops |-> 0]
  /\ waiter = "out"
  /\ ran = [e \in Events |-> {}]
  /\ failures = 0 /\ crashes = 0 /\ requeues = 0 /\ stops = 0

-----------------------------------------------------------------------------
(* The table. *)

\* Definitions named ..._mutant are plausible bugs of the definition after them;
\* no action uses them, the properties are tested against them.

Unsettled == saved \ (published \cup failed)
Eligible_mutant == {e \in Unsettled : retries[e] <= MaxRetry}
Eligible == {e \in Unsettled : retries[e] < MaxRetry}   \* get_unpublished(max_retry_count)

\* _condition.notify_all(): a blocked waiter evaluates _is_idle again.
Notify(w) == IF w = "blocked" THEN "check" ELSE w

\* A request thread saves a new event; the notifier is OutboxWorker.wake.
Save(e) ==
  /\ e \notin saved
  /\ saved' = saved \cup {e}
  /\ waiter' = Notify(waiter)
  /\ UNCHANGED <<published, failed, retries, worker, locals, ran, bounds>>

Requeue_mutant(S) ==   \* without "permanently_failed = 1"
  /\ requeues < MaxRequeues
  /\ S # {} /\ S \subseteq saved
  /\ published' = published \ S
  /\ failed' = failed \ S
  /\ retries' = [e \in Events |-> IF e \in S THEN 0 ELSE retries[e]]
  /\ waiter' = Notify(waiter)
  /\ requeues' = requeues + 1
  /\ UNCHANGED <<saved, worker, locals, ran, failures, crashes, stops>>

\* requeue(entry_ids): one UPDATE over the ids that are permanently failed.
Requeue(S) ==
  /\ requeues < MaxRequeues
  /\ S # {} /\ S \subseteq failed
  /\ published' = published \ S
  /\ failed' = failed \ S
  /\ retries' = [e \in Events |-> IF e \in S THEN 0 ELSE retries[e]]
  /\ waiter' = Notify(waiter)
  /\ requeues' = requeues + 1
  /\ UNCHANGED <<saved, worker, locals, ran, failures, crashes, stops>>

-----------------------------------------------------------------------------
(* The loop: run_once called by _run. *)

GoTo(w, place) == pc' = [pc EXCEPT ![w] = place]

\* The next iteration of "for entry in entries" (ORDER BY occurred_at), or
\* the end of the loop.
NextEntry(w, left) ==
  /\ todo' = [todo EXCEPT ![w] = left]
  /\ step' = [step EXCEPT ![w] = 1]
  /\ IF left = {}
     THEN GoTo(w, "finish") /\ UNCHANGED cur
     ELSE /\ GoTo(w, "handle")
          /\ \E e \in left : (\A f \in left : e <= f) /\ cur' = [cur EXCEPT ![w] = e]

\* get_unpublished; no entries: run_once returns 0.
Fetch(w) ==
  /\ pc[w] = "fetch"
  /\ GoTo(w, IF Eligible = {} THEN "rest" ELSE "enter")
  /\ todo' = [todo EXCEPT ![w] = Eligible]
  /\ UNCHANGED <<rows, worker, cur, step, taken, waiter, ran, bounds>>

\* A repository call raises: disk full, or the connection is inside a transaction.
RepositoryRaises ==
  /\ failures < MaxFailures
  /\ failures' = failures + 1
  /\ UNCHANGED <<crashes, requeues, stops>>

\* get_unpublished raises before the try: _run has no handler, the thread ends.
FetchRaises(w) ==
  /\ RepositoryRaises
  /\ pc[w] = "fetch"
  /\ GoTo(w, "dead")
  /\ UNCHANGED <<rows, worker, todo, cur, step, taken, waiter, ran>>

\* self._pending += len(entries), then the first entry.
Enter(w) ==
  /\ pc[w] = "enter"
  /\ taken' = [taken EXCEPT ![w] = Cardinality(todo[w])]
  /\ pending' = pending + Cardinality(todo[w])
  /\ NextEntry(w, todo[w])
  /\ UNCHANGED <<rows, status, thread, waiter, ran, bounds>>

\* dispatcher.dispatch: the handlers run in order ...
Handle(w) ==
  /\ pc[w] = "handle" /\ step[w] <= HandlerCount
  /\ ran' = [ran EXCEPT ![cur[w]] = @ \cup {step[w]}]
  /\ step' = [step EXCEPT ![w] = @ + 1]
  /\ UNCHANGED <<rows, worker, pc, todo, cur, taken, waiter, bounds>>

\* ... and the first one that raises ends the dispatch.
HandlerRaises(w) ==
  /\ pc[w] = "handle" /\ step[w] <= HandlerCount
  /\ GoTo(w, "retry")
  /\ UNCHANGED <<rows, worker, todo, cur, step, taken, waiter, ran, bounds>>

Dispatched_mutant(w) == pc[w] = "handle" /\ step[w] >= HandlerCount
Dispatched(w) == pc[w] = "handle" /\ step[w] > HandlerCount

MarkPublished(w) ==
  /\ Dispatched(w)
  /\ published' = published \cup {cur[w]}
  /\ NextEntry(w, todo[w] \ {cur[w]})
  /\ UNCHANGED <<saved, failed, retries, worker, taken, waiter, ran, bounds>>

\* mark_published, or the reads it and the metrics do after its commit, raise.
MarkPublishedRaises(w) ==
  /\ RepositoryRaises
  /\ Dispatched(w)
  /\ published' \in {published, published \cup {cur[w]}}
  /\ GoTo(w, "retry")
  /\ UNCHANGED <<saved, failed, retries, worker, todo, cur, step, taken, waiter, ran>>

IncrementRetry(w) ==
  /\ pc[w] = "retry"
  /\ retries' = [retries EXCEPT ![cur[w]] = @ + 1]
  /\ GoTo(w, "reread")
  /\ UNCHANGED <<saved, published, failed, worker, todo, cur, step, taken, waiter, ran, bounds>>

CheckRetry_mutant(w) ==   \* > for >=
  /\ pc[w] = "reread"
  /\ IF retries[cur[w]] > MaxRetry
     THEN GoTo(w, "fail") /\ UNCHANGED <<todo, cur, step>>
     ELSE NextEntry(w, todo[w] \ {cur[w]})
  /\ UNCHANGED <<rows, worker, taken, waiter, ran, bounds>>

\* increment_retry returns the row as read again after its commit.
CheckRetry(w) ==
  /\ pc[w] = "reread"
  /\ IF retries[cur[w]] >= MaxRetry
     THEN GoTo(w, "fail") /\ UNCHANGED <<todo, cur, step>>
     ELSE NextEntry(w, todo[w] \ {cur[w]})
  /\ UNCHANGED <<rows, worker, taken, waiter, ran, bounds>>

MarkFailed(w) ==
  /\ pc[w] = "fail"
  /\ failed' = failed \cup {cur[w]}
  /\ NextEntry(w, todo[w] \ {cur[w]})
  /\ UNCHANGED <<saved, published, retries, worker, taken, waiter, ran, bounds>>

LeaveBatch_mutant(w, place) ==   \* gives back one entry, not the batch
  /\ pending' = IF pending > 0 THEN pending - 1 ELSE 0
  /\ waiter' = Notify(waiter)
  /\ GoTo(w, place)

LeaveBatch_mutant2(w, place) ==   \* without notify_all
  /\ pending' = IF taken[w] <= pending THEN pending - taken[w] ELSE 0
  /\ UNCHANGED waiter
  /\ GoTo(w, place)

LeaveBatch_mutant3(w, place) ==   \* counts the batch down to -1, without max(0, ...)
  /\ pending' = pending - taken[w] - 1
  /\ waiter' = Notify(waiter)
  /\ GoTo(w, place)

\* run_once's finally: give back the whole batch and notify.
LeaveBatch(w, place) ==
  /\ pending' = IF taken[w] <= pending THEN pending - taken[w] ELSE 0
  /\ waiter' = Notify(waiter)
  /\ GoTo(w, place)

\* A call made by the except clause raises: it escapes run_once and _run, and
\* the thread ends while _running stays True.
RetryRaises(w) ==
  /\ RepositoryRaises
  /\ pc[w] \in {"retry", "reread", "fail"}
  /\ retries' \in {retries} \cup
       (IF pc[w] = "retry" THEN {[retries EXCEPT ![cur[w]] = @ + 1]} ELSE {})
  /\ failed' \in {failed} \cup (IF pc[w] = "fail" THEN {failed \cup {cur[w]}} ELSE {})
  /\ LeaveBatch(w, "dead")
  /\ UNCHANGED <<saved, published, status, thread, todo, cur, step, taken, ran>>

Finish(w) ==
  /\ pc[w] = "finish"
  /\ LeaveBatch(w, "loop")
  /\ UNCHANGED <<rows, status, thread, todo, cur, step, taken, ran, bounds>>

AfterBatch_mutant(w) ==   \* ends when there was nothing to do
  /\ pc[w] \in {"loop", "rest"}
  /\ GoTo(w, IF status = "running" /\ pc[w] = "loop" THEN "fetch" ELSE "off")
  /\ UNCHANGED <<rows, worker, todo, cur, step, taken, waiter, ran, bounds>>

\* _run after run_once: return when stopped, wait when nothing was processed.
AfterBatch(w) ==
  /\ pc[w] \in {"loop", "rest"}
  /\ GoTo(w, CASE status # "running" -> "off"
               [] status = "running" /\ pc[w] = "loop" -> "fetch"
               [] status = "running" /\ pc[w] = "rest" -> "sleep")
  /\ UNCHANGED <<rows, worker, todo, cur, step, taken, waiter, ran, bounds>>

\* A notification or the poll interval.
Awake(w) ==
  /\ pc[w] = "sleep"
  /\ GoTo(w, "fetch")
  /\ UNCHANGED <<rows, worker, todo, cur, step, taken, waiter, ran, bounds>>

LoopStep(w) ==
  \/ Fetch(w) \/ Enter(w) \/ Handle(w) \/ HandlerRaises(w)
  \/ MarkPublished(w) \/ IncrementRetry(w) \/ CheckRetry(w) \/ MarkFailed(w)
  \/ Finish(w) \/ AfterBatch(w) \/ Awake(w)

StoreFailure(w) == FetchRaises(w) \/ MarkPublishedRaises(w) \/ RetryRaises(w)

-----------------------------------------------------------------------------
(* start, stop, wait_until_idle and the process. *)

Start(w) ==
  /\ status = "stopped"
  /\ pc[w] \in {"off", "dead"}
  /\ status' = "running" /\ thread' = w
  /\ GoTo(w, "fetch")
  /\ UNCHANGED <<rows, pending, todo, cur, step, taken, waiter, ran, bounds>>

Stop ==
  /\ stops < MaxStops
  /\ status = "running"
  /\ status' = "joining"
  /\ waiter' = Notify(waiter)
  /\ stops' = stops + 1
  /\ UNCHANGED <<rows, thread, pending, locals, ran, failures, crashes, requeues>>

\* join(timeout=5.0) returns when the thread has ended, or after 5 seconds.
Joined ==
  /\ status = "joining"
  /\ pc[thread] \in {"off", "dead"} \/ ~JoinCompletes
  /\ status' = "stopped" /\ thread' = NoThread
  /\ UNCHANGED <<rows, pending, locals, waiter, ran, bounds>>

Wait ==
  /\ waiter \in {"out", "idle", "late"}
  /\ waiter' = "check"
  /\ UNCHANGED <<rows, worker, locals, ran, bounds>>

IsIdle_mutant == Eligible = {}
IsIdle == pending = 0 /\ Eligible = {}

EvaluateIdle ==
  /\ waiter = "check"
  /\ waiter' = IF IsIdle THEN "idle" ELSE "blocked"
  /\ UNCHANGED <<rows, worker, locals, ran, bounds>>

\* wait_for times out: it evaluates the predicate once more.
WaitTimesOut ==
  /\ waiter = "blocked"
  /\ waiter' = IF IsIdle THEN "idle" ELSE "late"
  /\ UNCHANGED <<rows, worker, locals, ran, bounds>>

\* The process ends; the rows stay, a new process builds a new worker.
Crash ==
  /\ crashes < MaxCrashes
  /\ crashes' = crashes + 1
  /\ status' = "stopped" /\ thread' = NoThread /\ pending' = 0
  /\ pc' = [w \in Loops |-> "off"]
  /\ todo' = [w \in Loops |-> {}]
  /\ waiter' = "out"
  /\ UNCHANGED <<rows, cur, step, taken, ran, failures, requeues, stops>>

Next ==
  \/ \E e \in Events : Save(e)
  \/ \E S \in SUBSET Events : Requeue(S)
  \/ \E w \in Loops : LoopStep(w) \/ StoreFailure(w) \/ Start(w)
  \/ Stop \/ Joined \/ Wait \/ EvaluateIdle \/ WaitTimesOut \/ Crash

Spec == Init /\ [][Next]_vars

\* A thread that can run is scheduled, and the application's lifespan starts
\* the loop.  Requests, operators, handlers' outcomes and failures are free.
Fairness ==
  /\ \A w \in Loops : WF_vars(LoopStep(w))
  /\ WF_vars(\E w \in Loops : Start(w))
  /\ WF_vars(Joined) /\ WF_vars(EvaluateIdle)

FairSpec == Spec /\ Fairness

-----------------------------------------------------------------------------
(* Properties. *)

Active(w) == pc[w] \notin {"off", "dead"}

\* An event is only ever recorded as published after every handler registered
\* for it has run, whatever fails or restarts in between (outbox_worker.py:91-93).
PublishedWereHandled == \A e \in published : ran[e] = Handlers

\* Only an event that used up its attempts is dead-lettered (outbox_worker.py:116-117).
DeadLettersExhausted == \A e \in failed : retries[e] >= MaxRetry

\* No event is attempted more often than max_retry_count between two requeues.
RetriesBounded == \A e \in Events : retries[e] <= MaxRetry

\* An event is attempted up to max_retry_count times, and given up only then.
AttemptsRespected == RetriesBounded /\ DeadLettersExhausted

\* Until the process crashes or a call raises, an event whose attempts are used up and
\* that is not dead-lettered is one the loop is about to dead-letter: the worker's
\* query and get_failed would both miss it (outbox_worker.py:106-117).
NoForgottenEvent ==
  crashes = 0 /\ failures = 0 => \A e \in Unsettled :
    retries[e] >= MaxRetry => \E w \in Loops : pc[w] \in {"reread", "fail"} /\ cur[w] = e

\* The entries that loops have counted and not given back, numbered within their batch.
InProgress == UNION {{w} \X (1..taken[w]) : w \in {v \in Loops : pc[v] \in InBatch}}

\* _pending counts the entries of the batches in progress, and nothing else, also when
\* a loop that stop() gave up on works beside a new one (outbox_worker.py:74-75, 131-134).
PendingCountsTheBatch == pending = Cardinality(InProgress)

\* wait_until_idle answers True only when no loop is working on an event and every
\* event saved so far is settled, but for those that a crash or a call that raised
\* has left behind (outbox_worker.py:57-65, 145-148).
IdleMeansSettled ==
  [][waiter # "idle" /\ waiter' = "idle" =>
       /\ \A w \in Loops : pc[w] \notin AtEntry
       /\ crashes = 0 /\ failures = 0 => Unsettled = {}]_vars

\* Every saved event is eventually published or dead-lettered, across crashes and
\* restarts; only a crash may leave one behind, with all its attempts used, and only a
\* call that raises may end the loop before (outbox_worker.py:71-117).
EverySavedSettles ==
  \A e \in Events :
    e \in saved ~> \/ e \in published \cup failed
                   \/ crashes > 0 /\ retries[e] >= MaxRetry
                   \/ failures > 0

\* A caller blocked in wait_until_idle(None) is woken and returns, unless a call that
\* raised has ended the loop it waits for.
WaiterReturns ==
  waiter = "check" ~> waiter \notin {"check", "blocked"} \/ failures > 0

-----------------------------------------------------------------------------
(* The refinement mapping: OutboxEntry.state. *)
StateOf(e) ==
  CASE e \notin saved -> "ABSENT"
    [] e \in failed -> "DEAD_LETTER"
    [] e \in published \ failed -> "PUBLISHED"
    [] OTHER -> "PENDING"

Promise == INSTANCE Outbox WITH state <- [e \in Events |-> StateOf(e)]

\* The worker keeps what Outbox promises, whatever handlers raise and however often it
\* crashes and restarts, until a repository call raises: a mark_published that raises
\* after its commit leaves a published event to be dispatched again (outbox_worker.py:94).
PromiseKept == Promise!Init /\ [][failures' = 0 => [Promise!Next]_(Promise!vars)]_vars
=============================================================================
