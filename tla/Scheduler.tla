----------------------------- MODULE Scheduler -----------------------------
(***************************************************************************)
(* The coroutine scheduler of dwframe: class Scheduler (scheduler.h,       *)
(* scheduler.cc) with the life cycle of the fibers it runs (fiber.cc) and  *)
(* of the pool threads it creates (thread.cc).                             *)
(*                                                                         *)
(* Worker threads, and the caller's thread when use_caller is set, execute *)
(* run(): scan m_fibers under m_mutex, take a task, swap into its fiber,   *)
(* and, once the fiber has swapped out, requeue it, mark it HOLD or forget *)
(* it.  The main thread calls start(), schedule() and stop().              *)
(*                                                                         *)
(* Every critical section of m_mutex is one step; what run() does between  *)
(* two critical sections is split wherever another thread can observe it.  *)
(* A task is a fiber (schedule(Fiber::pointer)) or a callback              *)
(* (schedule(std::function)) that run() wraps in a fiber of its own.       *)
(***************************************************************************)
EXTENDS Integers, FiniteSets, SequencesExt

CONSTANTS
    Workers,      \* the pool threads that start() creates (m_threads)
    Root,         \* the caller's thread, used when UseCaller holds
    UseCaller,    \* the constructor's use_caller
    Tasks,        \* everything that can be scheduled
    Callbacks,    \* the tasks that are std::functions; the others are fibers
    ReadyTasks,   \* the tasks whose body calls Fiber::YieldToReady
    WaitTasks,    \* the tasks whose body registers a wake-up and yields
    Pins,         \* the threads that schedule(fc, thread) is called with
    AnyThread,    \* the default thread argument, -1
    None,         \* no task, a null pointer
    Spare,        \* a cached cb_fiber that was reset(nullptr)
    MaxCalls,     \* bound on calls of schedule() made by users
    MaxStarts,    \* bound on calls of start() that find m_stoping set
    MaxStops      \* bound on calls of stop()

Threads == Workers \cup (IF UseCaller THEN {Root} ELSE {})

ASSUME ThreadsAssumption ==
    /\ IsFiniteSet(Workers)
    /\ UseCaller \in BOOLEAN
    /\ Root \notin Workers
    /\ AnyThread \notin Threads
    /\ Threads # {}
    /\ Pins \subseteq Threads

ASSUME TasksAssumption ==
    /\ Callbacks \subseteq Tasks
    /\ ReadyTasks \subseteq Tasks
    /\ WaitTasks \subseteq Tasks
    /\ None \notin Tasks
    /\ Spare \notin Tasks
    /\ Spare # None

ASSUME BoundsAssumption == {MaxCalls, MaxStarts, MaxStops} \subseteq Nat

VARIABLES
    m_fibers,             \* the run queue: a sequence of [task, thread]
    m_activeThreadCount,  \* threads that are executing a task
    m_idleThreadCount,    \* threads inside their idle fiber
    m_stoping, m_autoStop,
    m_threads,            \* the pool threads stop() has not taken away
    state,                \* Fiber::m_state of each task's fiber
    wake,                 \* the wake-up the task has registered
    pc,                   \* where each thread is in run()
    cur,                  \* ft, or cb_fiber while it runs: the thread's task
    cbFiber,              \* the local variable cb_fiber of run()
    idleTerm,             \* idle_fiber of the thread has terminated
    main,                 \* where the main thread is in start() / stop()
    calls, starts, stops  \* user calls of schedule(), start() and stop() so far

queueVars == <<m_fibers, state, wake>>
stopVars == <<m_stoping, m_autoStop, m_threads, main, starts, stops>>
threadVars == <<pc, cur, cbFiber, idleTerm>>
countVars == <<m_activeThreadCount, m_idleThreadCount>>
vars == <<queueVars, stopVars, threadVars, countVars, calls>>

FiberState == {"INIT", "HOLD", "EXEC", "TERM", "READY", "EXCEPT"}
Ended == {"TERM", "EXCEPT"}
Entry == [task : Tasks, thread : Threads \cup {AnyThread}]

----------------------------------------------------------------------------
(* The run queue *)

Queued(t) == \E i \in DOMAIN m_fibers : m_fibers[i].task = t
Carried(t) == \E w \in Threads : cur[w] = t

(* schedule() and scheduleNolock(): push_back under m_mutex.  tickle() does *)
(* nothing in this class, so need_tickle is not modelled.                   *)
Schedule(t, thr) == m_fibers' = Append(m_fibers, [task |-> t, thread |-> thr])

(* A queue entry holds a callback until run() has given it a fiber. *)
IsCallback(t) == t \in Callbacks /\ state[t] = "INIT"

(* Mutant: the scan does not skip a fiber that still executes. *)
EligibleWhileExec(w, e) == e.thread \in {AnyThread, w}

(* The two skip conditions of the scan in run(). *)
Eligible(w, e) ==
    /\ e.thread \in {AnyThread, w}
    /\ state[e.task] # "EXEC"

(* stopping(): the four conditions read under m_mutex. *)
Drained == m_fibers = <<>> /\ m_activeThreadCount = 0
Stopping == m_autoStop /\ m_stoping /\ Drained

----------------------------------------------------------------------------
(* run(), one thread *)

Goto(w, label) == pc' = [pc EXCEPT ![w] = label]

(* Lines 233-256: erase the first eligible entry and count the thread. *)
Take(w) ==
    /\ pc[w] = "scan"
    /\ \E i \in DOMAIN m_fibers :
          /\ Eligible(w, m_fibers[i])
          /\ \A j \in 1..(i - 1) : ~Eligible(w, m_fibers[j])
          /\ cur' = [cur EXCEPT ![w] = m_fibers[i].task]
          /\ m_fibers' = RemoveAt(m_fibers, i)
    /\ m_activeThreadCount' = m_activeThreadCount + 1
    /\ Goto(w, "taken")
    /\ UNCHANGED <<m_idleThreadCount, state, wake, cbFiber, idleTerm, stopVars, calls>>

(* Lines 262-264: swap into a fiber that can still run. *)
SwapInFiber(w) ==
    /\ pc[w] = "taken"
    /\ ~IsCallback(cur[w])
    /\ state[cur[w]] \notin Ended
    /\ state[cur[w]] # "EXEC"    \* Fiber::swapIn asserts it
    /\ state' = [state EXCEPT ![cur[w]] = "EXEC"]
    /\ wake' = [wake EXCEPT ![cur[w]] = "none"]
    /\ Goto(w, "exec")
    /\ UNCHANGED <<m_fibers, cur, cbFiber, idleTerm, countVars, stopVars, calls>>

(* Lines 274-281: give the callback the cached fiber or a new one.  *)
(* Fiber::reset asserts that the cached fiber is not suspended.     *)
SwapInCallback(w) ==
    /\ pc[w] = "taken"
    /\ IsCallback(cur[w])
    /\ cbFiber[w] \in Tasks => state[cbFiber[w]] \in Ended \cup {"INIT"}
    /\ cbFiber' = [cbFiber EXCEPT ![w] = cur[w]]
    /\ state' = [state EXCEPT ![cur[w]] = "EXEC"]
    /\ Goto(w, "exec")
    /\ UNCHANGED <<m_fibers, wake, cur, idleTerm, countVars, stopVars, calls>>

(* Mutant: m_activeThreadCount is not decremented on this path. *)
DropEndedStillCounted(w) ==
    /\ pc[w] = "taken"
    /\ ~IsCallback(cur[w])
    /\ state[cur[w]] \in Ended
    /\ cur' = [cur EXCEPT ![w] = None]
    /\ Goto(w, "scan")
    /\ UNCHANGED <<countVars, queueVars, cbFiber, idleTerm, stopVars, calls>>

(* Lines 294-297: the entry was a fiber that has already ended. *)
DropEnded(w) ==
    /\ pc[w] = "taken"
    /\ ~IsCallback(cur[w])
    /\ state[cur[w]] \in Ended
    /\ m_activeThreadCount' = m_activeThreadCount - 1
    /\ cur' = [cur EXCEPT ![w] = None]
    /\ Goto(w, "scan")
    /\ UNCHANGED <<m_idleThreadCount, queueVars, cbFiber, idleTerm, stopVars, calls>>

(* Mutant: the decrement after swapIn is forgotten. *)
UncountForgotten(w) ==
    /\ pc[w] = "out"
    /\ Goto(w, "post")
    /\ UNCHANGED <<countVars, queueVars, cur, cbFiber, idleTerm, stopVars, calls>>

(* Lines 265 and 282: the fiber swapped out, its context is saved. *)
Uncount(w) ==
    /\ pc[w] = "out"
    /\ m_activeThreadCount' = m_activeThreadCount - 1
    /\ Goto(w, "post")
    /\ UNCHANGED <<m_idleThreadCount, queueVars, cur, cbFiber, idleTerm, stopVars, calls>>

(* Mutant: cb_fiber is kept when its callback yielded. *)
KeepCbFiberAlways(w) ==
    cbFiber' = [cbFiber EXCEPT ![w] = IF @ = cur[w] /\ state[cur[w]] \in Ended THEN Spare ELSE @]

(* Mutant: a READY fiber is not put back into the queue. *)
RequeueForgotten(w) ==
    /\ state[cur[w]] = "READY"
    /\ UNCHANGED <<m_fibers, state>>

(* Mutant: a fiber that yielded stays EXEC. *)
HoldStaysExec(w) ==
    /\ state[cur[w]] \notin Ended \cup {"READY"}
    /\ UNCHANGED <<m_fibers, state>>

(* Lines 283-292: cb_fiber is dropped unless its callback has ended. *)
KeepCbFiber(w) ==
    cbFiber' = [cbFiber EXCEPT ![w] =
        IF @ # cur[w] THEN @ ELSE IF state[cur[w]] \in Ended THEN Spare ELSE None]

(* Lines 267-273 and 283-292: requeue, forget or hold the task. *)
Requeue(w) ==
    /\ state[cur[w]] = "READY"
    /\ Schedule(cur[w], AnyThread)
    /\ UNCHANGED state

Forget(w) ==
    /\ state[cur[w]] \in Ended
    /\ UNCHANGED <<m_fibers, state>>

Hold(w) ==
    /\ state[cur[w]] \notin Ended \cup {"READY"}
    /\ state' = [state EXCEPT ![cur[w]] = "HOLD"]
    /\ UNCHANGED m_fibers

AfterRun(w) ==
    /\ pc[w] = "post"
    /\ Requeue(w) \/ Forget(w) \/ Hold(w)
    /\ KeepCbFiber(w)
    /\ cur' = [cur EXCEPT ![w] = None]
    /\ Goto(w, "scan")
    /\ UNCHANGED <<wake, idleTerm, countVars, stopVars, calls>>

(* Lines 298-305: nothing to take; enter the idle fiber ... *)
EnterIdle(w) ==
    /\ pc[w] = "scan"
    /\ \A i \in DOMAIN m_fibers : ~Eligible(w, m_fibers[i])
    /\ ~idleTerm[w]
    /\ m_idleThreadCount' = m_idleThreadCount + 1
    /\ Goto(w, "idle")
    /\ UNCHANGED <<m_activeThreadCount, queueVars, cur, cbFiber, idleTerm, stopVars, calls>>

(* ... whose loop tests stopping() once and yields or ends (idle()). *)
Idle(w) ==
    /\ pc[w] = "idle"
    /\ idleTerm' = [idleTerm EXCEPT ![w] = Stopping]
    /\ m_idleThreadCount' = m_idleThreadCount - 1
    /\ Goto(w, "scan")
    /\ UNCHANGED <<m_activeThreadCount, queueVars, cur, cbFiber, stopVars, calls>>

(* Mutant: a thread whose idle fiber has ended leaves without a scan. *)
LeaveRunUnscanned(w) ==
    /\ pc[w] = "scan"
    /\ idleTerm[w]
    /\ Goto(w, "done")
    /\ UNCHANGED <<countVars, queueVars, cur, cbFiber, idleTerm, stopVars, calls>>

(* Lines 298-302: nothing to take and the idle fiber has ended. *)
LeaveRun(w) ==
    /\ pc[w] = "scan"
    /\ \A i \in DOMAIN m_fibers : ~Eligible(w, m_fibers[i])
    /\ idleTerm[w]
    /\ Goto(w, "done")
    /\ UNCHANGED <<countVars, queueVars, cur, cbFiber, idleTerm, stopVars, calls>>

----------------------------------------------------------------------------
(* The body of the task that a thread executes *)

(* The body registers a wake-up (a timer or an event that will schedule    *)
(* this very fiber): what do_io and sleep do before YieldToHold.           *)
Register(w) ==
    /\ pc[w] = "exec"
    /\ cur[w] \in WaitTasks
    /\ wake[cur[w]] = "none"
    /\ wake' = [wake EXCEPT ![cur[w]] = "armed"]
    /\ UNCHANGED <<m_fibers, state, threadVars, countVars, stopVars, calls>>

(* YieldToHold swaps out and leaves the state EXEC. *)
YieldToHold(w) ==
    /\ pc[w] = "exec"
    /\ wake[cur[w]] # "none"
    /\ Goto(w, "out")
    /\ UNCHANGED <<cur, cbFiber, idleTerm, queueVars, countVars, stopVars, calls>>

(* YieldToReady sets the state while the fiber still runs on its stack ... *)
YieldToReady(w) ==
    /\ pc[w] = "exec"
    /\ cur[w] \in ReadyTasks
    /\ wake[cur[w]] = "none"
    /\ state' = [state EXCEPT ![cur[w]] = "READY"]
    /\ Goto(w, "leaving")
    /\ UNCHANGED <<m_fibers, wake, cur, cbFiber, idleTerm, countVars, stopVars, calls>>

(* MainFunc: the body returned (TERM) or threw (EXCEPT) ... *)
Finish(w) ==
    /\ pc[w] = "exec"
    /\ wake[cur[w]] = "none"
    /\ \E s \in Ended : state' = [state EXCEPT ![cur[w]] = s]
    /\ Goto(w, "leaving")
    /\ UNCHANGED <<m_fibers, wake, cur, cbFiber, idleTerm, countVars, stopVars, calls>>

(* ... and both then save the context with swapOut. *)
SwapOut(w) ==
    /\ pc[w] = "leaving"
    /\ Goto(w, "out")
    /\ UNCHANGED <<cur, cbFiber, idleTerm, queueVars, countVars, stopVars, calls>>

(* The registered wake-up happens, whatever its fiber is doing. *)
Wake(t) ==
    /\ wake[t] = "armed"
    /\ wake' = [wake EXCEPT ![t] = "fired"]
    /\ Schedule(t, AnyThread)
    /\ UNCHANGED <<state, threadVars, countVars, stopVars, calls>>

(* A user calls schedule(): the main thread outside start() and stop(), or *)
(* a task; a thread can be named once it exists.  A fiber may be scheduled *)
(* again once it has ended, a callback is scheduled once; nobody schedules *)
(* a task that is queued, taken or waiting.                                *)
Submit(t, thr) ==
    /\ calls < MaxCalls
    /\ thr \in Workers => pc[thr] # "off"
    /\ main = "user" \/ \E w \in Threads : pc[w] = "exec" /\ cur[w] # t
    /\ ~Queued(t) /\ ~Carried(t) /\ wake[t] = "none"
    /\ state[t] \in (IF t \in Callbacks THEN {"INIT"} ELSE Ended \cup {"INIT"})
    /\ Schedule(t, thr)
    /\ calls' = calls + 1
    /\ UNCHANGED <<state, wake, threadVars, countVars, stopVars>>

----------------------------------------------------------------------------
(* start() and stop(), called by the main thread *)

(* start(): a no-op unless m_stoping; asserts that m_threads is empty. *)
Start ==
    /\ main = "user"
    /\ m_stoping
    /\ m_threads = {}
    /\ starts < MaxStarts
    /\ m_stoping' = FALSE
    /\ m_threads' = Workers
    /\ pc' = [w \in Threads |-> IF w \in Workers THEN "scan" ELSE pc[w]]
    /\ idleTerm' = [w \in Threads |-> w \notin Workers /\ idleTerm[w]]
    /\ cbFiber' = [w \in Threads |-> IF w \in Workers THEN None ELSE cbFiber[w]]
    /\ starts' = starts + 1
    /\ UNCHANGED <<m_autoStop, main, stops, cur, queueVars, countVars, calls>>

(* Line 73. *)
StopBegin ==
    /\ main = "user"
    /\ stops < MaxStops
    /\ m_autoStop' = TRUE
    /\ main' = "stop"
    /\ stops' = stops + 1
    /\ UNCHANGED <<m_stoping, m_threads, starts, queueVars, threadVars, countVars, calls>>

(* Lines 74-83 and 92: m_stoping is set on both paths; with the caller's  *)
(* thread alone stop() returns at once when nothing is left to run.       *)
StopFlag ==
    /\ main = "stop"
    /\ m_stoping' = TRUE
    /\ main' = IF UseCaller /\ Workers = {} /\ pc[Root] \in {"off", "done"} /\ Drained
               THEN "user" ELSE "flagged"
    /\ UNCHANGED <<m_autoStop, m_threads, starts, stops, queueVars, threadVars, countVars, calls>>

(* Lines 97-112: the caller's thread runs the scheduler itself.  A root    *)
(* fiber that has already terminated is entered again after back(): its    *)
(* function returns with no uc_link and the calling thread exits.          *)
StopCall ==
    /\ main = "flagged"
    /\ IF UseCaller /\ ~Stopping
       THEN IF pc[Root] = "off"
            THEN Goto(Root, "scan") /\ main' = "calling"
            ELSE main' = "exited" /\ UNCHANGED pc
       ELSE main' = "check" /\ UNCHANGED pc
    /\ UNCHANGED <<m_stoping, m_autoStop, m_threads, starts, stops, cur, cbFiber, idleTerm,
                   queueVars, countVars, calls>>

StopReturnFromCall ==
    /\ main = "calling"
    /\ pc[Root] = "done"
    /\ main' = "check"
    /\ UNCHANGED <<m_stoping, m_autoStop, m_threads, starts, stops, queueVars, threadVars, countVars, calls>>

(* Lines 113-121: return at once, or take the threads away to join them. *)
StopCheck ==
    /\ main = "check"
    /\ IF Stopping
       THEN main' = "user" /\ UNCHANGED m_threads
       ELSE main' = "join" /\ m_threads' = {}
    /\ UNCHANGED <<m_stoping, m_autoStop, starts, stops, queueVars, threadVars, countVars, calls>>

StopJoin ==
    /\ main = "join"
    /\ \A w \in Workers : pc[w] \in {"off", "done"}
    /\ main' = "user"
    /\ UNCHANGED <<m_stoping, m_autoStop, m_threads, starts, stops, queueVars, threadVars, countVars, calls>>

----------------------------------------------------------------------------
Init ==
    /\ m_fibers = <<>>
    /\ m_activeThreadCount = 0
    /\ m_idleThreadCount = 0
    /\ m_stoping = TRUE
    /\ m_autoStop = FALSE
    /\ m_threads = {}
    /\ state = [t \in Tasks |-> "INIT"]
    /\ wake = [t \in Tasks |-> "none"]
    /\ pc = [w \in Threads |-> "off"]
    /\ cur = [w \in Threads |-> None]
    /\ cbFiber = [w \in Threads |-> None]
    /\ idleTerm = [w \in Threads |-> FALSE]
    /\ main = "user"
    /\ calls = 0
    /\ starts = 0
    /\ stops = 0

RunStep(w) ==
    \/ Take(w) \/ SwapInFiber(w) \/ SwapInCallback(w) \/ DropEnded(w)
    \/ Uncount(w) \/ AfterRun(w) \/ EnterIdle(w) \/ Idle(w) \/ LeaveRun(w)

BodyStep(w) ==
    \/ Register(w) \/ YieldToHold(w) \/ YieldToReady(w) \/ Finish(w) \/ SwapOut(w)

StopStep == StopFlag \/ StopCall \/ StopReturnFromCall \/ StopCheck \/ StopJoin

UserStep ==
    \/ Start \/ StopBegin
    \/ \E t \in Tasks : Wake(t)
    \/ \E t \in Tasks, thr \in Pins \cup {AnyThread} : Submit(t, thr)

Next == (\E w \in Threads : RunStep(w) \/ BodyStep(w)) \/ StopStep \/ UserStep

Spec == Init /\ [][Next]_vars

(* Fairness: the operating system runs every thread, wake-ups and user      *)
(* calls are never owed, and a task body that is resumed again and again    *)
(* ends (SF): a body that yields for ever keeps stop() waiting by design.   *)
Fairness ==
    /\ \A w \in Threads : WF_vars(RunStep(w) \/ YieldToHold(w) \/ SwapOut(w))
    /\ \A w \in Threads : SF_vars(Finish(w))
    /\ WF_vars(StopStep)

FairSpec == Spec /\ Fairness

----------------------------------------------------------------------------
(* Properties *)

Label == {"off", "scan", "taken", "exec", "leaving", "out", "post", "idle", "done"}
Counted == {"taken", "exec", "leaving", "out"}  \* labels inside ++ / --m_activeThreadCount

(* Every variable has its type. *)
TypeOK ==
    /\ m_fibers \in Seq(Entry)
    /\ m_activeThreadCount \in Nat
    /\ m_idleThreadCount \in Nat
    /\ m_stoping \in BOOLEAN
    /\ m_autoStop \in BOOLEAN
    /\ m_threads \in SUBSET Workers
    /\ state \in [Tasks -> FiberState]
    /\ wake \in [Tasks -> {"none", "armed", "fired"}]
    /\ pc \in [Threads -> Label]
    /\ cur \in [Threads -> Tasks \cup {None}]
    /\ cbFiber \in [Threads -> Tasks \cup {None, Spare}]
    /\ idleTerm \in [Threads -> BOOLEAN]
    /\ main \in {"user", "stop", "flagged", "calling", "check", "join", "exited"}
    /\ calls \in Nat
    /\ starts \in Nat
    /\ stops \in Nat

(* No fiber is carried by two threads at once: a wake-up that arrives while *)
(* its fiber is still switching out (queued, state EXEC) must not let a     *)
(* second thread swap into a stack that is in use.                          *)
OneCarrier == \A v, w \in Threads : cur[v] # None /\ cur[v] = cur[w] => v = w

(* The assertions of Fiber::swapIn and Fiber::reset cannot fail: a taken    *)
(* fiber is not executing, and a callback never gets a suspended fiber.     *)
SwapAssertions ==
    \A w \in Threads : pc[w] = "taken" =>
        /\ state[cur[w]] # "EXEC"
        /\ cbFiber[w] \in {None, Spare}

(* m_activeThreadCount, which stopping() relies on, is exactly the number   *)
(* of threads between ++ and -- in run(); so it never wraps below zero.     *)
ActiveCountExact ==
    m_activeThreadCount = Cardinality({w \in Threads : pc[w] \in Counted})

(* A fiber that yielded READY or whose wake-up has fired is queued or on a  *)
(* thread: no resumption is lost, whenever the wake-up arrives; and no task *)
(* is in the queue twice, so no wake-up is applied twice.                   *)
NoLostWakeup ==
    /\ \A t \in Tasks : wake[t] = "fired" \/ state[t] = "READY" => Queued(t) \/ Carried(t)
    /\ \A i, j \in DOMAIN m_fibers : m_fibers[i].task = m_fibers[j].task => i = j

(* The last thread to leave run() leaves no task behind, except tasks that  *)
(* are pinned to a thread that has gone: a fiber requeued or woken while    *)
(* the other threads already saw stopping() is still run.                   *)
Gone == \A w \in Threads : pc[w] \in {"off", "done"}
LastThreadDrains ==
    [][~Gone /\ Gone' => \A i \in DOMAIN m_fibers : m_fibers[i].thread # AnyThread]_vars

(* stop() returns. *)
StopReturns == main = "stop" ~> main = "user"

(* While the pool runs, a queued task is eventually taken by a thread. *)
QueuedIsTaken == \A t \in Tasks : (Queued(t) /\ ~m_stoping) ~> ~Queued(t)

=============================================================================
