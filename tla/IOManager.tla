----------------------------- MODULE IOManager -----------------------------
(***************************************************************************)
(* The I/O scheduler of dwframe (IoManager.h, IoManager.cc): the contexts  *)
(* of the file descriptors, the epoll loop that is the idle fiber of every *)
(* thread, and the stopping() test that lets a thread leave.               *)
(*                                                                         *)
(* The run queue is the one of Scheduler, seen as a set: a fiber is in it  *)
(* at most once and is not taken while it still executes (NoLostWakeup and *)
(* OneCarrier of that module).  TimerManager is reduced to the set of the  *)
(* fibers that sleep.  epoll is modelled from how the code uses it: edge   *)
(* triggered, reporting a descriptor again after every epoll_ctl, and      *)
(* reporting HUP (EPOLLERR, EPOLLHUP) whether or not it was asked for.     *)
(*                                                                         *)
(* addEvent, delEvent, cancelEvent, cancelALL and the handling of one      *)
(* reported event hold the mutex of the FdContext from beginning to end    *)
(* and are one step each.                                                  *)
(***************************************************************************)
EXTENDS Integers, FiniteSets

CONSTANTS
    Fds,       \* file descriptors
    Threads,   \* the threads that execute Scheduler::run
    Fibers,    \* the tasks of the users
    Callbacks, \* those of them that are given to addEvent as its cb
    None       \* no fiber, a null pointer

Event == {"READ", "WRITE"}

ASSUME IOManagerAssumption ==
    /\ IsFiniteSet(Fds)
    /\ IsFiniteSet(Threads) /\ Threads # {}
    /\ IsFiniteSet(Fibers)
    /\ Callbacks \subseteq Fibers
    /\ None \notin Fibers

VARIABLES
    events,               \* FdContext::events
    ctx,                  \* FdContext::read and write: the fiber to schedule
    m_pendingEventCount,
    fresh,                \* the callbacks that were not given to addEvent yet
    runq,                 \* Scheduler::m_fibers
    sleepers,             \* TimerManager::m_timers: the fibers that sleep
    stopFlag,             \* m_autoStop and m_stoping are set
    interest,             \* epoll: the registered events, {} when not registered
    level,                \* epoll: what each descriptor is ready for
    rdy,                  \* epoll: the descriptor is on the ready list
    pc, cur,              \* each thread: where it is, which fiber it executes
    parked,               \* the fiber has registered a wake-up and must yield
    batch,                \* events[] of idle(): what epoll_wait reported
    cbs,                  \* cbs of idle(): expired timers not yet scheduled
    idleTerm,             \* the idle fiber of the thread has terminated
    aborted               \* an assertion of triggerEvent failed

fdVars == <<events, ctx, m_pendingEventCount, interest, fresh>>
kernelVars == <<level, rdy>>
idleVars == <<batch, cbs, idleTerm>>
vars == <<fdVars, kernelVars, runq, sleepers, stopFlag, pc, cur, parked, idleVars, aborted>>

----------------------------------------------------------------------------
(* epoll *)

Reports(fd, asked) == level[fd] \cap (asked \cup {"HUP"})

(* epoll_ctl: ADD and MOD put a descriptor that is ready on the ready list. *)
EpollCtl(fd, asked) ==
    /\ interest' = [interest EXCEPT ![fd] = asked]
    /\ rdy' = [rdy EXCEPT ![fd] = asked # {} /\ Reports(fd, asked) # {}]

(* Data, buffer space or a hang-up arrives. *)
BecomeReady(fd, what) ==
    /\ ~aborted
    /\ what \notin level[fd]
    /\ level' = [level EXCEPT ![fd] = @ \cup {what}]
    /\ rdy' = [rdy EXCEPT ![fd] =
          @ \/ (interest[fd] # {} /\ what \in interest[fd] \cup {"HUP"})]
    /\ UNCHANGED <<fdVars, runq, sleepers, stopFlag, pc, cur, parked, idleVars, aborted>>

----------------------------------------------------------------------------
(* The user interface, called by the fiber that thread p executes *)

Executes(p, f) == ~aborted /\ pc[p] = "task" /\ cur[p] = f /\ ~parked[f]

(* Mutants: the decrement is forgotten; the context is not cleared. *)
TriggerUncounted(fd, S) ==
    /\ events' = [events EXCEPT ![fd] = @ \ S]
    /\ runq' = runq \cup {ctx[fd][e] : e \in S}
    /\ ctx' = [ctx EXCEPT ![fd] = [e \in Event |-> IF e \in S THEN None ELSE @[e]]]
    /\ UNCHANGED m_pendingEventCount
TriggerKeepsContext(fd, S) ==
    /\ events' = [events EXCEPT ![fd] = @ \ S]
    /\ runq' = runq \cup {ctx[fd][e] : e \in S}
    /\ m_pendingEventCount' = m_pendingEventCount - Cardinality(S)
    /\ UNCHANGED ctx

(* FdContext::triggerEvent for every event of S, each followed by the      *)
(* decrement of m_pendingEventCount.                                       *)
Trigger(fd, S) ==
    /\ events' = [events EXCEPT ![fd] = @ \ S]
    /\ runq' = runq \cup {ctx[fd][e] : e \in S}
    /\ ctx' = [ctx EXCEPT ![fd] = [e \in Event |-> IF e \in S THEN None ELSE @[e]]]
    /\ m_pendingEventCount' = m_pendingEventCount - Cardinality(S)

(* Mutant: epoll is told of the new event only. *)
AddEventAlone(fd, e, w) ==
    /\ e \notin events[fd]
    /\ EpollCtl(fd, {e})
    /\ m_pendingEventCount' = m_pendingEventCount + 1
    /\ events' = [events EXCEPT ![fd] = @ \cup {e}]
    /\ ctx' = [ctx EXCEPT ![fd][e] = w]

(* addEvent for the waiter w.  That the event is not registered already is *)
(* a duty of the caller (the assertion on line 109).                       *)
AddEvent(fd, e, w) ==
    /\ e \notin events[fd]
    /\ EpollCtl(fd, events[fd] \cup {e})
    /\ m_pendingEventCount' = m_pendingEventCount + 1
    /\ events' = [events EXCEPT ![fd] = @ \cup {e}]
    /\ ctx' = [ctx EXCEPT ![fd][e] = w]

(* The current fiber registers itself; it then yields. *)
AddEventFiber(p, f, fd, e) ==
    /\ Executes(p, f)
    /\ AddEvent(fd, e, f)
    /\ parked' = [parked EXCEPT ![f] = TRUE]
    /\ UNCHANGED <<fresh, level, runq, sleepers, stopFlag, pc, cur, idleVars, aborted>>

(* A callback is registered and the current fiber goes on. *)
AddEventCallback(p, f, fd, e) ==
    /\ Executes(p, f)
    /\ \E w \in fresh : AddEvent(fd, e, w) /\ fresh' = fresh \ {w}
    /\ UNCHANGED <<parked, level, runq, sleepers, stopFlag, pc, cur, idleVars, aborted>>

(* Mutant: epoll still watches the event. *)
DelEventStillWatched(p, f, fd, e) ==
    /\ Executes(p, f)
    /\ e \in events[fd]
    /\ EpollCtl(fd, events[fd])
    /\ m_pendingEventCount' = m_pendingEventCount - 1
    /\ events' = [events EXCEPT ![fd] = @ \ {e}]
    /\ ctx' = [ctx EXCEPT ![fd][e] = None]
    /\ UNCHANGED <<fresh, level, runq, sleepers, stopFlag, pc, cur, parked, idleVars, aborted>>

(* delEvent: the waiting fiber is forgotten, not scheduled. *)
DelEvent(p, f, fd, e) ==
    /\ Executes(p, f)
    /\ e \in events[fd]
    /\ EpollCtl(fd, events[fd] \ {e})
    /\ m_pendingEventCount' = m_pendingEventCount - 1
    /\ events' = [events EXCEPT ![fd] = @ \ {e}]
    /\ ctx' = [ctx EXCEPT ![fd][e] = None]
    /\ UNCHANGED <<fresh, level, runq, sleepers, stopFlag, pc, cur, parked, idleVars, aborted>>

CancelEvent(p, f, fd, e) ==
    /\ Executes(p, f)
    /\ e \in events[fd]
    /\ EpollCtl(fd, events[fd] \ {e})
    /\ Trigger(fd, {e})
    /\ UNCHANGED <<fresh, level, sleepers, stopFlag, pc, cur, parked, idleVars, aborted>>

CancelALL(p, f, fd) ==
    /\ Executes(p, f)
    /\ events[fd] # {}
    /\ EpollCtl(fd, {})
    /\ Trigger(fd, events[fd])
    /\ UNCHANGED <<fresh, level, sleepers, stopFlag, pc, cur, parked, idleVars, aborted>>

(* sleep(), usleep() and nanosleep(): a timer whose callback schedules the *)
(* fiber, then yield.  The callback is itself run as a task; the model     *)
(* merges the two and queues the fiber when the callback is queued.        *)
Sleep(p, f) ==
    /\ Executes(p, f)
    /\ sleepers' = sleepers \cup {f}
    /\ parked' = [parked EXCEPT ![f] = TRUE]
    /\ UNCHANGED <<fdVars, kernelVars, runq, stopFlag, pc, cur, idleVars, aborted>>

(* The fiber reads or writes until the descriptor is no longer ready. *)
Consume(p, f, fd, e) ==
    /\ Executes(p, f)
    /\ e \in level[fd]
    /\ level' = [level EXCEPT ![fd] = @ \ {e}]
    /\ UNCHANGED <<fdVars, rdy, runq, sleepers, stopFlag, pc, cur, parked, idleVars, aborted>>

(* The fiber yields, after a registration, or ends. *)
Leave(p) ==
    /\ ~aborted
    /\ pc[p] = "task"
    /\ cur' = [cur EXCEPT ![p] = None]
    /\ pc' = [pc EXCEPT ![p] = "loop"]
    /\ UNCHANGED <<fdVars, kernelVars, runq, sleepers, stopFlag, parked, idleVars, aborted>>

----------------------------------------------------------------------------
(* Scheduler::run and IOManager::idle, thread p *)

At(p, label) == ~aborted /\ pc[p] = label
Goto(p, label) == pc' = [pc EXCEPT ![p] = label]
Takeable == {f \in runq : \A q \in Threads : cur[q] # f}

Take(p) ==
    /\ At(p, "loop")
    /\ \E f \in Takeable :
          /\ runq' = runq \ {f}
          /\ cur' = [cur EXCEPT ![p] = f]
          /\ parked' = [parked EXCEPT ![f] = FALSE]
    /\ Goto(p, "task")
    /\ UNCHANGED <<fdVars, kernelVars, sleepers, stopFlag, idleVars, aborted>>

(* Nothing to take: enter the idle fiber, or leave once it has ended. *)
EnterIdle(p) ==
    /\ At(p, "loop")
    /\ Takeable = {}
    /\ Goto(p, IF idleTerm[p] THEN "exit" ELSE "stopping")
    /\ UNCHANGED <<fdVars, kernelVars, runq, sleepers, stopFlag, cur, parked, idleVars, aborted>>

(* stopping(): getNextTimer, then Scheduler::stopping, then the pending    *)
(* events, read one after the other; the first one that fails ends it.     *)
ReadTimers(p) ==
    /\ At(p, "stopping")
    /\ Goto(p, IF sleepers = {} THEN "noTimer" ELSE "wait")
    /\ UNCHANGED <<fdVars, kernelVars, runq, sleepers, stopFlag, cur, parked, idleVars, aborted>>

SchedulerStopping == stopFlag /\ runq = {} /\ \A q \in Threads : cur[q] = None

ReadScheduler(p) ==
    /\ At(p, "noTimer")
    /\ Goto(p, IF SchedulerStopping THEN "noTask" ELSE "wait")
    /\ UNCHANGED <<fdVars, kernelVars, runq, sleepers, stopFlag, cur, parked, idleVars, aborted>>

(* Mutant: stopping() does not look at m_pendingEventCount. *)
ReadPendingIgnored(p) ==
    /\ At(p, "noTask")
    /\ idleTerm' = [idleTerm EXCEPT ![p] = TRUE]
    /\ Goto(p, "loop")
    /\ UNCHANGED <<fdVars, kernelVars, runq, sleepers, stopFlag, cur, parked, batch, cbs, aborted>>

ReadPending(p) ==
    /\ At(p, "noTask")
    /\ idleTerm' = [idleTerm EXCEPT ![p] = m_pendingEventCount = 0]
    /\ Goto(p, IF m_pendingEventCount = 0 THEN "loop" ELSE "wait")
    /\ UNCHANGED <<fdVars, kernelVars, runq, sleepers, stopFlag, cur, parked, batch, cbs, aborted>>

(* epoll_wait with a timeout of 0: it takes whatever is ready. *)
EpollWait(p) ==
    /\ At(p, "wait")
    /\ batch' = [batch EXCEPT ![p] =
          [fd \in Fds |-> IF rdy[fd] THEN Reports(fd, interest[fd]) ELSE {}]]
    /\ rdy' = [fd \in Fds |-> FALSE]
    /\ Goto(p, "timers")
    /\ UNCHANGED <<fdVars, level, runq, sleepers, stopFlag, cur, parked, cbs, idleTerm, aborted>>

(* listExpiredCb removes the expired timers from the set ... *)
ListExpiredCb(p) ==
    /\ At(p, "timers")
    /\ \E S \in SUBSET sleepers :
          /\ cbs' = [cbs EXCEPT ![p] = S]
          /\ sleepers' = sleepers \ S
    /\ Goto(p, "expired")
    /\ UNCHANGED <<fdVars, kernelVars, runq, stopFlag, cur, parked, batch, idleTerm, aborted>>

(* ... and their callbacks are scheduled afterwards. *)
ScheduleCbs(p) ==
    /\ At(p, "expired")
    /\ runq' = runq \cup cbs[p]
    /\ cbs' = [cbs EXCEPT ![p] = {}]
    /\ Goto(p, "handle")
    /\ UNCHANGED <<fdVars, kernelVars, sleepers, stopFlag, cur, parked, batch, idleTerm, aborted>>

(* Lines 313-352.  The test for EPOLLERR and EPOLLHUP looks at the         *)
(* registered events, which never contain them, so HUP adds nothing.       *)
RealEvents(fd, reported) ==
    IF "HUP" \in events[fd] THEN Event ELSE reported \cap Event

HandleEvent(p, fd) ==
    /\ At(p, "handle")
    /\ batch[p][fd] # {}
    /\ batch' = [batch EXCEPT ![p][fd] = {}]
    /\ LET real == RealEvents(fd, batch[p][fd])
       IN IF events[fd] \cap real = {}
          THEN UNCHANGED <<events, ctx, m_pendingEventCount, interest, rdy, runq, aborted>>
          ELSE /\ EpollCtl(fd, events[fd] \ real)
               /\ IF real \subseteq events[fd]
                  THEN Trigger(fd, real) /\ UNCHANGED aborted
                  ELSE aborted' = TRUE /\ UNCHANGED <<events, ctx, m_pendingEventCount, runq>>
    /\ UNCHANGED <<fresh, level, sleepers, stopFlag, pc, cur, parked, cbs, idleTerm>>

(* The idle fiber yields to run(). *)
LeaveIdle(p) ==
    /\ At(p, "handle")
    /\ \A fd \in Fds : batch[p][fd] = {}
    /\ Goto(p, "loop")
    /\ UNCHANGED <<fdVars, kernelVars, runq, sleepers, stopFlag, cur, parked, idleVars, aborted>>

(* stop() sets the flags. *)
StopRequest ==
    /\ ~aborted
    /\ ~stopFlag
    /\ stopFlag' = TRUE
    /\ UNCHANGED <<fdVars, kernelVars, runq, sleepers, pc, cur, parked, idleVars, aborted>>

----------------------------------------------------------------------------
Init ==
    /\ events = [fd \in Fds |-> {}]
    /\ ctx = [fd \in Fds |-> [e \in Event |-> None]]
    /\ m_pendingEventCount = 0
    /\ fresh = Callbacks
    /\ runq = Fibers \ Callbacks
    /\ sleepers = {}
    /\ stopFlag = FALSE
    /\ interest = [fd \in Fds |-> {}]
    /\ level = [fd \in Fds |-> {}]
    /\ rdy = [fd \in Fds |-> FALSE]
    /\ pc = [p \in Threads |-> "loop"]
    /\ cur = [p \in Threads |-> None]
    /\ parked = [f \in Fibers |-> FALSE]
    /\ batch = [p \in Threads |-> [fd \in Fds |-> {}]]
    /\ cbs = [p \in Threads |-> {}]
    /\ idleTerm = [p \in Threads |-> FALSE]
    /\ aborted = FALSE

ThreadStep(p) ==
    \/ Take(p) \/ EnterIdle(p) \/ ReadTimers(p) \/ ReadScheduler(p) \/ ReadPending(p)
    \/ EpollWait(p) \/ ListExpiredCb(p) \/ ScheduleCbs(p) \/ LeaveIdle(p) \/ Leave(p)
    \/ \E fd \in Fds : HandleEvent(p, fd)

FiberStep(p) ==
    \E f \in Fibers :
        \/ Sleep(p, f)
        \/ \E fd \in Fds : CancelALL(p, f, fd)
        \/ \E fd \in Fds, e \in Event :
              \/ AddEventFiber(p, f, fd, e) \/ AddEventCallback(p, f, fd, e) \/ DelEvent(p, f, fd, e)
              \/ CancelEvent(p, f, fd, e) \/ Consume(p, f, fd, e)

Next ==
    \/ \E p \in Threads : ThreadStep(p) \/ FiberStep(p)
    \/ \E fd \in Fds, what \in Event \cup {"HUP"} : BecomeReady(fd, what)
    \/ StopRequest

Spec == Init /\ [][Next]_vars

----------------------------------------------------------------------------
(* Properties *)

(* Every variable has its type. *)
TypeOK ==
    /\ events \in [Fds -> SUBSET Event]
    /\ ctx \in [Fds -> [Event -> Fibers \cup {None}]]
    /\ m_pendingEventCount \in Int
    /\ fresh \in SUBSET Callbacks
    /\ runq \in SUBSET Fibers
    /\ sleepers \in SUBSET Fibers
    /\ stopFlag \in BOOLEAN
    /\ interest \in [Fds -> SUBSET Event]
    /\ level \in [Fds -> SUBSET (Event \cup {"HUP"})]
    /\ rdy \in [Fds -> BOOLEAN]
    /\ pc \in [Threads -> {"loop", "task", "stopping", "noTimer", "noTask", "wait",
                           "timers", "expired", "handle", "exit"}]
    /\ cur \in [Threads -> Fibers \cup {None}]
    /\ parked \in [Fibers -> BOOLEAN]
    /\ batch \in [Threads -> [Fds -> SUBSET (Event \cup {"HUP"})]]
    /\ cbs \in [Threads -> SUBSET Fibers]
    /\ idleTerm \in [Threads -> BOOLEAN]
    /\ aborted \in BOOLEAN

(* m_pendingEventCount, on which stopping() relies, is the number of events *)
(* registered over all descriptors; being unsigned it must not pass zero.   *)
Registered == {r \in Fds \X Event : r[2] \in events[r[1]]}
PendingExact == m_pendingEventCount = Cardinality(Registered)

(* What epoll watches is what FdContext::events says, so that the choice    *)
(* between ADD, MOD and DEL is always the one that epoll_ctl accepts.       *)
KernelAgrees == aborted \/ interest = events

(* A fiber is in one place: it waits for one event, or sleeps, or is about  *)
(* to be scheduled, or is queued.  So no event, cancel, timer or stale      *)
(* report resumes a fiber twice, and the context of an event is set exactly *)
(* while the event is registered (the assertion in addEvent, line 128).     *)
WaitsFor(f) == {r \in Fds \X Event : ctx[r[1]][r[2]] = f}
OnePlace ==
    /\ \A f \in Fibers :
          Cardinality(WaitsFor(f)) + Cardinality({p \in Threads : f \in cbs[p]})
              + (IF f \in sleepers THEN 1 ELSE 0) + (IF f \in runq THEN 1 ELSE 0) <= 1
    /\ \A r \in Fds \X Event : ctx[r[1]][r[2]] # None <=> r \in Registered

(* Although stopping() reads its conditions one after the other, and while  *)
(* others trigger events, the threads do not all leave while a fiber or a   *)
(* callback is registered or queued.                                        *)
Gone == \A p \in Threads : pc[p] = "exit"
NoWaiterStranded == Gone => Registered = {} /\ runq = {}

(* Every thread is run by the operating system, and a fiber does not        *)
(* execute for ever without yielding or ending.                             *)
FairSpec == Spec /\ \A p \in Threads : WF_vars(ThreadStep(p))

(* A registered event whose descriptor is ready is handed to its fiber (or  *)
(* taken back, or the readiness is consumed by somebody else).              *)
Ready(fd, e) == ~aborted /\ e \in events[fd] \cap level[fd]
EventIsDelivered == \A fd \in Fds, e \in Event : Ready(fd, e) ~> ~Ready(fd, e)

=============================================================================
