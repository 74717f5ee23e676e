-------------------------- MODULE IOManagerProofs --------------------------
(***************************************************************************)
(* Proofs about IOManager, for any number of descriptors, threads and      *)
(* fibers.                                                                 *)
(*                                                                         *)
(* PendingExact and KernelAgrees need types only.  OnePlace and            *)
(* NoWaiterStranded are not inductive: PlaceInv says pair by pair which    *)
(* places exclude each other, and that a fiber that executes and has not   *)
(* registered a wake-up is in none; StopInv says what the threads that     *)
(* have passed the tests of stopping() have established for good.          *)
(***************************************************************************)
EXTENDS IOManager, FiniteSetTheorems, TLAPS

Waiting(f) == \E fd \in Fds, e \in Event : ctx[fd][e] = f
Placed(f) == f \in runq \/ f \in sleepers \/ (\E p \in Threads : f \in cbs[p]) \/ Waiting(f)

(* The context of an event is set exactly while the event is registered. *)
CtxSet == \A fd \in Fds, e \in Event : ctx[fd][e] # None <=> e \in events[fd]

(* A fiber waits for one event. *)
OneEvent == \A fd1, fd2 \in Fds, e1, e2 \in Event :
    ctx[fd1][e1] = ctx[fd2][e2] /\ ctx[fd1][e1] # None => fd1 = fd2 /\ e1 = e2

(* An expired timer is in the hands of one thread. *)
OneTaker == \A p, q \in Threads, f \in Fibers : f \in cbs[p] /\ f \in cbs[q] => p = q

(* The places exclude each other. *)
Exclusive == \A f \in Fibers :
    /\ f \in runq => f \notin sleepers /\ ~Waiting(f) /\ \A p \in Threads : f \notin cbs[p]
    /\ f \in sleepers => ~Waiting(f) /\ \A p \in Threads : f \notin cbs[p]
    /\ Waiting(f) => \A p \in Threads : f \notin cbs[p]

(* A fiber that executes, and will register itself if it registers at all, *)
(* is in no place; neither is a callback that nobody has registered yet.   *)
ExecutingFree == \A p \in Threads :
    cur[p] # None /\ ~parked[cur[p]] => ~Placed(cur[p])
FreshFree == \A f \in fresh : ~Placed(f) /\ \A p \in Threads : cur[p] # f
OneCarrier == \A p, q \in Threads : cur[p] = cur[q] /\ cur[p] # None => p = q

PlaceInv == CtxSet /\ OneEvent /\ OneTaker /\ Exclusive /\ ExecutingFree /\ FreshFree /\ OneCarrier

(* Where a thread has a fiber, expired timers and a terminated idle fiber. *)
PcInv == \A p \in Threads :
    /\ pc[p] = "task" <=> cur[p] # None
    /\ cbs[p] # {} => pc[p] = "expired"
    /\ idleTerm[p] => pc[p] \in {"loop", "task", "exit"}
    /\ pc[p] = "exit" => idleTerm[p]

(* No thread will queue or register anything any more: each has ended its  *)
(* idle fiber or found the scheduler empty after all the others had.       *)
Quiet == \A p \in Threads : idleTerm[p] \/ pc[p] = "noTask"
StopInv ==
    /\ Quiet => runq = {} /\ \A p \in Threads : cur[p] = None
    /\ (\A p \in Threads : idleTerm[p]) => Registered = {}

IndInv == TypeOK /\ PendingExact /\ KernelAgrees /\ PlaceInv /\ PcInv /\ StopInv

----------------------------------------------------------------------------
(* Types *)

(* What Trigger leaves, by type: used by every operation that calls        *)
(* triggerEvent.                                                           *)
LEMMA TriggerType ==
    ASSUME TypeOK, NEW fd \in Fds, NEW S \in SUBSET Event, S \subseteq events[fd], CtxSet,
           Trigger(fd, S)
    PROVE  /\ events' \in [Fds -> SUBSET Event]
           /\ ctx' \in [Fds -> [Event -> Fibers \cup {None}]]
           /\ runq' \in SUBSET Fibers
           /\ m_pendingEventCount' \in Int
<1>1. events[fd] \subseteq Event /\ ctx[fd] \in [Event -> Fibers \cup {None}]
  BY DEF TypeOK
<1>2. IsFiniteSet(S) /\ Cardinality(S) \in Nat
  <2>1. IsFiniteSet({"READ"} \cup {"WRITE"})
    BY FS_Singleton, FS_AddElement
  <2>2. Event = {"READ"} \cup {"WRITE"}
    BY DEF Event
  <2> QED BY <2>1, <2>2, FS_Subset, FS_CardinalityType
<1>3. \A e \in S : ctx[fd][e] \in Fibers
  BY <1>1 DEF CtxSet
<1> QED BY <1>1, <1>2, <1>3 DEF Trigger, TypeOK

(* The three ways in which one reported event is handled (IoManager.cc     *)
(* 313-352): nothing is left to do, the events are triggered, or the       *)
(* assertion of triggerEvent fails.                                        *)
LEMMA HandleCases ==
    ASSUME TypeOK, NEW p \in Threads, NEW fd \in Fds, HandleEvent(p, fd)
    PROVE  \/ UNCHANGED <<events, ctx, m_pendingEventCount, interest, rdy, runq, aborted>>
           \/ \E real \in SUBSET Event :
                 /\ real \subseteq events[fd] /\ Trigger(fd, real)
                 /\ EpollCtl(fd, events[fd] \ real) /\ UNCHANGED aborted
           \/ \E real \in SUBSET Event :
                 /\ EpollCtl(fd, events[fd] \ real) /\ aborted' = TRUE
                 /\ UNCHANGED <<events, ctx, m_pendingEventCount, runq>>
<1> DEFINE real == RealEvents(fd, batch[p][fd])
<1>1. real \in SUBSET Event
  BY DEF TypeOK, RealEvents
<1> QED BY <1>1 DEF HandleEvent

(* Every step keeps the types (all of IoManager.cc). *)
LEMMA TypeStep ==
    ASSUME TypeOK, CtxSet, [Next]_vars
    PROVE  TypeOK'
<1>1. ASSUME NEW fd \in Fds, NEW what \in Event \cup {"HUP"}, BecomeReady(fd, what) PROVE TypeOK'
  BY <1>1 DEF TypeOK, BecomeReady, fdVars, idleVars
<1>2. ASSUME NEW p \in Threads, NEW f \in Fibers, NEW fd \in Fds, NEW e \in Event,
             AddEventFiber(p, f, fd, e)
      PROVE TypeOK'
  BY <1>2 DEF TypeOK, AddEventFiber, AddEvent, EpollCtl, idleVars
<1>3. ASSUME NEW p \in Threads, NEW f \in Fibers, NEW fd \in Fds, NEW e \in Event,
             AddEventCallback(p, f, fd, e)
      PROVE TypeOK'
  BY <1>3, IOManagerAssumption DEF TypeOK, AddEventCallback, AddEvent, EpollCtl, idleVars
<1>4. ASSUME NEW p \in Threads, NEW f \in Fibers, NEW fd \in Fds, NEW e \in Event,
             DelEvent(p, f, fd, e)
      PROVE TypeOK'
  BY <1>4 DEF TypeOK, DelEvent, EpollCtl, idleVars
<1>5. ASSUME NEW p \in Threads, NEW f \in Fibers, NEW fd \in Fds, NEW e \in Event,
             CancelEvent(p, f, fd, e)
      PROVE TypeOK'
  BY <1>5, TriggerType DEF TypeOK, CancelEvent, EpollCtl, idleVars
<1>6. ASSUME NEW p \in Threads, NEW f \in Fibers, NEW fd \in Fds, CancelALL(p, f, fd)
      PROVE TypeOK'
  <2>1. events[fd] \in SUBSET Event
    BY DEF TypeOK
  <2> QED BY <1>6, <2>1, TriggerType DEF TypeOK, CancelALL, EpollCtl, idleVars
<1>7. ASSUME NEW p \in Threads, NEW f \in Fibers, Sleep(p, f) PROVE TypeOK'
  BY <1>7 DEF TypeOK, Sleep, fdVars, kernelVars, idleVars
<1>8. ASSUME NEW p \in Threads, NEW f \in Fibers, NEW fd \in Fds, NEW e \in Event,
             Consume(p, f, fd, e)
      PROVE TypeOK'
  BY <1>8 DEF TypeOK, Consume, fdVars, idleVars
<1>9. ASSUME NEW p \in Threads, Leave(p) PROVE TypeOK'
  BY <1>9 DEF TypeOK, Leave, fdVars, kernelVars, idleVars
<1>10. ASSUME NEW p \in Threads, Take(p) PROVE TypeOK'
  BY <1>10 DEF TypeOK, Take, Takeable, Goto, fdVars, kernelVars, idleVars
<1>11. ASSUME NEW p \in Threads, EnterIdle(p) PROVE TypeOK'
  BY <1>11 DEF TypeOK, EnterIdle, Goto, fdVars, kernelVars, idleVars
<1>12. ASSUME NEW p \in Threads, ReadTimers(p) \/ ReadScheduler(p) PROVE TypeOK'
  BY <1>12 DEF TypeOK, ReadTimers, ReadScheduler, Goto, fdVars, kernelVars, idleVars
<1>13. ASSUME NEW p \in Threads, ReadPending(p) PROVE TypeOK'
  BY <1>13 DEF TypeOK, ReadPending, Goto, fdVars, kernelVars
<1>14. ASSUME NEW p \in Threads, EpollWait(p) PROVE TypeOK'
  BY <1>14 DEF TypeOK, EpollWait, Reports, Goto, fdVars
<1>15. ASSUME NEW p \in Threads, ListExpiredCb(p) PROVE TypeOK'
  BY <1>15 DEF TypeOK, ListExpiredCb, Goto, fdVars, kernelVars
<1>16. ASSUME NEW p \in Threads, ScheduleCbs(p) PROVE TypeOK'
  BY <1>16 DEF TypeOK, ScheduleCbs, Goto, fdVars, kernelVars
<1>17. ASSUME NEW p \in Threads, NEW fd \in Fds, HandleEvent(p, fd) PROVE TypeOK'
  <2>1. batch' \in [Threads -> [Fds -> SUBSET (Event \cup {"HUP"})]]
    BY <1>17 DEF TypeOK, HandleEvent
  <2>2. UNCHANGED <<fresh, level, sleepers, stopFlag, pc, cur, parked, cbs, idleTerm>>
    BY <1>17 DEF HandleEvent
  <2>3. CASE UNCHANGED <<events, ctx, m_pendingEventCount, interest, rdy, runq, aborted>>
    BY <2>1, <2>2, <2>3 DEF TypeOK
  <2>4. ASSUME NEW real \in SUBSET Event, real \subseteq events[fd], Trigger(fd, real),
               EpollCtl(fd, events[fd] \ real), UNCHANGED aborted
        PROVE TypeOK'
    BY <2>1, <2>2, <2>4, TriggerType DEF TypeOK, EpollCtl
  <2>5. ASSUME NEW real \in SUBSET Event, EpollCtl(fd, events[fd] \ real), aborted' = TRUE,
               UNCHANGED <<events, ctx, m_pendingEventCount, runq>>
        PROVE TypeOK'
    BY <2>1, <2>2, <2>5 DEF TypeOK, EpollCtl
  <2> QED BY <1>17, <2>3, <2>4, <2>5, HandleCases
<1>18. ASSUME NEW p \in Threads, LeaveIdle(p) PROVE TypeOK'
  BY <1>18 DEF TypeOK, LeaveIdle, Goto, fdVars, kernelVars, idleVars
<1>19. CASE StopRequest
  BY <1>19 DEF TypeOK, StopRequest, fdVars, kernelVars, idleVars
<1>20. CASE UNCHANGED vars
  BY <1>20 DEF TypeOK, vars, fdVars, kernelVars, idleVars
<1> QED BY <1>1, <1>2, <1>3, <1>4, <1>5, <1>6, <1>7, <1>8, <1>9, <1>10, <1>11, <1>12, <1>13,
           <1>14, <1>15, <1>16, <1>17, <1>18, <1>19, <1>20 DEF Next, ThreadStep, FiberStep

----------------------------------------------------------------------------
(* m_pendingEventCount and the kernel *)

(* The registered events are finitely many, so they can be counted. *)
LEMMA FiniteRegistered ==
    IsFiniteSet(Registered) /\ Cardinality(Registered) \in Nat
<1>1. IsFiniteSet({"READ"} \cup {"WRITE"})
  BY FS_Singleton, FS_AddElement
<1>2. Event = {"READ"} \cup {"WRITE"}
  BY DEF Event
<1>3. IsFiniteSet(Fds \X Event)
  BY <1>1, <1>2, FS_Product, IOManagerAssumption
<1>4. Registered \in SUBSET (Fds \X Event)
  BY DEF Registered
<1> QED BY <1>3, <1>4, FS_Subset, FS_CardinalityType

(* addEvent registers one event more. *)
LEMMA RegisterOne ==
    ASSUME TypeOK, NEW fd \in Fds, NEW e \in Event, e \notin events[fd],
           events' = [events EXCEPT ![fd] = @ \cup {e}]
    PROVE  Cardinality(Registered') = Cardinality(Registered) + 1
<1>1. Registered' = Registered \cup {<<fd, e>>}
  BY DEF TypeOK, Registered
<1>2. <<fd, e>> \notin Registered
  BY DEF Registered
<1> QED BY <1>1, <1>2, FiniteRegistered, FS_AddElement

(* delEvent, cancelEvent, cancelALL and idle() take the events S of one    *)
(* descriptor away, all of them registered.                                *)
LEMMA UnregisterSome ==
    ASSUME TypeOK, NEW fd \in Fds, NEW S \in SUBSET Event, S \subseteq events[fd],
           events' = [events EXCEPT ![fd] = @ \ S]
    PROVE  Cardinality(Registered') = Cardinality(Registered) - Cardinality(S)
<1>1. Registered' = Registered \ ({fd} \X S)
  BY DEF TypeOK, Registered
<1>2. Registered \cap ({fd} \X S) = {fd} \X S
  BY DEF Registered
<1>3. Cardinality({fd} \X S) = Cardinality(S)
  <2>1. IsFiniteSet({"READ"} \cup {"WRITE"})
    BY FS_Singleton, FS_AddElement
  <2>2. Event = {"READ"} \cup {"WRITE"}
    BY DEF Event
  <2>3. IsFiniteSet(S) /\ Cardinality(S) \in Nat
    BY <2>1, <2>2, FS_Subset, FS_CardinalityType
  <2>4. IsFiniteSet({fd}) /\ Cardinality({fd}) = 1
    BY FS_Singleton
  <2>5. Cardinality({fd} \X S) = Cardinality({fd}) * Cardinality(S)
    BY <2>3, <2>4, FS_Product
  <2> QED BY <2>3, <2>4, <2>5
<1>4. Cardinality(Registered \ ({fd} \X S))
        = Cardinality(Registered) - Cardinality(Registered \cap ({fd} \X S))
  <2> DEFINE R == Registered
  <2>1. IsFiniteSet(R)
    BY FiniteRegistered
  <2> HIDE DEF R
  <2>2. Cardinality(R \ ({fd} \X S)) = Cardinality(R) - Cardinality(R \cap ({fd} \X S))
    BY <2>1, FS_Difference
  <2> QED BY <2>2 DEF R
<1> QED BY <1>1, <1>2, <1>3, <1>4

(* The counter follows every registration (addEvent, line 130; the         *)
(* decrements behind triggerEvent and in delEvent).                        *)
LEMMA PendingStep ==
    ASSUME TypeOK, PendingExact, [Next]_vars
    PROVE  PendingExact'
<1>1. ASSUME NEW fd \in Fds, NEW e \in Event, NEW w, AddEvent(fd, e, w) PROVE PendingExact'
  <2>1. Cardinality(Registered') = Cardinality(Registered) + 1
    BY <1>1, RegisterOne DEF AddEvent
  <2> QED BY <1>1, <2>1 DEF AddEvent, PendingExact
<1>2. ASSUME NEW fd \in Fds, NEW S \in SUBSET Event, S \subseteq events[fd], Trigger(fd, S)
      PROVE PendingExact'
  <2>1. Cardinality(Registered') = Cardinality(Registered) - Cardinality(S)
    BY <1>2, UnregisterSome DEF Trigger
  <2> QED BY <1>2, <2>1 DEF Trigger, PendingExact
<1>3. ASSUME NEW p \in Threads, NEW f \in Fibers, NEW fd \in Fds, NEW e \in Event,
             DelEvent(p, f, fd, e)
      PROVE PendingExact'
  <2>1. Cardinality(Registered') = Cardinality(Registered) - Cardinality({e})
    BY <1>3, UnregisterSome DEF DelEvent
  <2>2. Cardinality({e}) = 1
    BY FS_Singleton
  <2> QED BY <1>3, <2>1, <2>2 DEF DelEvent, PendingExact
<1>4. CASE UNCHANGED <<events, m_pendingEventCount>>
  BY <1>4 DEF PendingExact, Registered
<1>5. ASSUME NEW p \in Threads, NEW fd \in Fds, HandleEvent(p, fd) PROVE PendingExact'
  BY <1>2, <1>4, <1>5, HandleCases
<1>6. ASSUME NEW p \in Threads, NEW f \in Fibers, NEW fd \in Fds, CancelALL(p, f, fd)
      PROVE PendingExact'
  <2>1. events[fd] \in SUBSET Event
    BY DEF TypeOK
  <2> QED BY <1>2, <1>6, <2>1 DEF CancelALL
<1>7. ASSUME NEW p \in Threads, FiberStep(p) PROVE PendingExact'
  BY <1>1, <1>2, <1>3, <1>4, <1>6, <1>7 DEF FiberStep, AddEventFiber, AddEventCallback, CancelEvent,
     Sleep, Consume, fdVars
<1>8. ASSUME NEW p \in Threads, ThreadStep(p) PROVE PendingExact'
  BY <1>4, <1>5, <1>8 DEF ThreadStep, Take, EnterIdle, ReadTimers, ReadScheduler, ReadPending,
     EpollWait, ListExpiredCb, ScheduleCbs, LeaveIdle, Leave, fdVars
<1> QED BY <1>4, <1>7, <1>8 DEF Next, BecomeReady, StopRequest, vars, fdVars

(* epoll_ctl is called with what the context says afterwards, in every     *)
(* operation.                                                              *)
LEMMA KernelStep ==
    ASSUME TypeOK, KernelAgrees, [Next]_vars
    PROVE  KernelAgrees'
<1>1. CASE UNCHANGED <<events, interest, aborted>>
  BY <1>1 DEF KernelAgrees
<1>2. ASSUME NEW fd \in Fds, NEW S \in SUBSET Event, EpollCtl(fd, S), ~aborted,
             events' = [events EXCEPT ![fd] = S]
      PROVE KernelAgrees'
  BY <1>2 DEF EpollCtl, KernelAgrees, TypeOK
<1>3. ASSUME NEW p \in Threads, FiberStep(p) PROVE KernelAgrees'
  <2>1. ASSUME NEW f \in Fibers, NEW fd \in Fds, CancelALL(p, f, fd) PROVE KernelAgrees'
    <3>1. events' = [events EXCEPT ![fd] = {}]
      BY <2>1 DEF CancelALL, Trigger, TypeOK
    <3> QED BY <2>1, <3>1, <1>2 DEF CancelALL, Executes
  <2>2. ASSUME NEW f \in Fibers, NEW fd \in Fds, NEW e \in Event,
               DelEvent(p, f, fd, e) \/ CancelEvent(p, f, fd, e)
        PROVE KernelAgrees'
    <3>1. events' = [events EXCEPT ![fd] = events[fd] \ {e}] /\ events[fd] \ {e} \in SUBSET Event
      BY <2>2 DEF DelEvent, CancelEvent, Trigger, TypeOK
    <3> QED BY <2>2, <3>1, <1>2 DEF DelEvent, CancelEvent, Executes
  <2>3. ASSUME NEW f \in Fibers, NEW fd \in Fds, NEW e \in Event,
               AddEventFiber(p, f, fd, e) \/ AddEventCallback(p, f, fd, e)
        PROVE KernelAgrees'
    <3>1. /\ events' = [events EXCEPT ![fd] = events[fd] \cup {e}]
          /\ events[fd] \cup {e} \in SUBSET Event
          /\ EpollCtl(fd, events[fd] \cup {e})
      BY <2>3 DEF AddEventFiber, AddEventCallback, AddEvent, TypeOK
    <3> QED BY <2>3, <3>1, <1>2 DEF AddEventFiber, AddEventCallback, Executes
  <2> QED BY <1>1, <1>3, <2>1, <2>2, <2>3 DEF FiberStep, Sleep, Consume, fdVars
<1>4. ASSUME NEW p \in Threads, NEW fd \in Fds, HandleEvent(p, fd) PROVE KernelAgrees'
  <2>1. ASSUME NEW real \in SUBSET Event, Trigger(fd, real), EpollCtl(fd, events[fd] \ real)
        PROVE KernelAgrees'
    <3>1. events' = [events EXCEPT ![fd] = events[fd] \ real] /\ events[fd] \ real \in SUBSET Event
      BY <2>1 DEF Trigger, TypeOK
    <3> QED BY <2>1, <3>1, <1>2, <1>4 DEF HandleEvent, At
  <2>2. CASE aborted'
    BY <2>2 DEF KernelAgrees
  <2> QED BY <1>1, <1>4, <2>1, <2>2, HandleCases
<1>5. ASSUME NEW p \in Threads, ThreadStep(p) PROVE KernelAgrees'
  BY <1>1, <1>4, <1>5 DEF ThreadStep, Take, EnterIdle, ReadTimers, ReadScheduler, ReadPending,
     EpollWait, ListExpiredCb, ScheduleCbs, LeaveIdle, Leave, fdVars
<1> QED BY <1>1, <1>3, <1>5 DEF Next, BecomeReady, StopRequest, vars, fdVars

----------------------------------------------------------------------------
(* The places of a fiber *)

(* triggerEvent moves the waiters of S from their contexts to the queue.   *)
LEMMA TriggerPlaces ==
    ASSUME TypeOK, PlaceInv, NEW fd \in Fds, NEW S \in SUBSET Event, S \subseteq events[fd],
           Trigger(fd, S), UNCHANGED <<fresh, sleepers, cbs, cur, parked>>
    PROVE  PlaceInv'
<1> USE DEF PlaceInv
<1>1. \A d \in Fds, e \in Event :
         /\ e \in events'[d] <=> e \in events[d] /\ ~(d = fd /\ e \in S)
         /\ ctx'[d][e] = IF d = fd /\ e \in S THEN None ELSE ctx[d][e]
  BY DEF Trigger, TypeOK
<1>2. \A f \in Fibers : f \in runq' <=> f \in runq \/ \E e \in S : ctx[fd][e] = f
  BY DEF Trigger
<1>3. \A f \in Fibers : Waiting(f)' <=> Waiting(f) /\ \A e \in S : ctx[fd][e] # f
  <2>1. ASSUME NEW f \in Fibers, Waiting(f)'
        PROVE Waiting(f) /\ \A e \in S : ctx[fd][e] # f
    <3>1. PICK d \in Fds, e \in Event : ctx'[d][e] = f
      BY <2>1 DEF Waiting
    <3>2. ctx[d][e] = f /\ ~(d = fd /\ e \in S)
      BY <3>1, <1>1, IOManagerAssumption
    <3>3. f # None
      BY IOManagerAssumption
    <3> QED BY <3>2, <3>3 DEF Waiting, OneEvent
  <2>2. ASSUME NEW f \in Fibers, Waiting(f), \A e \in S : ctx[fd][e] # f
        PROVE Waiting(f)'
    <3>1. PICK d \in Fds, e \in Event : ctx[d][e] = f
      BY <2>2 DEF Waiting
    <3>2. ctx'[d][e] = f
      BY <3>1, <2>2, <1>1
    <3> QED BY <3>2 DEF Waiting
  <2> QED BY <2>1, <2>2
<1>4. \A f \in Fibers : Placed(f)' <=> Placed(f)
  BY <1>2, <1>3 DEF Placed, Waiting
<1>5. CtxSet'
  BY <1>1 DEF CtxSet
<1>6. OneEvent'
  BY <1>1 DEF OneEvent
<1>7. OneTaker' /\ OneCarrier'
  BY DEF OneTaker, OneCarrier
<1>8. Exclusive'
  <2> SUFFICES ASSUME NEW f \in Fibers
               PROVE  /\ f \in runq' => f \notin sleepers /\ ~Waiting(f)' /\ \A p \in Threads : f \notin cbs[p]
                      /\ f \in sleepers => ~Waiting(f)' /\ \A p \in Threads : f \notin cbs[p]
                      /\ Waiting(f)' => \A p \in Threads : f \notin cbs[p]
    BY DEF Exclusive
  <2>1. f \in runq' => f \in runq \/ Waiting(f)
    BY <1>2 DEF Waiting
  <2>2. f \in runq' => ~Waiting(f)'
    BY <1>2, <1>3 DEF Exclusive
  <2> QED BY <1>3, <2>1, <2>2 DEF Exclusive
<1>9. ExecutingFree'
  <2>1. \A p \in Threads : cur[p] # None => cur[p] \in Fibers
    BY DEF TypeOK
  <2> QED BY <1>4, <2>1 DEF ExecutingFree
<1>10. FreshFree'
  <2>1. fresh \subseteq Fibers
    BY IOManagerAssumption DEF TypeOK
  <2> QED BY <1>4, <2>1 DEF FreshFree
<1> QED BY <1>5, <1>6, <1>7, <1>8, <1>9, <1>10

(* addEvent puts a waiter w that is in no place into the context; it is    *)
(* then not a fiber that executes and may register again, and not fresh.   *)
LEMMA AddPlaces ==
    ASSUME TypeOK, PlaceInv, NEW fd \in Fds, NEW e \in Event, NEW w \in Fibers, ~Placed(w),
           AddEvent(fd, e, w), UNCHANGED <<runq, sleepers, cbs, cur>>,
           fresh' \subseteq fresh, w \notin fresh',
           \A p \in Threads : cur[p] # None /\ ~parked'[cur[p]] => ~parked[cur[p]] /\ cur[p] # w
    PROVE  PlaceInv'
<1> USE DEF PlaceInv
<1>1. \A d \in Fds, a \in Event :
         /\ a \in events'[d] <=> a \in events[d] \/ (d = fd /\ a = e)
         /\ ctx'[d][a] = IF d = fd /\ a = e THEN w ELSE ctx[d][a]
  BY DEF AddEvent, TypeOK
<1>2. w # None /\ ctx[fd][e] = None
  BY IOManagerAssumption DEF AddEvent, CtxSet
<1>3. \A f \in Fibers : Waiting(f)' <=> Waiting(f) \/ f = w
  <2>1. Waiting(w)'
    BY <1>1 DEF Waiting
  <2>2. ASSUME NEW f \in Fibers, Waiting(f) PROVE Waiting(f)'
    <3>1. PICK d \in Fds, a \in Event : ctx[d][a] = f
      BY <2>2 DEF Waiting
    <3>2. ctx'[d][a] = f
      BY <3>1, <1>1, <1>2, IOManagerAssumption
    <3> QED BY <3>2 DEF Waiting
  <2>3. ASSUME NEW f \in Fibers, Waiting(f)' PROVE Waiting(f) \/ f = w
    BY <2>3, <1>1 DEF Waiting
  <2> QED BY <2>1, <2>2, <2>3
<1>4. \A f \in Fibers : Placed(f)' <=> Placed(f) \/ f = w
  BY <1>3 DEF Placed
<1>5. CtxSet'
  BY <1>1, <1>2 DEF CtxSet
<1>6. OneEvent'
  <2>1. \A d \in Fds, a \in Event : ctx[d][a] # w
    BY DEF Placed, Waiting
  <2> QED BY <1>1, <2>1 DEF OneEvent
<1>7. OneTaker' /\ OneCarrier'
  BY DEF OneTaker, OneCarrier
<1>8. Exclusive'
  BY <1>3 DEF Exclusive, Placed
<1>9. ExecutingFree'
  <2>1. \A p \in Threads : cur[p] # None => cur[p] \in Fibers
    BY DEF TypeOK
  <2> QED BY <1>4, <2>1 DEF ExecutingFree
<1>10. FreshFree'
  <2>1. fresh \subseteq Fibers
    BY IOManagerAssumption DEF TypeOK
  <2> QED BY <1>4, <2>1 DEF FreshFree
<1> QED BY <1>5, <1>6, <1>7, <1>8, <1>9, <1>10

(* Every step keeps the places apart: what is triggered, cancelled, timed  *)
(* out or taken moves from one place to the next, and only a fiber in no   *)
(* place registers.                                                        *)
LEMMA PlaceStep ==
    ASSUME TypeOK, PlaceInv, PcInv, [Next]_vars
    PROVE  PlaceInv'
<1> USE DEF PlaceInv
<1>0. \A p \in Threads, f \in Fibers : Executes(p, f) => ~Placed(f) /\ cur[p] # None
  BY IOManagerAssumption DEF Executes, ExecutingFree
<1>1. ASSUME NEW p \in Threads, NEW f \in Fibers, NEW fd \in Fds, NEW e \in Event,
             AddEventFiber(p, f, fd, e)
      PROVE PlaceInv'
  <2>1. ~Placed(f) /\ f \notin fresh
    BY <1>0, <1>1 DEF AddEventFiber, FreshFree, Executes
  <2>2. \A q \in Threads : cur[q] # None /\ ~parked'[cur[q]] => ~parked[cur[q]] /\ cur[q] # f
    BY <1>1 DEF AddEventFiber, TypeOK
  <2> QED BY <1>1, <2>1, <2>2, AddPlaces DEF AddEventFiber, idleVars
<1>2. ASSUME NEW p \in Threads, NEW f \in Fibers, NEW fd \in Fds, NEW e \in Event,
             AddEventCallback(p, f, fd, e)
      PROVE PlaceInv'
  <2>1. PICK w \in fresh : AddEvent(fd, e, w) /\ fresh' = fresh \ {w}
    BY <1>2 DEF AddEventCallback
  <2>2. w \in Fibers /\ ~Placed(w) /\ \A q \in Threads : cur[q] # w
    BY IOManagerAssumption DEF TypeOK, FreshFree
  <2> QED BY <1>2, <2>1, <2>2, AddPlaces DEF AddEventCallback, idleVars
<1>3. ASSUME NEW p \in Threads, NEW f \in Fibers, NEW fd \in Fds, NEW e \in Event,
             DelEvent(p, f, fd, e)
      PROVE PlaceInv'
  <2>1. \A d \in Fds, a \in Event :
           /\ a \in events'[d] <=> a \in events[d] /\ ~(d = fd /\ a = e)
           /\ ctx'[d][a] = IF d = fd /\ a = e THEN None ELSE ctx[d][a]
    BY <1>3 DEF DelEvent, TypeOK
  <2>2. UNCHANGED <<fresh, runq, sleepers, cur, parked, cbs>>
    BY <1>3 DEF DelEvent, idleVars
  <2>3. \A g \in Fibers : Waiting(g)' => Waiting(g)
    BY <2>1, IOManagerAssumption DEF Waiting
  <2>4. \A g \in Fibers : Placed(g)' => Placed(g)
    BY <2>2, <2>3 DEF Placed
  <2>5. \A q \in Threads : cur[q] # None => cur[q] \in Fibers
    BY DEF TypeOK
  <2>6. fresh \subseteq Fibers
    BY IOManagerAssumption DEF TypeOK
  <2>7. CtxSet' /\ OneEvent'
    BY <2>1 DEF CtxSet, OneEvent
  <2>8. OneTaker' /\ OneCarrier' /\ Exclusive'
    BY <2>2, <2>3 DEF OneTaker, OneCarrier, Exclusive
  <2>9. ExecutingFree' /\ FreshFree'
    BY <2>2, <2>4, <2>5, <2>6 DEF ExecutingFree, FreshFree
  <2> QED BY <2>7, <2>8, <2>9
<1>4. ASSUME NEW p \in Threads, NEW f \in Fibers, NEW fd \in Fds, NEW e \in Event,
             CancelEvent(p, f, fd, e)
      PROVE PlaceInv'
  <2>1. {e} \in SUBSET Event /\ {e} \subseteq events[fd]
    BY <1>4 DEF CancelEvent
  <2> QED BY <1>4, <2>1, TriggerPlaces DEF CancelEvent, idleVars
<1>5. ASSUME NEW p \in Threads, NEW f \in Fibers, NEW fd \in Fds, CancelALL(p, f, fd)
      PROVE PlaceInv'
  <2>1. events[fd] \in SUBSET Event
    BY DEF TypeOK
  <2> QED BY <1>5, <2>1, TriggerPlaces DEF CancelALL, idleVars
<1>6. CASE UNCHANGED <<events, ctx, fresh, runq, sleepers, cbs, cur, parked>>
  BY <1>6 DEF CtxSet, OneEvent, OneTaker, OneCarrier, Exclusive, ExecutingFree, FreshFree, Placed,
     Waiting
<1>7. ASSUME NEW p \in Threads, NEW fd \in Fds, HandleEvent(p, fd) PROVE PlaceInv'
  <2>1. UNCHANGED <<fresh, sleepers, cbs, cur, parked>>
    BY <1>7 DEF HandleEvent
  <2> QED BY <1>6, <1>7, <2>1, HandleCases, TriggerPlaces
(* The remaining actions leave the contexts alone. *)
<1>8. CASE UNCHANGED <<events, ctx>> /\ (OneTaker /\ Exclusive /\ ExecutingFree /\ FreshFree /\ OneCarrier)'
  BY <1>8 DEF CtxSet, OneEvent
<1>9. ASSUME NEW p \in Threads, NEW f \in Fibers, Sleep(p, f) PROVE PlaceInv'
  <2>1. ~Placed(f) /\ f \notin fresh
    BY <1>0, <1>9 DEF Sleep, FreshFree, Executes
  <2>2. /\ UNCHANGED <<events, ctx, fresh, runq, cbs, cur>>
        /\ sleepers' = sleepers \cup {f}
        /\ \A g \in Fibers : parked'[g] <=> parked[g] \/ g = f
    BY <1>9 DEF Sleep, fdVars, idleVars, TypeOK
  <2>3. \A g \in Fibers : Waiting(g)' <=> Waiting(g)
    BY <2>2 DEF Waiting
  <2>4. \A g \in Fibers : Placed(g)' <=> Placed(g) \/ g = f
    BY <2>2, <2>3 DEF Placed
  <2>5. \A q \in Threads : cur[q] # None => cur[q] \in Fibers
    BY DEF TypeOK
  <2>6. fresh \subseteq Fibers
    BY IOManagerAssumption DEF TypeOK
  <2>7. Exclusive'
    BY <2>1, <2>2, <2>3 DEF Exclusive, Placed
  <2>8. ExecutingFree' /\ FreshFree'
    BY <2>1, <2>2, <2>4, <2>5, <2>6 DEF ExecutingFree, FreshFree
  <2>9. OneTaker' /\ OneCarrier'
    BY <2>2 DEF OneTaker, OneCarrier
  <2> QED BY <1>8, <2>2, <2>7, <2>8, <2>9
<1>10. ASSUME NEW p \in Threads, Leave(p) PROVE PlaceInv'
  <2>1. /\ UNCHANGED <<events, ctx, fresh, runq, sleepers, cbs, parked>>
        /\ \A q \in Threads : cur'[q] = IF q = p THEN None ELSE cur[q]
    BY <1>10 DEF Leave, fdVars, idleVars, TypeOK
  <2>2. \A g : Waiting(g)' <=> Waiting(g)
    BY <2>1 DEF Waiting
  <2>3. \A g : Placed(g)' <=> Placed(g)
    BY <2>1, <2>2 DEF Placed
  <2>4. OneTaker' /\ OneCarrier' /\ Exclusive'
    BY <2>1, <2>2 DEF OneTaker, OneCarrier, Exclusive
  <2>5. None \notin fresh
    BY IOManagerAssumption DEF TypeOK
  <2>6. ExecutingFree' /\ FreshFree'
    BY <2>1, <2>3, <2>5 DEF ExecutingFree, FreshFree
  <2> QED BY <1>8, <2>1, <2>4, <2>6
<1>11. ASSUME NEW p \in Threads, Take(p) PROVE PlaceInv'
  <2>1. PICK f \in Takeable :
           /\ runq' = runq \ {f}
           /\ cur' = [cur EXCEPT ![p] = f]
           /\ parked' = [parked EXCEPT ![f] = FALSE]
    BY <1>11 DEF Take
  <2>2. f \in Fibers /\ f \in runq /\ \A q \in Threads : cur[q] # f
    BY DEF Takeable, TypeOK
  <2>3. /\ UNCHANGED <<events, ctx, fresh, sleepers, cbs>>
        /\ \A q \in Threads : cur'[q] = IF q = p THEN f ELSE cur[q]
        /\ \A g \in Fibers : parked'[g] = IF g = f THEN FALSE ELSE parked[g]
    BY <1>11, <2>1, <2>2 DEF Take, fdVars, idleVars, TypeOK
  <2>4. \A g : Waiting(g)' <=> Waiting(g)
    BY <2>3 DEF Waiting
  <2>5. \A g \in Fibers : Placed(g)' <=> Placed(g) /\ g # f
    BY <2>1, <2>2, <2>3, <2>4 DEF Placed, Exclusive
  <2>6. OneTaker' /\ Exclusive'
    BY <2>1, <2>3, <2>4 DEF OneTaker, Exclusive
  <2>7. OneCarrier'
    BY <2>2, <2>3 DEF OneCarrier
  <2>8. ExecutingFree'
    <3>1. \A q \in Threads : cur[q] # None => cur[q] \in Fibers
      BY DEF TypeOK
    <3> QED BY <3>1, <2>2, <2>3, <2>5 DEF ExecutingFree
  <2>9. FreshFree'
    <3>1. fresh \subseteq Fibers /\ f \notin fresh
      BY IOManagerAssumption, <2>2 DEF TypeOK, FreshFree, Placed
    <3> QED BY <3>1, <2>3, <2>5 DEF FreshFree
  <2> QED BY <1>8, <2>3, <2>6, <2>7, <2>8, <2>9
<1>12. ASSUME NEW p \in Threads, cbs[p] = {}, ListExpiredCb(p) PROVE PlaceInv'
  <2>1. PICK S \in SUBSET sleepers : cbs' = [cbs EXCEPT ![p] = S] /\ sleepers' = sleepers \ S
    BY <1>12 DEF ListExpiredCb
  <2>2. /\ UNCHANGED <<events, ctx, fresh, runq, cur, parked>>
        /\ \A q \in Threads : cbs'[q] = IF q = p THEN S ELSE cbs[q]
    BY <1>12, <2>1 DEF ListExpiredCb, fdVars, TypeOK
  <2>3. \A g : Waiting(g)' <=> Waiting(g)
    BY <2>2 DEF Waiting
  <2>4. \A g : Placed(g)' <=> Placed(g)
    BY <1>12, <2>1, <2>2, <2>3 DEF Placed
  <2>5. OneTaker' /\ OneCarrier'
    BY <2>1, <2>2 DEF OneTaker, OneCarrier, Exclusive
  <2>6. Exclusive'
    BY <2>1, <2>2, <2>3 DEF Exclusive
  <2>7. ExecutingFree' /\ FreshFree'
    BY <2>2, <2>4 DEF ExecutingFree, FreshFree
  <2> QED BY <1>8, <2>2, <2>5, <2>6, <2>7
<1>13. ASSUME NEW p \in Threads, ScheduleCbs(p) PROVE PlaceInv'
  <2>1. /\ UNCHANGED <<events, ctx, fresh, sleepers, cur, parked>>
        /\ runq' = runq \cup cbs[p]
        /\ \A q \in Threads : cbs'[q] = IF q = p THEN {} ELSE cbs[q]
    BY <1>13 DEF ScheduleCbs, fdVars, TypeOK
  <2>2. \A g : Waiting(g)' <=> Waiting(g)
    BY <2>1 DEF Waiting
  <2>3. \A g : Placed(g)' <=> Placed(g)
    BY <2>1, <2>2 DEF Placed
  <2>4. OneTaker' /\ OneCarrier'
    BY <2>1 DEF OneTaker, OneCarrier
  <2>5. Exclusive'
    BY <2>1, <2>2 DEF Exclusive, OneTaker
  <2>6. ExecutingFree' /\ FreshFree'
    BY <2>1, <2>3 DEF ExecutingFree, FreshFree
  <2> QED BY <1>8, <2>1, <2>4, <2>5, <2>6
<1>14. ASSUME NEW p \in Threads, ThreadStep(p) PROVE PlaceInv'
  <2>1. ListExpiredCb(p) => cbs[p] = {}
    BY DEF ListExpiredCb, At, PcInv
  <2> QED BY <1>6, <1>7, <1>10, <1>11, <1>12, <1>13, <1>14, <2>1 DEF ThreadStep, EnterIdle, ReadTimers,
             ReadScheduler, ReadPending, EpollWait, LeaveIdle, fdVars, idleVars
<1>15. ASSUME NEW p \in Threads, FiberStep(p) PROVE PlaceInv'
  BY <1>1, <1>2, <1>3, <1>4, <1>5, <1>6, <1>9, <1>15 DEF FiberStep, Consume, fdVars, idleVars
<1> QED BY <1>6, <1>14, <1>15 DEF Next, BecomeReady, StopRequest, vars, fdVars, idleVars

----------------------------------------------------------------------------
(* The threads and stopping() *)

(* Where a thread can be, with what, is kept by every step of run() and    *)
(* idle().                                                                 *)
LEMMA PcStep ==
    ASSUME TypeOK, PcInv, [Next]_vars
    PROVE  PcInv'
<1>1. CASE UNCHANGED <<pc, cur, cbs, idleTerm>>
  BY <1>1 DEF PcInv
<1>2. ASSUME NEW p \in Threads, Take(p) PROVE PcInv'
  <2>1. PICK f \in runq : cur' = [cur EXCEPT ![p] = f]
    BY <1>2 DEF Take, Takeable
  <2>2. f # None
    BY IOManagerAssumption DEF TypeOK
  <2> QED BY <1>2, <2>1, <2>2 DEF Take, At, Goto, PcInv, TypeOK, idleVars
<1>3. ASSUME NEW p \in Threads, Leave(p) PROVE PcInv'
  BY <1>3 DEF Leave, PcInv, TypeOK, idleVars
<1>4. ASSUME NEW p \in Threads, EnterIdle(p) PROVE PcInv'
  BY <1>4 DEF EnterIdle, At, Goto, PcInv, TypeOK, idleVars
<1>5. ASSUME NEW p \in Threads, ReadTimers(p) \/ ReadScheduler(p) \/ LeaveIdle(p) PROVE PcInv'
  BY <1>5 DEF ReadTimers, ReadScheduler, LeaveIdle, At, Goto, PcInv, TypeOK, idleVars
<1>6. ASSUME NEW p \in Threads, ReadPending(p) PROVE PcInv'
  BY <1>6 DEF ReadPending, At, Goto, PcInv, TypeOK
<1>7. ASSUME NEW p \in Threads, EpollWait(p) PROVE PcInv'
  BY <1>7 DEF EpollWait, At, Goto, PcInv, TypeOK
<1>8. ASSUME NEW p \in Threads, ListExpiredCb(p) PROVE PcInv'
  BY <1>8 DEF ListExpiredCb, At, Goto, PcInv, TypeOK
<1>9. ASSUME NEW p \in Threads, ScheduleCbs(p) PROVE PcInv'
  BY <1>9 DEF ScheduleCbs, At, Goto, PcInv, TypeOK
<1>10. ASSUME NEW p \in Threads, FiberStep(p) PROVE PcInv'
  BY <1>1, <1>10 DEF FiberStep, Sleep, CancelALL, AddEventFiber, AddEventCallback, DelEvent,
     CancelEvent, Consume, idleVars
<1>11. ASSUME NEW p \in Threads, ThreadStep(p) PROVE PcInv'
  BY <1>1, <1>2, <1>3, <1>4, <1>5, <1>6, <1>7, <1>8, <1>9, <1>11 DEF ThreadStep, HandleEvent
<1> QED BY <1>1, <1>10, <1>11 DEF Next, BecomeReady, StopRequest, vars, idleVars

(* While the threads are quiet nothing is queued, executed or registered,  *)
(* and they become quiet only when ReadScheduler of the last one finds     *)
(* nothing queued or executing: the late reads of stopping() are harmless. *)
LEMMA StopStep ==
    ASSUME TypeOK, PendingExact, PcInv, StopInv, [Next]_vars
    PROVE  StopInv'
<1>1. CASE UNCHANGED <<runq, cur, events, idleTerm, pc>>
  BY <1>1 DEF StopInv, Quiet, Registered
<1>2. (\A p \in Threads : idleTerm[p]) => Quiet
  BY DEF Quiet
(* A thread that executes a fiber or handles events is not quiet, nor does *)
(* its step make it so.                                                    *)
<1>3. ASSUME NEW p \in Threads, pc[p] \notin {"noTimer", "noTask"}, UNCHANGED idleTerm,
             pc' = pc, pc[p] \in {"task", "handle"}
      PROVE StopInv'
  <2>1. ~Quiet
    BY <1>3 DEF Quiet, StopInv, PcInv
  <2> QED BY <1>2, <1>3, <2>1 DEF StopInv, Quiet
<1>4. ASSUME NEW p \in Threads, FiberStep(p) PROVE StopInv'
  <2>1. UNCHANGED <<idleTerm, pc>>
    BY <1>4 DEF FiberStep, Sleep, CancelALL, AddEventFiber, AddEventCallback, DelEvent, CancelEvent,
       Consume, idleVars
  <2>2. \E f \in Fibers : Executes(p, f)
    BY <1>4 DEF FiberStep, Sleep, CancelALL, AddEventFiber, AddEventCallback, DelEvent, CancelEvent,
       Consume
  <2> QED BY <1>3, <2>1, <2>2 DEF Executes
<1>5. ASSUME NEW p \in Threads, NEW fd \in Fds, HandleEvent(p, fd) PROVE StopInv'
  BY <1>3, <1>5 DEF HandleEvent, At
(* A step of p that leaves it busy does not make the threads quiet. *)
<1>6. ASSUME NEW p \in Threads, ~(idleTerm'[p] \/ pc'[p] = "noTask") PROVE StopInv'
  BY <1>6 DEF StopInv, Quiet
<1>7. ASSUME NEW p \in Threads, Take(p) PROVE StopInv'
  <2>1. ~Quiet
    BY <1>7 DEF Take, Takeable, StopInv
  <2>2. PICK q \in Threads : ~(idleTerm[q] \/ pc[q] = "noTask")
    BY <2>1 DEF Quiet
  <2>3. ~(idleTerm'[q] \/ pc'[q] = "noTask")
    BY <1>7, <2>2 DEF Take, Goto, TypeOK, idleVars
  <2> QED BY <1>6, <2>3
<1>8. ASSUME NEW p \in Threads, Leave(p) PROVE StopInv'
  <2>1. ~Quiet
    BY <1>8 DEF Leave, StopInv, PcInv
  <2>2. PICK q \in Threads : ~(idleTerm[q] \/ pc[q] = "noTask")
    BY <2>1 DEF Quiet
  <2>3. ~(idleTerm'[q] \/ pc'[q] = "noTask")
    BY <1>8, <2>2 DEF Leave, TypeOK, idleVars
  <2> QED BY <1>6, <2>3
<1>9. ASSUME NEW p \in Threads, EnterIdle(p) PROVE StopInv'
  <2>1. CASE idleTerm[p]
    <3>1. Quiet' => Quiet
      BY <1>9, <2>1 DEF EnterIdle, Goto, Quiet, TypeOK, idleVars
    <3> QED BY <1>9, <3>1 DEF EnterIdle, StopInv, Registered, fdVars, idleVars
  <2>2. CASE ~idleTerm[p]
    BY <1>6, <1>9, <2>2 DEF EnterIdle, Goto, TypeOK, idleVars
  <2> QED BY <2>1, <2>2
<1>10. ASSUME NEW p \in Threads,
              ReadTimers(p) \/ EpollWait(p) \/ ListExpiredCb(p) \/ ScheduleCbs(p) \/ LeaveIdle(p)
       PROVE StopInv'
  <2>1. ~idleTerm[p] /\ UNCHANGED idleTerm /\ pc'[p] # "noTask"
    BY <1>10 DEF ReadTimers, EpollWait, ListExpiredCb, ScheduleCbs, LeaveIdle, At, Goto, PcInv, TypeOK,
       idleVars
  <2> QED BY <1>6, <2>1
<1>11. ASSUME NEW p \in Threads, ReadScheduler(p) PROVE StopInv'
  <2>1. ~idleTerm[p] /\ UNCHANGED <<idleTerm, runq, cur>>
    BY <1>11 DEF ReadScheduler, At, PcInv, idleVars
  <2>2. CASE SchedulerStopping
    BY <2>1, <2>2 DEF StopInv, SchedulerStopping
  <2>3. CASE ~SchedulerStopping
    BY <1>6, <1>11, <2>1, <2>3 DEF ReadScheduler, Goto, TypeOK
  <2> QED BY <2>2, <2>3
<1>12. ASSUME NEW p \in Threads, ReadPending(p) PROVE StopInv'
  <2>1. UNCHANGED <<runq, cur, events, m_pendingEventCount>> /\ pc[p] = "noTask"
    BY <1>12 DEF ReadPending, At, fdVars
  <2>2. CASE m_pendingEventCount = 0
    <3>1. Registered = {}
      BY <2>2, FiniteRegistered, FS_EmptySet DEF PendingExact
    <3>2. Registered' = {}
      BY <2>1, <3>1 DEF Registered
    <3>3. Quiet' => Quiet
      BY <1>12, <2>1 DEF ReadPending, Goto, Quiet, TypeOK
    <3> QED BY <2>1, <3>2, <3>3 DEF StopInv
  <2>3. CASE m_pendingEventCount # 0
    BY <1>6, <1>12, <2>3 DEF ReadPending, Goto, TypeOK
  <2> QED BY <2>2, <2>3
<1>13. ASSUME NEW p \in Threads, ThreadStep(p) PROVE StopInv'
  BY <1>5, <1>7, <1>8, <1>9, <1>10, <1>11, <1>12, <1>13 DEF ThreadStep
<1> QED BY <1>1, <1>4, <1>13 DEF Next, BecomeReady, StopRequest, vars, fdVars, idleVars

----------------------------------------------------------------------------
(* Theorems *)

(* IndInv holds when the threads start and every step keeps it. *)
LEMMA IndInvInit == Init => IndInv
<1> SUFFICES ASSUME Init PROVE IndInv
  OBVIOUS
<1>1. TypeOK
  <2>1. /\ events \in [Fds -> SUBSET Event]
        /\ interest \in [Fds -> SUBSET Event]
        /\ level \in [Fds -> SUBSET (Event \cup {"HUP"})]
        /\ batch \in [Threads -> [Fds -> SUBSET (Event \cup {"HUP"})]]
        /\ rdy \in [Fds -> BOOLEAN]
    BY DEF Init
  <2>2. /\ ctx \in [Fds -> [Event -> Fibers \cup {None}]]
        /\ cbs \in [Threads -> SUBSET Fibers]
        /\ cur \in [Threads -> Fibers \cup {None}]
        /\ parked \in [Fibers -> BOOLEAN]
        /\ idleTerm \in [Threads -> BOOLEAN]
    BY DEF Init
  <2>3. fresh \in SUBSET Callbacks /\ runq \in SUBSET Fibers /\ sleepers \in SUBSET Fibers
    BY DEF Init
  <2>4. pc \in [Threads -> {"loop", "task", "stopping", "noTimer", "noTask", "wait",
                            "timers", "expired", "handle", "exit"}]
    BY DEF Init
  <2>5. stopFlag \in BOOLEAN /\ aborted \in BOOLEAN
    BY Zenon DEF Init
  <2>6. m_pendingEventCount \in Int
    BY DEF Init
  <2> QED BY <2>1, <2>2, <2>3, <2>4, <2>5, <2>6 DEF TypeOK
<1>2. PendingExact
  <2>1. Registered = {}
    BY DEF Init, Registered
  <2> QED BY <2>1, FS_EmptySet DEF Init, PendingExact
<1>3. KernelAgrees /\ PcInv
  BY DEF Init, KernelAgrees, PcInv
<1>4. PlaceInv
  <2>1. \A fd \in Fds, e \in Event : ctx[fd][e] = None /\ events[fd] = {}
    BY DEF Init
  <2>2. \A f \in Fibers : ~Waiting(f)
    BY <2>1, IOManagerAssumption DEF Waiting
  <2>3. CtxSet /\ OneEvent
    BY <2>1 DEF CtxSet, OneEvent
  <2>4. OneTaker /\ OneCarrier /\ ExecutingFree
    BY DEF Init, OneTaker, OneCarrier, ExecutingFree
  <2>5. Exclusive
    BY <2>2 DEF Init, Exclusive
  <2>6. FreshFree
    BY <2>2, IOManagerAssumption DEF Init, FreshFree, Placed
  <2> QED BY <2>3, <2>4, <2>5, <2>6 DEF PlaceInv
<1>5. StopInv
  BY IOManagerAssumption DEF Init, StopInv, Quiet
<1> QED BY <1>1, <1>2, <1>3, <1>4, <1>5 DEF IndInv

(* IndInv is inductive: an invariant of the whole module. *)
THEOREM Inductive == Spec => []IndInv
<1>1. IndInv /\ [Next]_vars => IndInv'
  BY TypeStep, PendingStep, KernelStep, PlaceStep, PcStep, StopStep DEF IndInv, PlaceInv
<1> QED BY <1>1, IndInvInit, PTL DEF Spec

(* Type correctness of the module. *)
THEOREM TypeCorrect == Spec => []TypeOK
<1>1. IndInv => TypeOK
  BY DEF IndInv
<1> QED BY <1>1, Inductive, PTL

(* m_pendingEventCount is the number of registered events, whatever adds,  *)
(* deletes, cancels and triggers in whatever order; so stopping() (line    *)
(* 249) never misses one, and the unsigned counter never passes zero.      *)
THEOREM PendingCorrect == Spec => [](PendingExact /\ m_pendingEventCount \in Nat)
<1>1. IndInv => PendingExact /\ m_pendingEventCount \in Nat
  BY FiniteRegistered DEF IndInv, PendingExact
<1> QED BY <1>1, Inductive, PTL

(* epoll watches what the contexts say: op is always the right one of ADD, *)
(* MOD and DEL.                                                            *)
THEOREM KernelCorrect == Spec => []KernelAgrees
<1>1. IndInv => KernelAgrees
  BY DEF IndInv
<1> QED BY <1>1, Inductive, PTL

(* The exclusive places, counted: at most one of them for each fiber. *)
LEMMA PlacesCounted ==
    ASSUME TypeOK, PlaceInv
    PROVE  OnePlace
<1> USE DEF PlaceInv
<1>1. \A r \in Fds \X Event : ctx[r[1]][r[2]] # None <=> r \in Registered
  BY DEF CtxSet, Registered
<1>2. ASSUME NEW f \in Fibers
      PROVE Cardinality(WaitsFor(f)) + Cardinality({p \in Threads : f \in cbs[p]})
              + (IF f \in sleepers THEN 1 ELSE 0) + (IF f \in runq THEN 1 ELSE 0) <= 1
  <2> DEFINE W == WaitsFor(f)
  <2> DEFINE C == {p \in Threads : f \in cbs[p]}
  <2>1. W = {} \/ \E r : W = {r}
    <3>1. f # None
      BY IOManagerAssumption
    <3>2. \A a, b \in W : a = b
      BY <3>1 DEF WaitsFor, OneEvent
    <3> QED BY <3>2
  <2>2. C = {} \/ \E q : C = {q}
    <3>1. \A p, q \in C : p = q
      BY DEF OneTaker
    <3>2. ASSUME NEW q \in C PROVE C = {q}
      <4>1. \A p \in C : p = q
        BY <3>1
      <4> HIDE DEF C
      <4> QED BY <4>1
    <3> QED BY <3>2
  <2>3. W # {} <=> Waiting(f)
    <3>1. ASSUME NEW r \in W PROVE Waiting(f)
      BY <3>1 DEF WaitsFor, Waiting
    <3>2. ASSUME NEW fd \in Fds, NEW e \in Event, ctx[fd][e] = f PROVE <<fd, e>> \in W
      BY <3>2 DEF WaitsFor
    <3> QED BY <3>1, <3>2 DEF Waiting
  <2>4. C # {} <=> \E p \in Threads : f \in cbs[p]
    OBVIOUS
  <2>5. /\ Cardinality(W) = IF W = {} THEN 0 ELSE 1
        /\ Cardinality(C) = IF C = {} THEN 0 ELSE 1
    BY <2>1, <2>2, FS_EmptySet, FS_Singleton
  <2> HIDE DEF W, C
  <2>6. /\ W # {} => C = {} /\ f \notin sleepers /\ f \notin runq
        /\ C # {} => f \notin sleepers /\ f \notin runq
        /\ f \in sleepers => f \notin runq
    BY <2>3, <2>4 DEF Exclusive
  <2>7. Cardinality(W) + Cardinality(C)
          + (IF f \in sleepers THEN 1 ELSE 0) + (IF f \in runq THEN 1 ELSE 0) <= 1
    BY <2>5, <2>6
  <2> QED BY <2>7 DEF W, C
<1> QED BY <1>1, <1>2 DEF OnePlace

(* A fiber is never in two places: it is resumed once for each time it     *)
(* waits, and addEvent finds the context of a free event empty.            *)
THEOREM OnePlaceCorrect == Spec => []OnePlace
<1>1. IndInv => OnePlace
  BY PlacesCounted DEF IndInv
<1> QED BY <1>1, Inductive, PTL

(* The threads do not all leave while something is registered or queued.   *)
THEOREM NoWaiterStrandedCorrect == Spec => []NoWaiterStranded
<1>1. IndInv => NoWaiterStranded
  BY DEF IndInv, NoWaiterStranded, Gone, PcInv, StopInv, Quiet
<1> QED BY <1>1, Inductive, PTL

=============================================================================
