-------------------------- MODULE SchedulerProofs --------------------------
(***************************************************************************)
(* Proofs about Scheduler, for any number of threads, tasks and calls.     *)
(*                                                                         *)
(* None of the properties is inductive.  IndInv adds to them what run()    *)
(* and fiber.cc establish together: which fibers may be in the queue while *)
(* a thread carries them (only those whose wake-up came before they had    *)
(* left their thread, and these are EXEC, so that the scan skips them).    *)
(***************************************************************************)
EXTENDS Scheduler, CommonLemmas, FiniteSetTheorems, SequenceTheorems, TLAPS

QTasks == {m_fibers[i].task : i \in DOMAIN m_fibers}
Free == {"off", "scan", "idle", "done"}        \* a thread without a task
Running == {"exec", "leaving", "out", "post"}  \* between swapIn and the end of its round

(* No task is in the queue twice. *)
Unique == \A i, j \in DOMAIN m_fibers : m_fibers[i].task = m_fibers[j].task => i = j

(* A thread has a task exactly where run() has one. *)
CarrierPc == \A w \in Threads : cur[w] = None <=> pc[w] \in Free

(* The fiber's state where the thread relies on it. *)
StateAtPc == \A w \in Threads :
    /\ pc[w] = "taken" => state[cur[w]] # "EXEC"
    /\ pc[w] = "exec" => state[cur[w]] = "EXEC"

(* A fiber that is queued while a thread carries it has been woken early. *)
QueuedRunning == \A w \in Threads :
    cur[w] \in QTasks => state[cur[w]] = "EXEC" /\ wake[cur[w]] = "fired"

(* A fiber that waits for its wake-up is not queued; if it has not left    *)
(* its thread yet it is EXEC.                                              *)
ArmedWaits == \A t \in Tasks : wake[t] = "armed" =>
    /\ t \notin QTasks
    /\ \A w \in Threads : cur[w] = t => state[t] = "EXEC"

(* Only a suspended or suspending fiber has a wake-up. *)
WakeState == \A t \in Tasks : wake[t] # "none" => state[t] \in {"EXEC", "HOLD"}

(* A wake-up that came while the fiber runs is in the queue. *)
FiredQueued == \A w \in Threads :
    pc[w] \in Running /\ wake[cur[w]] = "fired" => cur[w] \in QTasks

(* A fiber that must run again is queued or carried. *)
NotLost == \A t \in Tasks :
    wake[t] = "fired" \/ state[t] = "READY" => t \in QTasks \/ \E w \in Threads : cur[w] = t

(* A fiber that executes is on a thread. *)
ExecCarried == \A t \in Tasks : state[t] = "EXEC" => \E w \in Threads : cur[w] = t

(* cb_fiber holds a fiber only while that fiber runs. *)
CbFiberOwn == \A w \in Threads :
    cbFiber[w] \in Tasks => cbFiber[w] = cur[w] /\ pc[w] \in Running

(* Once stop() has joined the threads, none of them executes run(). *)
Joined == m_threads = {} /\ main # "join" => \A w \in Workers : pc[w] \in {"off", "done"}

(* The two counters. *)
IdleCountExact == m_idleThreadCount = Cardinality({w \in Threads : pc[w] \in {"idle"}})
NumAt(f, L) == Cardinality({v \in Threads : f[v] \in L})

QueueInv == Unique /\ QueuedRunning /\ ArmedWaits /\ FiredQueued /\ NotLost
FiberInv == OneCarrier /\ CarrierPc /\ StateAtPc /\ WakeState /\ ExecCarried /\ CbFiberOwn /\ Joined
CountInv == ActiveCountExact /\ IdleCountExact
IndInv == TypeOK /\ QueueInv /\ FiberInv /\ CountInv

----------------------------------------------------------------------------
(* Lemmas about the queue *)

(* Erasing entry i takes its task, and only its task, out of the queue. *)
LEMMA EraseEntry ==
    ASSUME m_fibers \in Seq(Entry), Unique,
           NEW i \in DOMAIN m_fibers, m_fibers' = RemoveAt(m_fibers, i)
    PROVE  /\ m_fibers' \in Seq(Entry)
           /\ Unique'
           /\ QTasks' = QTasks \ {m_fibers[i].task}
           /\ m_fibers[i].task \in QTasks
           /\ m_fibers[i].task \in Tasks
<1>1. /\ DOMAIN m_fibers = 1..Len(m_fibers)
      /\ Len(m_fibers) \in Nat
      /\ m_fibers \in [1..Len(m_fibers) -> Entry]
  BY LenProperties
<1>2. /\ m_fibers' \in Seq(Entry)
      /\ Len(m_fibers') = Len(m_fibers) - 1
      /\ \A j \in 1..(Len(m_fibers) - 1) :
            m_fibers'[j] = IF j < i THEN m_fibers[j] ELSE m_fibers[j + 1]
  BY <1>1, RemoveAtSeq
<1>3. DOMAIN m_fibers' = 1..(Len(m_fibers) - 1)
  BY <1>2, LenProperties
<1>4. Unique'
  <2> DEFINE old(j) == IF j < i THEN j ELSE j + 1
  <2>1. \A j \in DOMAIN m_fibers' : old(j) \in DOMAIN m_fibers /\ m_fibers'[j] = m_fibers[old(j)]
    BY <1>1, <1>2, <1>3
  <2>2. \A j, k \in DOMAIN m_fibers' : old(j) = old(k) => j = k
    BY <1>1, <1>3
  <2> HIDE DEF old
  <2> QED BY <2>1, <2>2 DEF Unique
<1>5. ASSUME NEW t \in QTasks' PROVE t \in QTasks \ {m_fibers[i].task}
  <2>1. PICK j \in 1..(Len(m_fibers) - 1) : t = m_fibers'[j].task
    BY <1>3 DEF QTasks
  <2>2. PICK k \in DOMAIN m_fibers : k # i /\ t = m_fibers[k].task
    BY <2>1, <1>1, <1>2
  <2> QED BY <2>2 DEF QTasks, Unique
<1>6. ASSUME NEW t \in QTasks, t # m_fibers[i].task PROVE t \in QTasks'
  <2>1. PICK k \in DOMAIN m_fibers : t = m_fibers[k].task
    BY DEF QTasks
  <2>2. k # i
    BY <2>1, <1>6
  <2>3. CASE k < i
    BY <2>1, <2>3, <1>1, <1>2, <1>3 DEF QTasks
  <2>4. CASE k > i
    <3>1. k - 1 \in DOMAIN m_fibers' /\ m_fibers'[k - 1] = m_fibers[k]
      BY <2>4, <1>1, <1>2, <1>3
    <3> QED BY <2>1, <3>1 DEF QTasks
  <2> QED BY <2>2, <2>3, <2>4, <1>1
<1>7. m_fibers[i].task \in QTasks /\ m_fibers[i].task \in Tasks
  BY <1>1 DEF QTasks, Entry
<1> QED BY <1>2, <1>4, <1>5, <1>6, <1>7

(* schedule() adds its task to the queue; a task that was not there stays *)
(* without a duplicate.                                                   *)
LEMMA AddEntry ==
    ASSUME m_fibers \in Seq(Entry), Unique, NEW t \in Tasks, t \notin QTasks,
           NEW thr \in Threads \cup {AnyThread}, Schedule(t, thr)
    PROVE  /\ m_fibers' \in Seq(Entry)
           /\ Unique'
           /\ QTasks' = QTasks \cup {t}
<1>1. /\ DOMAIN m_fibers = 1..Len(m_fibers)
      /\ Len(m_fibers) \in Nat
      /\ m_fibers \in [1..Len(m_fibers) -> Entry]
  BY LenProperties
<1>2. [task |-> t, thread |-> thr] \in Entry
  BY DEF Entry
<1>3. /\ m_fibers' \in Seq(Entry)
      /\ Len(m_fibers') = Len(m_fibers) + 1
      /\ \A j \in 1..Len(m_fibers) : m_fibers'[j] = m_fibers[j]
      /\ m_fibers'[Len(m_fibers) + 1].task = t
  BY <1>2, AppendProperties DEF Schedule
<1>4. DOMAIN m_fibers' = 1..(Len(m_fibers) + 1)
  BY <1>3, LenProperties
<1>5. \A j \in DOMAIN m_fibers : m_fibers[j].task # t
  BY DEF QTasks
<1>6. Unique'
  BY <1>1, <1>3, <1>4, <1>5 DEF Unique
<1>7. QTasks' \subseteq QTasks \cup {t}
  BY <1>1, <1>3, <1>4 DEF QTasks
<1>8. QTasks \cup {t} \subseteq QTasks'
  BY <1>1, <1>3, <1>4 DEF QTasks
<1> QED BY <1>3, <1>6, <1>7, <1>8

(* A step that does not touch m_fibers. *)
LEMMA SameQueue ==
    ASSUME m_fibers' = m_fibers
    PROVE  QTasks' = QTasks /\ (Unique => Unique')
BY DEF QTasks, Unique

(* The queue holds tasks only. *)
LEMMA QueueOfTasks ==
    ASSUME m_fibers \in Seq(Entry)
    PROVE  QTasks \subseteq Tasks
<1>1. \A i \in DOMAIN m_fibers : m_fibers[i] \in Entry
  BY LenProperties, ElementOfSeq
<1> QED BY <1>1 DEF QTasks, Entry

----------------------------------------------------------------------------
(* Counting threads *)

(* The pool and the caller's thread are finitely many. *)
LEMMA ThreadsFinite == IsFiniteSet(Threads)
BY ThreadsAssumption, FS_Union, FS_Singleton, FS_EmptySet DEF Threads

(* Moving thread w to label l changes the number of threads at the labels *)
(* of L by at most one, up or down.                                       *)
LEMMA CountMove ==
    ASSUME TypeOK, NEW L, NEW w \in Threads, NEW l, Goto(w, l)
    PROVE  /\ NumAt(pc, L) \in Nat /\ NumAt(pc', L) \in Nat
           /\ pc[w] \notin L /\ l \in L => NumAt(pc', L) = NumAt(pc, L) + 1
           /\ pc[w] \in L /\ l \notin L => NumAt(pc', L) = NumAt(pc, L) - 1
           /\ (pc[w] \in L <=> l \in L) => NumAt(pc', L) = NumAt(pc, L)
<1> DEFINE A == {v \in Threads : pc[v] \in L}
<1> DEFINE B == {v \in Threads : pc'[v] \in L}
<1>1. pc' = [pc EXCEPT ![w] = l] /\ pc \in [Threads -> Label]
  BY DEF Goto, TypeOK
<1>2. IsFiniteSet(A) /\ IsFiniteSet(B)
  BY ThreadsFinite, FS_Subset
<1>3. Cardinality(A) \in Nat /\ Cardinality(B) \in Nat
  BY <1>2, FS_CardinalityType
<1>4. ASSUME pc[w] \notin L, l \in L PROVE Cardinality(B) = Cardinality(A) + 1
  <2>1. B = A \cup {w} /\ w \notin A
    BY <1>1, <1>4
  <2> QED BY <2>1, <1>2, FS_AddElement
<1>5. ASSUME pc[w] \in L, l \notin L PROVE Cardinality(B) = Cardinality(A) - 1
  <2>1. B = A \ {w} /\ w \in A
    BY <1>1, <1>5
  <2> QED BY <2>1, <1>2, FS_RemoveElement
<1>6. ASSUME pc[w] \in L <=> l \in L PROVE B = A
  BY <1>1, <1>6
<1> QED BY <1>3, <1>4, <1>5, <1>6 DEF NumAt

(* How the two counters must change when thread w goes from label k to l. *)
LEMMA CountStep ==
    ASSUME TypeOK, CountInv, NEW w \in Threads, NEW k, NEW l, pc[w] = k, Goto(w, l),
           m_activeThreadCount' = m_activeThreadCount
               + (IF l \in Counted THEN 1 ELSE 0) - (IF k \in Counted THEN 1 ELSE 0),
           m_idleThreadCount' = m_idleThreadCount
               + (IF l \in {"idle"} THEN 1 ELSE 0) - (IF k \in {"idle"} THEN 1 ELSE 0)
    PROVE  CountInv' /\ m_activeThreadCount' \in Nat /\ m_idleThreadCount' \in Nat
<1> DEFINE I == {"idle"}
<1>1. m_activeThreadCount = NumAt(pc, Counted) /\ m_idleThreadCount = NumAt(pc, I)
  BY DEF CountInv, ActiveCountExact, IdleCountExact, NumAt
<1>2. m_idleThreadCount' = m_idleThreadCount
               + (IF l \in I THEN 1 ELSE 0) - (IF k \in I THEN 1 ELSE 0)
  OBVIOUS
<1> HIDE DEF I
<1>3. m_activeThreadCount' = NumAt(pc', Counted) /\ NumAt(pc', Counted) \in Nat
  BY <1>1, CountMove
<1>4. m_idleThreadCount' = NumAt(pc', I) /\ NumAt(pc', I) \in Nat
  BY <1>1, <1>2, CountMove
<1> QED BY <1>3, <1>4 DEF CountInv, ActiveCountExact, IdleCountExact, NumAt, I

(* A step that does not touch pc and the counters. *)
LEMMA SameCount ==
    ASSUME CountInv, UNCHANGED <<pc, countVars>>
    PROVE  CountInv'
BY DEF CountInv, ActiveCountExact, IdleCountExact, countVars

----------------------------------------------------------------------------
(* IndInv is preserved by each action *)

(* The scan of run() that takes a task preserves the invariant. *)
LEMMA TakeStep ==
    ASSUME IndInv, NEW w \in Threads, Take(w)
    PROVE  IndInv'
<1> USE DEF IndInv, QueueInv, FiberInv
<1>1. PICK i \in DOMAIN m_fibers :
          /\ Eligible(w, m_fibers[i])
          /\ cur' = [cur EXCEPT ![w] = m_fibers[i].task]
          /\ m_fibers' = RemoveAt(m_fibers, i)
  BY DEF Take
<1> DEFINE t == m_fibers[i].task
<1>2. /\ m_fibers' \in Seq(Entry)
      /\ Unique'
      /\ QTasks' = QTasks \ {t}
      /\ t \in QTasks
      /\ t \in Tasks
  BY <1>1, EraseEntry DEF TypeOK
<1>3. state[t] # "EXEC" /\ cur' = [cur EXCEPT ![w] = t]
  BY <1>1 DEF Eligible
<1> HIDE DEF t
<1>4. \A v \in Threads : cur[v] # t
  BY <1>2, <1>3 DEF QueuedRunning
<1>5. CountInv' /\ m_activeThreadCount' \in Nat /\ m_idleThreadCount' \in Nat
  <2>1. pc[w] = "scan" /\ Goto(w, "taken") /\ m_activeThreadCount' = m_activeThreadCount + 1
        /\ m_idleThreadCount' = m_idleThreadCount
    BY DEF Take
  <2> QED BY <2>1, CountStep DEF TypeOK, Counted
<1>6. /\ pc[w] = "scan" /\ pc' = [pc EXCEPT ![w] = "taken"]
      /\ UNCHANGED <<state, wake, cbFiber, idleTerm, stopVars, calls>>
  BY DEF Take, Goto
<1>7. TypeOK'
  BY <1>2, <1>3, <1>5, <1>6 DEF TypeOK, Label, stopVars
<1>8. FiberInv'
  BY <1>2, <1>3, <1>4, <1>6, TasksAssumption
     DEF TypeOK, Label, OneCarrier, CarrierPc, StateAtPc, WakeState, ExecCarried, CbFiberOwn,
         Joined, Free, Running, stopVars
<1>9. QueueInv'
  BY <1>2, <1>3, <1>4, <1>6, TasksAssumption
     DEF TypeOK, Label, CarrierPc, QueuedRunning, ArmedWaits, FiredQueued, NotLost, Free, Running
<1> QED BY <1>5, <1>7, <1>8, <1>9

(* Swapping into a taken fiber preserves the invariant. *)
LEMMA SwapInFiberStep ==
    ASSUME IndInv, NEW w \in Threads, SwapInFiber(w)
    PROVE  IndInv'
<1> USE DEF IndInv, QueueInv, FiberInv
<1>1. /\ pc[w] = "taken" /\ pc' = [pc EXCEPT ![w] = "exec"]
      /\ cur[w] \in Tasks
      /\ state[cur[w]] \notin Ended \cup {"EXEC"}
      /\ state' = [state EXCEPT ![cur[w]] = "EXEC"]
      /\ wake' = [wake EXCEPT ![cur[w]] = "none"]
      /\ UNCHANGED <<m_fibers, cur, cbFiber, idleTerm, stopVars, calls>>
  BY DEF SwapInFiber, Goto, CarrierPc, Free, TypeOK, queueVars, stopVars
<1>2. QTasks' = QTasks /\ Unique'
  BY <1>1, SameQueue
<1>3. CountInv' /\ m_activeThreadCount' \in Nat /\ m_idleThreadCount' \in Nat
  <2>1. /\ pc[w] = "taken" /\ Goto(w, "exec")
        /\ m_activeThreadCount' = m_activeThreadCount
        /\ m_idleThreadCount' = m_idleThreadCount
    BY DEF SwapInFiber, countVars
  <2> QED BY <2>1, CountStep DEF TypeOK, Counted
<1>4. TypeOK'
  BY <1>1, <1>3 DEF TypeOK, FiberState, Ended, Label, stopVars
<1>5. FiberInv'
  BY <1>1, TasksAssumption
     DEF TypeOK, Label, OneCarrier, CarrierPc, StateAtPc, WakeState, ExecCarried, CbFiberOwn,
         Joined, Free, Running, stopVars, Ended
<1>6. QueueInv'
  BY <1>1, <1>2, TasksAssumption
     DEF TypeOK, Label, CarrierPc, StateAtPc, WakeState, OneCarrier, QueuedRunning, ArmedWaits,
         FiredQueued, NotLost, Free, Running, Ended
<1> QED BY <1>3, <1>4, <1>5, <1>6

(* Swapping into a callback's fiber preserves the invariant. *)
LEMMA SwapInCallbackStep ==
    ASSUME IndInv, NEW w \in Threads, SwapInCallback(w)
    PROVE  IndInv'
<1> USE DEF IndInv, QueueInv, FiberInv
<1>1. /\ pc[w] = "taken" /\ pc' = [pc EXCEPT ![w] = "exec"]
      /\ cur[w] \in Tasks
      /\ state[cur[w]] = "INIT"
      /\ cbFiber' = [cbFiber EXCEPT ![w] = cur[w]]
      /\ state' = [state EXCEPT ![cur[w]] = "EXEC"]
      /\ UNCHANGED <<m_fibers, wake, cur, idleTerm, stopVars, calls>>
  BY DEF SwapInCallback, IsCallback, Goto, CarrierPc, Free, TypeOK, queueVars, stopVars
<1>2. QTasks' = QTasks /\ Unique'
  BY <1>1, SameQueue
<1>3. CountInv' /\ m_activeThreadCount' \in Nat /\ m_idleThreadCount' \in Nat
  <2>1. /\ pc[w] = "taken" /\ Goto(w, "exec")
        /\ m_activeThreadCount' = m_activeThreadCount
        /\ m_idleThreadCount' = m_idleThreadCount
    BY DEF SwapInCallback, countVars
  <2> QED BY <2>1, CountStep DEF TypeOK, Counted
<1>4. TypeOK'
  BY <1>1, <1>3 DEF TypeOK, FiberState, Ended, Label, stopVars
<1>5. FiberInv'
  BY <1>1, TasksAssumption
     DEF TypeOK, Label, OneCarrier, CarrierPc, StateAtPc, WakeState, ExecCarried, CbFiberOwn,
         Joined, Free, Running, stopVars, Ended
<1>6. QueueInv'
  BY <1>1, <1>2, TasksAssumption
     DEF TypeOK, Label, CarrierPc, StateAtPc, WakeState, OneCarrier, QueuedRunning, ArmedWaits,
         FiredQueued, NotLost, Free, Running, Ended
<1> QED BY <1>3, <1>4, <1>5, <1>6

(* Dropping an entry whose fiber has ended preserves the invariant. *)
LEMMA DropEndedStep ==
    ASSUME IndInv, NEW w \in Threads, DropEnded(w)
    PROVE  IndInv'
<1> USE DEF IndInv, QueueInv, FiberInv
<1>1. /\ pc[w] = "taken" /\ pc' = [pc EXCEPT ![w] = "scan"]
      /\ cur[w] \in Tasks
      /\ state[cur[w]] \in Ended
      /\ wake[cur[w]] = "none"
      /\ cur' = [cur EXCEPT ![w] = None]
      /\ UNCHANGED <<m_fibers, state, wake, cbFiber, idleTerm, stopVars, calls>>
  BY DEF DropEnded, Ended, WakeState, Goto, CarrierPc, Free, TypeOK, queueVars, stopVars
<1>2. QTasks' = QTasks /\ Unique' /\ QTasks \subseteq Tasks
  BY <1>1, SameQueue, QueueOfTasks DEF TypeOK
<1>3. CountInv' /\ m_activeThreadCount' \in Nat /\ m_idleThreadCount' \in Nat
  <2>1. /\ pc[w] = "taken" /\ Goto(w, "scan")
        /\ m_activeThreadCount' = m_activeThreadCount - 1
        /\ m_idleThreadCount' = m_idleThreadCount
    BY DEF DropEnded, countVars
  <2> QED BY <2>1, CountStep DEF TypeOK, Counted
<1>4. TypeOK'
  BY <1>1, <1>3 DEF TypeOK, FiberState, Ended, Label, stopVars
<1>5. FiberInv'
  BY <1>1, TasksAssumption
     DEF TypeOK, Label, OneCarrier, CarrierPc, StateAtPc, WakeState, ExecCarried, CbFiberOwn,
         Joined, Free, Running, stopVars, Ended
<1>6. QueueInv'
  BY <1>1, <1>2, TasksAssumption
     DEF TypeOK, Label, CarrierPc, StateAtPc, WakeState, OneCarrier, QueuedRunning, ArmedWaits,
         FiredQueued, NotLost, Free, Running, Ended
<1> QED BY <1>3, <1>4, <1>5, <1>6

(* Fiber::YieldToReady preserves the invariant. *)
LEMMA YieldToReadyStep ==
    ASSUME IndInv, NEW w \in Threads, YieldToReady(w)
    PROVE  IndInv'
<1> USE DEF IndInv, QueueInv, FiberInv
<1>1. /\ pc[w] = "exec" /\ pc' = [pc EXCEPT ![w] = "leaving"]
      /\ cur[w] \in Tasks
      /\ wake[cur[w]] = "none"
      /\ state' = [state EXCEPT ![cur[w]] = "READY"]
      /\ UNCHANGED <<m_fibers, wake, cur, cbFiber, idleTerm, stopVars, calls>>
  BY DEF YieldToReady, Goto, CarrierPc, Free, TypeOK, queueVars, stopVars
<1>2. QTasks' = QTasks /\ Unique'
  BY <1>1, SameQueue
<1>3. CountInv' /\ m_activeThreadCount' \in Nat /\ m_idleThreadCount' \in Nat
  <2>1. /\ pc[w] = "exec" /\ Goto(w, "leaving")
        /\ m_activeThreadCount' = m_activeThreadCount
        /\ m_idleThreadCount' = m_idleThreadCount
    BY DEF YieldToReady, countVars
  <2> QED BY <2>1, CountStep DEF TypeOK, Counted
<1>4. TypeOK'
  BY <1>1, <1>3 DEF TypeOK, FiberState, Ended, Label, stopVars
<1>5. FiberInv'
  BY <1>1, TasksAssumption
     DEF TypeOK, Label, OneCarrier, CarrierPc, StateAtPc, WakeState, ExecCarried, CbFiberOwn,
         Joined, Free, Running, stopVars, Ended
<1>6. QueueInv'
  BY <1>1, <1>2, TasksAssumption
     DEF TypeOK, Label, CarrierPc, StateAtPc, WakeState, OneCarrier, QueuedRunning, ArmedWaits,
         FiredQueued, NotLost, Free, Running, Ended
<1> QED BY <1>3, <1>4, <1>5, <1>6

(* The end of a task's body (MainFunc) preserves the invariant. *)
LEMMA FinishStep ==
    ASSUME IndInv, NEW w \in Threads, Finish(w)
    PROVE  IndInv'
<1> USE DEF IndInv, QueueInv, FiberInv
<1>1. /\ pc[w] = "exec" /\ pc' = [pc EXCEPT ![w] = "leaving"]
      /\ cur[w] \in Tasks
      /\ wake[cur[w]] = "none"
      /\ \E s \in Ended : state' = [state EXCEPT ![cur[w]] = s]
      /\ UNCHANGED <<m_fibers, wake, cur, cbFiber, idleTerm, stopVars, calls>>
  BY DEF Finish, Goto, CarrierPc, Free, TypeOK, queueVars, stopVars
<1>2. QTasks' = QTasks /\ Unique'
  BY <1>1, SameQueue
<1>3. CountInv' /\ m_activeThreadCount' \in Nat /\ m_idleThreadCount' \in Nat
  <2>1. /\ pc[w] = "exec" /\ Goto(w, "leaving")
        /\ m_activeThreadCount' = m_activeThreadCount
        /\ m_idleThreadCount' = m_idleThreadCount
    BY DEF Finish, countVars
  <2> QED BY <2>1, CountStep DEF TypeOK, Counted
<1>4. TypeOK'
  BY <1>1, <1>3 DEF TypeOK, FiberState, Ended, Label, stopVars
<1>5. FiberInv'
  BY <1>1, TasksAssumption
     DEF TypeOK, Label, OneCarrier, CarrierPc, StateAtPc, WakeState, ExecCarried, CbFiberOwn,
         Joined, Free, Running, stopVars, Ended
<1>6. QueueInv'
  BY <1>1, <1>2, TasksAssumption
     DEF TypeOK, Label, CarrierPc, StateAtPc, WakeState, OneCarrier, QueuedRunning, ArmedWaits,
         FiredQueued, NotLost, Free, Running, Ended
<1> QED BY <1>3, <1>4, <1>5, <1>6

(* One pass of the loop of idle() preserves the invariant. *)
LEMMA IdleStep ==
    ASSUME IndInv, NEW w \in Threads, Idle(w)
    PROVE  IndInv'
<1> USE DEF IndInv, QueueInv, FiberInv
<1>1. /\ pc[w] = "idle" /\ pc' = [pc EXCEPT ![w] = "scan"]
      /\ cur[w] = None
      /\ idleTerm' \in [Threads -> BOOLEAN]
      /\ UNCHANGED <<m_fibers, state, wake, cur, cbFiber, stopVars, calls>>
  BY DEF Idle, Stopping, Drained, Goto, CarrierPc, Free, TypeOK, queueVars, stopVars
<1>2. QTasks' = QTasks /\ Unique'
  BY <1>1, SameQueue
<1>3. CountInv' /\ m_activeThreadCount' \in Nat /\ m_idleThreadCount' \in Nat
  <2>1. /\ pc[w] = "idle" /\ Goto(w, "scan")
        /\ m_activeThreadCount' = m_activeThreadCount
        /\ m_idleThreadCount' = m_idleThreadCount - 1
    BY DEF Idle, countVars
  <2> QED BY <2>1, CountStep DEF TypeOK, Counted
<1>4. TypeOK'
  BY <1>1, <1>3 DEF TypeOK, FiberState, Ended, Label, stopVars
<1>5. FiberInv'
  BY <1>1, TasksAssumption
     DEF TypeOK, Label, OneCarrier, CarrierPc, StateAtPc, WakeState, ExecCarried, CbFiberOwn,
         Joined, Free, Running, stopVars, Ended
<1>6. QueueInv'
  BY <1>1, <1>2, TasksAssumption
     DEF TypeOK, Label, CarrierPc, StateAtPc, WakeState, OneCarrier, QueuedRunning, ArmedWaits,
         FiredQueued, NotLost, Free, Running, Ended
<1> QED BY <1>3, <1>4, <1>5, <1>6

(* The actions that only move a thread to another label and count it. *)
LEMMA MoveStep ==
    ASSUME IndInv, NEW w \in Threads,
           Uncount(w) \/ YieldToHold(w) \/ SwapOut(w) \/ EnterIdle(w) \/ LeaveRun(w)
    PROVE  IndInv'
<1> USE DEF IndInv, QueueInv, FiberInv
<1>1. UNCHANGED <<m_fibers, state, wake, cur, cbFiber, idleTerm, stopVars, calls>>
  BY DEF Uncount, YieldToHold, SwapOut, EnterIdle, LeaveRun, queueVars, stopVars
<1>2. PICK l \in Label :
         /\ pc' = [pc EXCEPT ![w] = l]
         /\ pc[w] \in {"exec", "leaving", "out"} => l \in {"out", "post"}
         /\ pc[w] \notin {"exec", "leaving", "out"} => pc[w] = "scan" /\ l \in {"idle", "done"}
  BY DEF Uncount, YieldToHold, SwapOut, EnterIdle, LeaveRun, Goto, Label
<1>3. CountInv' /\ m_activeThreadCount' \in Nat /\ m_idleThreadCount' \in Nat
  <2>1. CASE Uncount(w)
    <3>1. /\ pc[w] = "out" /\ Goto(w, "post")
          /\ m_activeThreadCount' = m_activeThreadCount - 1
          /\ m_idleThreadCount' = m_idleThreadCount
      BY <2>1 DEF Uncount
    <3> QED BY <3>1, CountStep DEF TypeOK, Counted
  <2>2. CASE YieldToHold(w)
    <3>1. pc[w] = "exec" /\ Goto(w, "out") /\ UNCHANGED <<m_activeThreadCount, m_idleThreadCount>>
      BY <2>2 DEF YieldToHold, countVars
    <3> QED BY <3>1, CountStep DEF TypeOK, Counted
  <2>3. CASE SwapOut(w)
    <3>1. pc[w] = "leaving" /\ Goto(w, "out") /\ UNCHANGED <<m_activeThreadCount, m_idleThreadCount>>
      BY <2>3 DEF SwapOut, countVars
    <3> QED BY <3>1, CountStep DEF TypeOK, Counted
  <2>4. CASE EnterIdle(w)
    <3>1. /\ pc[w] = "scan" /\ Goto(w, "idle")
          /\ m_activeThreadCount' = m_activeThreadCount
          /\ m_idleThreadCount' = m_idleThreadCount + 1
      BY <2>4 DEF EnterIdle
    <3> QED BY <3>1, CountStep DEF TypeOK, Counted
  <2>5. CASE LeaveRun(w)
    <3>1. pc[w] = "scan" /\ Goto(w, "done") /\ UNCHANGED <<m_activeThreadCount, m_idleThreadCount>>
      BY <2>5 DEF LeaveRun, countVars
    <3> QED BY <3>1, CountStep DEF TypeOK, Counted
  <2> QED BY <2>1, <2>2, <2>3, <2>4, <2>5
<1>4. TypeOK'
  BY <1>1, <1>2, <1>3 DEF TypeOK, Label, stopVars
<1>5. FiberInv'
  BY <1>1, <1>2, TasksAssumption
     DEF TypeOK, Label, OneCarrier, CarrierPc, StateAtPc, WakeState, ExecCarried, CbFiberOwn,
         Joined, Free, Running, stopVars
<1>6. QTasks' = QTasks /\ Unique'
  BY <1>1, SameQueue
<1>7. QueueInv'
  BY <1>1, <1>2, <1>6, TasksAssumption
     DEF TypeOK, Label, CarrierPc, StateAtPc, WakeState, OneCarrier, QueuedRunning, ArmedWaits,
         FiredQueued, NotLost, Free, Running
<1> QED BY <1>3, <1>4, <1>5, <1>7

(* What run() does with a fiber that swapped out preserves the invariant. *)
LEMMA AfterRunStep ==
    ASSUME IndInv, NEW w \in Threads, AfterRun(w)
    PROVE  IndInv'
<1> USE DEF IndInv, QueueInv, FiberInv
<1> DEFINE t == cur[w]
<1>1. /\ pc[w] = "post" /\ pc' = [pc EXCEPT ![w] = "scan"]
      /\ t \in Tasks
      /\ cur' = [cur EXCEPT ![w] = None]
      /\ UNCHANGED <<wake, idleTerm, stopVars, calls>>
  BY DEF AfterRun, Goto, CarrierPc, Free, TypeOK, stopVars
<1>2. CountInv' /\ m_activeThreadCount' \in Nat /\ m_idleThreadCount' \in Nat
  <2>1. pc[w] = "post" /\ Goto(w, "scan") /\ UNCHANGED <<m_activeThreadCount, m_idleThreadCount>>
    BY DEF AfterRun, countVars
  <2> QED BY <2>1, CountStep DEF TypeOK, Counted
<1>3. /\ cbFiber' \in [Threads -> Tasks \cup {None, Spare}]
      /\ \A v \in Threads : cbFiber'[v] \in Tasks => v # w /\ cbFiber'[v] = cbFiber[v]
  BY <1>1, TasksAssumption DEF AfterRun, KeepCbFiber, TypeOK, CbFiberOwn
<1>4. QTasks \subseteq Tasks
  BY QueueOfTasks DEF TypeOK
<1>5. CASE Requeue(w)
  <2>1. state[t] = "READY" /\ Schedule(t, AnyThread) /\ state' = state
    BY <1>5 DEF Requeue
  <2>2. t \notin QTasks
    BY <2>1 DEF QueuedRunning
  <2>3. m_fibers' \in Seq(Entry) /\ Unique' /\ QTasks' = QTasks \cup {t}
    BY <1>1, <2>1, <2>2, AddEntry DEF TypeOK
  <2>4. TypeOK'
    BY <1>1, <1>2, <1>3, <2>1, <2>3 DEF TypeOK, Label, stopVars
  <2>5. FiberInv'
    BY <1>1, <1>3, <2>1, TasksAssumption
       DEF TypeOK, Label, OneCarrier, CarrierPc, StateAtPc, WakeState, ExecCarried, CbFiberOwn,
           Joined, Free, Running, stopVars
  <2>6. QueueInv'
    BY <1>1, <1>4, <2>1, <2>2, <2>3, TasksAssumption
       DEF TypeOK, Label, CarrierPc, StateAtPc, WakeState, OneCarrier, QueuedRunning, ArmedWaits,
           FiredQueued, NotLost, Free, Running
  <2> QED BY <1>2, <2>4, <2>5, <2>6
<1>6. CASE Forget(w)
  <2>1. state[t] \in Ended /\ UNCHANGED <<m_fibers, state>>
    BY <1>6 DEF Forget
  <2>2. wake[t] = "none"
    BY <1>1, <2>1 DEF WakeState, TypeOK, Ended
  <2>3. QTasks' = QTasks /\ Unique'
    BY <2>1, SameQueue
  <2>4. TypeOK'
    BY <1>1, <1>2, <1>3, <2>1 DEF TypeOK, Label, stopVars
  <2>5. FiberInv'
    BY <1>1, <1>3, <2>1, TasksAssumption
       DEF TypeOK, Label, OneCarrier, CarrierPc, StateAtPc, WakeState, ExecCarried, CbFiberOwn,
           Joined, Free, Running, stopVars, Ended
  <2>6. QueueInv'
    BY <1>1, <1>4, <2>1, <2>2, <2>3, TasksAssumption
       DEF TypeOK, Label, CarrierPc, StateAtPc, WakeState, OneCarrier, QueuedRunning, ArmedWaits,
           FiredQueued, NotLost, Free, Running, Ended
  <2> QED BY <1>2, <2>4, <2>5, <2>6
<1>7. CASE Hold(w)
  <2>1. /\ state[t] \notin Ended \cup {"READY"}
        /\ state' = [state EXCEPT ![t] = "HOLD"]
        /\ m_fibers' = m_fibers
    BY <1>7 DEF Hold
  <2>2. QTasks' = QTasks /\ Unique'
    BY <2>1, SameQueue
  <2>3. wake[t] = "fired" => t \in QTasks
    BY <1>1 DEF FiredQueued, Running
  <2>4. TypeOK'
    BY <1>1, <1>2, <1>3, <2>1 DEF TypeOK, FiberState, Label, stopVars
  <2>5. FiberInv'
    BY <1>1, <1>3, <2>1, TasksAssumption
       DEF TypeOK, Label, OneCarrier, CarrierPc, StateAtPc, WakeState, ExecCarried, CbFiberOwn,
           Joined, Free, Running, stopVars, Ended
  <2>6. QueueInv'
    BY <1>1, <1>4, <2>1, <2>2, <2>3, TasksAssumption
       DEF TypeOK, Label, CarrierPc, StateAtPc, WakeState, OneCarrier, QueuedRunning, ArmedWaits,
           FiredQueued, NotLost, Free, Running, Ended
  <2> QED BY <1>2, <2>4, <2>5, <2>6
<1> QED BY <1>5, <1>6, <1>7 DEF AfterRun

(* Registering a wake-up preserves the invariant. *)
LEMMA RegisterStep ==
    ASSUME IndInv, NEW w \in Threads, Register(w)
    PROVE  IndInv'
<1> USE DEF IndInv, QueueInv, FiberInv
<1>1. /\ pc[w] = "exec" /\ cur[w] \in Tasks
      /\ wake[cur[w]] = "none"
      /\ wake' = [wake EXCEPT ![cur[w]] = "armed"]
      /\ UNCHANGED <<m_fibers, state, pc, cur, cbFiber, idleTerm, countVars, stopVars, calls>>
  BY TasksAssumption DEF Register, threadVars
<1>2. QTasks' = QTasks /\ Unique'
  BY <1>1, SameQueue
<1>3. CountInv'
  BY <1>1, SameCount
<1>4. TypeOK'
  BY <1>1 DEF TypeOK, countVars, stopVars
<1>5. FiberInv'
  BY <1>1
     DEF TypeOK, Label, OneCarrier, CarrierPc, StateAtPc, WakeState, ExecCarried, CbFiberOwn,
         Joined, Free, Running, stopVars
<1>6. QueueInv'
  BY <1>1, <1>2
     DEF TypeOK, Label, CarrierPc, StateAtPc, WakeState, OneCarrier, QueuedRunning, ArmedWaits,
         FiredQueued, NotLost, Free, Running
<1> QED BY <1>3, <1>4, <1>5, <1>6

(* The two actions that only put a task into the queue. *)
LEMMA EnqueueStep ==
    ASSUME IndInv, NEW t \in Tasks, NEW thr \in Threads \cup {AnyThread},
           (Wake(t) /\ thr = AnyThread) \/ Submit(t, thr)
    PROVE  IndInv'
<1> USE DEF IndInv, QueueInv, FiberInv
<1>1. /\ Schedule(t, thr)
      /\ UNCHANGED <<state, pc, cur, cbFiber, idleTerm, countVars, stopVars>>
      /\ calls' \in Nat
  BY BoundsAssumption DEF Wake, Submit, threadVars, TypeOK
<1>2. \/ wake[t] = "armed" /\ wake' = [wake EXCEPT ![t] = "fired"]
      \/ wake[t] = "none" /\ wake' = wake /\ \A w \in Threads : cur[w] # t
  BY DEF Wake, Submit, Carried
<1>3. t \notin QTasks
  BY <1>2 DEF ArmedWaits, Wake, Submit, Queued, QTasks
<1>4. m_fibers' \in Seq(Entry) /\ Unique' /\ QTasks' = QTasks \cup {t}
  BY <1>1, <1>3, AddEntry DEF TypeOK
<1>5. CountInv'
  BY <1>1, SameCount
<1>6. TypeOK'
  BY <1>1, <1>2, <1>4 DEF TypeOK, countVars, stopVars
<1>7. FiberInv'
  BY <1>1, <1>2
     DEF TypeOK, Label, OneCarrier, CarrierPc, StateAtPc, WakeState, ExecCarried, CbFiberOwn,
         Joined, Free, Running, stopVars
<1>8. wake' \in [Tasks -> {"none", "armed", "fired"}] /\ \A u \in Tasks \ {t} : wake'[u] = wake[u]
  BY <1>2 DEF TypeOK
<1>9. QueuedRunning'
  <2>1. QTasks \subseteq Tasks
    BY QueueOfTasks DEF TypeOK
  <2> QED BY <1>1, <1>2, <1>4, <1>8, <2>1 DEF QueuedRunning, ArmedWaits, TypeOK
<1>10. ArmedWaits'
  BY <1>1, <1>2, <1>4, <1>8 DEF ArmedWaits, TypeOK
<1>11. FiredQueued' /\ NotLost'
  BY <1>1, <1>2, <1>4, <1>8, TasksAssumption
     DEF FiredQueued, NotLost, CarrierPc, Free, Running, TypeOK
<1> QED BY <1>4, <1>5, <1>6, <1>7, <1>9, <1>10, <1>11

(* start() finds its threads gone: Joined. *)
LEMMA StartStep ==
    ASSUME IndInv, Start
    PROVE  IndInv'
<1> USE DEF IndInv, QueueInv, FiberInv
<1>1. /\ m_threads' = Workers /\ m_stoping' = FALSE /\ starts' = starts + 1
      /\ pc' = [w \in Threads |-> IF w \in Workers THEN "scan" ELSE pc[w]]
      /\ idleTerm' = [w \in Threads |-> w \notin Workers /\ idleTerm[w]]
      /\ cbFiber' = [w \in Threads |-> IF w \in Workers THEN None ELSE cbFiber[w]]
      /\ UNCHANGED <<m_autoStop, main, stops, cur, m_fibers, state, wake,
                     m_activeThreadCount, m_idleThreadCount, calls>>
  BY DEF Start, queueVars, countVars
<1>2. \A w \in Workers : pc[w] \in {"off", "done"}
  BY DEF Start, Joined
<1>3. \A w \in Threads : w \in Workers => cur[w] = None
  BY <1>2 DEF CarrierPc, Free
<1>4. QTasks' = QTasks /\ Unique'
  BY <1>1, SameQueue
<1>5. CountInv'
  <2>1. {w \in Threads : pc'[w] \in Counted} = {w \in Threads : pc[w] \in Counted}
    BY <1>1, <1>2 DEF Counted
  <2>2. {w \in Threads : pc'[w] \in {"idle"}} = {w \in Threads : pc[w] \in {"idle"}}
    BY <1>1, <1>2
  <2> QED BY <1>1, <2>1, <2>2 DEF CountInv, ActiveCountExact, IdleCountExact
<1>6. TypeOK'
  <2>1. idleTerm' \in [Threads -> BOOLEAN]
    <3>1. \A w \in Threads : (w \notin Workers /\ idleTerm[w]) \in BOOLEAN
      OBVIOUS
    <3> QED BY <1>1, <3>1, Zenon
  <2>2. pc' \in [Threads -> Label] /\ cbFiber' \in [Threads -> Tasks \cup {None, Spare}]
    BY <1>1 DEF TypeOK, Label
  <2>3. m_threads' \in SUBSET Workers /\ starts' \in Nat
    BY <1>1 DEF TypeOK
  <2>4. m_stoping' \in BOOLEAN
    BY <1>1, Zenon
  <2> QED BY <1>1, <2>1, <2>2, <2>3, <2>4 DEF TypeOK
<1>7. FiberInv'
  BY <1>1, <1>2, <1>3, TasksAssumption
     DEF TypeOK, Label, OneCarrier, CarrierPc, StateAtPc, WakeState, ExecCarried, CbFiberOwn,
         Joined, Free, Running, stopVars
<1>8. QueueInv'
  BY <1>1, <1>3, <1>4
     DEF TypeOK, Label, CarrierPc, StateAtPc, WakeState, OneCarrier, QueuedRunning, ArmedWaits,
         FiredQueued, NotLost, Free, Running
<1> QED BY <1>5, <1>6, <1>7, <1>8

(* The parts of stop() that leave the threads alone. *)
LEMMA StopFlagsStep ==
    ASSUME IndInv, StopBegin \/ StopFlag \/ StopReturnFromCall \/ StopCheck \/ StopJoin
    PROVE  IndInv'
<1> USE DEF IndInv, QueueInv, FiberInv
<1>1. UNCHANGED <<m_fibers, state, wake, pc, cur, cbFiber, idleTerm, countVars, calls>>
  BY DEF StopBegin, StopFlag, StopReturnFromCall, StopCheck, StopJoin, queueVars, threadVars
<1>2. TypeOK'
  <2>1. m_stoping' \in BOOLEAN /\ m_autoStop' \in BOOLEAN
    <3>1. m_stoping' \in {m_stoping, TRUE} /\ m_autoStop' \in {m_autoStop, TRUE}
      BY Zenon DEF StopBegin, StopFlag, StopReturnFromCall, StopCheck, StopJoin
    <3> QED BY <3>1, Zenon DEF TypeOK
  <2>3. m_threads' \in SUBSET Workers /\ starts' \in Nat /\ stops' \in Nat
    BY DEF StopBegin, StopFlag, StopReturnFromCall, StopCheck, StopJoin, TypeOK
  <2>2. main' \in {"user", "stop", "flagged", "calling", "check", "join", "exited"}
    BY DEF StopBegin, StopFlag, StopReturnFromCall, StopCheck, StopJoin
  <2> QED BY <1>1, <2>1, <2>2, <2>3 DEF TypeOK, countVars
<1>3. Joined'
  BY <1>1 DEF StopBegin, StopFlag, StopReturnFromCall, StopCheck, StopJoin, Joined
<1>4. QTasks' = QTasks /\ Unique' /\ CountInv'
  BY <1>1, SameQueue, SameCount
<1>5. FiberInv'
  BY <1>1, <1>3
     DEF OneCarrier, CarrierPc, StateAtPc, WakeState, ExecCarried, CbFiberOwn
<1>6. QueueInv'
  BY <1>1, <1>4 DEF QueuedRunning, ArmedWaits, FiredQueued, NotLost
<1> QED BY <1>2, <1>4, <1>5, <1>6

(* stop() on the caller's thread enters run(). *)
LEMMA StopCallStep ==
    ASSUME IndInv, StopCall
    PROVE  IndInv'
<1> USE DEF IndInv, QueueInv, FiberInv
<1>1. /\ UNCHANGED <<m_fibers, state, wake, cur, cbFiber, idleTerm, countVars, calls,
                     m_stoping, m_autoStop, m_threads, starts, stops>>
      /\ main = "flagged" /\ main' \in {"calling", "exited", "check"}
  BY DEF StopCall, queueVars
<1>2. QTasks' = QTasks /\ Unique'
  BY <1>1, SameQueue
<1>3. CASE pc' = pc
  <2>1. TypeOK' /\ Joined' /\ CountInv'
    BY <1>1, <1>3, SameCount DEF TypeOK, Joined, countVars
  <2>2. FiberInv'
    BY <1>1, <1>3, <2>1
       DEF OneCarrier, CarrierPc, StateAtPc, WakeState, ExecCarried, CbFiberOwn
  <2>3. QueueInv'
    BY <1>1, <1>2, <1>3 DEF QueuedRunning, ArmedWaits, FiredQueued, NotLost
  <2> QED BY <2>1, <2>2, <2>3
<1>4. CASE UseCaller /\ pc[Root] = "off" /\ Goto(Root, "scan")
  <2>1. Root \in Threads /\ Root \notin Workers
    BY <1>4, ThreadsAssumption DEF Threads
  <2>2. pc' = [pc EXCEPT ![Root] = "scan"]
    BY <1>4 DEF Goto
  <2>3. CountInv'
    BY <1>1, <1>4, <2>1, CountStep DEF TypeOK, Counted, countVars
  <2>4. TypeOK'
    BY <1>1, <2>1, <2>2 DEF TypeOK, Label, countVars
  <2>5. Joined'
    BY <1>1, <2>1, <2>2 DEF Joined, TypeOK, Threads
  <2>6. FiberInv'
    BY <1>1, <1>4, <2>1, <2>2, <2>5, TasksAssumption
       DEF OneCarrier, CarrierPc, StateAtPc, WakeState, ExecCarried, CbFiberOwn, Free, Running, TypeOK
  <2>7. QueueInv'
    BY <1>1, <1>2, <1>4, <2>1, <2>2
       DEF QueuedRunning, ArmedWaits, FiredQueued, NotLost, Running, TypeOK
  <2> QED BY <2>3, <2>4, <2>6, <2>7
<1> QED BY <1>3, <1>4 DEF StopCall

----------------------------------------------------------------------------
(* The theorems *)

(* The state that the constructor leaves satisfies the invariant. *)
LEMMA IndInvInit == Init => IndInv
<1> SUFFICES ASSUME Init PROVE IndInv
  OBVIOUS
<1> USE DEF Init
<1>1. TypeOK
  BY EmptySeq DEF TypeOK, FiberState, Label
<1>2. DOMAIN m_fibers = {} /\ QTasks = {}
  BY DEF QTasks
<1>3. QueueInv
  <2>1. \A w \in Threads : pc[w] \notin Running
    BY DEF Running
  <2> QED BY <1>2, <2>1 DEF QueueInv, Unique, QueuedRunning, ArmedWaits, FiredQueued, NotLost
<1>4. FiberInv
  BY TasksAssumption
     DEF FiberInv, OneCarrier, CarrierPc, StateAtPc, WakeState, ExecCarried, CbFiberOwn, Joined,
         Free, Threads
<1>5. CountInv
  <2>1. /\ {w \in Threads : pc[w] \in Counted} = {}
        /\ {w \in Threads : pc[w] \in {"idle"}} = {}
    BY DEF Counted
  <2> QED BY <2>1, FS_EmptySet DEF CountInv, ActiveCountExact, IdleCountExact
<1> QED BY <1>1, <1>3, <1>4, <1>5 DEF IndInv

(* Every step of the scheduler preserves the invariant. *)
LEMMA IndInvNext == IndInv /\ [Next]_vars => IndInv'
<1> SUFFICES ASSUME IndInv, [Next]_vars PROVE IndInv'
  OBVIOUS
<1>1. ASSUME NEW w \in Threads, RunStep(w) PROVE IndInv'
  BY <1>1, TakeStep, SwapInFiberStep, SwapInCallbackStep, DropEndedStep, MoveStep, AfterRunStep,
     IdleStep DEF RunStep
<1>2. ASSUME NEW w \in Threads, BodyStep(w) PROVE IndInv'
  BY <1>2, RegisterStep, MoveStep, YieldToReadyStep, FinishStep DEF BodyStep
<1>3. ASSUME StopStep PROVE IndInv'
  BY <1>3, StopFlagsStep, StopCallStep DEF StopStep
<1>4. ASSUME UserStep PROVE IndInv'
  <2>1. ASSUME NEW t \in Tasks, Wake(t) PROVE IndInv'
    BY <2>1, EnqueueStep
  <2>2. ASSUME NEW t \in Tasks, NEW thr \in Pins \cup {AnyThread}, Submit(t, thr) PROVE IndInv'
    BY <2>2, EnqueueStep, ThreadsAssumption
  <2> QED BY <1>4, <2>1, <2>2, StartStep, StopFlagsStep DEF UserStep
<1>5. CASE UNCHANGED vars
  <2>1. UNCHANGED <<m_fibers, m_activeThreadCount, m_idleThreadCount, m_stoping, m_autoStop,
                    m_threads, state, wake, pc, cur, cbFiber, idleTerm, main, calls, starts, stops>>
    BY <1>5 DEF vars, queueVars, stopVars, threadVars, countVars
  <2> QED
    BY <2>1 DEF IndInv, TypeOK, QueueInv, FiberInv, CountInv, Unique, QTasks, QueuedRunning,
       ArmedWaits, FiredQueued, NotLost, OneCarrier, CarrierPc, StateAtPc, WakeState, ExecCarried,
       CbFiberOwn, Joined, ActiveCountExact, IdleCountExact
<1> QED BY <1>1, <1>2, <1>3, <1>4, <1>5 DEF Next

(* The inductive invariant holds in every reachable state of start(), run(), *)
(* stop(), schedule() and the fibers' yields.                                *)
THEOREM IndInvariant == Spec => []IndInv
BY IndInvInit, IndInvNext, PTL DEF Spec

(* Every variable keeps its type; in particular neither counter, both       *)
(* size_t in the code, ever passes below zero.                              *)
THEOREM TypeCorrect == Spec => []TypeOK
<1>1. IndInv => TypeOK
  BY DEF IndInv
<1> QED BY <1>1, IndInvariant, PTL

(* No fiber is on two threads at once, whenever its wake-up is scheduled    *)
(* while it switches out (the EXEC test of the scan in run()).              *)
THEOREM FiberOnOneThread == Spec => []OneCarrier
<1>1. IndInv => OneCarrier
  BY DEF IndInv, FiberInv
<1> QED BY <1>1, IndInvariant, PTL

(* The assertions of Fiber::swapIn and Fiber::reset never fail in run(). *)
THEOREM SwapAssertionsHold == Spec => []SwapAssertions
<1>1. IndInv => SwapAssertions
  BY DEF IndInv, FiberInv, StateAtPc, CbFiberOwn, Running, SwapAssertions, TypeOK
<1> QED BY <1>1, IndInvariant, PTL

(* m_activeThreadCount is the number of threads that execute a task. *)
THEOREM ActiveCountCorrect == Spec => []ActiveCountExact
<1>1. IndInv => ActiveCountExact
  BY DEF IndInv, CountInv
<1> QED BY <1>1, IndInvariant, PTL

(* No resumption is lost and none is queued twice, for any schedule of      *)
(* threads, wake-ups and calls of schedule().                               *)
THEOREM NoWakeupLost == Spec => []NoLostWakeup
<1>1. IndInv => NoLostWakeup
  BY DEF IndInv, QueueInv, NotLost, Unique, QTasks, NoLostWakeup, Queued, Carried
<1> QED BY <1>1, IndInvariant, PTL

(* The last thread to leave run() leaves no unpinned task in the queue. *)
THEOREM LastThreadDrainsQueue == Spec => LastThreadDrains
<1> DEFINE Step == ~Gone /\ Gone' => \A i \in DOMAIN m_fibers : m_fibers[i].thread # AnyThread
<1>1. IndInv /\ [Next]_vars => [Step]_vars
  <2> SUFFICES ASSUME IndInv, Next, ~Gone, Gone',
                      NEW i \in DOMAIN m_fibers, m_fibers[i].thread = AnyThread
               PROVE  FALSE
    OBVIOUS
  <2> USE DEF IndInv
  <2>1. PICK w \in Threads : pc[w] \notin {"off", "done"} /\ pc'[w] \in {"off", "done"}
    BY DEF Gone
  <2>2. LeaveRun(w)
    BY <2>1 DEF Next, RunStep, BodyStep, StopStep, UserStep, Take, SwapInFiber, SwapInCallback,
       DropEnded, Uncount, AfterRun, EnterIdle, Idle, LeaveRun, Register, YieldToHold,
       YieldToReady, Finish, SwapOut, Wake, Submit, Start, StopBegin, StopFlag, StopCall,
       StopReturnFromCall, StopCheck, StopJoin, Goto, TypeOK, Label, threadVars
  <2>3. m_fibers[i].task \in Tasks /\ state[m_fibers[i].task] = "EXEC"
    <3>1. m_fibers[i] \in Entry
      BY LenProperties, ElementOfSeq DEF TypeOK
    <3>2. ~Eligible(w, m_fibers[i])
      BY <2>2 DEF LeaveRun
    <3> QED BY <3>1, <3>2 DEF Eligible, Entry
  <2>4. PICK v \in Threads : cur[v] = m_fibers[i].task
    BY <2>3 DEF FiberInv, ExecCarried
  <2>5. pc[v] \notin Free
    BY <2>3, <2>4, TasksAssumption DEF FiberInv, CarrierPc
  <2>6. v # w => pc'[v] = pc[v]
    BY <2>2 DEF LeaveRun, Goto, TypeOK
  <2> QED BY <2>2, <2>5, <2>6 DEF LeaveRun, Gone, Free
<1> QED BY <1>1, IndInvariant, PTL DEF Spec, LastThreadDrains

=============================================================================
