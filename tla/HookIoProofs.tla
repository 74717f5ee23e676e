---------------------------- MODULE HookIoProofs ----------------------------
(***************************************************************************)
(* Proofs about HookIo, for any number of calls, arrivals and expirations. *)
(***************************************************************************)
EXTENDS HookIo, TLAPS

(* Between addEvent and its resumption the fiber can be woken. *)
WillBeWoken == pc = "yield" => registered \/ queued

(* What a callback does to a call, a timer of that call has earned. *)
CallbackIsOwn == \A c \in Calls : cbQueued[c] > 0 \/ cacelled[c] => expired[c]

(* A fiber inside do_io is in one of its calls. *)
InCall == pc # "user" => call \in Calls

IndInv ==
    TypeOK /\ OneWakeup /\ WillBeWoken /\ NoTimerLeft /\ CallbackIsOwn /\ TimeoutIsOwn /\ InCall

----------------------------------------------------------------------------
(* Setting a flag keeps the type. *)
LEMMA SetFlag ==
    ASSUME NEW f \in [Calls -> BOOLEAN], NEW c
    PROVE  [f EXCEPT ![c] = TRUE] \in [Calls -> BOOLEAN]
OBVIOUS

(* So does counting up, and down from a positive count. *)
LEMMA CountUp ==
    ASSUME NEW f \in [Calls -> Nat], NEW c \in Calls
    PROVE  [f EXCEPT ![c] = @ + 1] \in [Calls -> Nat]
OBVIOUS

(* The count of a callback that is there can be taken back. *)
LEMMA CountDown ==
    ASSUME NEW f \in [Calls -> Nat], NEW c \in Calls, f[c] > 0
    PROVE  [f EXCEPT ![c] = @ - 1] \in [Calls -> Nat]
<1>1. f[c] - 1 \in Nat
  OBVIOUS
<1> QED BY <1>1

(* The invariant holds before the first call. *)
LEMMA IndInvInit == Init => IndInv
<1> SUFFICES ASSUME Init PROVE IndInv
  OBVIOUS
<1> USE DEF Init
<1>1. ready = FALSE /\ registered = FALSE /\ queued = FALSE /\ timer = FALSE
  OBVIOUS
<1>2. cacelled \in [Calls -> BOOLEAN] /\ expired \in [Calls -> BOOLEAN]
  BY Zenon
<1>3. TypeOK
  <2>1. call \in 0..MaxCalls /\ arrivals \in 0..MaxEvents
    BY HookIoAssumption
  <2>2. result \in [Calls -> {"none", "data", "timeout", "error"}]
        /\ cbQueued \in [Calls -> Nat] /\ cbFlagged \in [Calls -> Nat]
    OBVIOUS
  <2>3. ready \in BOOLEAN /\ registered \in BOOLEAN /\ queued \in BOOLEAN /\ timer \in BOOLEAN
    BY <1>1
  <2>4. pc \in {"user", "plain", "try", "addTimer", "addEvent", "yield", "held", "woken", "check"}
        /\ open \in {"open", "cancelled", "deleted", "closed"}
    OBVIOUS
  <2> QED BY <1>2, <2>1, <2>2, <2>3, <2>4, Zenon DEF TypeOK
<1>4. OneWakeup /\ WillBeWoken /\ NoTimerLeft /\ CallbackIsOwn /\ TimeoutIsOwn /\ InCall
  BY DEF OneWakeup, WillBeWoken, NoTimerLeft, CallbackIsOwn, TimeoutIsOwn, InCall
<1> QED BY <1>3, <1>4 DEF IndInv

(* The steps of the fiber. *)
LEMMA FiberKeepsInv ==
    ASSUME IndInv, BeginCall \/ FiberStep
    PROVE  IndInv'
<1> USE HookIoAssumption DEF IndInv, TypeOK, InCall, Calls, ioVars, waitVars, timerVars
<1>1. CASE BeginCall
  BY <1>1 DEF BeginCall, OneWakeup, WillBeWoken, NoTimerLeft, CallbackIsOwn, TimeoutIsOwn
<1>2. CASE PlainCall
  BY <1>2 DEF PlainCall, Return, OneWakeup, WillBeWoken, NoTimerLeft, CallbackIsOwn, TimeoutIsOwn
<1>3. CASE TryCall
  BY <1>3 DEF TryCall, Return, OneWakeup, WillBeWoken, NoTimerLeft, CallbackIsOwn, TimeoutIsOwn
<1>4. CASE AddTimer
  BY <1>4 DEF AddTimer, OneWakeup, WillBeWoken, NoTimerLeft, CallbackIsOwn, TimeoutIsOwn
<1>5. CASE AddEvent
  <2>1. TypeOK'
    BY <1>5 DEF AddEvent, Return
  <2>2. OneWakeup' /\ WillBeWoken' /\ NoTimerLeft'
    BY <1>5 DEF AddEvent, Return, OneWakeup, WillBeWoken, NoTimerLeft
  <2>3. CallbackIsOwn' /\ TimeoutIsOwn' /\ InCall'
    BY <1>5 DEF AddEvent, Return, CallbackIsOwn, TimeoutIsOwn
  <2> QED BY <2>1, <2>2, <2>3
<1>6. CASE YieldToHold
  BY <1>6 DEF YieldToHold, OneWakeup, WillBeWoken, NoTimerLeft, CallbackIsOwn, TimeoutIsOwn
<1>7. CASE Resume
  BY <1>7 DEF Resume, OneWakeup, WillBeWoken, NoTimerLeft, CallbackIsOwn, TimeoutIsOwn
<1>8. CASE CancelTimer
  BY <1>8 DEF CancelTimer, OneWakeup, WillBeWoken, NoTimerLeft, CallbackIsOwn, TimeoutIsOwn
<1>9. CASE CheckCancelled
  BY <1>9 DEF CheckCancelled, Return, OneWakeup, WillBeWoken, NoTimerLeft, CallbackIsOwn, TimeoutIsOwn
<1> QED BY <1>1, <1>2, <1>3, <1>4, <1>5, <1>6, <1>7, <1>8, <1>9 DEF FiberStep

(* The steps of the IOManager's threads. *)
LEMMA ThreadKeepsInv ==
    ASSUME IndInv, ThreadStep \/ Expire
    PROVE  IndInv'
<1> USE HookIoAssumption DEF IndInv, TypeOK, InCall, Calls, ioVars, waitVars, timerVars
<1>1. CASE DeliverEvent
  <2>1. TypeOK'
    BY <1>1 DEF DeliverEvent, TriggerEvent
  <2>2. OneWakeup' /\ WillBeWoken' /\ NoTimerLeft'
    BY <1>1 DEF DeliverEvent, TriggerEvent, OneWakeup, WillBeWoken, NoTimerLeft
  <2>3. CallbackIsOwn' /\ TimeoutIsOwn' /\ InCall'
    BY <1>1 DEF DeliverEvent, TriggerEvent, CallbackIsOwn, TimeoutIsOwn
  <2> QED BY <2>1, <2>2, <2>3
<1>2. CASE Expire
  <2>1. TypeOK'
    <3>1. expired' \in [Calls -> BOOLEAN] /\ cbQueued' \in [Calls -> Nat]
      <4>1. call \in Calls
        BY <1>2 DEF Expire, NoTimerLeft
      <4> HIDE DEF Calls
      <4> QED BY <1>2, <4>1, SetFlag, CountUp DEF Expire
    <3>2. timer' \in BOOLEAN
      BY <1>2 DEF Expire
    <3> QED BY <1>2, <3>1, <3>2 DEF Expire
  <2>2. OneWakeup' /\ WillBeWoken' /\ NoTimerLeft'
    BY <1>2 DEF Expire, OneWakeup, WillBeWoken, NoTimerLeft
  <2>3. CallbackIsOwn' /\ TimeoutIsOwn' /\ InCall'
    BY <1>2 DEF Expire, CallbackIsOwn, TimeoutIsOwn
  <2> QED BY <2>1, <2>2, <2>3
<1>3. ASSUME NEW c \in Calls, RunCallback(c) PROVE IndInv'
  <2>1. TypeOK'
    <3>1. cacelled' \in [Calls -> BOOLEAN]
      BY <1>3, SetFlag DEF RunCallback
    <3>2. cbQueued' \in [Calls -> Nat] /\ cbFlagged' \in [Calls -> Nat]
      <4> HIDE DEF Calls
      <4>1. cbQueued' \in [Calls -> Nat]
        BY <1>3, CountDown DEF RunCallback
      <4>2. cbFlagged' \in [Calls -> Nat]
        BY <1>3, CountUp DEF RunCallback
      <4> QED BY <4>1, <4>2
    <3> QED BY <1>3, <3>1, <3>2 DEF RunCallback
  <2>2. OneWakeup' /\ WillBeWoken' /\ NoTimerLeft'
    BY <1>3 DEF RunCallback, OneWakeup, WillBeWoken, NoTimerLeft
  <2>3. CallbackIsOwn' /\ TimeoutIsOwn' /\ InCall'
    BY <1>3 DEF RunCallback, CallbackIsOwn, TimeoutIsOwn
  <2> QED BY <2>1, <2>2, <2>3
<1>4. ASSUME NEW c \in Calls, CancelEvent(c) PROVE IndInv'
  <2>1. TypeOK'
    <3>1. cbFlagged' \in [Calls -> Nat]
      <4> HIDE DEF Calls
      <4> QED BY <1>4, CountDown DEF CancelEvent
    <3>2. registered' \in BOOLEAN /\ queued' \in BOOLEAN
      BY <1>4 DEF CancelEvent, TriggerEvent
    <3> QED BY <1>4, <3>1, <3>2 DEF CancelEvent
  <2>2. OneWakeup' /\ WillBeWoken' /\ NoTimerLeft'
    BY <1>4 DEF CancelEvent, TriggerEvent, OneWakeup, WillBeWoken, NoTimerLeft
  <2>3. CallbackIsOwn' /\ TimeoutIsOwn' /\ InCall'
    BY <1>4 DEF CancelEvent, CallbackIsOwn, TimeoutIsOwn
  <2> QED BY <2>1, <2>2, <2>3
<1> QED BY <1>1, <1>2, <1>3, <1>4 DEF ThreadStep

(* The steps of the fiber that closes the descriptor, and of the peer. *)
LEMMA OthersKeepInv ==
    ASSUME IndInv, CloseCancel \/ CloseDelete \/ CloseEnd \/ BecomeReady \/ Steal \/ UNCHANGED vars
    PROVE  IndInv'
<1> USE HookIoAssumption DEF IndInv, TypeOK, InCall, Calls, ioVars, waitVars, timerVars
<1>1. CASE CloseCancel
  <2>1. TypeOK'
    BY <1>1 DEF CloseCancel, TriggerEvent
  <2>2. OneWakeup' /\ WillBeWoken' /\ NoTimerLeft'
    BY <1>1 DEF CloseCancel, TriggerEvent, OneWakeup, WillBeWoken, NoTimerLeft
  <2>3. CallbackIsOwn' /\ TimeoutIsOwn' /\ InCall'
    BY <1>1 DEF CloseCancel, TriggerEvent, CallbackIsOwn, TimeoutIsOwn
  <2> QED BY <2>1, <2>2, <2>3
<1>2. CASE CloseDelete \/ CloseEnd
  BY <1>2 DEF CloseDelete, CloseEnd, OneWakeup, WillBeWoken, NoTimerLeft, CallbackIsOwn, TimeoutIsOwn
<1>3. CASE BecomeReady \/ Steal
  <2>1. ready' \in BOOLEAN
    BY <1>3 DEF BecomeReady, Steal
  <2>2. arrivals' \in 0..MaxEvents
    BY <1>3 DEF BecomeReady, Steal
  <2>3. UNCHANGED <<pc, call, result, open, waitVars, timerVars>>
    BY <1>3 DEF BecomeReady, Steal
  <2> QED
    BY <2>1, <2>2, <2>3 DEF OneWakeup, WillBeWoken, NoTimerLeft, CallbackIsOwn, TimeoutIsOwn
<1>4. CASE UNCHANGED vars
  BY <1>4 DEF vars, OneWakeup, WillBeWoken, NoTimerLeft, CallbackIsOwn, TimeoutIsOwn
<1> QED BY <1>1, <1>2, <1>3, <1>4

(* The inductive invariant holds in every reachable state of do_io, its     *)
(* timers' callbacks and close().                                           *)
THEOREM IndInvariant == Spec => []IndInv
<1>1. IndInv /\ [Next]_vars => IndInv'
  BY FiberKeepsInv, ThreadKeepsInv, OthersKeepInv DEF Next
<1> QED BY <1>1, IndInvInit, PTL DEF Spec

(* Every variable keeps its type. *)
THEOREM TypeCorrect == Spec => []TypeOK
<1>1. IndInv => TypeOK
  BY DEF IndInv
<1> QED BY <1>1, IndInvariant, PTL

(* The event, the timeout and close() together schedule a waiting fiber of  *)
(* do_io exactly once.                                                      *)
THEOREM WokenOnce == Spec => []OneWakeup
<1>1. IndInv => OneWakeup
  BY DEF IndInv
<1> QED BY <1>1, IndInvariant, PTL

(* do_io returns ETIMEDOUT only if a timer of this very call has expired,   *)
(* however late the callbacks of earlier calls run.                         *)
THEOREM TimeoutBelongsToCall == Spec => []TimeoutIsOwn
<1>1. IndInv => TimeoutIsOwn
  BY DEF IndInv
<1> QED BY <1>1, IndInvariant, PTL

(* do_io leaves no timer behind on any of its ways out. *)
THEOREM TimerIsCancelled == Spec => []NoTimerLeft
<1>1. IndInv => NoTimerLeft
  BY DEF IndInv
<1> QED BY <1>1, IndInvariant, PTL

=============================================================================
