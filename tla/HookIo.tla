------------------------------- MODULE HookIo -------------------------------
(***************************************************************************)
(* A hooked blocking call (hook.cc): do_io, which accept, read, recv,      *)
(* write, send ... go through, and close.                                  *)
(*                                                                         *)
(* One fiber makes a few calls, one after the other, for one event of one  *)
(* descriptor: try the system call; on EAGAIN add a timer (when the        *)
(* descriptor has a timeout), add the event, yield, and on being resumed   *)
(* cancel the timer and try again, or fail when the timer's callback has   *)
(* set cacelled.  Around it the threads of the IOManager deliver the event *)
(* and run the callbacks of expired timers, and another fiber closes the   *)
(* descriptor.  A call's timer_info is known by the number of the call.    *)
(*                                                                         *)
(* The descriptor is a socket that the user did not make non-blocking, on  *)
(* a thread with hooks enabled.  Once close() has deleted its FdCtx, a new *)
(* call is the plain system call, which does not wait.                     *)
(***************************************************************************)
EXTENDS Integers

CONSTANTS
    MaxCalls,     \* bound on the calls that the fiber makes
    MaxEvents,    \* bound on how often the descriptor becomes ready
    HasTimeout,   \* FdCtx::getTimeout is not -1
    MayClose      \* another fiber closes the descriptor

Calls == 1..MaxCalls

ASSUME HookIoAssumption ==
    /\ MaxCalls \in Nat
    /\ MaxEvents \in Nat
    /\ HasTimeout \in BOOLEAN
    /\ MayClose \in BOOLEAN

VARIABLES
    pc,          \* where the fiber is in do_io; "user" outside
    call,        \* the number of the call
    result,      \* what each call returned
    ready,       \* the system call would not return EAGAIN
    open,        \* "open", "cancelled", "deleted", "closed": the steps of close()
    registered,  \* the fiber is in the FdContext of the descriptor
    queued,      \* the fiber is in the run queue
    timer,       \* the timer of the current round is in the TimerManager
    cacelled,    \* timer_info::cacelled of each call
    cbQueued,    \* callbacks of expired timers of each call, not yet run
    cbFlagged,   \* callbacks that have set cacelled, before cancelEvent
    expired,     \* history: a timer of the call has expired
    arrivals     \* how often the descriptor became ready

ioVars == <<ready, open, arrivals>>
waitVars == <<registered, queued>>
timerVars == <<timer, cacelled, cbQueued, cbFlagged, expired>>
vars == <<pc, call, result, ioVars, waitVars, timerVars>>

----------------------------------------------------------------------------
(* The fiber *)

Return(r) ==
    /\ result' = [result EXCEPT ![call] = r]
    /\ pc' = "user"

BeginCall ==
    /\ pc = "user"
    /\ call < MaxCalls
    /\ call' = call + 1
    /\ pc' = IF open \in {"open", "cancelled"} THEN "try" ELSE "plain"
    /\ UNCHANGED <<result, ioVars, waitVars, timerVars>>

(* Lines 92-95: without a FdCtx the result of the system call is returned. *)
PlainCall ==
    /\ pc = "plain"
    /\ Return(IF ready /\ open # "closed" THEN "data" ELSE "error")
    /\ ready' = (ready /\ open = "closed")
    /\ UNCHANGED <<call, open, arrivals, waitVars, timerVars>>

(* Lines 107-113: the system call; EINTR is retried at once. *)
TryCall ==
    /\ pc = "try"
    /\ \/ open = "closed" /\ Return("error") /\ UNCHANGED ready
       \/ open # "closed" /\ ready /\ Return("data") /\ ready' = FALSE
       \/ open # "closed" /\ ~ready /\ pc' = "addTimer" /\ UNCHANGED <<ready, result>>
    /\ UNCHANGED <<call, open, arrivals, waitVars, timerVars>>

(* Lines 120-129: addConditionTimer. *)
AddTimer ==
    /\ pc = "addTimer"
    /\ timer' = HasTimeout
    /\ pc' = "addEvent"
    /\ UNCHANGED <<call, result, ioVars, waitVars, cacelled, cbQueued, cbFlagged, expired>>

(* Mutant: the timer is not cancelled when addEvent fails. *)
AddEventLeavesTimer ==
    /\ pc = "addEvent"
    /\ \/ open = "closed" /\ Return("error") /\ UNCHANGED registered
       \/ open # "closed" /\ registered' = TRUE /\ pc' = "yield" /\ UNCHANGED result
    /\ UNCHANGED <<call, ioVars, queued, timerVars>>

(* Lines 131-143: addEvent fails on a closed descriptor. *)
AddEvent ==
    /\ pc = "addEvent"
    /\ \/ open = "closed" /\ timer' = FALSE /\ Return("error") /\ UNCHANGED registered
       \/ open # "closed" /\ registered' = TRUE /\ pc' = "yield" /\ UNCHANGED <<timer, result>>
    /\ UNCHANGED <<call, ioVars, queued, cacelled, cbQueued, cbFlagged, expired>>

YieldToHold ==
    /\ pc = "yield"
    /\ pc' = "held"
    /\ UNCHANGED <<call, result, ioVars, waitVars, timerVars>>

Resume ==
    /\ pc = "held"
    /\ queued
    /\ queued' = FALSE
    /\ pc' = "woken"
    /\ UNCHANGED <<call, result, ioVars, registered, timerVars>>

(* Lines 145-147. *)
CancelTimer ==
    /\ pc = "woken"
    /\ timer' = FALSE
    /\ pc' = "check"
    /\ UNCHANGED <<call, result, ioVars, waitVars, cacelled, cbQueued, cbFlagged, expired>>

(* Lines 148-153. *)
CheckCancelled ==
    /\ pc = "check"
    /\ IF cacelled[call] THEN Return("timeout") ELSE pc' = "try" /\ UNCHANGED result
    /\ UNCHANGED <<call, ioVars, waitVars, timerVars>>

FiberStep ==
    \/ PlainCall \/ TryCall \/ AddTimer \/ AddEvent \/ YieldToHold \/ Resume \/ CancelTimer
    \/ CheckCancelled

----------------------------------------------------------------------------
(* The threads of the IOManager *)

(* Mutant: the event stays registered. *)
TriggerEventKeeps ==
    /\ queued' = TRUE
    /\ UNCHANGED registered

(* triggerEvent for the fiber's event. *)
TriggerEvent ==
    /\ registered' = FALSE
    /\ queued' = TRUE

(* idle(): epoll reports a registered event of an open descriptor. *)
DeliverEvent ==
    /\ registered
    /\ ready
    /\ open # "closed"
    /\ TriggerEvent
    /\ UNCHANGED <<pc, call, result, ioVars, timerVars>>

(* listExpiredCb takes the timer and its callback is scheduled. *)
Expire ==
    /\ timer
    /\ timer' = FALSE
    /\ cbQueued' = [cbQueued EXCEPT ![call] = @ + 1]
    /\ expired' = [expired EXCEPT ![call] = TRUE]
    /\ UNCHANGED <<pc, call, result, ioVars, waitVars, cacelled, cbFlagged>>

(* Mutant: all calls share one timer_info. *)
RunCallbackShared(c) ==
    /\ cbQueued[c] > 0
    /\ cbQueued' = [cbQueued EXCEPT ![c] = @ - 1]
    /\ IF pc = "user" \/ cacelled[call]
       THEN UNCHANGED <<cacelled, cbFlagged>>
       ELSE /\ cacelled' = [cacelled EXCEPT ![call] = TRUE]
            /\ cbFlagged' = [cbFlagged EXCEPT ![c] = @ + 1]
    /\ UNCHANGED <<pc, call, result, ioVars, waitVars, timer, expired>>

(* Lines 122-126 and Ontimer: the weak pointer is dead once its call has  *)
(* returned; otherwise the first callback sets cacelled ...               *)
RunCallback(c) ==
    /\ cbQueued[c] > 0
    /\ cbQueued' = [cbQueued EXCEPT ![c] = @ - 1]
    /\ IF c # call \/ pc = "user" \/ cacelled[c]
       THEN UNCHANGED <<cacelled, cbFlagged>>
       ELSE /\ cacelled' = [cacelled EXCEPT ![c] = TRUE]
            /\ cbFlagged' = [cbFlagged EXCEPT ![c] = @ + 1]
    /\ UNCHANGED <<pc, call, result, ioVars, waitVars, timer, expired>>

(* ... and then cancels the event, if it is registered (line 127). *)
CancelEvent(c) ==
    /\ cbFlagged[c] > 0
    /\ cbFlagged' = [cbFlagged EXCEPT ![c] = @ - 1]
    /\ IF registered THEN TriggerEvent ELSE UNCHANGED waitVars
    /\ UNCHANGED <<pc, call, result, ioVars, timer, cacelled, cbQueued, expired>>

ThreadStep == DeliverEvent \/ (\E c \in Calls : RunCallback(c) \/ CancelEvent(c))

----------------------------------------------------------------------------
(* The other fibers and the peer *)

(* close(): cancelALL, then FdManager::del, then close_f, which also ends  *)
(* the registration with epoll.                                            *)
CloseCancel ==
    /\ MayClose
    /\ open = "open"
    /\ open' = "cancelled"
    /\ IF registered THEN TriggerEvent ELSE UNCHANGED waitVars
    /\ UNCHANGED <<pc, call, result, ready, arrivals, timerVars>>

CloseDelete ==
    /\ open = "cancelled"
    /\ open' = "deleted"
    /\ UNCHANGED <<pc, call, result, ready, arrivals, waitVars, timerVars>>

CloseEnd ==
    /\ open = "deleted"
    /\ open' = "closed"
    /\ UNCHANGED <<pc, call, result, ready, arrivals, waitVars, timerVars>>

BecomeReady ==
    /\ ~ready
    /\ arrivals < MaxEvents
    /\ ready' = TRUE
    /\ arrivals' = arrivals + 1
    /\ UNCHANGED <<pc, call, result, open, waitVars, timerVars>>

(* Another fiber takes the data first. *)
Steal ==
    /\ ready
    /\ ready' = FALSE
    /\ UNCHANGED <<pc, call, result, open, arrivals, waitVars, timerVars>>

----------------------------------------------------------------------------
Init ==
    /\ pc = "user"
    /\ call = 0
    /\ result = [c \in Calls |-> "none"]
    /\ ready = FALSE
    /\ open = "open"
    /\ registered = FALSE
    /\ queued = FALSE
    /\ timer = FALSE
    /\ cacelled = [c \in Calls |-> FALSE]
    /\ cbQueued = [c \in Calls |-> 0]
    /\ cbFlagged = [c \in Calls |-> 0]
    /\ expired = [c \in Calls |-> FALSE]
    /\ arrivals = 0

Next ==
    \/ BeginCall \/ FiberStep \/ ThreadStep \/ Expire
    \/ CloseCancel \/ CloseDelete \/ CloseEnd \/ BecomeReady \/ Steal

Spec == Init /\ [][Next]_vars

(* Threads run, time passes; nothing has to arrive on the descriptor.      *)
FairSpec ==
    /\ Spec
    /\ WF_vars(FiberStep)
    /\ WF_vars(Expire)
    /\ WF_vars(DeliverEvent)
    /\ \A c \in Calls : WF_vars(RunCallback(c)) /\ WF_vars(CancelEvent(c))

----------------------------------------------------------------------------
(* Properties *)

(* Every variable has its type. *)
TypeOK ==
    /\ pc \in {"user", "plain", "try", "addTimer", "addEvent", "yield", "held", "woken", "check"}
    /\ call \in 0..MaxCalls
    /\ result \in [Calls -> {"none", "data", "timeout", "error"}]
    /\ ready \in BOOLEAN
    /\ registered \in BOOLEAN
    /\ queued \in BOOLEAN
    /\ timer \in BOOLEAN
    /\ open \in {"open", "cancelled", "deleted", "closed"}
    /\ cacelled \in [Calls -> BOOLEAN]
    /\ cbQueued \in [Calls -> Nat]
    /\ cbFlagged \in [Calls -> Nat]
    /\ expired \in [Calls -> BOOLEAN]
    /\ arrivals \in 0..MaxEvents

(* The fiber is scheduled only while it waits, by one of the event, the     *)
(* timeout and close, never by two of them: a second entry in the run queue *)
(* would resume whatever the fiber waits for next.                          *)
OneWakeup ==
    /\ ~(registered /\ queued)
    /\ registered \/ queued => pc \in {"yield", "held"}
    /\ pc = "held" => registered \/ queued

(* A timeout is reported only by a call one of whose own timers expired: a  *)
(* late callback of an earlier call, or the cancelEvent it still owes, may  *)
(* wake a later call but cannot make it fail.                               *)
TimeoutIsOwn == \A c \in Calls : result[c] = "timeout" => expired[c]

(* When do_io has returned no timer of it is left behind, whichever of the  *)
(* event, the timer and close came first.                                   *)
NoTimerLeft == timer => pc \in {"addEvent", "yield", "held", "woken"}

(* A call on a descriptor with a timeout returns ("the read timeout in      *)
(* milliseconds", Tcp_server.h:159), even if nothing ever arrives.          *)
CallReturns == pc = "try" ~> pc = "user"

=============================================================================
