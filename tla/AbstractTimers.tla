--------------------------- MODULE AbstractTimers ---------------------------
(***************************************************************************)
(* What TimerManager promises to its users.  A timer is made with a due    *)
(* time that is not in the past, then armed.  The callback of an armed     *)
(* timer is handed out only when it is due.  A one-shot timer that was     *)
(* handed out, and any timer whose cancel() returned true, is over for     *)
(* good: its callback is never handed out again.                           *)
(***************************************************************************)
EXTENDS Integers

CONSTANTS Timers

VARIABLES
    now,      \* the wall clock, in milliseconds
    phase,    \* "new", "made", "armed" or "over"
    due,      \* the exact time at which each timer is due
    oneShot,  \* the timers that are not recurring
    fired     \* how often each callback was handed out

vars == <<now, phase, due, oneShot, fired>>

Init ==
    /\ now \in Nat
    /\ phase = [t \in Timers |-> "new"]
    /\ due = [t \in Timers |-> 0]
    /\ oneShot = {}
    /\ fired = [t \in Timers |-> 0]

Tick ==
    /\ now' > now
    /\ UNCHANGED <<phase, due, oneShot, fired>>

Make(t) ==
    /\ phase[t] = "new"
    /\ phase' = [phase EXCEPT ![t] = "made"]
    /\ due'[t] >= now
    /\ \A u \in Timers \ {t} : due'[u] = due[u]
    /\ oneShot' \in {oneShot, oneShot \cup {t}}
    /\ UNCHANGED <<now, fired>>

Arm(t) ==
    /\ phase[t] = "made"
    /\ phase' = [phase EXCEPT ![t] = "armed"]
    /\ UNCHANGED <<now, due, oneShot, fired>>

Cancel(t) ==
    /\ phase[t] = "armed"
    /\ phase' = [phase EXCEPT ![t] = "over"]
    /\ UNCHANGED <<now, due, oneShot, fired>>

Reschedule(t) ==
    /\ phase[t] = "armed"
    /\ \A u \in Timers \ {t} : due'[u] = due[u]
    /\ UNCHANGED <<now, phase, oneShot, fired>>

(* Several timers that are due are handed out together; the recurring ones *)
(* stay armed with a new due time.                                         *)
Fire(S) ==
    /\ \A t \in S : phase[t] = "armed" /\ due[t] <= now
    /\ fired' = [t \in Timers |-> IF t \in S THEN fired[t] + 1 ELSE fired[t]]
    /\ phase' = [t \in Timers |-> IF t \in S \cap oneShot THEN "over" ELSE phase[t]]
    /\ \A t \in Timers : t \notin S \ oneShot => due'[t] = due[t]
    /\ UNCHANGED <<now, oneShot>>

Next ==
    \/ Tick
    \/ \E t \in Timers : Make(t) \/ Arm(t) \/ Cancel(t) \/ Reschedule(t)
    \/ \E S \in SUBSET Timers : Fire(S)

Spec == Init /\ [][Next]_vars

=============================================================================
