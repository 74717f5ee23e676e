---------------------------- MODULE TimerManager ----------------------------
(***************************************************************************)
(* The timers of dwframe (timer.h, timer.cc): class Timer and class        *)
(* TimerManager, the base of IOManager.                                    *)
(*                                                                         *)
(* Users on any thread add, cancel, refresh and reset timers; the threads  *)
(* in IOManager::idle poll: getNextTimer() and then listExpiredCb(), which *)
(* reads the clock before it takes the lock.  Each critical section of     *)
(* m_mutex is one step.                                                    *)
(*                                                                         *)
(* The clock is a 64-bit number of milliseconds since 1970; Timer::m_next  *)
(* is a uint32_t, so a due time is stored modulo Width (2^32 in the code). *)
(* A timer is identified with its address: m_timers is ordered by m_next   *)
(* and then by address (Timer::Comparator).                                *)
(***************************************************************************)
EXTENDS Integers, FiniteSets

CONSTANTS
    Timers,    \* addresses of the timers that can be made
    Pollers,   \* the threads that poll
    Delays,    \* the values of ms that users pass
    Width,     \* the modulus of Timer::m_next
    Start,     \* the clock when the program starts
    MaxNow     \* bound on the clock

ASSUME TimersAssumption == IsFiniteSet(Timers) /\ Timers \subseteq Int
ASSUME TimeAssumption ==
    /\ Delays \subseteq Nat
    /\ Width \in Nat \ {0}
    /\ Start \in Nat
    /\ MaxNow \in Nat

VARIABLES
    now,          \* GetCurrentMS()
    m_timers,     \* the set of the TimerManager
    m_next, m_ms, m_recurring,
    m_cb,         \* whether Timer::m_cb is set
    m_tickled,
    life,         \* "free", "made" (constructed) or "given" (added, pointer returned)
    pollPc,       \* where each poller is in listExpiredCb
    now_ms,       \* the poller's local variable now_ms, 0 outside listExpiredCb
    due,          \* history: the exact due time of each timer
    fired,        \* history: how often each callback was handed out
    seen          \* history: the first m_next at the last getNextTimer, or -1

timerVars == <<m_timers, m_next, m_ms, m_recurring, m_cb, life, due>>
pollVars == <<pollPc, now_ms>>
vars == <<now, timerVars, pollVars, m_tickled, fired, seen>>

----------------------------------------------------------------------------

Trunc(n) == n % Width    \* the conversion of a uint64_t to m_next

(* Timer::Comparator on two timers with the given m_next. *)
Less(n1, t1, n2, t2) == n1 < n2 \/ (n1 = n2 /\ t1 < t2)

(* t is m_timers.begin() after it was inserted with key n. *)
IsFront(t, n) == \A u \in m_timers \ {t} : Less(n, t, m_next[u], u)

(* Mutant: a new front is not announced. *)
TickleNever(t, n) == UNCHANGED m_tickled

(* The end of addtimer and addTimer: onTimerInsertedAtFront() is called at *)
(* most once between two calls of getNextTimer.                            *)
TickleIfFront(t, n) == m_tickled' = (m_tickled \/ IsFront(t, n))

----------------------------------------------------------------------------
(* The users *)

(* Timer::Timer, called by addtimer before it takes the lock. *)
Make(t, ms, recurring) ==
    /\ life[t] = "free"
    /\ life' = [life EXCEPT ![t] = "made"]
    /\ m_ms' = [m_ms EXCEPT ![t] = ms]
    /\ m_recurring' = [m_recurring EXCEPT ![t] = recurring]
    /\ m_cb' = [m_cb EXCEPT ![t] = TRUE]
    /\ m_next' = [m_next EXCEPT ![t] = Trunc(now + ms)]
    /\ due' = [due EXCEPT ![t] = now + ms]
    /\ UNCHANGED <<now, m_timers, pollVars, m_tickled, fired, seen>>

(* The rest of addtimer. *)
AddTimer(t) ==
    /\ life[t] = "made"
    /\ life' = [life EXCEPT ![t] = "given"]
    /\ m_timers' = m_timers \cup {t}
    /\ TickleIfFront(t, m_next[t])
    /\ UNCHANGED <<now, m_next, m_ms, m_recurring, m_cb, due, pollVars, fired, seen>>

(* Mutant: cancel() clears the callback and leaves the timer in the set. *)
CancelKeepsTimer(t) ==
    /\ life[t] = "given"
    /\ m_cb[t]
    /\ m_cb' = [m_cb EXCEPT ![t] = FALSE]
    /\ UNCHANGED <<now, m_timers, m_next, m_ms, m_recurring, life, due, pollVars, m_tickled, fired, seen>>

(* Timer::cancel that returns true.  Its erase is not guarded: the timer   *)
(* must be found (see CallbackIffInSet).                                   *)
Cancel(t) ==
    /\ life[t] = "given"
    /\ m_cb[t]
    /\ m_cb' = [m_cb EXCEPT ![t] = FALSE]
    /\ m_timers' = m_timers \ {t}
    /\ UNCHANGED <<now, m_next, m_ms, m_recurring, life, due, pollVars, m_tickled, fired, seen>>

(* Timer::refresh that returns true: erased, given a new key, inserted. *)
Refresh(t) ==
    /\ life[t] = "given"
    /\ m_cb[t]
    /\ t \in m_timers
    /\ m_next' = [m_next EXCEPT ![t] = Trunc(now + m_ms[t])]
    /\ due' = [due EXCEPT ![t] = now + m_ms[t]]
    /\ UNCHANGED <<now, m_timers, m_ms, m_recurring, m_cb, life, pollVars, m_tickled, fired, seen>>

(* Timer::reset that returns true: as refresh, but with a new period, from *)
(* now or from when the old period began, and through addTimer.            *)
Reset(t, ms, form_now) ==
    /\ life[t] = "given"
    /\ ms # m_ms[t] \/ form_now
    /\ m_cb[t]
    /\ t \in m_timers
    /\ m_ms' = [m_ms EXCEPT ![t] = ms]
    /\ m_next' = [m_next EXCEPT ![t] = Trunc((IF form_now THEN now ELSE @ - m_ms[t]) + ms)]
    /\ due' = [due EXCEPT ![t] = (IF form_now THEN now ELSE @ - m_ms[t]) + ms]
    /\ TickleIfFront(t, m_next'[t])
    /\ UNCHANGED <<now, m_timers, m_recurring, m_cb, life, pollVars, fired, seen>>

----------------------------------------------------------------------------
(* The pollers *)

(* getNextTimer: m_tickled is cleared under the read lock. *)
GetNextTimer(p) ==
    /\ pollPc[p] = "idle"
    /\ m_tickled' = FALSE
    /\ seen' = IF m_timers = {} THEN -1
               ELSE CHOOSE n \in {m_next[t] : t \in m_timers} : \A t \in m_timers : n <= m_next[t]
    /\ pollPc' = [pollPc EXCEPT ![p] = "waited"]
    /\ UNCHANGED <<now, timerVars, now_ms, fired>>

(* listExpiredCb, line 159. *)
ReadClock(p) ==
    /\ pollPc[p] = "waited"
    /\ now_ms' = [now_ms EXCEPT ![p] = now]
    /\ pollPc' = [pollPc EXCEPT ![p] = "clocked"]
    /\ UNCHANGED <<now, timerVars, m_tickled, fired, seen>>

(* Mutant: the test of m_timers.empty() is negated. *)
CheckEmptyNegated(p) ==
    /\ pollPc[p] = "clocked"
    /\ pollPc' = [pollPc EXCEPT ![p] = IF m_timers # {} THEN "idle" ELSE "checked"]
    /\ now_ms' = [now_ms EXCEPT ![p] = IF m_timers # {} THEN 0 ELSE @]
    /\ UNCHANGED <<now, timerVars, m_tickled, fired, seen>>

(* Lines 162-167: return when there is no timer, under the read lock. *)
CheckEmpty(p) ==
    /\ pollPc[p] = "clocked"
    /\ pollPc' = [pollPc EXCEPT ![p] = IF m_timers = {} THEN "idle" ELSE "checked"]
    /\ now_ms' = [now_ms EXCEPT ![p] = IF m_timers = {} THEN 0 ELSE @]
    /\ UNCHANGED <<now, timerVars, m_tickled, fired, seen>>

(* Mutant: one millisecond too many. *)
ExpiredTooSoon(n, address) == {t \in m_timers : m_next[t] <= Trunc(n) + 1}

(* begin() .. upper_bound(now_timer): the key of now_timer is truncated    *)
(* too, and among equal keys the addresses decide; address is where the    *)
(* new Timer(now_ms) happens to be.                                        *)
Expired(n, address) == {t \in m_timers : Less(m_next[t], t, Trunc(n), address)}

(* Lines 168-193, under the write lock. *)
ListExpiredCb(p) ==
    /\ pollPc[p] = "checked"
    /\ \E address \in Timers \cup {t + 1 : t \in Timers} :
          LET expired == Expired(now_ms[p], address)
              again == {t \in expired : m_recurring[t]}
          IN /\ fired' = [t \in Timers |-> fired[t] + (IF t \in expired THEN 1 ELSE 0)]
             /\ m_timers' = (m_timers \ expired) \cup again
             /\ m_cb' = [t \in Timers |-> m_cb[t] /\ t \notin expired \ again]
             /\ m_next' = [t \in Timers |->
                   IF t \in again THEN Trunc(now_ms[p] + m_ms[t]) ELSE m_next[t]]
             /\ due' = [t \in Timers |->
                   IF t \in again THEN now_ms[p] + m_ms[t] ELSE due[t]]
    /\ pollPc' = [pollPc EXCEPT ![p] = "idle"]
    /\ now_ms' = [now_ms EXCEPT ![p] = 0]
    /\ UNCHANGED <<now, m_ms, m_recurring, life, m_tickled, seen>>

Tick ==
    /\ now < MaxNow
    /\ now' = now + 1
    /\ UNCHANGED <<timerVars, pollVars, m_tickled, fired, seen>>

----------------------------------------------------------------------------
Init ==
    /\ now = Start
    /\ m_timers = {}
    /\ m_next = [t \in Timers |-> 0]
    /\ m_ms = [t \in Timers |-> 0]
    /\ m_recurring = [t \in Timers |-> FALSE]
    /\ m_cb = [t \in Timers |-> FALSE]
    /\ m_tickled = FALSE
    /\ life = [t \in Timers |-> "free"]
    /\ pollPc = [p \in Pollers |-> "idle"]
    /\ now_ms = [p \in Pollers |-> 0]
    /\ due = [t \in Timers |-> 0]
    /\ fired = [t \in Timers |-> 0]
    /\ seen = -1

PollStep(p) == GetNextTimer(p) \/ ReadClock(p) \/ CheckEmpty(p) \/ ListExpiredCb(p)

UserStep(t) ==
    \/ AddTimer(t) \/ Cancel(t) \/ Refresh(t)
    \/ \E ms \in Delays, b \in BOOLEAN : Make(t, ms, b) \/ Reset(t, ms, b)

Next == Tick \/ (\E p \in Pollers : PollStep(p)) \/ (\E t \in Timers : UserStep(t))

Spec == Init /\ [][Next]_vars

(* Threads in IOManager::idle poll for ever and time passes; users owe nothing. *)
FairSpec == Spec /\ WF_vars(Tick) /\ \A p \in Pollers : WF_vars(PollStep(p))

----------------------------------------------------------------------------
(* Properties *)

(* Every variable has its type. *)
TypeOK ==
    /\ now \in Nat
    /\ m_timers \in SUBSET Timers
    /\ m_next \in [Timers -> 0..(Width - 1)]
    /\ m_ms \in [Timers -> Nat]
    /\ m_recurring \in [Timers -> BOOLEAN]
    /\ m_cb \in [Timers -> BOOLEAN]
    /\ m_tickled \in BOOLEAN
    /\ life \in [Timers -> {"free", "made", "given"}]
    /\ pollPc \in [Pollers -> {"idle", "waited", "clocked", "checked"}]
    /\ now_ms \in [Pollers -> Nat]
    /\ due \in [Timers -> Int]
    /\ fired \in [Timers -> Nat]
    /\ seen \in -1..(Width - 1)

(* A timer whose pointer users hold is in m_timers exactly when its m_cb is *)
(* set.  Timer::cancel relies on it: it erases what find() returned without *)
(* comparing it with end(), whatever expired in the meantime.               *)
CallbackIffInSet ==
    \A t \in Timers : (t \in m_timers) <=> (life[t] = "given" /\ m_cb[t])

(* If the first timer is due before the time that the last getNextTimer     *)
(* saw, onTimerInsertedAtFront() has been called since: no thread sleeps    *)
(* past a timer that was added or moved to the front after it looked.       *)
FrontIsTickled ==
    \A t \in m_timers : seen = -1 \/ m_next[t] < seen => m_tickled

(* The manager implements AbstractTimers: callbacks are handed out when     *)
(* they are due, a one-shot timer once, and never after a true cancel().    *)
Abstract == INSTANCE AbstractTimers WITH
    phase <- [t \in Timers |->
        IF life[t] = "free" THEN "new" ELSE IF life[t] = "made" THEN "made"
        ELSE IF m_cb[t] THEN "armed" ELSE "over"],
    oneShot <- {t \in Timers : life[t] # "free" /\ ~m_recurring[t]}
ImplementsAbstract == Abstract!Spec

(* A timer does not stay in the set past its due time: once the clock has   *)
(* passed it, a poll hands it out (or a user cancels or moves it).          *)
Overdue(t, d) == t \in m_timers /\ due[t] = d
DueIsHandedOut ==
    \A t \in Timers : \A d \in Start..(MaxNow - 1) : Overdue(t, d) ~> ~Overdue(t, d)

=============================================================================
