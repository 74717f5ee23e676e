------------------------ MODULE TimerManagerProofs ------------------------
(***************************************************************************)
(* Proofs about TimerManager, for any timers, pollers and delays.          *)
(*                                                                         *)
(* That a timer is in the set exactly while it has its callback needs no   *)
(* assumption on time.  What is said about the order of the due times      *)
(* cannot hold when they wrap (m_next is a uint32_t): these theorems       *)
(* assume OnePeriod, that the clock and all due times lie in one period of *)
(* Width milliseconds (49 days and 17 hours in the code).  Their inductive *)
(* invariant ties m_next to the exact due time and the due time to the     *)
(* clock value that it was computed from.                                  *)
(***************************************************************************)
EXTENDS TimerManager, CommonLemmas, TLAPS

(* addtimer has made the timer with its callback before it inserts it. *)
MadeHasCallback == \A t \in Timers : life[t] = "made" => m_cb[t]
SetInv == TypeOK /\ CallbackIffInSet /\ MadeHasCallback

Base == Width * (Start \div Width)
OnePeriod ==
    /\ Start <= MaxNow /\ MaxNow < Base + Width
    /\ \A ms \in Delays : MaxNow + ms < Base + Width

ClockInv == Start <= now /\ now <= MaxNow

(* The clock that a poller has read is not ahead of the clock. *)
PollInv == \A p \in Pollers :
    pollPc[p] \in {"clocked", "checked"} => Start <= now_ms[p] /\ now_ms[p] <= now

(* The key of a timer is its due time within the period; its current round *)
(* began between the start of the program and now.                         *)
DueInv == \A t \in Timers : life[t] # "free" =>
    /\ m_ms[t] \in Delays
    /\ Start <= due[t] - m_ms[t] /\ due[t] - m_ms[t] <= now
    /\ m_next[t] = due[t] - Base

TimeInv == ClockInv /\ PollInv /\ DueInv

----------------------------------------------------------------------------
(* Arithmetic *)

(* The conversion to uint32_t keeps every key in range. *)
LEMMA TruncType ==
    ASSUME NEW n \in Int
    PROVE  Trunc(n) \in 0..(Width - 1)
BY TimeAssumption DEF Trunc

(* The period of the 32-bit key that the run starts in. *)
LEMMA BaseType == Base \in Int /\ Base <= Start
<1> DEFINE q == Start \div Width
<1>1. q \in Int /\ Start = Width * q + (Start % Width) /\ (Start % Width) \in 0..(Width - 1)
  BY TimeAssumption
<1> HIDE DEF q
<1>2. Width * q \in Int
  BY <1>1, TimeAssumption
<1>3. Base = Width * q
  BY DEF Base, q
<1> QED BY <1>1, <1>2, <1>3, TimeAssumption

(* Within the period the conversion only moves the origin. *)
LEMMA TruncIsShift ==
    ASSUME NEW n \in Int, Start <= n, n < Base + Width
    PROVE  Trunc(n) = n - Base
<1>1. Start \div Width \in Int /\ Base = Width * (Start \div Width)
  BY TimeAssumption DEF Base
<1>2. Base <= n
  BY BaseType, TimeAssumption
<1> QED BY <1>1, <1>2, ModBase, TimeAssumption DEF Trunc

(* What getNextTimer has seen: -1 for an empty set, else the key of the    *)
(* first timer.                                                            *)
LEMMA SeenIsLeast ==
    ASSUME TypeOK, NEW p \in Pollers, GetNextTimer(p)
    PROVE  /\ seen' \in -1..(Width - 1)
           /\ m_timers # {} => seen' # -1 /\ \A t \in m_timers : seen' <= m_next[t]
<1> DEFINE K == {m_next[t] : t \in m_timers}
<1>1. K \in SUBSET (0..(Width - 1)) /\ K \in SUBSET Nat
  BY TimeAssumption DEF TypeOK
<1>2. CASE m_timers = {}
  BY <1>2, TimeAssumption DEF GetNextTimer
<1>3. CASE m_timers # {}
  <2>1. K # {}
    BY <1>3
  <2>2. \E n \in K : \A t \in m_timers : n <= m_next[t]
    <3>1. PICK n \in K : \A m \in K : n <= m
      BY <2>1, <1>1, MinExists
    <3>2. \A t \in m_timers : m_next[t] \in K
      OBVIOUS
    <3> QED BY <3>1, <3>2
  <2>3. seen' = CHOOSE n \in K : \A t \in m_timers : n <= m_next[t]
    BY <1>3 DEF GetNextTimer
  <2>4. seen' \in K /\ \A t \in m_timers : seen' <= m_next[t]
    BY <2>2, <2>3
  <2> QED BY <2>4, <1>1, TimeAssumption
<1> QED BY <1>2, <1>3

(* What a poll removes: timers whose key is not beyond the key of the      *)
(* clock; the recurring ones of them come back with a new key.             *)
Rearmed(expired) == {t \in expired : m_recurring[t]}
HandsOut(p, expired) ==
    /\ fired' = [t \in Timers |-> fired[t] + (IF t \in expired THEN 1 ELSE 0)]
    /\ m_timers' = (m_timers \ expired) \cup Rearmed(expired)
    /\ m_cb' = [t \in Timers |-> m_cb[t] /\ t \notin expired \ Rearmed(expired)]
    /\ m_next' = [t \in Timers |->
          IF t \in Rearmed(expired) THEN Trunc(now_ms[p] + m_ms[t]) ELSE m_next[t]]
    /\ due' = [t \in Timers |->
          IF t \in Rearmed(expired) THEN now_ms[p] + m_ms[t] ELSE due[t]]

(* listExpiredCb does that. *)
LEMMA ExpiredParts ==
    ASSUME TypeOK, NEW p \in Pollers, ListExpiredCb(p)
    PROVE  \E expired \in SUBSET m_timers :
              /\ HandsOut(p, expired)
              /\ \A t \in expired : m_next[t] <= Trunc(now_ms[p])
<1>1. PICK address \in Timers \cup {t + 1 : t \in Timers} :
          HandsOut(p, Expired(now_ms[p], address))
  BY DEF ListExpiredCb, HandsOut, Rearmed
<1>2. Expired(now_ms[p], address) \in SUBSET m_timers
  BY DEF Expired
<1>3. \A t \in Expired(now_ms[p], address) : m_next[t] <= Trunc(now_ms[p])
  <2>1. Trunc(now_ms[p]) \in 0..(Width - 1)
    BY TruncType DEF TypeOK
  <2> QED BY <2>1, TimeAssumption DEF Expired, Less, TypeOK
<1> QED BY <1>1, <1>2, <1>3

----------------------------------------------------------------------------
(* Types, and the set against the callbacks *)

(* Every critical section keeps the types. *)
LEMMA TypeStep ==
    ASSUME TypeOK, [Next]_vars
    PROVE  TypeOK'
<1> USE TimeAssumption
<1>1. CASE Tick
  BY <1>1 DEF TypeOK, Tick, timerVars, pollVars
<1>2. ASSUME NEW p \in Pollers, GetNextTimer(p) PROVE TypeOK'
  <2>1. seen' \in -1..(Width - 1)
    BY <1>2, SeenIsLeast
  <2> QED BY <1>2, <2>1 DEF TypeOK, GetNextTimer, timerVars
<1>3. ASSUME NEW p \in Pollers, ReadClock(p) PROVE TypeOK'
  BY <1>3 DEF TypeOK, ReadClock, timerVars
<1>4. ASSUME NEW p \in Pollers, CheckEmpty(p) PROVE TypeOK'
  BY <1>4 DEF TypeOK, CheckEmpty, timerVars
<1>5. ASSUME NEW p \in Pollers, ListExpiredCb(p) PROVE TypeOK'
  <2>1. PICK expired \in SUBSET m_timers : HandsOut(p, expired)
    BY <1>5, ExpiredParts
  <2>2. \A t \in Timers : now_ms[p] + m_ms[t] \in Nat /\ Trunc(now_ms[p] + m_ms[t]) \in 0..(Width - 1)
    BY TruncType DEF TypeOK
  <2>3. m_next' \in [Timers -> 0..(Width - 1)] /\ due' \in [Timers -> Int] /\ fired' \in [Timers -> Nat]
    BY <2>1, <2>2 DEF TypeOK, HandsOut
  <2>4. m_cb' \in [Timers -> BOOLEAN]
    BY <2>1 DEF HandsOut
  <2>5. m_timers' \in SUBSET Timers
    BY <2>1 DEF TypeOK, HandsOut, Rearmed
  <2> QED BY <1>5, <2>3, <2>4, <2>5 DEF TypeOK, ListExpiredCb
<1>6. ASSUME NEW t \in Timers, AddTimer(t) PROVE TypeOK'
  BY <1>6 DEF TypeOK, AddTimer, TickleIfFront, pollVars
<1>7. ASSUME NEW t \in Timers, Cancel(t) PROVE TypeOK'
  BY <1>7 DEF TypeOK, Cancel, pollVars
<1>8. ASSUME NEW t \in Timers, Refresh(t) PROVE TypeOK'
  <2>1. now + m_ms[t] \in Int /\ Trunc(now + m_ms[t]) \in 0..(Width - 1)
    BY TruncType DEF TypeOK
  <2> QED BY <1>8, <2>1 DEF TypeOK, Refresh, pollVars
<1>9. ASSUME NEW t \in Timers, NEW ms \in Delays, NEW b \in BOOLEAN, Make(t, ms, b) PROVE TypeOK'
  <2>1. ms \in Nat /\ now + ms \in Int /\ Trunc(now + ms) \in 0..(Width - 1)
    BY TruncType DEF TypeOK
  <2> QED BY <1>9, <2>1 DEF TypeOK, Make, pollVars
<1>10. ASSUME NEW t \in Timers, NEW ms \in Delays, NEW b \in BOOLEAN, Reset(t, ms, b) PROVE TypeOK'
  <2> DEFINE n == (IF b THEN now ELSE m_next[t] - m_ms[t]) + ms
  <2>1. ms \in Nat /\ n \in Int /\ Trunc(n) \in 0..(Width - 1)
    BY TruncType DEF TypeOK
  <2>2. m_next' = [m_next EXCEPT ![t] = Trunc(n)]
    BY <1>10 DEF Reset
  <2>3. (IF b THEN now ELSE due[t] - m_ms[t]) + ms \in Int
    BY <2>1 DEF TypeOK
  <2> HIDE DEF n
  <2> QED BY <1>10, <2>1, <2>2, <2>3 DEF TypeOK, Reset, TickleIfFront, pollVars
<1>11. CASE UNCHANGED vars
  BY <1>11 DEF TypeOK, vars, timerVars, pollVars
<1> QED BY <1>1, <1>2, <1>3, <1>4, <1>5, <1>6, <1>7, <1>8, <1>9, <1>10, <1>11
        DEF Next, PollStep, UserStep

(* Every critical section keeps m_cb and the set together: cancel() clears *)
(* one and erases from the other, listExpiredCb() drops the one-shot       *)
(* timers from both, and nothing else inserts a timer without callback.    *)
LEMMA SetStep ==
    ASSUME SetInv, [Next]_vars
    PROVE  SetInv'
<1> USE DEF SetInv
<1>1. TypeOK'
  BY TypeStep
<1>2. CASE UNCHANGED <<m_timers, m_cb, life>>
  BY <1>1, <1>2 DEF CallbackIffInSet, MadeHasCallback
<1>3. ASSUME NEW t \in Timers, AddTimer(t) PROVE SetInv'
  BY <1>1, <1>3 DEF AddTimer, CallbackIffInSet, MadeHasCallback, TypeOK
<1>4. ASSUME NEW t \in Timers, Cancel(t) PROVE SetInv'
  BY <1>1, <1>4 DEF Cancel, CallbackIffInSet, MadeHasCallback, TypeOK
<1>5. ASSUME NEW t \in Timers, NEW ms \in Delays, NEW b \in BOOLEAN, Make(t, ms, b) PROVE SetInv'
  BY <1>1, <1>5 DEF Make, CallbackIffInSet, MadeHasCallback, TypeOK
<1>6. ASSUME NEW p \in Pollers, ListExpiredCb(p) PROVE SetInv'
  <2>1. PICK expired \in SUBSET m_timers : HandsOut(p, expired)
    BY <1>6, ExpiredParts
  <2>2. life' = life
    BY <1>6 DEF ListExpiredCb
  <2>3. \A t \in Timers :
           /\ t \in m_timers' <=> t \in m_timers /\ t \notin expired \ Rearmed(expired)
           /\ m_cb'[t] <=> m_cb[t] /\ t \notin expired \ Rearmed(expired)
    BY <2>1 DEF HandsOut, Rearmed
  <2>4. CallbackIffInSet'
    BY <2>2, <2>3 DEF CallbackIffInSet
  <2>5. MadeHasCallback'
    BY <2>2, <2>3 DEF MadeHasCallback, CallbackIffInSet
  <2> QED BY <1>1, <2>4, <2>5
<1> QED BY <1>2, <1>3, <1>4, <1>5, <1>6 DEF Next, PollStep, UserStep, Tick, GetNextTimer, ReadClock,
           CheckEmpty, Refresh, Reset, vars, timerVars

(* The types and the agreement of m_cb with the set are inductive. *)
LEMMA SetCorrect == Spec => []SetInv
<1>1. Init => TypeOK
  <2> SUFFICES ASSUME Init PROVE TypeOK
    OBVIOUS
  <2>1. 0 \in 0..(Width - 1) /\ -1 \in -1..(Width - 1) /\ Start \in Nat
    BY TimeAssumption
  <2>2. /\ now \in Nat /\ seen \in -1..(Width - 1)
        /\ m_next \in [Timers -> 0..(Width - 1)] /\ m_ms \in [Timers -> Nat]
        /\ now_ms \in [Pollers -> Nat] /\ due \in [Timers -> Int] /\ fired \in [Timers -> Nat]
    BY <2>1 DEF Init
  <2>3. /\ m_timers \in SUBSET Timers
        /\ m_recurring \in [Timers -> BOOLEAN] /\ m_cb \in [Timers -> BOOLEAN]
        /\ life \in [Timers -> {"free", "made", "given"}]
        /\ pollPc \in [Pollers -> {"idle", "waited", "clocked", "checked"}]
    BY DEF Init
  <2>4. m_tickled \in BOOLEAN
    BY Zenon DEF Init
  <2> QED BY <2>2, <2>3, <2>4 DEF TypeOK
<1>2. Init => CallbackIffInSet /\ MadeHasCallback
  BY DEF Init, CallbackIffInSet, MadeHasCallback
<1>3. Init => SetInv
  BY <1>1, <1>2 DEF SetInv
<1> QED BY <1>3, SetStep, PTL DEF Spec

(* Type correctness of the module. *)
THEOREM TypeCorrect == Spec => []TypeOK
<1>1. SetInv => TypeOK
  BY DEF SetInv
<1> QED BY <1>1, SetCorrect, PTL

(* cancel() finds in the set the timer whose callback it found, however    *)
(* the pollers and the users interleave: its unguarded erase is defined.   *)
THEOREM CallbackCorrect == Spec => []CallbackIffInSet
<1>1. SetInv => CallbackIffInSet
  BY DEF SetInv
<1> QED BY <1>1, SetCorrect, PTL

----------------------------------------------------------------------------
(* Time within one period *)

(* The due time of a round that begins at n and lasts ms, as a key. *)
LEMMA KeyOfRound ==
    ASSUME OnePeriod, NEW n \in Int, Start <= n, n <= MaxNow, NEW ms \in Delays
    PROVE  Trunc(n + ms) = (n + ms) - Base /\ n + ms \in Int
<1>1. n + ms \in Int /\ Start <= n + ms /\ n + ms < Base + Width
  BY BaseType, TimeAssumption DEF OnePeriod
<1> QED BY <1>1, TruncIsShift

(* reset() computes the new key from the old one, not from the clock: the  *)
(* difference of a truncated and an exact due time is the origin of the    *)
(* period and vanishes in the conversion.                                  *)
LEMMA KeyOfReset ==
    ASSUME OnePeriod, NEW n \in Int, Start <= n, n <= MaxNow, NEW ms \in Delays
    PROVE  Trunc((n - Base) + ms) = (n + ms) - Base
<1> DEFINE x == (n - Base) + ms
<1>1. x \in Int /\ 0 <= x /\ x < Width
  BY BaseType, TimeAssumption DEF OnePeriod
<1> HIDE DEF x
<1>2. Width * 0 = 0
  BY TimeAssumption
<1>3. x % Width = x - Width * 0
  BY <1>1, <1>2, ModBase, TimeAssumption
<1>4. x % Width = x
  BY <1>1, <1>2, <1>3
<1> QED BY <1>4, BaseType, TimeAssumption DEF Trunc, x

(* Every critical section keeps the due times, the keys and the clock      *)
(* values of the pollers within the period and consistent.                 *)
LEMMA TimeStep ==
    ASSUME OnePeriod, TypeOK, TimeInv, [Next]_vars
    PROVE  TimeInv'
<1> USE TimeAssumption
<1>0. Delays \subseteq Nat /\ Start \in Nat /\ MaxNow \in Nat /\ Base \in Int
  BY BaseType
<1>1. CASE Tick
  BY <1>0, <1>1 DEF Tick, TimeInv, ClockInv, PollInv, DueInv, TypeOK, timerVars, pollVars
<1>2. CASE UNCHANGED <<now, m_next, m_ms, due, life, pollPc, now_ms>>
  BY <1>2 DEF TimeInv, ClockInv, PollInv, DueInv
<1>3. ASSUME NEW p \in Pollers, GetNextTimer(p) PROVE TimeInv'
  BY <1>3 DEF GetNextTimer, TimeInv, ClockInv, PollInv, DueInv, TypeOK, timerVars
<1>4. ASSUME NEW p \in Pollers, ReadClock(p) PROVE TimeInv'
  BY <1>4 DEF ReadClock, TimeInv, ClockInv, PollInv, DueInv, TypeOK, timerVars
<1>5. ASSUME NEW p \in Pollers, CheckEmpty(p) PROVE TimeInv'
  BY <1>5 DEF CheckEmpty, TimeInv, ClockInv, PollInv, DueInv, TypeOK, timerVars
<1>6. ASSUME NEW p \in Pollers, ListExpiredCb(p) PROVE TimeInv'
  <2>1. PICK expired \in SUBSET m_timers : HandsOut(p, expired)
    BY <1>6, ExpiredParts
  <2>2. /\ UNCHANGED <<now, m_ms, life>> /\ pollPc[p] = "checked"
        /\ pollPc' = [pollPc EXCEPT ![p] = "idle"] /\ now_ms' = [now_ms EXCEPT ![p] = 0]
    BY <1>6 DEF ListExpiredCb
  <2>3. ClockInv' /\ PollInv'
    BY <2>2 DEF TimeInv, ClockInv, PollInv, TypeOK
  <2>4. Start <= now_ms[p] /\ now_ms[p] <= now /\ now_ms[p] <= MaxNow /\ now_ms[p] \in Int
    BY <2>2 DEF TimeInv, ClockInv, PollInv, TypeOK
  <2>5. ASSUME NEW t \in Timers, life[t] # "free"
        PROVE /\ m_ms[t] \in Delays
              /\ Start <= due'[t] - m_ms[t] /\ due'[t] - m_ms[t] <= now
              /\ m_next'[t] = due'[t] - Base
    <3>1. CASE t \in Rearmed(expired)
      <4>1. m_ms[t] \in Delays /\ m_ms[t] \in Nat
        BY <2>5 DEF TimeInv, DueInv, TypeOK
      <4>2. due'[t] = now_ms[p] + m_ms[t] /\ m_next'[t] = Trunc(now_ms[p] + m_ms[t])
        BY <2>1, <3>1 DEF HandsOut
      <4>3. Trunc(now_ms[p] + m_ms[t]) = (now_ms[p] + m_ms[t]) - Base
        BY <2>4, <4>1, KeyOfRound
      <4> QED BY <2>4, <4>1, <4>2, <4>3
    <3>2. CASE t \notin Rearmed(expired)
      BY <2>1, <2>5, <3>2 DEF HandsOut, TimeInv, DueInv
    <3> QED BY <3>1, <3>2
  <2>6. DueInv'
    BY <2>2, <2>5 DEF DueInv
  <2> QED BY <2>3, <2>6 DEF TimeInv
(* The operations of the users give one timer a round that began at n. *)
<1>7. ASSUME NEW t \in Timers, NEW n \in Int, NEW ms \in Delays, Start <= n, n <= now,
             UNCHANGED <<now, pollPc, now_ms>>, life'[t] # "free",
             \A u \in Timers \ {t} :
                m_ms'[u] = m_ms[u] /\ due'[u] = due[u] /\ m_next'[u] = m_next[u] /\ life'[u] = life[u],
             m_ms'[t] = ms, due'[t] = n + ms, m_next'[t] = (n + ms) - Base
      PROVE TimeInv'
  <2>1. ClockInv' /\ PollInv'
    BY <1>7 DEF TimeInv, ClockInv, PollInv
  <2>2. (n + ms) - ms = n
    <3>1. ms \in Int
      BY <1>0
    <3> QED BY ONLY <3>1, n \in Int
  <2>3. DueInv'
    BY <1>7, <2>2 DEF TimeInv, DueInv
  <2> QED BY <2>1, <2>3 DEF TimeInv
<1>8. now \in Int /\ Start <= now /\ now <= MaxNow
  BY DEF TimeInv, ClockInv, TypeOK
<1>9. ASSUME NEW t \in Timers, NEW ms \in Delays, NEW b \in BOOLEAN, Make(t, ms, b) PROVE TimeInv'
  <2>1. Trunc(now + ms) = (now + ms) - Base
    BY <1>8, KeyOfRound
  <2> QED BY <1>7, <1>8, <1>9, <2>1 DEF Make, TypeOK, pollVars
<1>10. ASSUME NEW t \in Timers, Refresh(t) PROVE TimeInv'
  <2>1. m_ms[t] \in Delays
    BY <1>10 DEF Refresh, TimeInv, DueInv
  <2>2. Trunc(now + m_ms[t]) = (now + m_ms[t]) - Base
    BY <1>8, <2>1, KeyOfRound
  <2> QED BY <1>7, <1>8, <1>10, <2>1, <2>2 DEF Refresh, TypeOK, pollVars
<1>11. ASSUME NEW t \in Timers, NEW ms \in Delays, NEW b \in BOOLEAN, Reset(t, ms, b) PROVE TimeInv'
  <2> DEFINE n == IF b THEN now ELSE due[t] - m_ms[t]
  <2>1. life[t] # "free" /\ m_next[t] = due[t] - Base /\ m_ms[t] \in Nat /\ due[t] \in Int
    BY <1>11 DEF Reset, TimeInv, DueInv, TypeOK
  <2>2. n \in Int /\ Start <= n /\ n <= now
    BY <1>8, <2>1 DEF TimeInv, DueInv
  <2>3. m_next'[t] = Trunc((IF b THEN now ELSE m_next[t] - m_ms[t]) + ms)
    BY <1>11 DEF Reset, TypeOK
  <2>4. m_next'[t] = (n + ms) - Base
    <3>1. CASE b
      BY <3>1, <2>3, <1>8, KeyOfRound
    <3>2. CASE ~b
      <4>1. m_next[t] - m_ms[t] = n - Base
        BY <1>0, <2>1, <3>2
      <4>2. Trunc((n - Base) + ms) = (n + ms) - Base
        BY <1>8, <2>2, <1>0, KeyOfReset
      <4> QED BY <3>2, <2>3, <4>1, <4>2
    <3> QED BY <3>1, <3>2
  <2>5. due'[t] = n + ms /\ m_ms'[t] = ms
    BY <1>11 DEF Reset, TypeOK
  <2> HIDE DEF n
  <2> QED BY <1>7, <1>11, <2>1, <2>2, <2>4, <2>5 DEF Reset, TypeOK, pollVars
<1>12. ASSUME NEW t \in Timers, AddTimer(t) PROVE TimeInv'
  BY <1>12 DEF AddTimer, TimeInv, ClockInv, PollInv, DueInv, TypeOK, pollVars
<1>13. ASSUME NEW t \in Timers, Cancel(t) PROVE TimeInv'
  BY <1>2, <1>13 DEF Cancel, pollVars
<1>14. CASE UNCHANGED vars
  BY <1>2, <1>14 DEF vars, timerVars, pollVars
<1> QED BY <1>1, <1>3, <1>4, <1>5, <1>6, <1>9, <1>10, <1>11, <1>12, <1>13, <1>14
        DEF Next, PollStep, UserStep

(* A new first timer is announced (the end of addtimer and addTimer), and  *)
(* a timer that refresh() or a poll moves only moves back, so that the     *)
(* first one is not due earlier than the last getNextTimer saw.            *)
LEMMA TickleStep ==
    ASSUME OnePeriod, SetInv, TimeInv, FrontIsTickled, [Next]_vars
    PROVE  FrontIsTickled'
<1> USE DEF SetInv
<1>0. /\ seen \in Int /\ now \in Int /\ Base \in Int
      /\ \A t \in Timers : m_next[t] \in Int /\ due[t] \in Int /\ m_ms[t] \in Int
  BY BaseType, TimeAssumption DEF TypeOK
<1>1. CASE UNCHANGED <<m_timers, m_next, m_tickled, seen>>
  BY <1>1 DEF FrontIsTickled
<1>2. ASSUME NEW p \in Pollers, GetNextTimer(p) PROVE FrontIsTickled'
  <2>1. UNCHANGED <<m_timers, m_next>>
    BY <1>2 DEF GetNextTimer, timerVars
  <2>2. \A t \in m_timers : seen' # -1 /\ seen' <= m_next[t]
    BY <1>2, SeenIsLeast
  <2>3. seen' \in Int /\ \A t \in m_timers : m_next[t] \in Int
    BY <1>0, <1>2, SeenIsLeast, TimeAssumption DEF TypeOK
  <2> QED BY <2>1, <2>2, <2>3 DEF FrontIsTickled
(* t comes to stand at n, in the set, and the front is announced. *)
<1>3. ASSUME NEW t \in Timers, NEW n \in Int, m_timers' = m_timers \cup {t}, m_next'[t] = n,
             \A u \in Timers \ {t} : m_next'[u] = m_next[u],
             UNCHANGED seen, TickleIfFront(t, n)
      PROVE FrontIsTickled'
  <2>1. CASE m_tickled'
    BY <2>1 DEF FrontIsTickled
  <2>2. CASE ~m_tickled'
    <3>1. ~m_tickled /\ ~IsFront(t, n)
      BY <1>3, <2>2 DEF TickleIfFront
    <3>2. PICK u \in m_timers \ {t} : ~Less(n, t, m_next[u], u)
      BY <3>1 DEF IsFront
    <3>3. m_next[u] <= n
      BY <1>0, <3>2 DEF Less, TypeOK
    <3>4. \A v \in m_timers : seen # -1 /\ m_next[v] >= seen
      BY <1>0, <3>1 DEF FrontIsTickled, TypeOK
    <3>5. n >= seen /\ seen # -1
      BY <1>0, <3>2, <3>3, <3>4 DEF TypeOK
    <3> QED BY <1>0, <1>3, <3>4, <3>5 DEF FrontIsTickled, TypeOK
  <2> QED BY <2>1, <2>2
<1>4. ASSUME NEW t \in Timers, AddTimer(t) PROVE FrontIsTickled'
  BY <1>0, <1>3, <1>4 DEF AddTimer
<1>5. ASSUME NEW t \in Timers, NEW ms \in Delays, NEW b \in BOOLEAN, Reset(t, ms, b)
      PROVE FrontIsTickled'
  <2>1. TypeOK'
    BY TypeStep
  <2>2. m_timers' = m_timers \cup {t} /\ UNCHANGED seen /\ TickleIfFront(t, m_next'[t])
    BY <1>5 DEF Reset
  <2>3. \A u \in Timers \ {t} : m_next'[u] = m_next[u]
    BY <1>5 DEF Reset, TypeOK
  <2>4. m_next'[t] \in Int
    BY <2>1, TimeAssumption DEF TypeOK
  <2> QED BY <1>3, <2>2, <2>3, <2>4
(* Keys only grow. *)
<1>6. ASSUME m_timers' \subseteq m_timers, \A t \in m_timers' : m_next'[t] >= m_next[t],
             \A t \in m_timers' : m_next'[t] \in Int, UNCHANGED <<seen, m_tickled>>
      PROVE FrontIsTickled'
  BY <1>0, <1>6 DEF FrontIsTickled, TypeOK
<1>7. TimeInv' /\ TypeOK'
  BY TimeStep, TypeStep
<1>8. \A t \in m_timers : m_next[t] = due[t] - Base /\ due[t] - m_ms[t] <= now
  BY DEF TimeInv, DueInv, CallbackIffInSet, TypeOK
<1>9. ASSUME NEW t \in Timers, Refresh(t) PROVE FrontIsTickled'
  <2>1. m_timers' = m_timers /\ UNCHANGED <<seen, m_tickled, life>> /\ t \in m_timers
    BY <1>9 DEF Refresh
  <2>2. due'[t] = now + m_ms[t] /\ m_next'[t] = due'[t] - Base
    BY <1>7, <1>9, <2>1 DEF Refresh, TimeInv, DueInv, TypeOK
  <2>3. \A u \in Timers \ {t} : m_next'[u] = m_next[u]
    BY <1>9 DEF Refresh, TypeOK
  <2>4. m_next'[t] >= m_next[t] /\ m_next'[t] \in Int
    BY <1>0, <1>8, <2>1, <2>2
  <2>5. \A u \in m_timers : m_next'[u] >= m_next[u] /\ m_next'[u] \in Int
    BY <1>0, <2>3, <2>4 DEF TypeOK
  <2> QED BY <1>6, <2>1, <2>5
<1>10. ASSUME NEW t \in Timers, Cancel(t) PROVE FrontIsTickled'
  BY <1>0, <1>6, <1>10 DEF Cancel, TypeOK
<1>11. ASSUME NEW p \in Pollers, ListExpiredCb(p) PROVE FrontIsTickled'
  <2>1. PICK expired \in SUBSET m_timers :
            HandsOut(p, expired) /\ \A t \in expired : m_next[t] <= Trunc(now_ms[p])
    BY <1>11, ExpiredParts
  <2>2. UNCHANGED <<seen, m_tickled, life>> /\ pollPc[p] = "checked"
    BY <1>11 DEF ListExpiredCb
  <2>3. m_timers' \subseteq m_timers
    BY <2>1 DEF HandsOut, Rearmed
  <2>4. now_ms[p] \in Int /\ Trunc(now_ms[p]) = now_ms[p] - Base
    <3>1. now_ms[p] \in Int /\ Start <= now_ms[p] /\ now_ms[p] < Base + Width
      BY <1>0, <2>2, TimeAssumption DEF TimeInv, ClockInv, PollInv, OnePeriod, TypeOK
    <3> QED BY <3>1, TruncIsShift
  <2>5. ASSUME NEW t \in m_timers' PROVE m_next'[t] >= m_next[t] /\ m_next'[t] \in Int
    <3>1. CASE t \in Rearmed(expired)
      <4>1. t \in expired /\ t \in Timers /\ due'[t] = now_ms[p] + m_ms[t] /\ life[t] = "given"
        BY <2>1, <3>1 DEF HandsOut, Rearmed, CallbackIffInSet, TypeOK
      <4>2. m_next'[t] = due'[t] - Base
        BY <1>7, <2>2, <4>1 DEF TimeInv, DueInv
      <4>3. m_next[t] <= now_ms[p] - Base
        BY <2>1, <2>4, <4>1
      <4>4. m_ms[t] \in Nat
        BY <4>1 DEF TypeOK
      <4> QED BY <1>0, <2>4, <4>1, <4>2, <4>3, <4>4
    <3>2. CASE t \notin Rearmed(expired)
      BY <1>0, <2>1, <2>3, <3>2 DEF HandsOut, TypeOK
    <3> QED BY <3>1, <3>2
  <2> QED BY <1>6, <2>2, <2>3, <2>5
<1>12. ASSUME NEW t \in Timers, NEW ms \in Delays, NEW b \in BOOLEAN, Make(t, ms, b)
       PROVE FrontIsTickled'
  <2>1. t \notin m_timers
    BY <1>12 DEF Make, CallbackIffInSet
  <2> QED BY <1>0, <1>6, <1>12, <2>1 DEF Make, TypeOK
<1> QED BY <1>1, <1>2, <1>4, <1>5, <1>9, <1>10, <1>11, <1>12
        DEF Next, PollStep, UserStep, Tick, ReadClock, CheckEmpty, vars, timerVars

(* The invariant of the module, under OnePeriod. *)
LEMMA TimeCorrect ==
    ASSUME OnePeriod
    PROVE  Spec => [](TimeInv /\ FrontIsTickled)
<1>1. Init => TimeInv /\ FrontIsTickled
  BY TimeAssumption, OnePeriod DEF Init, TimeInv, ClockInv, PollInv, DueInv, FrontIsTickled, OnePeriod
<1>2. SetInv /\ TimeInv /\ FrontIsTickled /\ [Next]_vars => (TimeInv /\ FrontIsTickled)'
  BY OnePeriod, TimeStep, TickleStep DEF SetInv
<1> QED BY <1>1, <1>2, SetCorrect, PTL DEF Spec

(* No thread sleeps past a timer that came to the front after it looked:   *)
(* onTimerInsertedAtFront() has been called since.                         *)
THEOREM TickleCorrect ==
    ASSUME OnePeriod
    PROVE  Spec => []FrontIsTickled
BY OnePeriod, TimeCorrect, PTL

----------------------------------------------------------------------------
(* TimerManager implements AbstractTimers *)

(* A step of the manager is a step of the abstract one, or changes nothing *)
(* there: what a poll hands out is due, a one-shot timer is then over, and *)
(* a true cancel() finds an armed timer and ends it.                       *)
LEMMA StepRefines ==
    ASSUME OnePeriod, SetInv, TimeInv, [Next]_vars
    PROVE  [Abstract!Next]_(Abstract!vars)
<1> USE DEF SetInv
<1> DEFINE Phase(l, c) == IF l = "free" THEN "new" ELSE IF l = "made" THEN "made"
                          ELSE IF c THEN "armed" ELSE "over"
<1> DEFINE phase == [t \in Timers |-> Phase(life[t], m_cb[t])]
<1> DEFINE oneShot == {t \in Timers : life[t] # "free" /\ ~m_recurring[t]}
<1>1. CASE Tick
  <2>1. now' > now
    BY <1>1 DEF Tick, TypeOK
  <2>2. Abstract!Tick
    BY <1>1, <2>1 DEF Abstract!Tick, Tick, timerVars
  <2> QED BY <2>2 DEF Abstract!Next
<1>2. CASE UNCHANGED <<now, life, m_cb, m_recurring, due, fired>>
  BY <1>2 DEF Abstract!vars
<1>3. ASSUME NEW t \in Timers, NEW ms \in Delays, NEW b \in BOOLEAN, Make(t, ms, b)
      PROVE Abstract!Next
  <2>1. phase[t] = "new" /\ phase' = [phase EXCEPT ![t] = "made"]
    BY <1>3 DEF Make, TypeOK
  <2>2. due'[t] >= now /\ \A u \in Timers \ {t} : due'[u] = due[u]
    BY <1>3, TimeAssumption DEF Make, TypeOK
  <2>3. oneShot' \in {oneShot, oneShot \cup {t}}
    BY <1>3 DEF Make, TypeOK
  <2>4. UNCHANGED <<now, fired>>
    BY <1>3 DEF Make
  <2>5. Abstract!Make(t)
    BY <2>1, <2>2, <2>3, <2>4 DEF Abstract!Make
  <2> QED BY <2>5 DEF Abstract!Next
<1>4. ASSUME NEW t \in Timers, AddTimer(t) PROVE Abstract!Next
  <2>1. phase[t] = "made" /\ phase' = [phase EXCEPT ![t] = "armed"]
    BY <1>4 DEF AddTimer, TypeOK, MadeHasCallback
  <2>2. oneShot' = oneShot /\ UNCHANGED <<now, due, fired>>
    BY <1>4 DEF AddTimer, TypeOK
  <2>3. Abstract!Arm(t)
    BY <2>1, <2>2 DEF Abstract!Arm
  <2> QED BY <2>3 DEF Abstract!Next
<1>5. ASSUME NEW t \in Timers, Cancel(t) PROVE Abstract!Next
  <2>1. phase[t] = "armed" /\ phase' = [phase EXCEPT ![t] = "over"]
    BY <1>5 DEF Cancel, TypeOK
  <2>2. oneShot' = oneShot /\ UNCHANGED <<now, due, fired>>
    BY <1>5 DEF Cancel, TypeOK
  <2>3. Abstract!Cancel(t)
    BY <2>1, <2>2 DEF Abstract!Cancel
  <2> QED BY <2>3 DEF Abstract!Next
<1>6. ASSUME NEW t \in Timers, life[t] = "given", m_cb[t],
             UNCHANGED <<now, life, m_cb, m_recurring, fired>>,
             \A u \in Timers \ {t} : due'[u] = due[u]
      PROVE Abstract!Next
  <2>1. phase[t] = "armed" /\ phase' = phase /\ oneShot' = oneShot
    BY <1>6
  <2>2. Abstract!Reschedule(t)
    BY <1>6, <2>1 DEF Abstract!Reschedule
  <2> QED BY <2>2 DEF Abstract!Next
<1>7. ASSUME NEW t \in Timers, Refresh(t) PROVE Abstract!Next
  BY <1>6, <1>7 DEF Refresh, TypeOK
<1>8. ASSUME NEW t \in Timers, NEW ms \in Delays, NEW b \in BOOLEAN, Reset(t, ms, b)
      PROVE Abstract!Next
  BY <1>6, <1>8 DEF Reset, TypeOK
<1>9. ASSUME NEW p \in Pollers, ListExpiredCb(p) PROVE Abstract!Next
  <2>1. PICK S \in SUBSET m_timers :
            HandsOut(p, S) /\ \A t \in S : m_next[t] <= Trunc(now_ms[p])
    BY <1>9, ExpiredParts
  <2>2. UNCHANGED <<now, life, m_recurring>> /\ pollPc[p] = "checked"
    BY <1>9 DEF ListExpiredCb
  <2>3. S \in SUBSET Timers /\ \A t \in S : life[t] = "given" /\ m_cb[t]
    BY DEF CallbackIffInSet, TypeOK
  <2>4. ASSUME NEW t \in S PROVE phase[t] = "armed" /\ due[t] <= now
    <3>1. now_ms[p] \in Int /\ Start <= now_ms[p] /\ now_ms[p] <= now /\ now_ms[p] < Base + Width
      BY <2>2, BaseType, TimeAssumption DEF TimeInv, ClockInv, PollInv, OnePeriod, TypeOK
    <3>2. Trunc(now_ms[p]) = now_ms[p] - Base
      BY <3>1, TruncIsShift
    <3>3. m_next[t] = due[t] - Base /\ due[t] \in Int /\ now \in Int
      BY <2>3 DEF TimeInv, DueInv, TypeOK
    <3>4. due[t] <= now
      BY <2>1, <3>1, <3>2, <3>3, BaseType
    <3> QED BY <2>3, <3>4
  <2>5. fired' = [t \in Timers |-> IF t \in S THEN fired[t] + 1 ELSE fired[t]]
    BY <2>1 DEF HandsOut, TypeOK
  <2>6. \A t \in Timers : t \in S \ Rearmed(S) <=> t \in S \cap oneShot
    BY <2>3 DEF Rearmed
  <2>7. phase' = [t \in Timers |-> IF t \in S \cap oneShot THEN "over" ELSE phase[t]]
    <3>1. \A t \in Timers : m_cb'[t] <=> m_cb[t] /\ t \notin S \cap oneShot
      BY <2>1, <2>6 DEF HandsOut
    <3>2. \A t \in Timers : phase'[t] = IF t \in S \cap oneShot THEN "over" ELSE phase[t]
      BY <2>2, <2>3, <3>1
    <3> QED BY <3>2
  <2>8. \A t \in Timers : t \notin S \ oneShot => due'[t] = due[t]
    BY <2>1, <2>6 DEF HandsOut, Rearmed
  <2>9. oneShot' = oneShot
    BY <2>2
  <2> HIDE DEF phase, oneShot
  <2>10. Abstract!Fire(S)
    BY <2>2, <2>4, <2>5, <2>7, <2>8, <2>9 DEF Abstract!Fire, phase, oneShot
  <2> QED BY <2>3, <2>10 DEF Abstract!Next
<1> QED BY <1>1, <1>2, <1>3, <1>4, <1>5, <1>7, <1>8, <1>9
        DEF Next, PollStep, UserStep, GetNextTimer, ReadClock, CheckEmpty, vars, timerVars

(* TimerManager implements AbstractTimers: within one period callbacks are *)
(* handed out when they are due and not before, a one-shot timer at most   *)
(* once, and none after a cancel() that returned true.                     *)
THEOREM Refinement ==
    ASSUME OnePeriod
    PROVE  Spec => ImplementsAbstract
<1>1. Init => Abstract!Init
  BY TimeAssumption DEF Init, Abstract!Init
<1>2. SetInv /\ TimeInv /\ [Next]_vars => [Abstract!Next]_(Abstract!vars)
  BY OnePeriod, StepRefines
<1> QED BY <1>1, <1>2, OnePeriod, SetCorrect, TimeCorrect, PTL
        DEF Spec, ImplementsAbstract, Abstract!Spec

=============================================================================
