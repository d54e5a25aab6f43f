------------------------ MODULE TimerManagerProofs ------------------------
EXTENDS TimerManager, FiniteSetTheorems, TLAPS

\* The conversion to int is exact below 2^31.
LEMMA AsIntExact ==
    ASSUME NEW n \in Nat, n < IntMod \div 2
    PROVE  AsInt(n) = n
<1>1. IntMod \in Nat /\ IntMod > 0
  BY TimerAssumption
<1>2. IntMod \div 2 \in Nat /\ IntMod \div 2 <= IntMod
  BY <1>1
<1>3. n % IntMod = n
  BY <1>1, <1>2
<1> QED
  BY <1>3 DEF AsInt

\* What EpollTimeout returns: at most MAX_TIMEOUT below 2^31, and no more
\* than the deadline is away.
LEMMA EpollTimeoutBound ==
    ASSUME NEW n \in Nat, n < IntMod \div 2
    PROVE  EpollTimeout(n) \in 0 .. MaxTimeout /\ EpollTimeout(n) <= n
<1> QED
  BY AsIntExact, TimerAssumption DEF EpollTimeout

LEMMA EpollTimeoutType ==
    ASSUME NEW n \in Int
    PROVE  EpollTimeout(n) \in 0 .. Forever
<1>1. IntMod \in Nat /\ IntMod > 0
  BY TimerAssumption
<1>2. n % IntMod \in 0 .. IntMod - 1
  BY <1>1
<1>3. AsInt(n) \in Int
  BY <1>1, <1>2 DEF AsInt
<1> QED
  BY <1>3, TimerAssumption DEF EpollTimeout, Forever

-----------------------------------------------------------------------------
\* TypeOK is inductive by itself.
LEMMA TypeInit == Init => TypeOK
<1> SUFFICES ASSUME Init PROVE TypeOK
  OBVIOUS
<1>1. Forever \in Nat
  BY TimerAssumption DEF Forever
<1>2. mTimers \subseteq (Int \X Timers) /\ Start \in Nat
  BY TimerAssumption DEF Init
<1>3. /\ rec \in [Timers -> BOOLEAN] /\ cb \in [Timers -> BOOLEAN] /\ roll \in [Threads -> BOOLEAN]
      /\ tickled \in BOOLEAN /\ pipe \in BOOLEAN
  BY Zenon DEF Init
<1>4. next \in [Timers -> Int] /\ ms \in [Timers -> Periods \cup {0}]
  BY DEF Init
<1>5. pc \in [Threads -> InIdle \cup {"busy"}] /\ now \in [Threads -> Int] /\ batch \in [Threads -> SUBSET Timers]
  BY DEF Init
<1>6. target \in [Threads -> Int] /\ left \in [Threads -> 0 .. Forever] /\ fired \in [Timers -> 0 .. 2]
  BY <1>1 DEF Init
<1> QED
  BY <1>2, <1>3, <1>4, <1>5, <1>6 DEF Init, TypeOK

LEMMA Numbers ==
    TypeOK => /\ \A x \in Timers : ms[x] \in Nat /\ next[x] \in Int
              /\ \A t \in Threads : now[t] \in Int /\ left[t] \in Nat /\ target[t] \in Int
              /\ clock \in Nat
<1> SUFFICES ASSUME TypeOK
             PROVE  /\ \A x \in Timers : ms[x] \in Nat /\ next[x] \in Int
                    /\ \A t \in Threads : now[t] \in Int /\ left[t] \in Nat /\ target[t] \in Int
                    /\ clock \in Nat
  OBVIOUS
<1>1. Periods \cup {0} \subseteq Nat /\ 0 .. Forever \subseteq Nat
  BY TimerAssumption DEF Forever
<1>2. \A x \in Timers : ms[x] \in Periods \cup {0} /\ next[x] \in Int
  BY DEF TypeOK
<1>3. \A t \in Threads : now[t] \in Int /\ left[t] \in 0 .. Forever /\ target[t] \in Int
  BY DEF TypeOK
<1> QED
  BY <1>1, <1>2, <1>3 DEF TypeOK

LEMMA InsertType ==
    ASSUME NEW x \in Timers, NEW at \in Int, NEW S \in SUBSET (Int \X Timers),
           tickled \in BOOLEAN, toTickle \in Nat, Insert(x, at, S)
    PROVE  mTimers' \subseteq (Int \X Timers) /\ tickled' \in BOOLEAN /\ toTickle' \in Nat
<1>1. <<at, x>> \in Int \X Timers
  OBVIOUS
<1>2. mTimers' = S \cup {<<at, x>>}
  BY DEF Insert
<1>3. tickled' \in BOOLEAN
  BY Zenon DEF Insert
<1>4. toTickle' \in Nat
  BY DEF Insert
<1> QED
  BY <1>1, <1>2, <1>3, <1>4

LEMMA TypeStep == TypeOK /\ [Next]_vars => TypeOK'
<1> SUFFICES ASSUME TypeOK, [Next]_vars PROVE TypeOK'
  OBVIOUS
<1> USE TimerAssumption DEF TypeOK, timerVars, threadVars, userVars
<1>1. CASE \E x \in Timers, p \in Periods, r \in Kinds : NewTimer(x, p, r)
  BY <1>1 DEF NewTimer
<1>2. CASE \E x \in Timers : Cancel(x)
  BY <1>2 DEF Cancel, Call
<1>3. CASE \E x \in Timers : Refresh(x)
  <2> PICK x \in Timers : Refresh(x)
    BY <1>3
  <2>1. next[x] \in Int /\ clock + ms[x] \in Int
    BY Numbers
  <2>2. mTimers' = (mTimers \ {<<next[x], x>>}) \cup {<<clock + ms[x], x>>}
    BY DEF Refresh
  <2>3. mTimers' \subseteq (Int \X Timers)
    BY <2>1, <2>2
  <2>4. next' \in [Timers -> Int]
    BY <2>1 DEF Refresh
  <2> QED
    BY <2>3, <2>4 DEF Refresh, Call
<1>4. CASE \E x \in Timers, p \in Periods, n \in BOOLEAN : Reset(x, p, n)
  <2> PICK x \in Timers, p \in Periods, n \in BOOLEAN : Reset(x, p, n)
    BY <1>4
  <2> DEFINE at == (IF n THEN clock ELSE next[x] - ms[x]) + p
             S  == mTimers \ {<<next[x], x>>}
  <2>0. p \in Nat
    OBVIOUS
  <2>1. at \in Int /\ S \in SUBSET (Int \X Timers)
    BY <2>0, Numbers
  <2>2. Insert(x, at, S) /\ next' = [next EXCEPT ![x] = at] /\ ms' = [ms EXCEPT ![x] = p]
    BY DEF Reset
  <2> HIDE DEF at, S
  <2>3. mTimers' \subseteq (Int \X Timers) /\ tickled' \in BOOLEAN /\ toTickle' \in Nat
    BY <2>1, <2>2, InsertType
  <2>4. next' \in [Timers -> Int] /\ ms' \in [Timers -> Periods \cup {0}]
    BY <2>1, <2>2
  <2> QED
    BY <2>3, <2>4 DEF Reset, Call
<1>5. CASE AskOnly
  BY <1>5 DEF AskOnly
<1>6. CASE Tickle
  BY <1>6 DEF Tickle
<1>7. CASE Tick
  BY <1>7 DEF Tick, Forever
<1>8. CASE \E x \in Timers : AddTimer(x)
  <2> PICK x \in Timers : AddTimer(x)
    BY <1>8
  <2>1. mTimers' \subseteq (Int \X Timers) /\ tickled' \in BOOLEAN /\ toTickle' \in Nat
    BY InsertType DEF AddTimer
  <2> QED
    BY <2>1 DEF AddTimer
<1>9. CASE \E t \in Threads : Enter(t)
  BY <1>9 DEF Enter, Goto, InIdle
<1>10. CASE \E t \in Threads : GetTimerNext(t)
  <2> PICK t \in Threads : GetTimerNext(t)
    BY <1>10
  <2> PICK w \in 0 .. Forever : left' = [left EXCEPT ![t] = w] /\ target' = [target EXCEPT ![t] = clock + w]
    BY DEF GetTimerNext
  <2>1. Forever \in Nat
    BY DEF Forever
  <2>2. left' \in [Threads -> 0 .. Forever] /\ target' \in [Threads -> Int]
    BY <2>1
  <2>3. pc' \in [Threads -> InIdle \cup {"busy"}]
    BY DEF GetTimerNext, Goto, InIdle
  <2> QED
    BY <2>2, <2>3 DEF GetTimerNext
<1>11. CASE \E t \in Threads : EpollWait(t)
  BY <1>11 DEF EpollWait, Goto, InIdle
<1>12. CASE \E t \in Threads : Wake(t)
  <2> PICK t \in Threads : Wake(t)
    BY <1>12
  <2>1. pc' \in [Threads -> InIdle \cup {"busy"}]
    BY DEF Wake, Return, Goto, InIdle
  <2>2. Forever \in Nat
    BY DEF Forever
  <2>3. target' \in [Threads -> Int] /\ left' \in [Threads -> 0 .. Forever]
    BY <2>2 DEF Wake, Return
  <2>4. pipe' \in BOOLEAN /\ drains' \subseteq Threads
    BY DEF Wake
  <2> QED
    BY <2>1, <2>3, <2>4 DEF Wake, Return
<1>13. CASE \E t \in Threads : WakeIo(t)
  BY <1>13 DEF WakeIo, Return, Goto, InIdle, Forever
<1>14. CASE \E t \in Threads : DetectClockRollover(t)
  <2> PICK t \in Threads : DetectClockRollover(t)
    BY <1>14
  <2>1. pc' \in [Threads -> InIdle \cup {"busy"}]
    BY DEF DetectClockRollover, Goto, InIdle
  <2>2. roll' \in [Threads -> BOOLEAN] /\ prev' \in Int
    <3> DEFINE b == now[t] < prev /\ now[t] < prev - Hour
    <3>1. b \in BOOLEAN
      OBVIOUS
    <3>2. roll' = roll \/ roll' = [roll EXCEPT ![t] = b]
      BY DEF DetectClockRollover
    <3>3. prev' \in Int
      BY Numbers DEF DetectClockRollover
    <3> HIDE DEF b
    <3> QED
      BY <3>1, <3>2, <3>3, Zenon
  <2> QED
    BY <2>1, <2>2 DEF DetectClockRollover
<1>15. CASE \E t \in Threads : Peek(t)
  <2> PICK t \in Threads : Peek(t)
    BY <1>15
  <2>1. pc' \in [Threads -> InIdle \cup {"busy"}]
    BY DEF Peek, Goto, InIdle
  <2> QED
    BY <2>1 DEF Peek
<1>16. CASE \E t \in Threads : Extract(t)
  <2> PICK t \in Threads : Extract(t)
    BY <1>16
  <2>1. pc' \in [Threads -> InIdle \cup {"busy"}]
    BY DEF Extract, Goto, InIdle
  <2> DEFINE due   == {p[2] : p \in Due(t)}
             again == {x \in due : rec[x]}
  <2>2. due \subseteq Timers /\ again \subseteq Timers
    BY DEF Due
  <2>3. /\ batch' = [batch EXCEPT ![t] = due]
        /\ next' = [x \in Timers |-> IF x \in again THEN now[t] + ms[x] ELSE next[x]]
        /\ cb' = [x \in Timers |-> cb[x] /\ x \notin due \ again]
        /\ mTimers' = (mTimers \ Due(t)) \cup {<<now[t] + ms[x], x>> : x \in again}
    BY DEF Extract
  <2> HIDE DEF due, again
  <2>4. \A x \in Timers : now[t] + ms[x] \in Int
    BY Numbers
  <2>5. mTimers' \subseteq (Int \X Timers)
    BY <2>2, <2>3, <2>4
  <2>6. next' \in [Timers -> Int] /\ cb' \in [Timers -> BOOLEAN] /\ batch' \in [Threads -> SUBSET Timers]
    BY <2>2, <2>3, <2>4
  <2> QED
    BY <2>1, <2>5, <2>6 DEF Extract
<1>17. CASE \E t \in Threads : Hand(t)
  BY <1>17 DEF Hand, Goto, InIdle
<1>18. CASE \E d \in Jumps : SetBack(d)
  BY <1>18 DEF SetBack
<1>19. CASE UNCHANGED vars
  BY <1>19 DEF vars
<1> QED
  BY <1>1, <1>2, <1>3, <1>4, <1>5, <1>6, <1>7, <1>8, <1>9, <1>10, <1>11, <1>12, <1>13, <1>14, <1>15, <1>16, <1>17, <1>18, <1>19 DEF Next, UserStep, IdleStep

\* Every variable of the timer manager keeps its type, whatever the threads
\* and the callers of timer.cpp do.
THEOREM TypeCorrect == Spec => []TypeOK
  BY TypeInit, TypeStep, PTL DEF Spec

-----------------------------------------------------------------------------
(* The set and the timers' keys agree.                                     *)

\* A timer that is constructed and not yet inserted has its callback.
EraseInv == EraseSafe /\ \A x \in made \ given : cb[x]

LEMMA EraseStep == TypeOK /\ EraseInv /\ [Next]_vars => EraseInv'
<1> SUFFICES ASSUME TypeOK, EraseInv, [Next]_vars PROVE EraseInv'
  OBVIOUS
<1> USE DEF EraseInv, EraseSafe, Found, timerVars, threadVars, userVars
<1>0. \A p \in mTimers : p[2] \in Timers /\ p = <<p[1], p[2]>>
  BY DEF TypeOK
<1>e. given \subseteq made /\ made \subseteq Timers
  BY DEF TypeOK
<1>1. CASE \E x \in Timers, p \in Periods, r \in Kinds : NewTimer(x, p, r)
  <2> PICK x \in Timers, p \in Periods, r \in Kinds : NewTimer(x, p, r)
    BY <1>1
  <2>1. \A y \in Timers : y # x => next'[y] = next[y] /\ cb'[y] = cb[y]
    BY DEF NewTimer, TypeOK
  <2>2. cb'[x] /\ x \notin given /\ given' = given /\ mTimers' = mTimers /\ made' = made \cup {x}
    BY <1>e DEF NewTimer, TypeOK
  <2> QED
    BY <1>0, <1>e, <2>1, <2>2
<1>2. CASE \E x \in Timers : Cancel(x)
  <2> PICK x \in Timers : Cancel(x)
    BY <1>2
  <2>1. \A y \in Timers : y # x => cb'[y] = cb[y]
    BY DEF Cancel, TypeOK
  <2>2. ~cb'[x] /\ x \in given /\ mTimers' = mTimers \ {<<next[x], x>>} /\ next' = next /\ given' = given /\ made' = made
    BY DEF Cancel, TypeOK
  <2> QED
    BY <1>0, <1>e, <2>1, <2>2
<1>3. CASE \E x \in Timers : Refresh(x)
  <2> PICK x \in Timers : Refresh(x)
    BY <1>3
  <2>1. \A y \in Timers : y # x => next'[y] = next[y]
    BY DEF Refresh, TypeOK
  <2>2. /\ next'[x] = clock + ms[x] /\ x \in given /\ cb[x]
        /\ mTimers' = (mTimers \ {<<next[x], x>>}) \cup {<<next'[x], x>>}
        /\ cb' = cb /\ given' = given /\ made' = made
    BY DEF Refresh, TypeOK
  <2> QED
    BY <1>0, <1>e, <2>1, <2>2
<1>4. CASE \E x \in Timers, p \in Periods, n \in BOOLEAN : Reset(x, p, n)
  <2> PICK x \in Timers, p \in Periods, n \in BOOLEAN : Reset(x, p, n)
    BY <1>4
  <2>1. \A y \in Timers : y # x => next'[y] = next[y]
    BY DEF Reset, TypeOK
  <2>2. /\ x \in given /\ cb[x]
        /\ mTimers' = (mTimers \ {<<next[x], x>>}) \cup {<<next'[x], x>>}
        /\ cb' = cb /\ given' = given /\ made' = made
    BY DEF Reset, Insert, TypeOK
  <2> QED
    BY <1>0, <1>e, <2>1, <2>2
<1>5. CASE AskOnly
  BY <1>5 DEF AskOnly
<1>6. CASE Tickle
  BY <1>6 DEF Tickle
<1>7. CASE Tick
  BY <1>7 DEF Tick
<1>8. CASE \E x \in Timers : AddTimer(x)
  <2> PICK x \in Timers : AddTimer(x)
    BY <1>8
  <2>1. /\ x \in made \ given /\ given' = given \cup {x}
        /\ mTimers' = mTimers \cup {<<next[x], x>>}
        /\ cb' = cb /\ next' = next /\ made' = made
    BY DEF AddTimer, Insert
  <2> QED
    BY <1>0, <1>e, <2>1
<1>9. CASE \E t \in Threads : Enter(t)
  BY <1>9 DEF Enter
<1>10. CASE \E t \in Threads : GetTimerNext(t)
  BY <1>10 DEF GetTimerNext
<1>11. CASE \E t \in Threads : EpollWait(t)
  BY <1>11 DEF EpollWait
<1>12. CASE \E t \in Threads : Wake(t)
  BY <1>12 DEF Wake, Return
<1>13. CASE \E t \in Threads : WakeIo(t)
  BY <1>13 DEF WakeIo, Return
<1>14. CASE \E t \in Threads : DetectClockRollover(t)
  BY <1>14 DEF DetectClockRollover
<1>15. CASE \E t \in Threads : Peek(t)
  BY <1>15 DEF Peek
<1>16. CASE \E t \in Threads : Extract(t)
  <2> PICK t \in Threads : Extract(t)
    BY <1>16
  <2> DEFINE due   == {p[2] : p \in Due(t)}
             again == {x \in due : rec[x]}
  <2>1. /\ next' = [x \in Timers |-> IF x \in again THEN now[t] + ms[x] ELSE next[x]]
        /\ cb' = [x \in Timers |-> cb[x] /\ x \notin due \ again]
        /\ mTimers' = (mTimers \ Due(t)) \cup {<<now[t] + ms[x], x>> : x \in again}
        /\ given' = given /\ made' = made
    BY DEF Extract
  <2>2. Due(t) \subseteq mTimers /\ due \subseteq Timers /\ due \subseteq given /\ again \subseteq due
    BY <1>0 DEF Due
  <2>3. \A p \in mTimers \ Due(t) : p[2] \notin due
    BY <1>0 DEF Due
  <2>4. \A x \in due : cb[x] /\ <<next[x], x>> \in Due(t)
    BY <1>0 DEF Due
  <2> HIDE DEF due, again
  <2>5. \A x \in Timers : /\ x \in again => next'[x] = now[t] + ms[x]
                          /\ x \notin again => next'[x] = next[x]
                          /\ cb'[x] <=> cb[x] /\ x \notin due \ again
    BY <2>1
  <2>6. ASSUME NEW x \in given, cb'[x] PROVE <<next'[x], x>> \in mTimers'
    <3>1. x \in Timers /\ cb[x] /\ x \notin due \ again
      BY <1>e, <2>1, <2>5, <2>6
    <3>2. CASE x \in again
      BY <2>1, <2>5, <3>1, <3>2
    <3>3. CASE x \notin due
      <4>1. <<next[x], x>> \in mTimers \ Due(t)
        BY <2>3, <3>1, <3>3 DEF due
      <4> QED
        BY <2>1, <2>2, <2>5, <3>1, <3>3, <4>1
    <3> QED
      BY <3>1, <3>2, <3>3
  <2>7. ASSUME NEW p \in mTimers' PROVE p[2] \in given /\ cb'[p[2]] /\ p[1] = next'[p[2]]
    <3>1. CASE p \in mTimers \ Due(t)
      BY <1>0, <2>2, <2>3, <2>5, <3>1
    <3>2. CASE p \in {<<now[t] + ms[x], x>> : x \in again}
      <4> PICK x \in again : p = <<now[t] + ms[x], x>>
        BY <3>2
      <4>1. x \in due /\ x \in Timers /\ x \in given /\ cb[x]
        BY <2>2, <2>4
      <4> QED
        BY <2>5, <4>1
    <3> QED
      BY <2>1, <3>1, <3>2
  <2>8. \A x \in made' \ given' : cb'[x]
    BY <1>e, <2>1, <2>2, <2>5
  <2> QED
    BY <2>1, <2>6, <2>7, <2>8
<1>17. CASE \E t \in Threads : Hand(t)
  BY <1>17 DEF Hand
<1>18. CASE \E d \in Jumps : SetBack(d)
  BY <1>18 DEF SetBack
<1>19. CASE UNCHANGED vars
  BY <1>19 DEF vars
<1> QED
  BY <1>1, <1>2, <1>3, <1>4, <1>5, <1>6, <1>7, <1>8, <1>9, <1>10, <1>11, <1>12, <1>13, <1>14, <1>15, <1>16, <1>17, <1>18, <1>19 DEF Next, UserStep, IdleStep

\* Timer::cancel() never erases a stale iterator: whatever calls and threads
\* do, and however the clock is set, m_timers holds exactly the inserted
\* timers that still have a callback, each under its current m_next.
THEOREM EraseSafety == Spec => []EraseSafe
<1>1. Init => EraseInv
  BY DEF Init, EraseInv, EraseSafe
<1>2. EraseInv => EraseSafe
  BY DEF EraseInv
<1> QED
  BY <1>1, <1>2, TypeInit, TypeStep, EraseStep, PTL DEF Spec

-----------------------------------------------------------------------------
(* The m_tickled handshake, for a clock that is never set back.            *)

AllWaiting == \A t \in Threads : pc[t] \in Waiting

\* Deadlines are at most an interval away.
NearDeadlines ==
    /\ \A t \in Threads : now[t] <= clock
    /\ \A x \in Timers : next[x] <= clock + ms[x]

\* An announced first timer is still on its way to some thread.
TickleSent == tickled /\ AllWaiting => pipe \/ toTickle > 0

FrontInv == NearDeadlines /\ SleepBounded /\ TickleSent /\ FrontCovered

\* What getTimerNext() tells a thread: never more than MAX_TIMEOUT, and, if
\* it is not zero, not past the first deadline.
LEMMA NextTimeoutCovers ==
    ASSUME TypeOK, EraseSafe, NearDeadlines, NEW w \in 0 .. Forever, NextTimeout(w)
    PROVE  w <= MaxTimeout /\ (w = 0 \/ \A q \in mTimers : clock + w <= q[1])
<1>1. CASE mTimers = {} /\ w = MaxTimeout
  BY <1>1, TimerAssumption
<1>2. ASSUME NEW p \in mTimers, \A q \in mTimers : p[1] <= q[1],
             w = IF clock >= p[1] THEN 0 ELSE EpollTimeout(p[1] - clock)
      PROVE  w <= MaxTimeout /\ (w = 0 \/ \A q \in mTimers : clock + w <= q[1])
  <2>1. \A q \in mTimers : q[1] \in Int /\ q[2] \in Timers
    BY DEF TypeOK
  <2>2. p[1] <= clock + ms[p[2]] /\ ms[p[2]] \in Periods \cup {0}
    BY <2>1 DEF EraseSafe, NearDeadlines, TypeOK
  <2>3. CASE clock >= p[1]
    BY <1>2, <2>3, TimerAssumption
  <2>4. CASE ~(clock >= p[1])
    <3>0. clock \in Nat /\ IntMod \div 2 \in Nat /\ IntMod \div 2 > 0 /\ Periods \subseteq Nat
      BY TimerAssumption DEF TypeOK
    <3>1. p[1] - clock \in Nat /\ p[1] - clock < IntMod \div 2
      <4>1. ms[p[2]] \in Nat /\ ms[p[2]] < IntMod \div 2
        <5>1. CASE ms[p[2]] \in Periods
          BY <3>0, <5>1, PeriodsFitInt
        <5>2. CASE ms[p[2]] = 0
          BY <3>0, <5>2
        <5> QED
          BY <2>2, <5>1, <5>2
      <4> HIDE DEF TypeOK
      <4> QED
        BY <2>1, <2>2, <2>4, <3>0, <4>1
    <3>2. w \in 0 .. MaxTimeout /\ w <= p[1] - clock
      BY <1>2, <2>4, <3>1, EpollTimeoutBound
    <3> QED
      BY <1>2, <2>1, <3>0, <3>2, TimerAssumption
  <2> QED
    BY <2>3, <2>4
<1> QED
  BY <1>1, <1>2 DEF NextTimeout

LEMMA FrontStep ==
    ASSUME Jumps = {}, TypeOK, EraseSafe, FrontInv, [Next]_vars
    PROVE  FrontInv'
<1> USE DEF FrontInv, NearDeadlines, SleepBounded, TickleSent, FrontCovered, AllWaiting, Waiting,
           timerVars, threadVars, userVars
<1>n. /\ \A x \in Timers : ms[x] \in Nat /\ next[x] \in Int
      /\ \A t \in Threads : now[t] \in Int /\ left[t] \in Nat /\ target[t] \in Int
      /\ clock \in Nat /\ toTickle \in Nat
  BY Numbers DEF TypeOK
<1>k. \A p \in mTimers : p[1] \in Int
  BY DEF TypeOK
<1>1. CASE \E x \in Timers, p \in Periods, r \in Kinds : NewTimer(x, p, r)
  <2> PICK x \in Timers, p \in Periods, r \in Kinds : NewTimer(x, p, r)
    BY <1>1
  <2>1. NearDeadlines'
    BY <1>n, TimerAssumption DEF NewTimer, TypeOK
  <2> QED
    BY <2>1 DEF NewTimer
<1>2. CASE \E x \in Timers : Cancel(x)
  BY <1>2 DEF Cancel
<1>3. CASE \E x \in Timers : Refresh(x)
  <2> PICK x \in Timers : Refresh(x)
    BY <1>3
  <2>1. mTimers' = (mTimers \ {<<next[x], x>>}) \cup {<<clock + ms[x], x>>} /\ <<next[x], x>> \in mTimers
    BY DEF Refresh, Found
  <2>2. next[x] <= clock + ms[x]
    OBVIOUS
  <2>3. NearDeadlines'
    BY <1>n DEF Refresh, TypeOK
  <2>4. ASSUME NEW t \in Threads, \A p \in mTimers : target[t] <= p[1]
        PROVE  \A p \in mTimers' : target[t] <= p[1]
    <3>1. target[t] <= next[x]
      BY <2>1, <2>4
    <3>2. target[t] <= clock + ms[x]
      BY <1>n, <2>2, <3>1
    <3> QED
      BY <2>1, <2>4, <3>2
  <2>5. UNCHANGED <<pc, pipe, toTickle, target, left, tickled>>
    BY DEF Refresh
  <2> QED
    BY <2>3, <2>4, <2>5
<1>4. CASE \E x \in Timers, p \in Periods, n \in BOOLEAN : Reset(x, p, n)
  <2> PICK x \in Timers, p \in Periods, n \in BOOLEAN : Reset(x, p, n)
    BY <1>4
  <2> DEFINE at == (IF n THEN clock ELSE next[x] - ms[x]) + p
             S  == mTimers \ {<<next[x], x>>}
  <2>p. p \in Nat
    BY TimerAssumption
  <2>a. at <= clock + p /\ at \in Int
    BY <1>n, <2>p
  <2>b. next' = [next EXCEPT ![x] = at] /\ ms' = [ms EXCEPT ![x] = p]
    BY DEF Reset
  <2>u. UNCHANGED <<pc, pipe, target, left, clock, now>>
    BY DEF Reset
  <2>m. mTimers' = S \cup {<<at, x>>} /\ S \subseteq mTimers /\ at \in Int
    BY <2>a DEF Reset, Insert
  <2>i. \/ toTickle' = toTickle + 1
        \/ tickled /\ toTickle' = toTickle /\ tickled' = tickled
        \/ ~tickled /\ ~tickled' /\ toTickle' = toTickle /\ \E q \in S : q[1] <= at
    BY DEF Reset, Insert, TypeOK
  <2> HIDE DEF at, S
  <2>1. ASSUME AllWaiting PROVE TickleSent' /\ FrontCovered'
    <3>1. CASE toTickle' = toTickle + 1
      BY <1>n, <3>1
    <3>2. CASE tickled /\ toTickle' = toTickle /\ tickled' = tickled
      BY <2>1, <2>u, <3>2
    <3>3. CASE ~tickled /\ ~tickled' /\ toTickle' = toTickle /\ \E q \in S : q[1] <= at
      <4>1. ASSUME NEW t \in Threads, \A r \in mTimers : target[t] <= r[1]
            PROVE  \A r \in mTimers' : target[t] <= r[1]
        <5>1. PICK q \in S : q[1] <= at
          BY <3>3
        <5>2. target[t] <= q[1] /\ q[1] \in Int
          BY <1>k, <2>m, <4>1
        <5>3. target[t] <= at
          BY <1>n, <2>m, <5>1, <5>2
        <5> QED
          BY <2>m, <4>1, <5>3
      <4> QED
        BY <2>1, <2>u, <3>3, <4>1
    <3> QED
      BY <2>i, <3>1, <3>2, <3>3
  <2>2. ASSUME ~AllWaiting PROVE TickleSent' /\ FrontCovered'
    BY <2>2, <2>u
  <2>3. NearDeadlines'
    BY <1>n, <2>p, <2>a, <2>b, <2>u DEF TypeOK
  <2>4. SleepBounded'
    BY <2>u
  <2> QED
    BY <2>1, <2>2, <2>3, <2>4
<1>5. CASE AskOnly
  BY <1>5 DEF AskOnly
<1>6. CASE Tickle
  <2>1. AllWaiting => pipe'
    BY <1>6, TimerAssumption DEF Tickle, InIdle
  <2> QED
    BY <1>6, <2>1 DEF Tickle
<1>7. CASE Tick
  <2>1. clock' \in Nat /\ clock <= clock'
    BY <1>7, <1>n DEF Tick
  <2>2. \A t \in Threads : left'[t] <= left[t] /\ (left[t] = 0 => left'[t] = 0) /\ left'[t] \in Int
    BY <1>7, <1>n DEF Tick
  <2>3. UNCHANGED <<mTimers, next, ms, tickled, toTickle, pipe, pc, now, target>>
    BY <1>7 DEF Tick
  <2>4. NearDeadlines'
    BY <1>n, <2>1, <2>3
  <2>5. SleepBounded'
    BY <1>n, <2>2, <2>3, TimerAssumption
  <2> QED
    BY <2>2, <2>3, <2>4, <2>5
<1>8. CASE \E x \in Timers : AddTimer(x)
  <2> PICK x \in Timers : AddTimer(x)
    BY <1>8
  <2> DEFINE at == next[x]
             S  == mTimers
  <2>u. UNCHANGED <<pc, pipe, target, left, clock, now>>
    BY DEF AddTimer
  <2>m. mTimers' = S \cup {<<at, x>>} /\ S \subseteq mTimers /\ at \in Int
    BY <1>n DEF AddTimer, Insert
  <2>i. \/ toTickle' = toTickle + 1
        \/ tickled /\ toTickle' = toTickle /\ tickled' = tickled
        \/ ~tickled /\ ~tickled' /\ toTickle' = toTickle /\ \E q \in S : q[1] <= at
    BY DEF AddTimer, Insert, TypeOK
  <2> HIDE DEF at, S
  <2>1. ASSUME AllWaiting PROVE TickleSent' /\ FrontCovered'
    <3>1. CASE toTickle' = toTickle + 1
      BY <1>n, <3>1
    <3>2. CASE tickled /\ toTickle' = toTickle /\ tickled' = tickled
      BY <2>1, <2>u, <3>2
    <3>3. CASE ~tickled /\ ~tickled' /\ toTickle' = toTickle /\ \E q \in S : q[1] <= at
      <4>1. ASSUME NEW t \in Threads, \A p \in mTimers : target[t] <= p[1]
            PROVE  \A p \in mTimers' : target[t] <= p[1]
        <5>1. PICK q \in S : q[1] <= at
          BY <3>3
        <5>2. target[t] <= q[1] /\ q[1] \in Int
          BY <1>k, <2>m, <4>1
        <5>3. target[t] <= at
          BY <1>n, <2>m, <5>1, <5>2
        <5> QED
          BY <2>m, <4>1, <5>3
      <4> QED
        BY <2>1, <2>u, <3>3, <4>1
    <3> QED
      BY <2>i, <3>1, <3>2, <3>3
  <2>2. ASSUME ~AllWaiting PROVE TickleSent' /\ FrontCovered'
    BY <2>2, <2>u
  <2>3. NearDeadlines' /\ SleepBounded'
    BY DEF AddTimer
  <2> QED
    BY <2>1, <2>2, <2>3
<1>9. CASE \E t \in Threads : Enter(t)
  <2> PICK t \in Threads : Enter(t)
    BY <1>9
  <2>1. pc'[t] \notin Waiting /\ \A u \in Threads \ {t} : pc'[u] = pc[u]
    BY DEF Enter, Goto, TypeOK
  <2>2. \A u \in Threads \ {t} : left'[u] = left[u]
    BY DEF Enter, TypeOK
  <2>3. NearDeadlines'
    BY DEF Enter
  <2> QED
    BY <2>1, <2>2, <2>3
<1>10. CASE \E t \in Threads : GetTimerNext(t)
  <2> PICK t \in Threads : GetTimerNext(t)
    BY <1>10
  <2> PICK w \in 0 .. Forever : NextTimeout(w) /\ left' = [left EXCEPT ![t] = w] /\ target' = [target EXCEPT ![t] = clock + w]
    BY DEF GetTimerNext
  <2>1. w <= MaxTimeout /\ (w = 0 \/ \A q \in mTimers : clock + w <= q[1])
    BY NextTimeoutCovers
  <2>2. left'[t] = w /\ target'[t] = clock + w /\ \A u \in Threads \ {t} : left'[u] = left[u] /\ pc'[u] = pc[u]
    BY DEF GetTimerNext, Goto, TypeOK
  <2>3. ~tickled' /\ mTimers' = mTimers
    BY DEF GetTimerNext
  <2>4. NearDeadlines'
    BY DEF GetTimerNext
  <2> QED
    BY <2>1, <2>2, <2>3, <2>4
<1>11. CASE \E t \in Threads : EpollWait(t)
  <2> PICK t \in Threads : EpollWait(t)
    BY <1>11
  <2>1. \A u \in Threads : pc'[u] \in Waiting <=> pc[u] \in Waiting
    BY DEF EpollWait, Goto, TypeOK
  <2>2. UNCHANGED <<clock, mTimers, next, ms, tickled, toTickle, pipe, now, target, left>>
    BY DEF EpollWait
  <2> QED
    BY <2>1, <2>2
<1>12. CASE \E t \in Threads : Wake(t)
  <2> PICK t \in Threads : Wake(t)
    BY <1>12
  <2>1. pc'[t] \notin Waiting /\ \A u \in Threads \ {t} : pc'[u] = pc[u]
    BY DEF Wake, Return, Goto, TypeOK
  <2>2. \A u \in Threads \ {t} : left'[u] = left[u]
    BY DEF Wake, Return, TypeOK
  <2>3. NearDeadlines'
    BY <1>n DEF Wake, Return, TypeOK
  <2> QED
    BY <2>1, <2>2, <2>3
<1>13. CASE \E t \in Threads : WakeIo(t)
  <2> PICK t \in Threads : WakeIo(t)
    BY <1>13
  <2>1. pc'[t] \notin Waiting /\ \A u \in Threads \ {t} : pc'[u] = pc[u]
    BY DEF WakeIo, Return, Goto, TypeOK
  <2>2. \A u \in Threads \ {t} : left'[u] = left[u]
    BY DEF WakeIo, Return, TypeOK
  <2>3. NearDeadlines'
    BY <1>n DEF WakeIo, Return, TypeOK
  <2> QED
    BY <2>1, <2>2, <2>3
<1>14. CASE \E t \in Threads : DetectClockRollover(t)
  <2> PICK t \in Threads : DetectClockRollover(t)
    BY <1>14
  <2>1. pc'[t] \notin Waiting /\ \A u \in Threads \ {t} : pc'[u] = pc[u]
    BY DEF DetectClockRollover, Goto, TypeOK
  <2>2. \A u \in Threads \ {t} : left'[u] = left[u]
    BY DEF DetectClockRollover, TypeOK
  <2>3. NearDeadlines'
    BY DEF DetectClockRollover
  <2> QED
    BY <2>1, <2>2, <2>3
<1>15. CASE \E t \in Threads : Peek(t)
  <2> PICK t \in Threads : Peek(t)
    BY <1>15
  <2>1. pc'[t] \notin Waiting /\ \A u \in Threads \ {t} : pc'[u] = pc[u]
    BY DEF Peek, Goto, TypeOK
  <2>2. \A u \in Threads \ {t} : left'[u] = left[u]
    BY DEF Peek, TypeOK
  <2>3. NearDeadlines'
    BY DEF Peek
  <2> QED
    BY <2>1, <2>2, <2>3
<1>16. CASE \E t \in Threads : Extract(t)
  <2> PICK t \in Threads : Extract(t)
    BY <1>16
  <2>1. pc'[t] \notin Waiting /\ \A u \in Threads \ {t} : pc'[u] = pc[u]
    BY DEF Extract, Goto, TypeOK
  <2>2. \A u \in Threads \ {t} : left'[u] = left[u]
    BY DEF Extract, TypeOK
  <2>3. NearDeadlines'
    <3>1. \A x \in Timers : next'[x] = next[x] \/ next'[x] = now[t] + ms[x]
      BY DEF Extract
    <3>2. UNCHANGED <<clock, now, ms>>
      BY DEF Extract
    <3> QED
      BY <1>n, <3>1, <3>2
  <2> QED
    BY <2>1, <2>2, <2>3
<1>17. CASE \E t \in Threads : Hand(t)
  <2> PICK t \in Threads : Hand(t)
    BY <1>17
  <2>1. pc'[t] \notin Waiting /\ \A u \in Threads \ {t} : pc'[u] = pc[u]
    BY DEF Hand, Goto, TypeOK
  <2>2. \A u \in Threads \ {t} : left'[u] = left[u]
    BY DEF Hand, TypeOK
  <2>3. NearDeadlines'
    BY <1>n DEF Hand, TypeOK
  <2> QED
    BY <2>1, <2>2, <2>3
<1>18. CASE \E d \in Jumps : SetBack(d)
  BY <1>18
<1>19. CASE UNCHANGED vars
  BY <1>19 DEF vars
<1> QED
  BY <1>1, <1>2, <1>3, <1>4, <1>5, <1>6, <1>7, <1>8, <1>9, <1>10, <1>11, <1>12, <1>13, <1>14, <1>15, <1>16, <1>17, <1>18, <1>19 DEF Next, UserStep, IdleStep

LEMMA FrontInit == Init => FrontInv
<1> SUFFICES ASSUME Init PROVE FrontInv
  OBVIOUS
<1>1. ~AllWaiting
  BY TimerAssumption DEF Init, AllWaiting, Waiting
<1> QED
  BY <1>1, TimerAssumption
     DEF Init, FrontInv, NearDeadlines, SleepBounded, TickleSent, FrontCovered, AllWaiting, Waiting

LEMMA FrontInvariant == (Jumps = {}) => (Spec => []FrontInv)
<1> SUFFICES ASSUME Jumps = {} PROVE Spec => []FrontInv
  OBVIOUS
<1>1. TypeOK /\ EraseSafe /\ FrontInv /\ [Next]_vars => FrontInv'
  BY FrontStep
<1> QED
  BY <1>1, FrontInit, TypeCorrect, EraseSafety, PTL DEF Spec

\* The m_tickled handshake of addTimer() and getTimerNext() loses no new first
\* timer: with the clock never set back, whenever all threads are in
\* epoll_wait, a tickle is on its way or one of them was told to wake by the
\* first deadline.  For any number of threads, timers and intervals.
THEOREM HandshakeSound == (Jumps = {}) => (Spec => []FrontCovered)
<1>1. FrontInv => FrontCovered
  BY DEF FrontInv
<1> QED
  BY <1>1, FrontInvariant, PTL

\* With the clock never set back and every interval below 2^31 ms, the int
\* that idle() passes to epoll_wait is never negative nor above MAX_TIMEOUT.
THEOREM TimeoutFitsInt == (Jumps = {}) => (Spec => []SleepBounded)
<1>1. FrontInv => SleepBounded
  BY DEF FrontInv
<1> QED
  BY <1>1, FrontInvariant, PTL

-----------------------------------------------------------------------------
(* What is handed over, and how often.                                     *)

\* Every timer is in at most one of the lists that the threads carry out of
\* the lock.  Stated of the one-shot timers: a recurring one is inserted again
\* before it is handed over, so that two threads may carry it.
Carried(x) == \E t \in Threads : x \in batch[t]

Shot(x) ==
    /\ fired[x] = 0 \/ (fired[x] = 1 /\ ~Carried(x))
    /\ \A t, u \in Threads : x \in batch[t] /\ x \in batch[u] => t = u
    /\ x \in killed \/ cb[x] => fired[x] = 0 /\ ~Carried(x)

\* Lists are only carried at the end of listExpiredCb(), hold inserted timers,
\* and cancel() only returns true for a timer that gives up its callback.
ShotInv ==
    /\ \A t \in Threads : batch[t] # {} => pc[t] = "hand"
    /\ \A x \in Timers : x \notin given => fired[x] = 0 /\ ~Carried(x) /\ x \notin killed
    /\ \A x \in killed : ~cb[x]
    /\ \A x \in Timers : ~rec[x] => Shot(x)

LEMMA ShotInit == Init => ShotInv
  BY DEF Init, ShotInv, Shot, Carried

\* A step that leaves the lists, the counts and the callbacks alone.
LEMMA ShotFrame ==
    ASSUME TypeOK, ShotInv, TypeOK',
           UNCHANGED <<batch, fired, killed>>, given \subseteq given',
           \A x \in Timers : cb'[x] => cb[x] \/ x \notin given,
           \A x \in Timers : x \in given => rec'[x] = rec[x],
           \A u \in Threads : pc[u] = "hand" => pc'[u] = "hand"
    PROVE  ShotInv'
<1>1. \A x \in Timers : Carried(x)' <=> Carried(x)
  BY DEF Carried
<1>2. \A u \in Threads : batch'[u] # {} => pc'[u] = "hand"
  BY DEF ShotInv
<1>3. \A x \in Timers : x \notin given' => fired'[x] = 0 /\ ~Carried(x)' /\ x \notin killed'
  BY <1>1 DEF ShotInv
<1>4. \A x \in killed' : ~cb'[x]
  BY DEF ShotInv, TypeOK
<1>5. ASSUME NEW x \in Timers, ~rec'[x] PROVE Shot(x)'
  <2>1. CASE x \in given
    BY <1>1, <1>5, <2>1 DEF ShotInv, Shot
  <2>2. CASE x \notin given
    BY <1>1, <2>2 DEF ShotInv, Shot, Carried
  <2> QED
    BY <2>1, <2>2
<1> QED
  BY <1>2, <1>3, <1>4, <1>5 DEF ShotInv

LEMMA ShotStep ==
    ASSUME TypeOK, EraseInv, ShotInv, [Next]_vars
    PROVE  ShotInv'
<1> USE DEF timerVars, threadVars, userVars
<1>t. TypeOK'
  BY TypeStep
<1>g. given \subseteq made /\ made \subseteq Timers
  BY DEF TypeOK
<1>1. CASE \E x \in Timers, p \in Periods, r \in Kinds : NewTimer(x, p, r)
  <2> PICK x \in Timers, p \in Periods, r \in Kinds : NewTimer(x, p, r)
    BY <1>1
  <2>1. \A y \in Timers : y # x => rec'[y] = rec[y] /\ cb'[y] = cb[y]
    BY DEF NewTimer, TypeOK
  <2>2. x \notin given /\ UNCHANGED <<batch, fired, killed, given, pc>>
    BY <1>g DEF NewTimer
  <2> QED
    BY <1>t, <2>1, <2>2, ShotFrame
<1>2. CASE \E x \in Timers : Cancel(x)
  <2> PICK x \in Timers : Cancel(x)
    BY <1>2
  <2>1. \A y \in Timers : y # x => cb'[y] = cb[y]
    BY DEF Cancel, TypeOK
  <2>2. /\ cb[x] /\ ~cb'[x] /\ x \in given /\ killed' = killed \cup {x}
        /\ UNCHANGED <<batch, fired, given, pc, rec>>
    BY DEF Cancel, TypeOK
  <2>3. \A y \in Timers : Carried(y)' <=> Carried(y)
    BY <2>2 DEF Carried
  <2>4. \A y \in Timers : ~rec'[y] => Shot(y)'
    BY <2>1, <2>2, <2>3 DEF ShotInv, Shot
  <2>5. \A y \in Timers : y \notin given' => fired'[y] = 0 /\ ~Carried(y)' /\ y \notin killed'
    BY <2>2, <2>3 DEF ShotInv
  <2>6. \A y \in killed' : ~cb'[y]
    BY <2>1, <2>2 DEF ShotInv, TypeOK
  <2>7. \A u \in Threads : batch'[u] # {} => pc'[u] = "hand"
    BY <2>2 DEF ShotInv
  <2> QED
    BY <2>4, <2>5, <2>6, <2>7 DEF ShotInv
<1>3. CASE \E x \in Timers : Refresh(x)
  BY <1>3, <1>t, ShotFrame DEF Refresh
<1>4. CASE \E x \in Timers, p \in Periods, n \in BOOLEAN : Reset(x, p, n)
  <2>1. UNCHANGED <<batch, fired, killed, given, cb, rec, pc>>
    BY <1>4 DEF Reset
  <2> QED
    BY <1>t, <2>1, ShotFrame
<1>5. CASE AskOnly
  BY <1>5, <1>t, ShotFrame DEF AskOnly
<1>6. CASE Tickle
  BY <1>6, <1>t, ShotFrame DEF Tickle
<1>7. CASE Tick
  BY <1>7, <1>t, ShotFrame DEF Tick
<1>8. CASE \E x \in Timers : AddTimer(x)
  <2>1. UNCHANGED <<batch, fired, killed, cb, rec, pc>> /\ given \subseteq given'
    BY <1>8 DEF AddTimer
  <2> QED
    BY <1>t, <2>1, ShotFrame
<1>9. CASE \E t \in Threads : Enter(t)
  <2> PICK t \in Threads : Enter(t)
    BY <1>9
  <2>1. \A u \in Threads : pc[u] = "hand" => pc'[u] = "hand"
    BY DEF Enter, Goto, TypeOK
  <2> QED
    BY <1>t, <2>1, ShotFrame DEF Enter
<1>10. CASE \E t \in Threads : GetTimerNext(t)
  <2> PICK t \in Threads : GetTimerNext(t)
    BY <1>10
  <2>1. \A u \in Threads : pc[u] = "hand" => pc'[u] = "hand"
    BY DEF GetTimerNext, Goto, TypeOK
  <2> QED
    BY <1>t, <2>1, ShotFrame DEF GetTimerNext
<1>11. CASE \E t \in Threads : EpollWait(t)
  <2> PICK t \in Threads : EpollWait(t)
    BY <1>11
  <2>1. \A u \in Threads : pc[u] = "hand" => pc'[u] = "hand"
    BY DEF EpollWait, Goto, TypeOK
  <2> QED
    BY <1>t, <2>1, ShotFrame DEF EpollWait
<1>12. CASE \E t \in Threads : Wake(t) \/ WakeIo(t)
  <2> PICK t \in Threads : Return(t)
    BY <1>12 DEF Wake, WakeIo
  <2>1. \A u \in Threads : pc[u] = "hand" => pc'[u] = "hand"
    BY DEF Return, Goto, TypeOK
  <2> QED
    BY <1>t, <2>1, ShotFrame DEF Return
<1>13. CASE \E t \in Threads : DetectClockRollover(t)
  <2> PICK t \in Threads : DetectClockRollover(t)
    BY <1>13
  <2>1. \A u \in Threads : pc[u] = "hand" => pc'[u] = "hand"
    BY DEF DetectClockRollover, Goto, TypeOK
  <2> QED
    BY <1>t, <2>1, ShotFrame DEF DetectClockRollover
<1>14. CASE \E t \in Threads : Peek(t)
  <2> PICK t \in Threads : Peek(t)
    BY <1>14
  <2>1. \A u \in Threads : pc[u] = "hand" => pc'[u] = "hand"
    BY DEF Peek, Goto, TypeOK
  <2> QED
    BY <1>t, <2>1, ShotFrame DEF Peek
<1>15. CASE \E t \in Threads : Extract(t)
  <2> PICK t \in Threads : Extract(t)
    BY <1>15
  <2> DEFINE due   == {p[2] : p \in Due(t)}
             again == {x \in due : rec[x]}
  <2>1. /\ pc[t] = "extract" /\ pc'[t] = "hand"
        /\ \A u \in Threads \ {t} : pc'[u] = pc[u] /\ batch'[u] = batch[u]
        /\ batch'[t] = due /\ cb' = [x \in Timers |-> cb[x] /\ x \notin due \ again]
        /\ UNCHANGED <<rec, fired, killed, given>>
    BY DEF Extract, Goto, TypeOK
  <2>2. due \subseteq Timers /\ \A x \in due : cb[x] /\ x \in given
    BY DEF Due, EraseInv, EraseSafe, TypeOK
  <2>3. batch[t] = {}
    BY <2>1 DEF ShotInv
  <2> HIDE DEF due
  <2>4. \A x \in Timers : (cb'[x] => cb[x]) /\ (x \in due /\ ~rec[x] => ~cb'[x])
    BY <2>1
  <2>5. \A x \in Timers : x \notin due => (Carried(x)' <=> Carried(x))
    BY <2>1, <2>3 DEF Carried
  <2>6. ASSUME NEW x \in Timers, ~rec'[x] PROVE Shot(x)'
    <3>1. ~rec[x] /\ Shot(x)
      BY <2>1, <2>6 DEF ShotInv
    <3>2. CASE x \in due
      <4>1. fired[x] = 0 /\ ~Carried(x) /\ x \notin killed
        BY <2>2, <3>1, <3>2 DEF Shot, ShotInv
      <4>2. ~cb'[x] /\ fired'[x] = 0 /\ x \notin killed'
        BY <2>1, <2>4, <3>1, <3>2, <4>1
      <4>3. \A u, v \in Threads : x \in batch'[u] /\ x \in batch'[v] => u = v
        BY <2>1, <4>1 DEF Carried
      <4> QED
        BY <4>2, <4>3 DEF Shot
    <3>3. CASE x \notin due
      <4>1. \A u, v \in Threads : x \in batch'[u] /\ x \in batch'[v] => u = v
        BY <2>1, <3>1, <3>3 DEF Shot
      <4> QED
        BY <2>1, <2>4, <2>5, <3>1, <3>3, <4>1 DEF Shot
    <3> QED
      BY <3>2, <3>3
  <2>7. \A u \in Threads : batch'[u] # {} => pc'[u] = "hand"
    BY <2>1 DEF ShotInv
  <2>8. \A x \in Timers : x \notin given' => fired'[x] = 0 /\ ~Carried(x)' /\ x \notin killed'
    BY <2>1, <2>2, <2>5 DEF ShotInv
  <2>9. \A x \in killed' : ~cb'[x]
    BY <2>1, <2>4 DEF ShotInv, TypeOK
  <2> QED
    BY <2>6, <2>7, <2>8, <2>9 DEF ShotInv
<1>16. CASE \E t \in Threads : Hand(t)
  <2> PICK t \in Threads : Hand(t)
    BY <1>16
  <2>1. /\ batch'[t] = {} /\ \A u \in Threads \ {t} : pc'[u] = pc[u] /\ batch'[u] = batch[u]
        /\ UNCHANGED <<rec, killed, given, cb>>
    BY DEF Hand, Goto, TypeOK
  <2>2. \A x \in Timers : /\ x \in batch[t] /\ fired[x] = 0 => fired'[x] = 1
                          /\ x \notin batch[t] => fired'[x] = fired[x]
    BY DEF Hand, TypeOK
  <2>3. \A x \in Timers : Carried(x)' => Carried(x)
    BY <2>1 DEF Carried
  <2>4. ASSUME NEW x \in Timers, ~rec'[x] PROVE Shot(x)'
    <3>1. ~rec[x] /\ Shot(x)
      BY <2>1, <2>4 DEF ShotInv
    <3>2. CASE x \in batch[t]
      <4>1. Carried(x) /\ fired[x] = 0 /\ x \notin killed /\ ~cb[x]
        BY <3>1, <3>2 DEF Shot, Carried
      <4>2. \A u \in Threads : x \notin batch'[u]
        BY <2>1, <3>1, <3>2 DEF Shot
      <4> QED
        BY <2>1, <2>2, <3>2, <4>1, <4>2 DEF Shot, Carried
    <3>3. CASE x \notin batch[t]
      <4>1. \A u, v \in Threads : x \in batch'[u] /\ x \in batch'[v] => u = v
        BY <2>1, <3>1 DEF Shot
      <4> QED
        BY <2>1, <2>2, <2>3, <3>1, <3>3, <4>1 DEF Shot
    <3> QED
      BY <3>2, <3>3
  <2>5. \A u \in Threads : batch'[u] # {} => pc'[u] = "hand"
    BY <2>1 DEF ShotInv
  <2>6. \A x \in Timers : x \notin given' => fired'[x] = 0 /\ ~Carried(x)' /\ x \notin killed'
    BY <2>1, <2>2, <2>3 DEF ShotInv, Carried
  <2>7. \A x \in killed' : ~cb'[x]
    BY <2>1 DEF ShotInv
  <2> QED
    BY <2>4, <2>5, <2>6, <2>7 DEF ShotInv
<1>17. CASE \E d \in Jumps : SetBack(d)
  <2>1. UNCHANGED <<batch, fired, killed, given, cb, rec, pc>>
    BY <1>17 DEF SetBack
  <2> QED
    BY <1>t, <2>1, ShotFrame
<1>18. CASE UNCHANGED vars
  BY <1>18, <1>t, ShotFrame DEF vars
<1> QED
  BY <1>1, <1>2, <1>3, <1>4, <1>5, <1>6, <1>7, <1>8, <1>9, <1>10, <1>11, <1>12, <1>13, <1>14, <1>15,
     <1>16, <1>17, <1>18 DEF Next, UserStep, IdleStep

LEMMA ShotOnce == TypeOK /\ ShotInv => OneShot
<1> SUFFICES ASSUME TypeOK, ShotInv, NEW x \in Timers, ~rec[x]
             PROVE  LET n == fired[x] + Cardinality({t \in Threads : x \in batch[t]})
                    IN n <= 1 /\ (x \in killed \/ cb[x] => n = 0)
  BY DEF OneShot
<1> DEFINE C == {t \in Threads : x \in batch[t]}
<1>1. Shot(x)
  BY DEF ShotInv
<1>2. CASE ~Carried(x)
  <2>1. C = {}
    BY <1>2 DEF Carried
  <2>2. Cardinality(C) = 0
    BY <2>1, FS_EmptySet
  <2> QED
    BY <1>1, <2>2 DEF Shot
<1>3. CASE Carried(x)
  <2> PICK t \in Threads : x \in batch[t]
    BY <1>3 DEF Carried
  <2>1. C = {t}
    BY <1>1 DEF Shot
  <2>2. Cardinality(C) = 1
    BY <2>1, FS_Singleton
  <2> QED
    BY <1>1, <1>3, <2>2 DEF Shot
<1> QED
  BY <1>2, <1>3

\* A one-shot timer is handed over at most once, and never after its cancel()
\* returned true, although listExpiredCb() gives the callbacks out after it
\* has released m_mutex: for any threads, timers, calls and clock changes.
THEOREM FiresOnce == Spec => []OneShot
<1>1. Init => EraseInv
  BY DEF Init, EraseInv, EraseSafe
<1>2. TypeOK /\ EraseInv /\ ShotInv /\ [Next]_vars => ShotInv'
  BY ShotStep
<1> QED
  BY <1>1, <1>2, TypeInit, TypeStep, EraseStep, ShotInit, ShotOnce, PTL DEF Spec

-----------------------------------------------------------------------------
(* No callback before its time.                                            *)

\* No thread is held up for more than detectClockRollover()'s hour between
\* reading the clock and comparing it with m_previousTime: what another
\* thread has stored there meanwhile would look like a clock set back.
Prompt == \A t \in Threads : pc[t] = "empty" => clock <= now[t] + Hour

\* No rollover is detected.
NoRoll == prev <= clock /\ \A t \in Threads : ~roll[t]

LEMMA NoRollStep ==
    ASSUME Jumps = {}, TypeOK, NearDeadlines, Prompt, NoRoll, [Next]_vars
    PROVE  NoRoll'
<1> USE DEF NoRoll, timerVars, threadVars, userVars
<1>n. clock \in Nat /\ prev \in Int /\ Hour \in Nat /\ \A t \in Threads : now[t] \in Int /\ now[t] <= clock
  BY Numbers, TimerAssumption DEF TypeOK, NearDeadlines
<1>1. CASE UNCHANGED <<clock, prev, roll>>
  BY <1>1
<1>2. CASE Tick
  BY <1>2, <1>n DEF Tick
<1>3. CASE \E t \in Threads : DetectClockRollover(t)
  <2> PICK t \in Threads : DetectClockRollover(t)
    BY <1>3
  <2>1. pc[t] = "empty" /\ clock' = clock
    BY DEF DetectClockRollover
  <2>2. ~(now[t] < prev /\ now[t] < prev - Hour)
    BY <1>n, <2>1 DEF Prompt
  <2>3. CASE UNCHANGED <<roll, prev>>
    BY <2>1, <2>3
  <2>4. CASE roll' = [roll EXCEPT ![t] = now[t] < prev /\ now[t] < prev - Hour] /\ prev' = now[t]
    <3>1. ~roll'[t] /\ \A u \in Threads \ {t} : roll'[u] = roll[u]
      BY <2>2, <2>4 DEF TypeOK
    <3> QED
      BY <1>n, <2>1, <2>4, <3>1
  <2> QED
    BY <2>3, <2>4 DEF DetectClockRollover
<1>4. CASE \E t \in Threads : Hand(t)
  <2> PICK t \in Threads : Hand(t)
    BY <1>4
  <2>1. ~roll'[t] /\ \A u \in Threads \ {t} : roll'[u] = roll[u]
    BY DEF Hand, TypeOK
  <2> QED
    BY <2>1 DEF Hand
<1>5. [Next]_vars => \/ UNCHANGED <<clock, prev, roll>> \/ Tick
                     \/ \E t \in Threads : DetectClockRollover(t) \/ Hand(t)
  BY DEF Next, UserStep, IdleStep, vars, NewTimer, Cancel, Refresh, Reset, AskOnly, Tickle, AddTimer,
         Enter, GetTimerNext, EpollWait, Wake, WakeIo, Return, Peek, Extract
<1> QED
  BY <1>1, <1>2, <1>3, <1>4, <1>5

\* Only the locked part of listExpiredCb() collects, and it takes what is due.
LEMMA CollectsDue ==
    ASSUME TypeOK, EraseSafe, NearDeadlines, NoRoll, [Next]_vars,
           NEW t \in Threads, NEW x \in batch'[t] \ batch[t]
    PROVE  next[x] <= clock
<1> USE DEF timerVars, threadVars, userVars
<1>1. PICK u \in Threads : Extract(u) \/ Hand(u)
  BY DEF Next, UserStep, IdleStep, vars, NewTimer, Cancel, Refresh, Reset, AskOnly, Tickle, AddTimer, Tick,
         Enter, GetTimerNext, EpollWait, Wake, WakeIo, Return, Peek, DetectClockRollover, SetBack
<1>2. \A v \in Threads \ {u} : batch'[v] = batch[v]
  BY <1>1 DEF Extract, Hand, TypeOK
<1>3. t = u
  BY <1>2
<1>4. ~Hand(u)
  BY <1>3 DEF Hand, TypeOK
<1>5. Extract(t)
  BY <1>1, <1>3, <1>4
<1>6. batch'[t] = {p[2] : p \in Due(t)}
  BY <1>5 DEF Extract, TypeOK
<1>7. PICK p \in Due(t) : x = p[2]
  BY <1>6
<1>8. p \in mTimers /\ p[1] <= now[t]
  BY DEF Due, NoRoll
<1>9. next[x] = p[1] /\ x \in Timers
  BY <1>7, <1>8 DEF EraseSafe, TypeOK
<1> QED
  BY <1>8, <1>9, Numbers DEF NearDeadlines

\* With the clock never set back and no thread held up for an hour between
\* the clock and detectClockRollover(), no callback is collected before its
\* time, whichever thread read now_ms first and whoever refreshes or resets
\* the timer before the lock is taken.
THEOREM CollectedInTime == (Jumps = {}) => (Spec /\ []Prompt => NeverEarly)
<1> SUFFICES ASSUME Jumps = {} PROVE Spec /\ []Prompt => NeverEarly
  OBVIOUS
<1>1. Init => NoRoll
  BY TimerAssumption DEF Init, NoRoll
<1>2. TypeOK /\ FrontInv /\ Prompt /\ NoRoll /\ [Next]_vars => NoRoll'
  BY NoRollStep DEF FrontInv
<1>3. TypeOK /\ EraseSafe /\ FrontInv /\ NoRoll /\ [Next]_vars
      => [\A t \in Threads : \A x \in batch'[t] \ batch[t] : next[x] <= clock]_vars
  BY CollectsDue DEF FrontInv
<1> QED
  BY <1>1, <1>2, <1>3, FrontInvariant, TypeCorrect, EraseSafety, PTL DEF Spec, NeverEarly

=============================================================================
