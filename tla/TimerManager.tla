---------------------------- MODULE TimerManager ----------------------------
(***************************************************************************)
(* Timer and TimerManager (timer.cpp/.h) together with the part of         *)
(* IOManager::idle() that drives them (iomanager.cpp): an idle thread asks *)
(* for the next deadline, sleeps in epoll_wait at most that long, and      *)
(* collects the callbacks of the timers that are due.  A new first timer   *)
(* wakes a sleeper through the tickle pipe.                                *)
(*                                                                         *)
(* m_timers is a std::set ordered by (m_next, address): it is modelled as  *)
(* the set of pairs <<key, timer>> that were inserted, so that a timer     *)
(* whose m_next changed while it was in the set would no longer be found.  *)
(***************************************************************************)
EXTENDS Integers, FiniteSets

CONSTANTS Timers,      \* timer objects
          Threads,     \* the scheduler's threads
          Periods,     \* intervals passed to addTimer and reset
          Kinds,       \* values of addTimer's recurring
          Start,       \* GetCurrentMS() when the manager is built
          MaxClock,    \* bound: the clock does not run past this
          MaxOps,      \* bound: calls of cancel, refresh and reset, clock changes
          MaxTimeout,  \* MAX_TIMEOUT of idle(): 3000 in the code
          IntMod,      \* 2^32: the width of the int epoll_wait takes
          Hour,        \* the threshold of detectClockRollover()
          Jumps,       \* by how much the wall clock may be set back
          Outside      \* whether other threads use the timers as well

ASSUME TimerAssumption ==
    /\ Periods \subseteq Nat /\ Kinds \subseteq BOOLEAN /\ Start \in Nat /\ MaxClock \in Nat /\ MaxOps \in Nat
    /\ MaxTimeout \in Nat \ {0} /\ Hour \in Nat /\ Jumps \subseteq Nat \ {0}
    /\ IntMod \in Nat \ {0} /\ MaxTimeout < IntMod \div 2
    /\ Outside \in BOOLEAN /\ Threads # {}

\* No interval reaches 2^31 ms (24.8 days).
ASSUME PeriodsFitInt == \A p \in Periods : p < IntMod \div 2

VARIABLES clock,     \* GetCurrentMS()
          mTimers,   \* m_timers
          next,      \* Timer::m_next
          ms,        \* Timer::m_ms
          rec,       \* Timer::m_recurring
          cb,        \* Timer::m_cb is not null
          tickled,   \* m_tickled
          prev,      \* m_previousTime
          toTickle,  \* addTimer calls between unlock and the tickle
          pipe,      \* the tickle pipe is readable
          pc,        \* where each thread is in IOManager::idle()
          now,       \* now_ms of its listExpiredCb()
          roll,      \* its result of detectClockRollover()
          batch,     \* its cbs
          target,    \* when the timeout it was told ends
          left,      \* what is left of its epoll_wait's timeout
          drains,    \* threads whose epoll_wait reported the pipe
          made,      \* timers constructed so far
          given,     \* those addTimer() has put into m_timers
          killed,    \* timers whose cancel() returned true
          fired,     \* how often each callback was handed over (0, 1, 2 = more)
          ops        \* calls made so far

timerVars  == <<mTimers, next, ms, rec, cb>>
threadVars == <<pc, now, roll, batch, target, left, drains>>
userVars   == <<made, given, killed, ops>>
vars == <<clock, timerVars, tickled, prev, toTickle, pipe, threadVars, userVars, fired>>

\* Pcs of a thread: busy running tasks; entering idle(); told its timeout;
\* in epoll_wait; and inside listExpiredCb().
InIdle  == {"enter", "told", "sleep", "empty", "peek", "extract", "hand"}
Waiting == {"told", "sleep"}
Forever == MaxTimeout + 1

TypeOK ==
    /\ clock \in Nat /\ prev \in Int
    /\ mTimers \subseteq (Int \X Timers)
    /\ next \in [Timers -> Int] /\ ms \in [Timers -> Periods \cup {0}]
    /\ rec \in [Timers -> BOOLEAN] /\ cb \in [Timers -> BOOLEAN]
    /\ tickled \in BOOLEAN /\ pipe \in BOOLEAN /\ toTickle \in Nat
    /\ pc \in [Threads -> InIdle \cup {"busy"}]
    /\ now \in [Threads -> Int] /\ roll \in [Threads -> BOOLEAN]
    /\ batch \in [Threads -> SUBSET Timers]
    /\ target \in [Threads -> Int] /\ left \in [Threads -> 0 .. Forever]
    /\ drains \subseteq Threads
    /\ made \subseteq Timers /\ given \subseteq made /\ killed \subseteq Timers
    /\ fired \in [Timers -> 0 .. 2] /\ ops \in Nat

Init ==
    /\ clock = Start /\ prev = Start
    /\ mTimers = {} /\ next = [x \in Timers |-> 0] /\ ms = [x \in Timers |-> 0]
    /\ rec = [x \in Timers |-> FALSE] /\ cb = [x \in Timers |-> FALSE]
    /\ tickled = FALSE /\ toTickle = 0 /\ pipe = FALSE
    /\ pc = [t \in Threads |-> "busy"] /\ now = [t \in Threads |-> 0]
    /\ roll = [t \in Threads |-> FALSE] /\ batch = [t \in Threads |-> {}]
    /\ target = [t \in Threads |-> 0] /\ left = [t \in Threads |-> 0]
    /\ drains = {}
    /\ made = {} /\ given = {} /\ killed = {} /\ fired = [x \in Timers |-> 0]
    /\ ops = 0

-----------------------------------------------------------------------------
(* Calls on timers; each is one critical section of m_mutex.               *)

\* A call by a task on one of the threads, or by a thread of its own.
Caller == Outside \/ \E t \in Threads : pc[t] = "busy"

Call == Caller /\ ops < MaxOps /\ ops' = ops + 1

\* m_timers.find(timer) succeeds.
Found(x) == <<next[x], x>> \in mTimers

\* addTimer(val, lock) on the set S.  The pair is m_timers.begin() if its
\* key is the least; among equal keys the address decides.  A new first
\* element is announced once until somebody asks for the next deadline
\* again; the announcement itself follows after the unlock.
Insert(x, at, S) ==
    /\ mTimers' = S \cup {<<at, x>>}
    /\ \/ /\ ~tickled /\ \A q \in S : at <= q[1]
          /\ tickled' = TRUE /\ toTickle' = toTickle + 1
       \/ /\ tickled \/ \E q \in S : q[1] <= at
          /\ UNCHANGED <<tickled, toTickle>>

\* addTimer(ms, cb, recurring) and addConditionTimer, which only wraps the
\* callback: the constructor reads the clock before the lock is taken ...
NewTimer(x, p, r) ==
    /\ Caller /\ x \notin made
    /\ made' = made \cup {x}
    /\ next' = [next EXCEPT ![x] = clock + p]
    /\ ms' = [ms EXCEPT ![x] = p]
    /\ rec' = [rec EXCEPT ![x] = r]
    /\ cb' = [cb EXCEPT ![x] = TRUE]
    /\ UNCHANGED <<clock, mTimers, tickled, prev, toTickle, pipe, threadVars, given, killed, ops, fired>>

\* ... and the insertion follows.
AddTimer(x) ==
    /\ x \in made \ given
    /\ given' = given \cup {x}
    /\ Insert(x, next[x], mTimers)
    /\ UNCHANGED <<clock, next, ms, rec, cb, prev, pipe, threadVars, made, killed, ops, fired>>

\* Timer::cancel() that returns true
Cancel(x) ==
    /\ Call /\ x \in given /\ cb[x]
    /\ cb' = [cb EXCEPT ![x] = FALSE]
    /\ mTimers' = mTimers \ {<<next[x], x>>}
    /\ killed' = killed \cup {x}
    /\ UNCHANGED <<clock, next, ms, rec, tickled, prev, toTickle, pipe, threadVars, made, given, fired>>

\* Timer::refresh() that returns true
Refresh(x) ==
    /\ Call /\ x \in given /\ cb[x] /\ Found(x)
    /\ next' = [next EXCEPT ![x] = clock + ms[x]]
    /\ mTimers' = (mTimers \ {<<next[x], x>>}) \cup {<<clock + ms[x], x>>}
    /\ UNCHANGED <<clock, ms, rec, cb, tickled, prev, toTickle, pipe, threadVars, made, given, killed, fired>>

\* Timer::reset(p, from_now) that gets past its early returns
Reset(x, p, fromNow) ==
    /\ Call /\ x \in given /\ cb[x] /\ Found(x)
    /\ p # ms[x] \/ fromNow
    /\ LET at == (IF fromNow THEN clock ELSE next[x] - ms[x]) + p
       IN /\ next' = [next EXCEPT ![x] = at]
          /\ Insert(x, at, mTimers \ {<<next[x], x>>})
    /\ ms' = [ms EXCEPT ![x] = p]
    /\ UNCHANGED <<clock, rec, cb, prev, pipe, threadVars, made, given, killed, fired>>

\* Mutant of Tickle: onTimerInsertedAtFront() is called whether or not the
\* insertion was at the front.
TickleAlways ==
    /\ toTickle' = toTickle - 1
    /\ pipe' = (pipe \/ \E t \in Threads : pc[t] \in InIdle)
    /\ UNCHANGED <<clock, timerVars, tickled, prev, threadVars, userVars, fired>>

\* onTimerInsertedAtFront() -> tickle(): writes to the pipe only if a thread
\* is idle.
Tickle ==
    /\ toTickle > 0 /\ toTickle' = toTickle - 1
    /\ pipe' = (pipe \/ \E t \in Threads : pc[t] \in InIdle)
    /\ UNCHANGED <<clock, timerVars, tickled, prev, threadVars, userVars, fired>>

\* stopping() called by a thread that does not go to sleep (Scheduler::stop)
AskOnly ==
    /\ tickled' = FALSE
    /\ UNCHANGED <<clock, timerVars, prev, toTickle, pipe, threadVars, userVars, fired>>

-----------------------------------------------------------------------------
(* IOManager::idle() on thread t.                                          *)

Goto(t, l) == pc' = [pc EXCEPT ![t] = l]

Enter(t) ==
    /\ pc[t] = "busy" /\ Goto(t, "enter")
    /\ UNCHANGED <<clock, timerVars, tickled, prev, toTickle, pipe, now, roll, batch, target, left, drains, userVars, fired>>

\* (int)n for an unsigned 64 bit n
AsInt(n) == LET m == n % IntMod IN IF m < IntMod \div 2 THEN m ELSE m - IntMod

\* The argument of epoll_wait; a negative one means to wait for ever.
EpollTimeout(n) ==
    IF AsInt(n) > MaxTimeout THEN MaxTimeout
    ELSE IF AsInt(n) < 0 THEN Forever ELSE AsInt(n)

\* Mutant of NextTimeout: an overdue timer is not told apart, and the unsigned
\* difference wraps.
NextTimeoutWraps(w) ==
    \/ mTimers = {} /\ w = MaxTimeout
    \/ \E p \in mTimers :
        /\ \A q \in mTimers : p[1] <= q[1]
        /\ w = EpollTimeout(p[1] - clock)

\* getTimerNext() and the arithmetic of idle(): w bounds the wait.
NextTimeout(w) ==
    \/ mTimers = {} /\ w = MaxTimeout
    \/ \E p \in mTimers :
        /\ \A q \in mTimers : p[1] <= q[1]
        /\ w = IF clock >= p[1] THEN 0 ELSE EpollTimeout(p[1] - clock)

\* Mutant of GetTimerNext: m_tickled is not reset.
GetTimerNextKeepsTickled(t) ==
    /\ pc[t] = "enter" /\ Goto(t, "told")
    /\ \E w \in 0 .. Forever :
        /\ NextTimeout(w)
        /\ left' = [left EXCEPT ![t] = w]
        /\ target' = [target EXCEPT ![t] = clock + w]
    /\ UNCHANGED <<clock, timerVars, tickled, prev, toTickle, pipe, now, roll, batch, drains, userVars, fired>>

GetTimerNext(t) ==
    /\ pc[t] = "enter" /\ Goto(t, "told")
    /\ tickled' = FALSE
    /\ \E w \in 0 .. Forever :
        /\ NextTimeout(w)
        /\ left' = [left EXCEPT ![t] = w]
        /\ target' = [target EXCEPT ![t] = clock + w]
    /\ UNCHANGED <<clock, timerVars, prev, toTickle, pipe, now, roll, batch, drains, userVars, fired>>

EpollWait(t) ==
    /\ pc[t] = "told" /\ Goto(t, "sleep")
    /\ UNCHANGED <<clock, timerVars, tickled, prev, toTickle, pipe, now, roll, batch, target, left, drains, userVars, fired>>

\* epoll_wait returns and next_timeout goes out of use; listExpiredCb() reads
\* the clock before it takes the lock.
Return(t) ==
    /\ pc[t] = "sleep" /\ Goto(t, "empty")
    /\ now' = [now EXCEPT ![t] = clock]
    /\ target' = [target EXCEPT ![t] = 0] /\ left' = [left EXCEPT ![t] = 0]
    /\ UNCHANGED <<clock, timerVars, tickled, prev, toTickle, roll, batch, userVars, fired>>

\* It timed out, or the edge of the pipe was delivered to this thread ...
Wake(t) ==
    /\ Return(t)
    /\ \/ left[t] = 0 /\ UNCHANGED <<pipe, drains>>
       \/ pipe /\ pipe' = FALSE /\ drains' = drains \cup {t}

\* ... or a descriptor is ready.
WakeIo(t) == Return(t) /\ UNCHANGED <<pipe, drains>>

\* The test for emptiness under the read lock, and detectClockRollover()
\* under none.
DetectClockRollover(t) ==
    /\ pc[t] = "empty"
    /\ \/ mTimers = {} /\ Goto(t, "hand") /\ UNCHANGED <<roll, prev>>
       \/ /\ mTimers # {} /\ Goto(t, "peek")
          /\ roll' = [roll EXCEPT ![t] = now[t] < prev /\ now[t] < prev - Hour]
          /\ prev' = now[t]
    /\ UNCHANGED <<clock, timerVars, tickled, toTickle, pipe, now, batch, target, left, drains, userVars, fired>>

\* The unlocked look at *m_timers.begin(). Another thread may have emptied the
\* set since the test: then it is end(), and what is read there lets the pass
\* go either way.
Peek(t) ==
    /\ pc[t] = "peek"
    /\ \/ roll[t] /\ Goto(t, "extract")
       \/ /\ ~roll[t] /\ mTimers # {}
          /\ Goto(t, IF \A p \in mTimers : p[1] > now[t] THEN "hand" ELSE "extract")
       \/ /\ ~roll[t] /\ mTimers = {}
          /\ \E l \in {"hand", "extract"} : Goto(t, l)
    /\ UNCHANGED <<clock, timerVars, tickled, prev, toTickle, pipe, now, roll, batch, target, left, drains, userVars, fired>>

\* Mutant of Due: the range goes one element too far.
DueEarly(t) == {p \in mTimers : roll[t] \/ p[1] <= now[t] + 1}

\* The pairs removed: everything after a rollover, else what is due.
Due(t) == {p \in mTimers : roll[t] \/ p[1] <= now[t]}

\* Mutant of Extract: one-shot timers keep their callback.
ExtractKeepsCb(t) ==
    /\ pc[t] = "extract" /\ Goto(t, "hand")
    /\ LET due   == {p[2] : p \in Due(t)}
           again == {x \in due : rec[x]}
       IN /\ batch' = [batch EXCEPT ![t] = due]
          /\ next' = [x \in Timers |-> IF x \in again THEN now[t] + ms[x] ELSE next[x]]
          /\ mTimers' = (mTimers \ Due(t)) \cup {<<now[t] + ms[x], x>> : x \in again}
    /\ UNCHANGED <<clock, ms, rec, cb, tickled, prev, toTickle, pipe, now, roll, target, left, drains, userVars, fired>>

\* Under the write lock: one-shot timers lose their callback, recurring ones
\* are inserted again.
Extract(t) ==
    /\ pc[t] = "extract" /\ Goto(t, "hand")
    /\ LET due   == {p[2] : p \in Due(t)}
           again == {x \in due : rec[x]}
       IN /\ batch' = [batch EXCEPT ![t] = due]
          /\ next' = [x \in Timers |-> IF x \in again THEN now[t] + ms[x] ELSE next[x]]
          /\ cb' = [x \in Timers |-> cb[x] /\ x \notin due \ again]
          /\ mTimers' = (mTimers \ Due(t)) \cup {<<now[t] + ms[x], x>> : x \in again}
    /\ UNCHANGED <<clock, ms, rec, tickled, prev, toTickle, pipe, now, roll, target, left, drains, userVars, fired>>

\* schedule(cbs), the drain of the pipe, and swapOut() back to run().
Hand(t) ==
    /\ pc[t] = "hand" /\ Goto(t, "busy")
    /\ fired' = [x \in Timers |-> IF x \in batch[t] /\ fired[x] < 2 THEN fired[x] + 1 ELSE fired[x]]
    /\ batch' = [batch EXCEPT ![t] = {}]
    /\ now' = [now EXCEPT ![t] = 0] /\ roll' = [roll EXCEPT ![t] = FALSE]
    /\ pipe' = (pipe /\ t \notin drains) /\ drains' = drains \ {t}
    /\ UNCHANGED <<clock, timerVars, tickled, prev, toTickle, target, left, userVars>>

\* A millisecond passes.  At the clock's bound only sleepers notice.
Tick ==
    /\ clock < MaxClock \/ \E t \in Threads : pc[t] = "sleep" /\ left[t] \in 1 .. MaxTimeout
    /\ clock' = IF clock < MaxClock THEN clock + 1 ELSE clock
    /\ left' = [t \in Threads |-> IF pc[t] = "sleep" /\ left[t] \in 1 .. MaxTimeout
                                  THEN left[t] - 1 ELSE left[t]]
    /\ UNCHANGED <<timerVars, tickled, prev, toTickle, pipe, pc, now, roll, batch, target, drains, userVars, fired>>

\* The wall clock is set back; epoll_wait measures elapsed time.
SetBack(d) ==
    /\ ops < MaxOps /\ ops' = ops + 1
    /\ clock >= d /\ clock' = clock - d
    /\ UNCHANGED <<timerVars, tickled, prev, toTickle, pipe, threadVars, made, given, killed, fired>>

-----------------------------------------------------------------------------
UserStep ==
    \/ \E x \in Timers, p \in Periods, r \in Kinds : NewTimer(x, p, r)
    \/ \E x \in Timers : Cancel(x) \/ Refresh(x)
    \/ \E x \in Timers, p \in Periods, n \in BOOLEAN : Reset(x, p, n)
    \/ AskOnly

IdleStep(t) ==
    \/ Enter(t) \/ GetTimerNext(t) \/ EpollWait(t) \/ Wake(t)
    \/ DetectClockRollover(t) \/ Peek(t) \/ Extract(t) \/ Hand(t)

Next ==
    \/ UserStep \/ Tickle \/ Tick
    \/ \E x \in Timers : AddTimer(x)
    \/ \E t \in Threads : IdleStep(t) \/ WakeIo(t)
    \/ \E d \in Jumps : SetBack(d)

Spec == Init /\ [][Next]_vars

\* Time passes, tickles that were announced are sent, and every thread keeps
\* running; nothing obliges a descriptor to become ready.
Fairness ==
    /\ WF_vars(Tick) /\ WF_vars(Tickle)
    /\ \A x \in Timers : WF_vars(AddTimer(x))
    /\ \A t \in Threads : WF_vars(IdleStep(t))

FairSpec == Spec /\ Fairness

-----------------------------------------------------------------------------
(* Properties.                                                             *)

\* A timer that still has its callback is found in m_timers under its
\* current m_next, once: Timer::cancel() erases the result of find()
\* unchecked, and a stale key would make that erase(end()).
EraseSafe ==
    /\ \A x \in given : cb[x] => Found(x)
    /\ \A p \in mTimers : p[2] \in given /\ cb[p[2]] /\ p[1] = next[p[2]]

\* When every thread is in epoll_wait, one of them was told to wake no later
\* than the first timer is due, unless a tickle is already on its way: the
\* m_tickled handshake loses no new first timer.
FrontCovered ==
    (\A t \in Threads : pc[t] \in Waiting) =>
        \/ pipe \/ toTickle > 0
        \/ \E t \in Threads : left[t] = 0 \/ \A p \in mTimers : target[t] <= p[1]

\* As long as the clock is not set back, nobody asks epoll_wait for more than
\* MAX_TIMEOUT: the conversion of a deadline to int never goes negative.
SleepBounded == \A t \in Threads : pc[t] \in Waiting => left[t] <= MaxTimeout

\* A one-shot timer fires at most once, and never after cancel() returned
\* true, although its callback is handed over after the lock is released.
OneShot ==
    \A x \in Timers : ~rec[x] =>
        LET n == fired[x] + Cardinality({t \in Threads : x \in batch[t]})
        IN n <= 1 /\ (x \in killed \/ cb[x] => n = 0)

\* No callback is collected before its time as long as the clock is not set
\* back, although now_ms is read before the lock is taken.
NeverEarly ==
    [][\A t \in Threads : \A x \in batch'[t] \ batch[t] : next[x] <= clock]_vars

\* A timer that becomes due within the clock's bound is collected, cancelled
\* or moved: no thread sleeps through it for ever.
DueCollected ==
    \A x \in Timers, c \in 0 .. MaxClock :
        <<c, x>> \in mTimers ~> (<<c, x>> \notin mTimers \/ \E t \in Threads : x \in batch[t])
=============================================================================
