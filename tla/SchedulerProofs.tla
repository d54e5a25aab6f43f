-------------------------- MODULE SchedulerProofs --------------------------
(***************************************************************************)
(* Proofs about Scheduler, for any number of threads, fibers and jobs.     *)
(***************************************************************************)
EXTENDS Scheduler, FiniteSetTheorems, SequenceTheorems, TLAPS

-----------------------------------------------------------------------------
(* Lemmas on the operators the model is built from.                        *)

\* Erasing the i-th element of a list.
LEMMA RemoveAtProperties ==
    ASSUME NEW S, NEW s \in Seq(S), NEW i \in DOMAIN s
    PROVE  /\ RemoveAt(s, i) \in Seq(S)
           /\ Len(RemoveAt(s, i)) = Len(s) - 1
           /\ \A k \in 1 .. Len(s) - 1 :
                 RemoveAt(s, i)[k] = IF k < i THEN s[k] ELSE s[k + 1]
<1> DEFINE a == SubSeq(s, 1, i - 1)
           b == SubSeq(s, i + 1, Len(s))
<1>1. Len(s) \in Nat /\ DOMAIN s = 1 .. Len(s) /\ i \in 1 .. Len(s)
  BY LenProperties
<1>2. a \in Seq(S) /\ Len(a) = i - 1 /\ \A k \in 1 .. i - 1 : a[k] = s[k]
  BY <1>1, SubSeqProperties
<1>3. b \in Seq(S) /\ Len(b) = Len(s) - i /\ \A k \in 1 .. Len(s) - i : b[k] = s[i + k]
  BY <1>1, SubSeqProperties
<1> HIDE DEF a, b
<1>4. /\ a \o b \in Seq(S) /\ Len(a \o b) = Len(a) + Len(b)
      /\ \A k \in 1 .. Len(a) + Len(b) : (a \o b)[k] = IF k <= Len(a) THEN a[k] ELSE b[k - Len(a)]
  BY <1>2, <1>3, ConcatProperties
<1>5. RemoveAt(s, i) = a \o b
  BY DEF RemoveAt, a, b
<1>6. ASSUME NEW k \in 1 .. Len(s) - 1
      PROVE  (a \o b)[k] = IF k < i THEN s[k] ELSE s[k + 1]
  <2>1. CASE k < i
    BY <1>1, <1>2, <1>3, <1>4, <2>1
  <2>2. CASE ~(k < i)
    <3>1. k - (i - 1) \in 1 .. Len(s) - i /\ i + (k - (i - 1)) = k + 1
      BY <1>1, <2>2
    <3>2. b[k - (i - 1)] = s[k + 1]
      BY <1>3, <3>1
    <3>3. k \in 1 .. Len(a) + Len(b) /\ ~(k <= Len(a)) /\ k - Len(a) = k - (i - 1)
      BY <1>1, <1>2, <1>3, <2>2
    <3>4. (a \o b)[k] = b[k - Len(a)]
      BY <1>4, <3>3
    <3> QED
      BY <2>2, <3>2, <3>3, <3>4
  <2> QED
    BY <2>1, <2>2
<1>7. Len(a \o b) = Len(s) - 1
  BY <1>1, <1>2, <1>3, <1>4
<1> QED
  BY <1>4, <1>5, <1>6, <1>7

\* What erase leaves in the list was there before; what was there before is
\* left or is the element erased.
LEMMA RemoveAtElements ==
    ASSUME NEW S, NEW s \in Seq(S), NEW i \in DOMAIN s
    PROVE  /\ \A k \in DOMAIN RemoveAt(s, i) :
                 \E m \in DOMAIN s : m # i /\ RemoveAt(s, i)[k] = s[m]
           /\ \A m \in DOMAIN s : m # i =>
                 \E k \in DOMAIN RemoveAt(s, i) : RemoveAt(s, i)[k] = s[m]
<1> DEFINE r == RemoveAt(s, i)
<1>1. Len(s) \in Nat /\ DOMAIN s = 1 .. Len(s) /\ i \in 1 .. Len(s)
  BY LenProperties
<1>2. r \in Seq(S) /\ Len(r) = Len(s) - 1
      /\ \A k \in 1 .. Len(s) - 1 : r[k] = IF k < i THEN s[k] ELSE s[k + 1]
  BY RemoveAtProperties
<1> HIDE DEF r
<1>3. DOMAIN r = 1 .. Len(s) - 1
  BY <1>2, LenProperties
<1>4. ASSUME NEW k \in DOMAIN r PROVE \E m \in DOMAIN s : m # i /\ r[k] = s[m]
  <2>1. CASE k < i
    BY <1>1, <1>2, <1>3, <2>1
  <2>2. CASE ~(k < i)
    <3>1. k + 1 \in DOMAIN s /\ k + 1 # i /\ r[k] = s[k + 1]
      BY <1>1, <1>2, <1>3, <2>2
    <3> QED
      BY <3>1
  <2> QED
    BY <2>1, <2>2
<1>5. ASSUME NEW m \in DOMAIN s, m # i PROVE \E k \in DOMAIN r : r[k] = s[m]
  <2>1. CASE m < i
    <3>1. m \in DOMAIN r /\ r[m] = s[m]
      BY <1>1, <1>2, <1>3, <2>1
    <3> QED
      BY <3>1
  <2>2. CASE ~(m < i)
    <3>1. m - 1 \in DOMAIN r /\ ~(m - 1 < i) /\ (m - 1) + 1 = m
      BY <1>1, <1>3, <1>5, <2>2
    <3>2. r[m - 1] = s[m]
      BY <1>2, <1>3, <3>1
    <3> QED
      BY <3>1, <3>2
  <2> QED
    BY <2>1, <2>2
<1> QED
  BY <1>4, <1>5 DEF r

LEMMA AppendElements ==
    ASSUME NEW S, NEW s \in Seq(S), NEW e \in S
    PROVE  /\ Append(s, e) \in Seq(S)
           /\ DOMAIN Append(s, e) = DOMAIN s \cup {Len(s) + 1}
           /\ Len(s) + 1 \notin DOMAIN s
           /\ \A k \in DOMAIN s : Append(s, e)[k] = s[k]
           /\ Append(s, e)[Len(s) + 1] = e
  BY AppendProperties, LenProperties

LEMMA EntryTypes ==
    /\ NoEntry \in Entry
    /\ \A f \in Fibers \cup {NoFiber}, t \in Runners \cup {AnyThread} : FiberEntry(f, t) \in Entry
    /\ \A j \in Jobs \cup {NoJob}, t \in Runners \cup {AnyThread} : CbEntry(j, t) \in Entry
    /\ \A e \in Entry : /\ e.fiber \in Fibers \cup {NoFiber} /\ e.cb \in Jobs \cup {NoJob}
                        /\ e.thread \in Runners \cup {AnyThread}
  BY DEF Entry, NoEntry, FiberEntry, CbEntry

\* The number of threads at pcs in S, and how it changes when thread t moves.
CountAt(S) == Cardinality({u \in Runners : pc[u] \in S})
One(l, S) == IF l \in S THEN 1 ELSE 0

LEMMA CountMove ==
    ASSUME NEW t \in Runners, NEW S, \A u \in Runners \ {t} : pc'[u] = pc[u]
    PROVE  /\ CountAt(S) \in Nat
           /\ CountAt(S)' = CountAt(S) + One(pc'[t], S) - One(pc[t], S)
<1> DEFINE A == {u \in Runners : pc[u] \in S}
           B == {u \in Runners : pc'[u] \in S}
<1>1. IsFiniteSet(A) /\ Cardinality(A) \in Nat
  BY SchedulerAssumption, FS_Subset, FS_CardinalityType
<1>2. pc'[t] \in S => B = A \cup {t}
  OBVIOUS
<1>3. pc'[t] \notin S => B = A \ {t}
  OBVIOUS
<1>4. t \in A <=> pc[t] \in S
  OBVIOUS
<1> HIDE DEF A, B
<1>5. /\ Cardinality(A \cup {t}) = IF t \in A THEN Cardinality(A) ELSE Cardinality(A) + 1
      /\ Cardinality(A \ {t}) = IF t \in A THEN Cardinality(A) - 1 ELSE Cardinality(A)
  BY <1>1, FS_AddElement, FS_RemoveElement
<1>6. Cardinality(B) = Cardinality(A) + (IF pc'[t] \in S THEN 1 ELSE 0) - (IF pc[t] \in S THEN 1 ELSE 0)
  <2>1. CASE pc'[t] \in S
    <3>1. Cardinality(B) = IF t \in A THEN Cardinality(A) ELSE Cardinality(A) + 1
      BY <1>2, <1>5, <2>1
    <3> QED
      BY <1>1, <1>4, <2>1, <3>1
  <2>2. CASE pc'[t] \notin S
    <3>1. Cardinality(B) = IF t \in A THEN Cardinality(A) - 1 ELSE Cardinality(A)
      BY <1>3, <1>5, <2>2
    <3> QED
      BY <1>1, <1>4, <2>2, <3>1
  <2> QED
    BY <2>1, <2>2
<1> QED
  BY <1>1, <1>6 DEF A, B, CountAt, One

-----------------------------------------------------------------------------
(* Types.                                                                  *)

\* A thread that is on, or just back from, a fiber has a current fiber.
HasFiber(t) == pc[t] \in StackPc \cup PostPc \cup {"returned"} => Current(t) # NoFiber

\* Before start() no thread runs; the caller's runs only inside stop().
NotYetRunning ==
    /\ main = "new" => \A t \in Runners : pc[t] = "off"
    /\ main \in {"new", "up", "check"} => \A t \in Caller : pc[t] = "off"

TypeInv == TypeOK /\ (\A t \in Runners : HasFiber(t)) /\ NotYetRunning

LEMMA CurrentType ==
    ASSUME TypeOK, NEW t \in Runners
    PROVE  /\ Current(t) \in Fibers \cup {NoFiber}
           /\ ft[t].fiber \in Fibers \cup {NoFiber} /\ ft[t].cb \in Jobs \cup {NoJob}
           /\ cbFiber[t] \in Fibers \cup {NoFiber}
<1>1. ft[t] \in Entry /\ cbFiber[t] \in Fibers \cup {NoFiber}
  BY DEF TypeOK
<1> QED
  BY <1>1, EntryTypes DEF Current

LEMMA CountUp ==
    ASSUME NEW f \in [Jobs -> Nat], NEW j
    PROVE  [f EXCEPT ![j] = f[j] + 1] \in [Jobs -> Nat]
<1>1. CASE j \in Jobs
  BY <1>1
<1>2. CASE j \notin Jobs
  BY <1>2
<1> QED
  BY <1>1, <1>2

LEMMA CountDown ==
    ASSUME NEW f \in [Jobs -> 0 .. MaxYields], NEW j, f[j] > 0
    PROVE  [f EXCEPT ![j] = f[j] - 1] \in [Jobs -> 0 .. MaxYields]
<1>1. CASE j \in Jobs
  BY <1>1, SchedulerAssumption
<1>2. CASE j \notin Jobs
  BY <1>2
<1> QED
  BY <1>1, <1>2

LEMMA ScheduleJobType ==
    ASSUME TypeOK, NEW j \in Jobs, NEW p \in Runners \cup {AnyThread}, ScheduleJob(j, p)
    PROVE  TypeOK'
<1> USE DEF TypeOK, ScheduleJob, threadVars
<1>0. \E e \in Entry : queue' = Append(queue, e)
  BY EntryTypes DEF Enqueue
<1>1. queue' \in Seq(Entry)
  BY <1>0, AppendProperties
<1>2. mState' \in [Fibers -> FiberState] /\ mCb' \in [Fibers -> Jobs \cup {NoJob}]
  BY DEF FiberState
<1>3. phase' \in [Jobs -> {"new", "submitted", "done"}] /\ pinOf' \in [Jobs -> Runners \cup {AnyThread}]
  OBVIOUS
<1> QED
  BY <1>1, <1>2, <1>3

LEMMA TypeInvStep ==
    ASSUME TypeInv, [Next]_vars
    PROVE  TypeInv'
<1> USE DEF TypeInv, TypeOK, HasFiber, NotYetRunning, schedVars, fiberVars, threadVars, jobVars
<1>1. CASE \E j \in Jobs, p \in Pins : Submit(j, p)
  <2> PICK j \in Jobs, p \in Pins : Submit(j, p)
    BY <1>1
  <2>1. p \in Runners \cup {AnyThread} /\ ScheduleJob(j, p)
    BY SchedulerAssumption DEF Submit
  <2>2. UNCHANGED <<pc, ft, cbFiber, main>>
    BY <2>1 DEF ScheduleJob
  <2>3. TypeOK'
    BY <2>1, ScheduleJobType
  <2> QED
    BY <2>2, <2>3 DEF Current
<1>2. CASE \E t \in Runners, j \in Jobs, p \in SpawnPins : Spawn(t, j, p)
  <2> PICK t \in Runners, j \in Jobs, p \in SpawnPins : Spawn(t, j, p)
    BY <1>2
  <2>1. p \in Runners \cup {AnyThread} /\ ScheduleJob(j, p)
    BY SchedulerAssumption DEF Spawn
  <2>2. UNCHANGED <<pc, ft, cbFiber, main>>
    BY <2>1 DEF ScheduleJob
  <2>3. TypeOK'
    BY <2>1, ScheduleJobType
  <2> QED
    BY <2>2, <2>3 DEF Current
<1>3. CASE Start
  <2>1. pc' \in [Runners -> Pc] /\ \A t \in Runners : pc'[t] \in {"scan", "off"}
    BY <1>3 DEF Start, Pc
  <2>2. \A t \in Caller : pc'[t] = "off"
    BY <1>3, SchedulerAssumption DEF Start, Runners
  <2> QED
    BY <1>3, <2>1, <2>2 DEF Start, StackPc, PostPc
<1>4. CASE StopBegin
  BY <1>4, SchedulerAssumption DEF StopBegin, Pc, StackPc, PostPc, Current
<1>5. CASE StopCheck
  BY <1>5, SchedulerAssumption DEF StopCheck, Pc, StackPc, PostPc, Current
<1>6. CASE StopCalled
  BY <1>6, SchedulerAssumption DEF StopCalled, Pc, StackPc, PostPc, Current
<1>7. CASE StopJoin
  BY <1>7, SchedulerAssumption DEF StopJoin, Pc, StackPc, PostPc, Current
<1>8. CASE \E t \in Runners : ScanTake(t)
  <2> PICK t \in Runners : ScanTake(t)
    BY <1>8
  <2>t. Current(t) \in Fibers \cup {NoFiber} /\ ft[t] \in Entry /\ cbFiber[t] \in Fibers \cup {NoFiber}
    BY CurrentType
  <2>p. pc' \in [Runners -> Pc] /\ \A u \in Runners \ {t} : pc'[u] = pc[u]
    BY DEF ScanTake, Goto, Pc, ActivePc, PostPc
  <2> PICK i \in DOMAIN queue : ft' = [ft EXCEPT ![t] = queue[i]] /\ queue' = RemoveAt(queue, i)
    BY DEF ScanTake
  <2>1. queue[i] \in Entry /\ queue' \in Seq(Entry)
    BY RemoveAtProperties, ElementOfSeq
  <2>2. ft' \in [Runners -> Entry]
    BY <2>1
  <2>h. \A u \in Runners : HasFiber(u)'
    BY <2>p DEF ScanTake, Goto, StackPc, PostPc, Current
  <2>y. NotYetRunning'
    BY <2>p DEF ScanTake, Goto
  <2> QED
    BY <2>p, <2>1, <2>2, <2>h, <2>y DEF ScanTake
<1>9. CASE \E t \in Runners : ScanNone(t)
  BY <1>9 DEF ScanNone, Goto, Pc, ActivePc, StackPc, PostPc, Current
<1>10. CASE \E t \in Runners : DropFinished(t)
  <2> PICK t \in Runners : DropFinished(t)
    BY <1>10
  <2>t. Current(t) \in Fibers \cup {NoFiber} /\ ft[t] \in Entry /\ cbFiber[t] \in Fibers \cup {NoFiber}
    BY CurrentType
  <2>p. pc' \in [Runners -> Pc] /\ \A u \in Runners \ {t} : pc'[u] = pc[u]
    BY DEF DropFinished, Goto, Pc, ActivePc, PostPc
  <2>1. ft' \in [Runners -> Entry]
    BY EntryTypes DEF DropFinished
  <2>h. \A u \in Runners : HasFiber(u)'
    BY <2>p DEF DropFinished, Goto, StackPc, PostPc, Current
  <2>y. NotYetRunning'
    BY <2>p DEF DropFinished, TookFiber, Goto
  <2> QED
    BY <2>p, <2>1, <2>h, <2>y DEF DropFinished
<1>11. CASE \E t \in Runners : Resume(t)
  <2> PICK t \in Runners : Resume(t)
    BY <1>11
  <2>t. Current(t) \in Fibers \cup {NoFiber} /\ ft[t] \in Entry /\ cbFiber[t] \in Fibers \cup {NoFiber}
    BY CurrentType
  <2>p. pc' \in [Runners -> Pc] /\ \A u \in Runners \ {t} : pc'[u] = pc[u]
    BY DEF Resume, SwapIn, Goto, Pc, ActivePc, PostPc
  <2>1. mState' \in [Fibers -> FiberState]
    BY DEF Resume, SwapIn, FiberState
  <2>2. ran' \in [Jobs -> Nat]
    BY CountUp DEF Resume, SwapIn
  <2>h. \A u \in Runners : HasFiber(u)'
    BY <2>p DEF Resume, TookFiber, StackPc, PostPc, Current
  <2>y. NotYetRunning'
    BY <2>p DEF Resume, TookFiber, SwapIn, Goto
  <2> QED
    BY <2>p, <2>1, <2>2, <2>h, <2>y DEF Resume
<1>12. CASE \E t \in Runners : RunCb(t)
  <2> PICK t \in Runners : RunCb(t)
    BY <1>12
  <2>t. Current(t) \in Fibers \cup {NoFiber} /\ ft[t] \in Entry /\ cbFiber[t] \in Fibers \cup {NoFiber}
    BY CurrentType
  <2>p. pc' \in [Runners -> Pc] /\ \A u \in Runners \ {t} : pc'[u] = pc[u]
    BY DEF RunCb, SwapIn, Goto, Pc, ActivePc, PostPc
  <2> PICK f \in Fibers : /\ cbFiber' = [cbFiber EXCEPT ![t] = f]
                          /\ mCb' = [mCb EXCEPT ![f] = ft[t].cb]
                          /\ SwapIn(t, f, ft[t].cb, TRUE)
    BY DEF RunCb
  <2>1. mState' \in [Fibers -> FiberState]
    BY DEF SwapIn, FiberState
  <2>0. ran' \in [Jobs -> Nat]
    BY CountUp DEF SwapIn
  <2>2. ft[t].cb \in Jobs \cup {NoJob}
    BY CurrentType
  <2>3. mCb' \in [Fibers -> Jobs \cup {NoJob}]
    BY <2>2
  <2>4. cbFiber' \in [Runners -> Fibers \cup {NoFiber}] /\ ft' \in [Runners -> Entry]
    BY EntryTypes DEF RunCb
  <2>5. Current(t)' # NoFiber /\ \A u \in Runners \ {t} : Current(u)' = Current(u)
    BY SchedulerAssumption DEF RunCb, Current, NoEntry
  <2>h. \A u \in Runners : HasFiber(u)'
    BY <2>p, <2>5
  <2>y. NotYetRunning'
    BY <2>p DEF RunCb, SwapIn, Goto
  <2> QED
    BY <2>p, <2>0, <2>1, <2>3, <2>4, <2>h, <2>y DEF RunCb
<1>13. CASE \E t \in Runners : AbortSwapIn(t)
  BY <1>13 DEF AbortSwapIn, Abort, Pc, StackPc, PostPc
<1>14. CASE \E t \in Runners : AbortStack(t)
  BY <1>14 DEF AbortStack, Abort, Pc, StackPc, PostPc
<1>15. CASE \E t \in Runners : AbortEnded(t)
  BY <1>15 DEF AbortEnded, Abort, Pc, StackPc, PostPc
<1>16. CASE \E t \in Runners : AbortYield(t)
  BY <1>16 DEF AbortYield, Abort, Pc, StackPc, PostPc
<1>17. CASE \E t \in Runners : AbortReset(t)
  BY <1>17 DEF AbortReset, Abort, Pc, StackPc, PostPc
<1>18. CASE \E t \in Runners : SwapOut(t)
  BY <1>18 DEF SwapOut, Goto, Pc, ActivePc, StackPc, PostPc, Current
<1>19. CASE \E t \in Runners : Returned(t)
  BY <1>19 DEF Returned, Goto, Pc, ActivePc, StackPc, PostPc, Current
<1>20. CASE \E t \in Runners : PostUnfinished(t)
  BY <1>20 DEF PostUnfinished, Goto, Pc, ActivePc, StackPc, PostPc, Current
<1>21. CASE \E t \in Runners : PostFinished(t)
  <2> PICK t \in Runners : PostFinished(t)
    BY <1>21
  <2>t. Current(t) \in Fibers \cup {NoFiber} /\ ft[t] \in Entry /\ cbFiber[t] \in Fibers \cup {NoFiber}
    BY CurrentType
  <2>p. pc' \in [Runners -> Pc] /\ \A u \in Runners \ {t} : pc'[u] = pc[u]
    BY DEF PostFinished, Goto, Pc, ActivePc, PostPc
  <2>1. ft' \in [Runners -> Entry]
    BY EntryTypes DEF PostFinished
  <2>2. mState' \in [Fibers -> FiberState] /\ mCb' \in [Fibers -> Jobs \cup {NoJob}]
    BY DEF PostFinished, SetState, FiberState
  <2>3. \A u \in Runners \ {t} : Current(u)' = Current(u)
    BY DEF PostFinished, Current
  <2>h. \A u \in Runners : HasFiber(u)'
    BY <2>p, <2>3 DEF PostFinished, Goto, StackPc, PostPc
  <2>y. NotYetRunning'
    BY <2>p DEF PostFinished, Goto
  <2> QED
    BY <2>p, <2>1, <2>2, <2>h, <2>y DEF PostFinished
<1>22. CASE \E t \in Runners : Reschedule(t)
  <2> PICK t \in Runners : Reschedule(t)
    BY <1>22
  <2>t. Current(t) \in Fibers \cup {NoFiber} /\ ft[t] \in Entry /\ cbFiber[t] \in Fibers \cup {NoFiber}
    BY CurrentType
  <2>p. pc' \in [Runners -> Pc] /\ \A u \in Runners \ {t} : pc'[u] = pc[u]
    BY DEF Reschedule, Goto, Pc, ActivePc, PostPc
  <2>1. queue' \in Seq(Entry)
    BY <2>t, EntryTypes, AppendProperties DEF Reschedule, Enqueue
  <2>r. ft' \in [Runners -> Entry] /\ cbFiber' \in [Runners -> Fibers \cup {NoFiber}]
    BY EntryTypes DEF Reschedule, Release
  <2>3. \A u \in Runners \ {t} : Current(u)' = Current(u)
    BY DEF Reschedule, Release, Current
  <2>h. \A u \in Runners : HasFiber(u)'
    BY <2>p, <2>3 DEF Reschedule, Goto, StackPc, PostPc
  <2>y. NotYetRunning'
    BY <2>p DEF Reschedule, Goto
  <2> QED
    BY <2>p, <2>1, <2>r, <2>h, <2>y DEF Reschedule
<1>23. CASE \E t \in Runners : SetHold(t)
  <2> PICK t \in Runners : SetHold(t)
    BY <1>23
  <2>t. Current(t) \in Fibers \cup {NoFiber} /\ ft[t] \in Entry /\ cbFiber[t] \in Fibers \cup {NoFiber}
    BY CurrentType
  <2>p. pc' \in [Runners -> Pc] /\ \A u \in Runners \ {t} : pc'[u] = pc[u]
    BY DEF SetHold, Goto, Pc, ActivePc, PostPc
  <2>1. mState' \in [Fibers -> FiberState]
    BY DEF SetHold, SetState, FiberState
  <2>r. ft' \in [Runners -> Entry] /\ cbFiber' \in [Runners -> Fibers \cup {NoFiber}]
    BY EntryTypes DEF SetHold, Release
  <2>3. \A u \in Runners \ {t} : Current(u)' = Current(u)
    BY DEF SetHold, Release, Current
  <2>h. \A u \in Runners : HasFiber(u)'
    BY <2>p, <2>3 DEF SetHold, Goto, StackPc, PostPc
  <2>y. NotYetRunning'
    BY <2>p DEF SetHold, Goto
  <2> QED
    BY <2>p, <2>1, <2>r, <2>h, <2>y DEF SetHold
<1>24. CASE \E t \in Runners : Exit(t)
  BY <1>24 DEF Exit, Goto, Pc, ActivePc, StackPc, PostPc, Current
<1>25. CASE \E t \in Runners : IdleIn(t)
  BY <1>25 DEF IdleIn, Goto, Pc, ActivePc, StackPc, PostPc, Current
<1>26. CASE \E t \in Runners : Idle(t)
  <2> PICK t \in Runners : Idle(t)
    BY <1>26
  <2>t. Current(t) \in Fibers \cup {NoFiber} /\ ft[t] \in Entry /\ cbFiber[t] \in Fibers \cup {NoFiber}
    BY CurrentType
  <2>p. pc' \in [Runners -> Pc] /\ \A u \in Runners \ {t} : pc'[u] = pc[u]
    BY DEF Idle, Goto, Pc, ActivePc, PostPc
  <2>1. idleTerm' \in [Runners -> BOOLEAN]
    <3>1. Stopping \in BOOLEAN
      BY DEF Stopping
    <3> QED
      BY <3>1, Zenon DEF Idle
  <2>3. \A u \in Runners : Current(u)' = Current(u)
    BY DEF Idle, Current
  <2>h. \A u \in Runners : HasFiber(u)'
    BY <2>p, <2>3 DEF Idle, Goto, StackPc, PostPc
  <2>y. NotYetRunning'
    BY <2>p DEF Idle, Goto
  <2> QED
    BY <2>p, <2>1, <2>h, <2>y DEF Idle
<1>27. CASE \E t \in Runners : IdleOut(t)
  BY <1>27 DEF IdleOut, Goto, Pc, ActivePc, StackPc, PostPc, Current
<1>28. CASE \E t \in Runners : YieldToReady(t)
  <2> PICK t \in Runners : YieldToReady(t)
    BY <1>28
  <2>t. Current(t) \in Fibers \cup {NoFiber} /\ ft[t] \in Entry /\ cbFiber[t] \in Fibers \cup {NoFiber}
    BY CurrentType
  <2>p. pc' \in [Runners -> Pc] /\ \A u \in Runners \ {t} : pc'[u] = pc[u]
    BY DEF YieldToReady, Goto, Pc, ActivePc, PostPc
  <2>1. mState' \in [Fibers -> FiberState]
    BY DEF YieldToReady, SetState, FiberState
  <2>y1. yields' \in [Jobs -> 0 .. MaxYields]
    BY CountDown DEF YieldToReady, SpendYield
  <2>3. \A u \in Runners : Current(u)' = Current(u)
    BY DEF YieldToReady, Current
  <2>h. \A u \in Runners : HasFiber(u)'
    BY <2>p, <2>3 DEF YieldToReady, Goto, StackPc, PostPc
  <2>y. NotYetRunning'
    BY <2>p DEF YieldToReady, Goto
  <2> QED
    BY <2>p, <2>1, <2>y1, <2>h, <2>y DEF YieldToReady
<1>29. CASE \E t \in Runners : Arm(t)
  <2> PICK t \in Runners : Arm(t)
    BY <1>29
  <2>t. Current(t) \in Fibers \cup {NoFiber} /\ ft[t] \in Entry /\ cbFiber[t] \in Fibers \cup {NoFiber}
    BY CurrentType
  <2>p. pc' \in [Runners -> Pc] /\ \A u \in Runners \ {t} : pc'[u] = pc[u]
    BY DEF Arm, Goto, Pc, ActivePc, PostPc
  <2>1. held' \subseteq Fibers
    BY <2>t DEF Arm, StackPc
  <2>y1. yields' \in [Jobs -> 0 .. MaxYields]
    BY CountDown DEF Arm, SpendYield
  <2>3. \A u \in Runners : Current(u)' = Current(u)
    BY DEF Arm, Current
  <2>h. \A u \in Runners : HasFiber(u)'
    BY <2>p, <2>3 DEF Arm, Goto, StackPc, PostPc
  <2>y. NotYetRunning'
    BY <2>p DEF Arm, Goto
  <2> QED
    BY <2>p, <2>1, <2>y1, <2>h, <2>y DEF Arm
<1>30. CASE \E t \in Runners : YieldToHold(t)
  <2> PICK t \in Runners : YieldToHold(t)
    BY <1>30
  <2>t. Current(t) \in Fibers \cup {NoFiber} /\ ft[t] \in Entry /\ cbFiber[t] \in Fibers \cup {NoFiber}
    BY CurrentType
  <2>p. pc' \in [Runners -> Pc] /\ \A u \in Runners \ {t} : pc'[u] = pc[u]
    BY DEF YieldToHold, Goto, Pc, ActivePc, PostPc
  <2>1. mState' \in [Fibers -> FiberState]
    BY DEF YieldToHold, SetState, FiberState
  <2>3. \A u \in Runners : Current(u)' = Current(u)
    BY DEF YieldToHold, Current
  <2>h. \A u \in Runners : HasFiber(u)'
    BY <2>p, <2>3 DEF YieldToHold, Goto, StackPc, PostPc
  <2>y. NotYetRunning'
    BY <2>p DEF YieldToHold, Goto
  <2> QED
    BY <2>p, <2>1, <2>h, <2>y DEF YieldToHold
<1>31. CASE \E t \in Runners, s \in Finished : Finish(t, s)
  <2> PICK t \in Runners, s \in Finished : Finish(t, s)
    BY <1>31
  <2>t. Current(t) \in Fibers \cup {NoFiber} /\ ft[t] \in Entry /\ cbFiber[t] \in Fibers \cup {NoFiber}
    BY CurrentType
  <2>p. pc' \in [Runners -> Pc] /\ \A u \in Runners \ {t} : pc'[u] = pc[u]
    BY DEF Finish, Goto, Pc, ActivePc, PostPc
  <2>1. mState' \in [Fibers -> FiberState]
    BY DEF Finish, SetState, FiberState, Finished
  <2>2. mCb' \in [Fibers -> Jobs \cup {NoJob}]
    BY DEF Finish
  <2>4. phase' \in [Jobs -> {"new", "submitted", "done"}]
    BY DEF Finish
  <2>3. \A u \in Runners : Current(u)' = Current(u)
    BY DEF Finish, Current
  <2>h. \A u \in Runners : HasFiber(u)'
    BY <2>p, <2>3 DEF Finish, Goto, StackPc, PostPc
  <2>y. NotYetRunning'
    BY <2>p DEF Finish, Goto
  <2> QED
    BY <2>p, <2>1, <2>2, <2>4, <2>h, <2>y DEF Finish
<1>32. CASE \E f \in Fibers : Wake(f)
  <2> PICK f \in Fibers : Wake(f)
    BY <1>32
  <2>1. queue' \in Seq(Entry)
    BY EntryTypes, AppendProperties DEF Wake, Enqueue
  <2> QED
    BY <2>1 DEF Wake, Current
<1>33. CASE \E f \in Fibers : AbortDestroy(f)
  BY <1>33 DEF AbortDestroy, Abort, Pc, StackPc, PostPc
<1>34. CASE UNCHANGED vars
  BY <1>34 DEF vars, Current
<1>35. CASE \E t \in Runners : ResumeEmpty(t)
  <2> PICK t \in Runners : ResumeEmpty(t)
    BY <1>35
  <2>t. Current(t) \in Fibers \cup {NoFiber} /\ ft[t] \in Entry /\ cbFiber[t] \in Fibers \cup {NoFiber}
    BY CurrentType
  <2>p. pc' \in [Runners -> Pc] /\ \A u \in Runners \ {t} : pc'[u] = pc[u]
    BY DEF ResumeEmpty, Goto, Pc, ActivePc, PostPc
  <2>1. mState' \in [Fibers -> FiberState]
    BY DEF ResumeEmpty, FiberState
  <2>h. \A u \in Runners : HasFiber(u)'
    BY <2>p DEF ResumeEmpty, TookFiber, StackPc, PostPc, Current
  <2>y. NotYetRunning'
    BY <2>p DEF ResumeEmpty, TookFiber, Goto
  <2> QED
    BY <2>p, <2>1, <2>h, <2>y DEF ResumeEmpty
<1> QED
  BY <1>1, <1>2, <1>3, <1>4, <1>5, <1>6, <1>7, <1>8, <1>9, <1>10, <1>11, <1>12, <1>13, <1>14, <1>15, <1>16, <1>17, <1>18, <1>19, <1>20, <1>21, <1>22, <1>23, <1>24, <1>25, <1>26, <1>27, <1>28, <1>29, <1>30, <1>31, <1>32, <1>33, <1>34, <1>35 DEF Next, RunStep, JobStep, StopStep, Halted

-----------------------------------------------------------------------------
(* The counters.                                                           *)

IdlePc == {"idle", "idleOut"}

LEMMA TypeInvInit == Init => TypeInv
<1> SUFFICES ASSUME Init PROVE TypeInv
  OBVIOUS
<1>1. queue \in Seq(Entry)
  BY EmptySeq DEF Init
<1>2. ft \in [Runners -> Entry]
  BY EntryTypes DEF Init
<1>3. idleTerm \in [Runners -> BOOLEAN] /\ mStopping \in BOOLEAN
  BY Zenon DEF Init
<1>4. TypeOK
  BY <1>1, <1>2, <1>3, SchedulerAssumption DEF Init, TypeOK, FiberState, Pc
<1>5. \A t \in Runners : pc[t] = "off"
  BY DEF Init
<1> QED
  BY <1>4, <1>5 DEF TypeInv, HasFiber, NotYetRunning, StackPc, PostPc, Runners

\* Every variable of the scheduler keeps its type; on the way, a thread that
\* is on a fiber's stack always has a fiber to return to.
THEOREM TypeCorrect == Spec => []TypeOK
<1>1. TypeInv /\ [Next]_vars => TypeInv'
  BY TypeInvStep
<1>2. TypeInv => TypeOK
  BY DEF TypeInv
<1> QED
  BY <1>1, <1>2, TypeInvInit, PTL DEF Spec

\* A thread that moves to pc l changes the counters by its own contribution.
LEMMA MoveKeepsCounters ==
    ASSUME TypeOK, CountersMatch, NEW t \in Runners, NEW l, pc' = [pc EXCEPT ![t] = l],
           active' = active + One(l, ActivePc) - One(pc[t], ActivePc),
           idling' = idling + One(l, IdlePc) - One(pc[t], IdlePc)
    PROVE  CountersMatch'
<1>1. pc \in [Runners -> Pc]
  BY DEF TypeOK
<1>2. active = CountAt(ActivePc) /\ idling = CountAt(IdlePc)
  BY DEF CountersMatch, IdlePc, CountAt
<1>c. pc'[t] = l /\ \A u \in Runners \ {t} : pc'[u] = pc[u]
  BY <1>1
<1>d. /\ CountAt(ActivePc) \in Nat /\ CountAt(IdlePc) \in Nat
      /\ CountAt(ActivePc)' = CountAt(ActivePc) + One(l, ActivePc) - One(pc[t], ActivePc)
      /\ CountAt(IdlePc)' = CountAt(IdlePc) + One(l, IdlePc) - One(pc[t], IdlePc)
  BY <1>c, CountMove
<1>3. active' = CountAt(ActivePc)'
  BY <1>2, <1>d
<1>4. idling' = CountAt(IdlePc)'
  BY <1>2, <1>d
<1> QED
  BY <1>3, <1>4 DEF CountersMatch, IdlePc, CountAt

\* Steps after which the same threads are active and the same are idle.
LEMMA SameKeepsCounters ==
    ASSUME CountersMatch, UNCHANGED <<active, idling>>,
           \A t \in Runners : /\ pc'[t] \in ActivePc <=> pc[t] \in ActivePc
                              /\ pc'[t] \in {"idle", "idleOut"} <=> pc[t] \in {"idle", "idleOut"}
    PROVE  CountersMatch'
<1>1. {t \in Runners : pc'[t] \in ActivePc} = {t \in Runners : pc[t] \in ActivePc}
  OBVIOUS
<1>2. {t \in Runners : pc'[t] \in {"idle", "idleOut"}} = {t \in Runners : pc[t] \in {"idle", "idleOut"}}
  OBVIOUS
<1> QED
  BY <1>1, <1>2 DEF CountersMatch

\* Steps after which no thread is active or idle.
LEMMA NoneKeepsCounters ==
    ASSUME active' = 0, idling' = 0, \A t \in Runners : pc'[t] \notin ActivePc /\ pc'[t] \notin {"idle", "idleOut"}
    PROVE  CountersMatch'
<1>1. {t \in Runners : pc'[t] \in ActivePc} = {} /\ {t \in Runners : pc'[t] \in {"idle", "idleOut"}} = {}
  OBVIOUS
<1> QED
  BY <1>1, FS_EmptySet DEF CountersMatch

LEMMA CountersStep ==
    ASSUME TypeInv, CountersMatch, [Next]_vars
    PROVE  CountersMatch'
<1> USE DEF TypeInv, schedVars, fiberVars, threadVars, jobVars
<1>a. active \in Int /\ idling \in Int /\ pc \in [Runners -> Pc]
  BY DEF TypeOK
<1>b. TypeOK
  OBVIOUS
<1>1. CASE \E j \in Jobs, p \in Pins : Submit(j, p)
  BY <1>1, SameKeepsCounters DEF Submit, ScheduleJob
<1>2. CASE \E t \in Runners, j \in Jobs, p \in SpawnPins : Spawn(t, j, p)
  BY <1>2, SameKeepsCounters DEF Spawn, ScheduleJob
<1>3. CASE Start
  <2>1. \A t \in Runners : pc[t] = "off" /\ pc'[t] \in {"off", "scan"}
    BY <1>3 DEF Start, NotYetRunning
  <2> QED
    BY <1>3, <2>1, SameKeepsCounters DEF Start, ActivePc
<1>4. CASE StopBegin
  BY <1>4, SameKeepsCounters DEF StopBegin
<1>5. CASE StopCheck
  <2>1. \A t \in Runners : pc'[t] = pc[t] \/ (pc[t] = "off" /\ pc'[t] = "scan")
    BY <1>5 DEF StopCheck, NotYetRunning
  <2> QED
    BY <1>5, <2>1, SameKeepsCounters DEF StopCheck, ActivePc
<1>6. CASE StopCalled
  BY <1>6, SameKeepsCounters DEF StopCalled
<1>7. CASE StopJoin
  BY <1>7, SameKeepsCounters DEF StopJoin
<1>8. CASE \E t \in Runners : ScanTake(t)
  <2> PICK t \in Runners : ScanTake(t)
    BY <1>8
  <2>1. pc[t] = "scan" /\ pc' = [pc EXCEPT ![t] = "took"] /\ active' = active + 1 /\ idling' = idling
    BY DEF ScanTake, Goto
  <2>2. /\ active' = active + One("took", ActivePc) - One(pc[t], ActivePc)
        /\ idling' = idling + One("took", IdlePc) - One(pc[t], IdlePc)
    BY <1>a, <2>1 DEF ActivePc, IdlePc, One
  <2> QED
    BY <1>b, <2>1, <2>2, MoveKeepsCounters
<1>9. CASE \E t \in Runners : ScanNone(t)
  <2> PICK t \in Runners : ScanNone(t)
    BY <1>9
  <2>1. pc[t] = "scan" /\ pc' = [pc EXCEPT ![t] = "noTask"] /\ active' = active /\ idling' = idling
    BY DEF ScanNone, Goto
  <2>2. /\ active' = active + One("noTask", ActivePc) - One(pc[t], ActivePc)
        /\ idling' = idling + One("noTask", IdlePc) - One(pc[t], IdlePc)
    BY <1>a, <2>1 DEF ActivePc, IdlePc, One
  <2> QED
    BY <1>b, <2>1, <2>2, MoveKeepsCounters
<1>10. CASE \E t \in Runners : DropFinished(t)
  <2> PICK t \in Runners : DropFinished(t)
    BY <1>10
  <2>1. pc[t] = "took" /\ pc' = [pc EXCEPT ![t] = "scan"] /\ active' = active - 1 /\ idling' = idling
    BY DEF DropFinished, Goto, TookFiber
  <2>2. /\ active' = active + One("scan", ActivePc) - One(pc[t], ActivePc)
        /\ idling' = idling + One("scan", IdlePc) - One(pc[t], IdlePc)
    BY <1>a, <2>1 DEF ActivePc, IdlePc, One
  <2> QED
    BY <1>b, <2>1, <2>2, MoveKeepsCounters
<1>11. CASE \E t \in Runners : Resume(t)
  <2> PICK t \in Runners : Resume(t)
    BY <1>11
  <2>1. pc[t] = "took" /\ pc' = [pc EXCEPT ![t] = "exec"] /\ active' = active /\ idling' = idling
    BY DEF Resume, Goto, TookFiber, SwapIn
  <2>2. /\ active' = active + One("exec", ActivePc) - One(pc[t], ActivePc)
        /\ idling' = idling + One("exec", IdlePc) - One(pc[t], IdlePc)
    BY <1>a, <2>1 DEF ActivePc, IdlePc, One
  <2> QED
    BY <1>b, <2>1, <2>2, MoveKeepsCounters
<1>12. CASE \E t \in Runners : RunCb(t)
  <2> PICK t \in Runners : RunCb(t)
    BY <1>12
  <2>1. pc[t] = "took" /\ pc' = [pc EXCEPT ![t] = "exec"] /\ active' = active /\ idling' = idling
    BY DEF RunCb, Goto, SwapIn
  <2>2. /\ active' = active + One("exec", ActivePc) - One(pc[t], ActivePc)
        /\ idling' = idling + One("exec", IdlePc) - One(pc[t], IdlePc)
    BY <1>a, <2>1 DEF ActivePc, IdlePc, One
  <2> QED
    BY <1>b, <2>1, <2>2, MoveKeepsCounters
<1>13. CASE \E t \in Runners : AbortSwapIn(t)
  BY <1>13, NoneKeepsCounters DEF AbortSwapIn, Abort, ActivePc
<1>14. CASE \E t \in Runners : AbortStack(t)
  BY <1>14, NoneKeepsCounters DEF AbortStack, Abort, ActivePc
<1>15. CASE \E t \in Runners : AbortEnded(t)
  BY <1>15, NoneKeepsCounters DEF AbortEnded, Abort, ActivePc
<1>16. CASE \E t \in Runners : AbortYield(t)
  BY <1>16, NoneKeepsCounters DEF AbortYield, Abort, ActivePc
<1>17. CASE \E t \in Runners : AbortReset(t)
  BY <1>17, NoneKeepsCounters DEF AbortReset, Abort, ActivePc
<1>18. CASE \E t \in Runners : SwapOut(t)
  <2> PICK t \in Runners : SwapOut(t)
    BY <1>18
  <2>1. pc[t] = "swapOut" /\ pc' = [pc EXCEPT ![t] = "returned"] /\ active' = active /\ idling' = idling
    BY DEF SwapOut, Goto
  <2>2. /\ active' = active + One("returned", ActivePc) - One(pc[t], ActivePc)
        /\ idling' = idling + One("returned", IdlePc) - One(pc[t], IdlePc)
    BY <1>a, <2>1 DEF ActivePc, IdlePc, One
  <2> QED
    BY <1>b, <2>1, <2>2, MoveKeepsCounters
<1>19. CASE \E t \in Runners : Returned(t)
  <2> PICK t \in Runners : Returned(t)
    BY <1>19
  <2>1. pc[t] = "returned" /\ pc' = [pc EXCEPT ![t] = "post"] /\ active' = active - 1 /\ idling' = idling
    BY DEF Returned, Goto
  <2>2. /\ active' = active + One("post", ActivePc) - One(pc[t], ActivePc)
        /\ idling' = idling + One("post", IdlePc) - One(pc[t], IdlePc)
    BY <1>a, <2>1 DEF ActivePc, IdlePc, One
  <2> QED
    BY <1>b, <2>1, <2>2, MoveKeepsCounters
<1>20. CASE \E t \in Runners : PostUnfinished(t)
  <2> PICK t \in Runners : PostUnfinished(t)
    BY <1>20
  <2>1. pc[t] = "post" /\ UNCHANGED <<active, idling>>
    BY DEF PostUnfinished
  <2>2. \E l \in {"resched", "setHold"} : pc' = [pc EXCEPT ![t] = l]
    BY DEF PostUnfinished, Goto
  <2> QED
    BY <1>a, <2>1, <2>2, SameKeepsCounters DEF ActivePc
<1>21. CASE \E t \in Runners : PostFinished(t)
  <2> PICK t \in Runners : PostFinished(t)
    BY <1>21
  <2>1. pc[t] = "post" /\ pc' = [pc EXCEPT ![t] = "scan"] /\ active' = active /\ idling' = idling
    BY DEF PostFinished, Goto
  <2>2. /\ active' = active + One("scan", ActivePc) - One(pc[t], ActivePc)
        /\ idling' = idling + One("scan", IdlePc) - One(pc[t], IdlePc)
    BY <1>a, <2>1 DEF ActivePc, IdlePc, One
  <2> QED
    BY <1>b, <2>1, <2>2, MoveKeepsCounters
<1>22. CASE \E t \in Runners : Reschedule(t)
  <2> PICK t \in Runners : Reschedule(t)
    BY <1>22
  <2>1. pc[t] = "resched" /\ pc' = [pc EXCEPT ![t] = "scan"] /\ active' = active /\ idling' = idling
    BY DEF Reschedule, Goto
  <2>2. /\ active' = active + One("scan", ActivePc) - One(pc[t], ActivePc)
        /\ idling' = idling + One("scan", IdlePc) - One(pc[t], IdlePc)
    BY <1>a, <2>1 DEF ActivePc, IdlePc, One
  <2> QED
    BY <1>b, <2>1, <2>2, MoveKeepsCounters
<1>23. CASE \E t \in Runners : SetHold(t)
  <2> PICK t \in Runners : SetHold(t)
    BY <1>23
  <2>1. pc[t] = "setHold" /\ pc' = [pc EXCEPT ![t] = "scan"] /\ active' = active /\ idling' = idling
    BY DEF SetHold, Goto
  <2>2. /\ active' = active + One("scan", ActivePc) - One(pc[t], ActivePc)
        /\ idling' = idling + One("scan", IdlePc) - One(pc[t], IdlePc)
    BY <1>a, <2>1 DEF ActivePc, IdlePc, One
  <2> QED
    BY <1>b, <2>1, <2>2, MoveKeepsCounters
<1>24. CASE \E t \in Runners : Exit(t)
  <2> PICK t \in Runners : Exit(t)
    BY <1>24
  <2>1. pc[t] = "noTask" /\ pc' = [pc EXCEPT ![t] = "exit"] /\ active' = active /\ idling' = idling
    BY DEF Exit, Goto
  <2>2. /\ active' = active + One("exit", ActivePc) - One(pc[t], ActivePc)
        /\ idling' = idling + One("exit", IdlePc) - One(pc[t], IdlePc)
    BY <1>a, <2>1 DEF ActivePc, IdlePc, One
  <2> QED
    BY <1>b, <2>1, <2>2, MoveKeepsCounters
<1>25. CASE \E t \in Runners : IdleIn(t)
  <2> PICK t \in Runners : IdleIn(t)
    BY <1>25
  <2>1. pc[t] = "noTask" /\ pc' = [pc EXCEPT ![t] = "idle"] /\ active' = active /\ idling' = idling + 1
    BY DEF IdleIn, Goto
  <2>2. /\ active' = active + One("idle", ActivePc) - One(pc[t], ActivePc)
        /\ idling' = idling + One("idle", IdlePc) - One(pc[t], IdlePc)
    BY <1>a, <2>1 DEF ActivePc, IdlePc, One
  <2> QED
    BY <1>b, <2>1, <2>2, MoveKeepsCounters
<1>26. CASE \E t \in Runners : Idle(t)
  <2> PICK t \in Runners : Idle(t)
    BY <1>26
  <2>1. pc[t] = "idle" /\ pc' = [pc EXCEPT ![t] = "idleOut"] /\ active' = active /\ idling' = idling
    BY DEF Idle, Goto
  <2>2. /\ active' = active + One("idleOut", ActivePc) - One(pc[t], ActivePc)
        /\ idling' = idling + One("idleOut", IdlePc) - One(pc[t], IdlePc)
    BY <1>a, <2>1 DEF ActivePc, IdlePc, One
  <2> QED
    BY <1>b, <2>1, <2>2, MoveKeepsCounters
<1>27. CASE \E t \in Runners : IdleOut(t)
  <2> PICK t \in Runners : IdleOut(t)
    BY <1>27
  <2>1. pc[t] = "idleOut" /\ pc' = [pc EXCEPT ![t] = "scan"] /\ active' = active /\ idling' = idling - 1
    BY DEF IdleOut, Goto
  <2>2. /\ active' = active + One("scan", ActivePc) - One(pc[t], ActivePc)
        /\ idling' = idling + One("scan", IdlePc) - One(pc[t], IdlePc)
    BY <1>a, <2>1 DEF ActivePc, IdlePc, One
  <2> QED
    BY <1>b, <2>1, <2>2, MoveKeepsCounters
<1>28. CASE \E t \in Runners : YieldToReady(t)
  <2> PICK t \in Runners : YieldToReady(t)
    BY <1>28
  <2>1. pc[t] = "exec" /\ pc' = [pc EXCEPT ![t] = "swapOut"] /\ active' = active /\ idling' = idling
    BY DEF YieldToReady, Goto
  <2>2. /\ active' = active + One("swapOut", ActivePc) - One(pc[t], ActivePc)
        /\ idling' = idling + One("swapOut", IdlePc) - One(pc[t], IdlePc)
    BY <1>a, <2>1 DEF ActivePc, IdlePc, One
  <2> QED
    BY <1>b, <2>1, <2>2, MoveKeepsCounters
<1>29. CASE \E t \in Runners : Arm(t)
  <2> PICK t \in Runners : Arm(t)
    BY <1>29
  <2>1. pc[t] = "exec" /\ pc' = [pc EXCEPT ![t] = "armed"] /\ active' = active /\ idling' = idling
    BY DEF Arm, Goto
  <2>2. /\ active' = active + One("armed", ActivePc) - One(pc[t], ActivePc)
        /\ idling' = idling + One("armed", IdlePc) - One(pc[t], IdlePc)
    BY <1>a, <2>1 DEF ActivePc, IdlePc, One
  <2> QED
    BY <1>b, <2>1, <2>2, MoveKeepsCounters
<1>30. CASE \E t \in Runners : YieldToHold(t)
  <2> PICK t \in Runners : YieldToHold(t)
    BY <1>30
  <2>1. pc[t] = "armed" /\ pc' = [pc EXCEPT ![t] = "swapOut"] /\ active' = active /\ idling' = idling
    BY DEF YieldToHold, Goto
  <2>2. /\ active' = active + One("swapOut", ActivePc) - One(pc[t], ActivePc)
        /\ idling' = idling + One("swapOut", IdlePc) - One(pc[t], IdlePc)
    BY <1>a, <2>1 DEF ActivePc, IdlePc, One
  <2> QED
    BY <1>b, <2>1, <2>2, MoveKeepsCounters
<1>31. CASE \E t \in Runners, s \in Finished : Finish(t, s)
  <2> PICK t \in Runners, s \in Finished : Finish(t, s)
    BY <1>31
  <2>1. pc[t] = "exec" /\ pc' = [pc EXCEPT ![t] = "swapOut"] /\ active' = active /\ idling' = idling
    BY DEF Finish, Goto
  <2>2. /\ active' = active + One("swapOut", ActivePc) - One(pc[t], ActivePc)
        /\ idling' = idling + One("swapOut", IdlePc) - One(pc[t], IdlePc)
    BY <1>a, <2>1 DEF ActivePc, IdlePc, One
  <2> QED
    BY <1>b, <2>1, <2>2, MoveKeepsCounters
<1>32. CASE \E f \in Fibers : Wake(f)
  BY <1>32, SameKeepsCounters DEF Wake
<1>33. CASE \E f \in Fibers : AbortDestroy(f)
  BY <1>33, NoneKeepsCounters DEF AbortDestroy, Abort, ActivePc
<1>34. CASE UNCHANGED vars
  BY <1>34, SameKeepsCounters DEF vars
<1>35. CASE \E t \in Runners : ResumeEmpty(t)
  <2> PICK t \in Runners : ResumeEmpty(t)
    BY <1>35
  <2>1. pc[t] = "took" /\ pc' = [pc EXCEPT ![t] = "swapOut"] /\ active' = active /\ idling' = idling
    BY DEF ResumeEmpty, Goto, TookFiber
  <2>2. /\ active' = active + One("swapOut", ActivePc) - One(pc[t], ActivePc)
        /\ idling' = idling + One("swapOut", IdlePc) - One(pc[t], IdlePc)
    BY <1>a, <2>1 DEF ActivePc, IdlePc, One
  <2> QED
    BY <1>b, <2>1, <2>2, MoveKeepsCounters
<1> QED
  BY <1>1, <1>2, <1>3, <1>4, <1>5, <1>6, <1>7, <1>8, <1>9, <1>10, <1>11, <1>12, <1>13, <1>14, <1>15, <1>16, <1>17, <1>18, <1>19, <1>20, <1>21, <1>22, <1>23, <1>24, <1>25, <1>26, <1>27, <1>28, <1>29, <1>30, <1>31, <1>32, <1>33, <1>34, <1>35 DEF Next, RunStep, JobStep, StopStep, Halted

\* m_activeThreadCount and m_idleThreadCount never drift from the number of
\* threads that run a task and that idle, on any path through run().
THEOREM CountersCorrect == Spec => []CountersMatch
<1>1. Init => CountersMatch
  <2> SUFFICES ASSUME Init PROVE CountersMatch
    OBVIOUS
  <2>1. {t \in Runners : pc[t] \in ActivePc} = {} /\ {t \in Runners : pc[t] \in {"idle", "idleOut"}} = {}
    BY DEF Init, ActivePc
  <2> QED
    BY <2>1, FS_EmptySet DEF Init, CountersMatch
<1>2. TypeInv /\ [Next]_vars => TypeInv'
  BY TypeInvStep
<1>3. TypeInv /\ CountersMatch /\ [Next]_vars => CountersMatch'
  BY CountersStep
<1> QED
  BY <1>1, <1>2, <1>3, TypeInvInit, PTL DEF Spec

-----------------------------------------------------------------------------
(* Each job runs once, on a thread it may run on, whatever its fibers do.  *)

\* The pcs at which the job itself is executing, and those at which t has a
\* current fiber.
InTask == {"exec", "armed"}
OnFiber == StackPc \cup PostPc \cup {"returned"}

\* The function of f has been entered, or there is none.
Begun(f) == mState[f] # "INIT" \/ mCb[f] = NoJob

\* The function of f has yet to return.
Live(f) == mCb[f] \in Jobs /\ phase[mCb[f]] = "submitted"

\* A task is a fiber or a callback, never both, never neither.
OneOf(e) == e.fiber = NoFiber <=> e.cb # NoJob

Shapes ==
    /\ \A i \in DOMAIN queue : OneOf(queue[i])
    /\ \A t \in Runners : pc[t] = "took" => OneOf(ft[t])

\* A job is in one place only: a callback in the list, ...
Queued ==
    \A i \in DOMAIN queue, j \in Jobs : queue[i].cb = j =>
        /\ phase[j] = "submitted" /\ ran[j] = 0 /\ queue[i].thread = pinOf[j]
        /\ \A k \in DOMAIN queue : queue[k].cb = j => k = i
        /\ \A t \in Runners : pc[t] = "took" => ft[t].cb # j
        /\ \A f \in Fibers : mCb[f] # j

\* ... a callback a thread has just taken, ...
Taken ==
    \A t \in Runners, j \in Jobs : pc[t] = "took" /\ ft[t].cb = j =>
        /\ phase[j] = "submitted" /\ ran[j] = 0 /\ pinOf[j] \in {AnyThread, t}
        /\ \A u \in Runners : pc[u] = "took" /\ ft[u].cb = j => u = t
        /\ \A f \in Fibers : mCb[f] # j

\* ... or the function of one fiber, which was entered when the fiber began.
Bound ==
    \A f \in Fibers, j \in Jobs : mCb[f] = j =>
        /\ phase[j] \in {"submitted", "done"}
        /\ phase[j] = "submitted" => ran[j] = IF mState[f] = "INIT" THEN 0 ELSE 1
        /\ \A g \in Fibers : mCb[g] = j => g = f

Counts ==
    \A j \in Jobs : /\ ran[j] <= 1
                    /\ phase[j] = "new" => ran[j] = 0
                    /\ phase[j] = "done" => ran[j] = 1

\* Two threads are never on one stack, and a thread executes a job that has
\* not finished.
Stacks ==
    /\ \A t, u \in Runners :
          pc[t] \in StackPc /\ pc[u] \in StackPc /\ Current(t) = Current(u) => t = u
    /\ \A t \in Runners : pc[t] \in InTask => Live(Current(t))

\* A fiber that a thread has been on, keeps for callbacks, or that waits for
\* a wakeup has begun: only a fiber in the list can be fresh.
Begins ==
    /\ \A t \in Runners : cbFiber[t] # NoFiber => Begun(cbFiber[t])
    /\ \A t \in Runners : pc[t] \in OnFiber => Begun(Current(t))
    /\ \A f \in held : Begun(f)

\* The task of a fresh fiber carries the pin of its job.
PinsKept ==
    /\ \A i \in DOMAIN queue, f \in Fibers :
          queue[i].fiber = f /\ ~Begun(f) => queue[i].thread = pinOf[mCb[f]]
    /\ \A t \in Runners, f \in Fibers :
          pc[t] = "took" /\ ft[t].fiber = f /\ ~Begun(f) => pinOf[mCb[f]] \in {AnyThread, t}

JobInv ==
    Shapes /\ Queued /\ Taken /\ Bound /\ Counts /\ Stacks /\ Begins /\ PinsKept

\* What a fiber entry appended to the list looks like to the invariant.
LEMMA EntriesAfterAppend ==
    ASSUME TypeOK, NEW e \in Entry, queue' = Append(queue, e)
    PROVE  /\ DOMAIN queue' = DOMAIN queue \cup {Len(queue) + 1}
           /\ Len(queue) + 1 \notin DOMAIN queue
           /\ \A i \in DOMAIN queue : queue'[i] = queue[i]
           /\ queue'[Len(queue) + 1] = e
  BY AppendElements DEF TypeOK

\* Most steps move threads between pcs, let fibers that have begun change
\* their state, release references, or append a task for a begun fiber.
Calm ==
    /\ UNCHANGED <<mCb, phase, ran, pinOf>>
    /\ \A f \in Fibers : \/ mState'[f] = mState[f]
                         \/ mState'[f] # "INIT" /\ (mState[f] # "INIT" \/ ~Live(f))
    /\ \A t \in Runners :
          /\ pc'[t] = "took" => pc[t] = "took"
          /\ pc'[t] \in InTask => pc[t] \in InTask
          /\ pc'[t] \in StackPc => pc[t] \in StackPc
          /\ pc'[t] \in OnFiber => pc[t] \in OnFiber
          /\ pc'[t] \in {"took"} \cup OnFiber => ft'[t] = ft[t] /\ cbFiber'[t] = cbFiber[t]
          /\ cbFiber'[t] \in {cbFiber[t], NoFiber}
    /\ \A f \in held' : Begun(f)
    /\ \/ queue' = queue
       \/ \E f \in Fibers : Begun(f) /\ queue' = Append(queue, FiberEntry(f, AnyThread))

LEMMA CalmKeepsJobs ==
    ASSUME TypeInv, TypeInv', JobInv, Calm
    PROVE  JobInv'
<1> USE DEF JobInv, Calm
<1>a. TypeOK /\ NoFiber \notin Fibers /\ NoJob \notin Jobs
  BY SchedulerAssumption DEF TypeInv
<1>b. \A f \in Fibers : Begun(f) => Begun(f)'
  BY DEF Begun
<1>c. \A t \in Runners : pc'[t] \in OnFiber => Current(t)' = Current(t)
  BY DEF Current
<1>f. \A t \in Runners : pc[t] \in OnFiber => Current(t) \in Fibers
  BY <1>a, CurrentType DEF TypeInv, HasFiber, OnFiber
<1>q. \A i \in DOMAIN queue' :
         \/ i \in DOMAIN queue /\ queue'[i] = queue[i]
         \/ /\ queue'[i].cb = NoJob /\ queue'[i].fiber \in Fibers /\ Begun(queue'[i].fiber)
  <2>1. CASE queue' = queue
    BY <2>1
  <2>2. CASE \E f \in Fibers : Begun(f) /\ queue' = Append(queue, FiberEntry(f, AnyThread))
    <3> PICK f \in Fibers : Begun(f) /\ queue' = Append(queue, FiberEntry(f, AnyThread))
      BY <2>2
    <3>1. FiberEntry(f, AnyThread) \in Entry
      BY EntryTypes
    <3>2. FiberEntry(f, AnyThread).cb = NoJob /\ FiberEntry(f, AnyThread).fiber = f
      BY DEF FiberEntry
    <3> QED
      BY <1>a, <3>1, <3>2, EntriesAfterAppend
  <2> QED
    BY <2>1, <2>2
<1>1. Shapes'
  BY <1>a, <1>q DEF Shapes, OneOf
<1>2. Queued'
  BY <1>a, <1>q DEF Queued
<1>3. Taken'
  BY <1>a DEF Taken
<1>4. Bound'
  BY <1>a DEF Bound, Live
<1>5. Counts'
  BY DEF Counts
<1>6. Stacks'
  BY <1>c DEF Stacks, Live, OnFiber, InTask, StackPc
<1>7. Begins'
  <2>1. \A t \in Runners : cbFiber'[t] # NoFiber => Begun(cbFiber[t])' /\ cbFiber'[t] = cbFiber[t]
    BY <1>a, <1>b DEF Begins, TypeOK
  <2>2. \A t \in Runners : pc'[t] \in OnFiber => Begun(Current(t))'
    BY <1>b, <1>c, <1>f DEF Begins
  <2>3. \A f \in held' : Begun(f)'
    BY <1>b DEF TypeInv, TypeOK
  <2> QED
    BY <2>1, <2>2, <2>3 DEF Begins
<1>8. PinsKept'
  BY <1>b, <1>q DEF PinsKept
<1> QED
  BY <1>1, <1>2, <1>3, <1>4, <1>5, <1>6, <1>7, <1>8

LEMMA ScheduleJobKeepsJobs ==
    ASSUME TypeInv, TypeInv', JobInv, UNCHANGED pc,
           NEW j \in Jobs, NEW p \in Runners \cup {AnyThread}, ScheduleJob(j, p)
    PROVE  JobInv'
<1> USE DEF JobInv
<1>a. TypeOK /\ NoFiber \notin Fibers /\ NoJob \notin Jobs
  BY SchedulerAssumption DEF TypeInv
<1>b. /\ phase[j] = "new" /\ phase' = [phase EXCEPT ![j] = "submitted"]
      /\ pinOf' = [pinOf EXCEPT ![j] = p] /\ UNCHANGED <<ran, pc, ft, cbFiber, held>>
  BY DEF ScheduleJob, threadVars
<1>c. /\ phase'[j] = "submitted" /\ pinOf'[j] = p
      /\ \A k \in Jobs \ {j} : phase'[k] = phase[k] /\ pinOf'[k] = pinOf[k]
  BY <1>a, <1>b DEF TypeOK
<1>n. /\ \A i \in DOMAIN queue : queue[i].cb # j
      /\ \A t \in Runners : pc[t] = "took" => ft[t].cb # j
      /\ \A f \in Fibers : mCb[f] # j
  BY <1>b DEF Queued, Taken, Bound
<1>t. \A t \in Runners : Current(t)' = Current(t)
  BY <1>b DEF Current
<1>1. CASE Enqueue(CbEntry(j, p)) /\ UNCHANGED <<mState, mCb>>
  <2>e. CbEntry(j, p) \in Entry
    BY EntryTypes
  <2>v. CbEntry(j, p).fiber = NoFiber /\ CbEntry(j, p).cb = j /\ CbEntry(j, p).thread = p
    BY DEF CbEntry
  <2>q. /\ DOMAIN queue' = DOMAIN queue \cup {Len(queue) + 1}
        /\ Len(queue) + 1 \notin DOMAIN queue
        /\ \A i \in DOMAIN queue : queue'[i] = queue[i]
        /\ queue'[Len(queue) + 1] = CbEntry(j, p)
    BY <1>a, <1>1, <2>e, EntriesAfterAppend DEF Enqueue
  <2>b. \A f \in Fibers : Begun(f)' <=> Begun(f)
    BY <1>1 DEF Begun
  <2>1. Shapes'
    BY <1>a, <1>b, <2>q, <2>v DEF Shapes, OneOf
  <2>2. Queued'
    BY <1>a, <1>b, <1>c, <1>n, <1>1, <2>q, <2>v DEF Queued, Counts
  <2>3. Taken'
    BY <1>b, <1>c, <1>n, <1>1 DEF Taken
  <2>4. Bound'
    BY <1>b, <1>c, <1>n, <1>1 DEF Bound
  <2>5. Counts'
    BY <1>b, <1>c DEF Counts
  <2>6. Stacks'
    BY <1>a, <1>b, <1>c, <1>t, <1>1 DEF Stacks, Live
  <2>7. Begins'
    BY <1>b, <1>t, <1>1 DEF Begins, Begun
  <2>8. PinsKept'
    <3>1. \A f \in Fibers : ~Begun(f) => mCb[f] \in Jobs \ {j}
      BY <1>a, <1>n DEF Begun, TypeOK
    <3>2. \A f \in Fibers : ~Begun(f) => pinOf'[mCb'[f]] = pinOf[mCb[f]]
      BY <1>c, <1>1, <3>1
    <3> QED
      BY <1>a, <1>b, <2>b, <2>q, <2>v, <3>2 DEF PinsKept
  <2> QED
    BY <2>1, <2>2, <2>3, <2>4, <2>5, <2>6, <2>7, <2>8
<1>2. CASE \E f \in Fibers : /\ Free(f) /\ mState' = [mState EXCEPT ![f] = "INIT"]
                             /\ mCb' = [mCb EXCEPT ![f] = j] /\ Enqueue(FiberEntry(f, p))
  <2> PICK f \in Fibers : /\ Free(f) /\ mState' = [mState EXCEPT ![f] = "INIT"]
                          /\ mCb' = [mCb EXCEPT ![f] = j] /\ Enqueue(FiberEntry(f, p))
    BY <1>2
  <2>m. /\ mState'[f] = "INIT" /\ mCb'[f] = j
        /\ \A g \in Fibers \ {f} : mState'[g] = mState[g] /\ mCb'[g] = mCb[g]
    BY <1>a DEF TypeOK
  <2>e. FiberEntry(f, p) \in Entry
    BY EntryTypes
  <2>v. FiberEntry(f, p).fiber = f /\ FiberEntry(f, p).cb = NoJob /\ FiberEntry(f, p).thread = p
    BY DEF FiberEntry
  <2>q. /\ DOMAIN queue' = DOMAIN queue \cup {Len(queue) + 1}
        /\ Len(queue) + 1 \notin DOMAIN queue
        /\ \A i \in DOMAIN queue : queue'[i] = queue[i]
        /\ queue'[Len(queue) + 1] = FiberEntry(f, p)
    BY <1>a, <2>e, EntriesAfterAppend DEF Enqueue
  <2>o. /\ f \notin held /\ \A i \in DOMAIN queue : queue[i].fiber # f
        /\ \A t \in Runners : ft[t].fiber # f /\ cbFiber[t] # f /\ Current(t) # f
    BY DEF Free, Referenced, Owned, Current
  <2>b. \A g \in Fibers \ {f} : Begun(g)' <=> Begun(g)
    BY <2>m DEF Begun
  <2>c. \A t \in Runners : Current(t) \in Fibers \cup {NoFiber} /\ cbFiber[t] \in Fibers \cup {NoFiber}
    BY <1>a, CurrentType
  <2>d. \A t \in Runners : pc[t] \in OnFiber => Current(t) \in Fibers \ {f}
    BY <2>c, <2>o DEF TypeInv, HasFiber, OnFiber
  <2>1. Shapes'
    BY <1>a, <1>b, <2>q, <2>v DEF Shapes, OneOf
  <2>2. Queued'
    BY <1>a, <1>b, <1>c, <1>n, <2>m, <2>q, <2>v DEF Queued
  <2>3. Taken'
    BY <1>b, <1>c, <1>n, <2>m DEF Taken
  <2>4. Bound'
    BY <1>b, <1>c, <1>n, <2>m DEF Bound, Counts
  <2>5. Counts'
    BY <1>b, <1>c DEF Counts
  <2>6. Stacks'
    <3>1. \A t \in Runners : pc[t] \in InTask => Live(Current(t))'
      BY <1>c, <1>t, <2>d, <2>m DEF Stacks, Live, InTask, OnFiber, StackPc
    <3> QED
      BY <1>b, <1>t, <3>1 DEF Stacks
  <2>7. Begins'
    <3>1. \A t \in Runners : pc[t] \in OnFiber => Begun(Current(t))'
      BY <1>t, <2>b, <2>d DEF Begins
    <3> QED
      BY <1>a, <1>b, <2>b, <2>c, <2>o, <3>1 DEF Begins, TypeOK
  <2>8. PinsKept'
    <3>1. \A g \in Fibers \ {f} : ~Begun(g) => mCb[g] \in Jobs \ {j}
      BY <1>a, <1>n DEF Begun, TypeOK
    <3>2. \A g \in Fibers \ {f} : ~Begun(g) => pinOf'[mCb'[g]] = pinOf[mCb[g]]
      BY <1>c, <2>m, <3>1
    <3>3. pinOf'[mCb'[f]] = p
      BY <1>c, <2>m
    <3>4. \A i \in DOMAIN queue', g \in Fibers :
             queue'[i].fiber = g /\ ~Begun(g)' => queue'[i].thread = pinOf'[mCb'[g]]
      BY <2>b, <2>o, <2>q, <2>v, <3>2, <3>3 DEF PinsKept
    <3>5. \A t \in Runners, g \in Fibers :
             pc'[t] = "took" /\ ft'[t].fiber = g /\ ~Begun(g)' => pinOf'[mCb'[g]] \in {AnyThread, t}
      BY <1>b, <2>b, <2>o, <3>2 DEF PinsKept
    <3> QED
      BY <3>4, <3>5 DEF PinsKept
  <2> QED
    BY <2>1, <2>2, <2>3, <2>4, <2>5, <2>6, <2>7, <2>8
<1> QED
  BY <1>1, <1>2 DEF ScheduleJob

\* The scan moves a task from the list to a thread it may run on.
LEMMA ScanTakeKeepsJobs ==
    ASSUME TypeInv, TypeInv', JobInv, NEW t \in Runners, ScanTake(t)
    PROVE  JobInv'
<1> USE DEF JobInv
<1>a. TypeOK /\ TypeOK' /\ NoFiber \notin Fibers /\ NoJob \notin Jobs
  BY SchedulerAssumption DEF TypeInv
<1>b. UNCHANGED <<mState, mCb, held, cbFiber, phase, ran, pinOf>>
  BY DEF ScanTake, fiberVars, jobVars
<1>c. pc[t] = "scan" /\ pc'[t] = "took" /\ \A u \in Runners \ {t} : pc'[u] = pc[u]
  BY <1>a DEF ScanTake, Goto, TypeOK
<1> PICK i \in DOMAIN queue : /\ Eligible(t, queue[i])
                              /\ ft' = [ft EXCEPT ![t] = queue[i]] /\ queue' = RemoveAt(queue, i)
  BY DEF ScanTake
<1>d. /\ ft'[t] = queue[i] /\ queue[i].thread \in {AnyThread, t}
      /\ \A u \in Runners \ {t} : ft'[u] = ft[u]
  BY <1>a DEF TypeOK, Eligible
<1>q. \A k \in DOMAIN queue' : \E m \in DOMAIN queue : m # i /\ queue'[k] = queue[m]
  BY <1>a, RemoveAtElements DEF TypeOK
<1>k. \A k, l \in DOMAIN queue', j \in Jobs : queue'[k].cb = j /\ queue'[l].cb = j => k = l
  <2> SUFFICES ASSUME NEW k \in DOMAIN queue', NEW l \in DOMAIN queue', NEW j \in Jobs,
                      queue'[k].cb = j, queue'[l].cb = j
               PROVE  k = l
    OBVIOUS
  <2>1. Len(queue) \in Nat /\ DOMAIN queue = 1 .. Len(queue) /\ i \in 1 .. Len(queue)
    BY <1>a, LenProperties DEF TypeOK
  <2>2. /\ DOMAIN queue' = 1 .. Len(queue) - 1
        /\ \A m \in 1 .. Len(queue) - 1 : queue'[m] = IF m < i THEN queue[m] ELSE queue[m + 1]
    <3>1. /\ queue' \in Seq(Entry) /\ Len(queue') = Len(queue) - 1
          /\ \A m \in 1 .. Len(queue) - 1 :
                queue'[m] = IF m < i THEN queue[m] ELSE queue[m + 1]
      <4>1. queue \in Seq(Entry) /\ queue' = RemoveAt(queue, i)
        BY <1>a DEF TypeOK
      <4> QED
        BY <4>1, RemoveAtProperties
    <3> QED
      BY <3>1, LenProperties
  <2> DEFINE from(m) == IF m < i THEN m ELSE m + 1
  <2>3. \A m \in DOMAIN queue' : from(m) \in DOMAIN queue /\ queue'[m] = queue[from(m)]
    BY <2>1, <2>2
  <2>4. from(k) = from(l)
    BY <2>3 DEF Queued
  <2> QED
    BY <2>1, <2>2, <2>4
<1>1. Shapes'
  BY <1>c, <1>d, <1>q DEF Shapes
<1>2. Queued'
  <2>1. \A k \in DOMAIN queue', j \in Jobs : queue'[k].cb = j => ft'[t].cb # j
    BY <1>d, <1>q DEF Queued
  <2>2. \A u \in Runners, k \in DOMAIN queue', j \in Jobs :
           queue'[k].cb = j /\ pc'[u] = "took" => ft'[u].cb # j
    BY <1>c, <1>d, <1>q, <2>1 DEF Queued
  <2> QED
    BY <1>b, <1>k, <1>q, <2>2 DEF Queued
<1>3. Taken'
  BY <1>b, <1>c, <1>d DEF Taken, Queued
<1>4. Bound'
  BY <1>b DEF Bound
<1>5. Counts'
  BY <1>b DEF Counts
<1>t. \A u \in Runners \ {t} : Current(u)' = Current(u)
  BY <1>b, <1>d DEF Current
<1>6. Stacks'
  BY <1>b, <1>c, <1>t DEF Stacks, Live, InTask, StackPc
<1>7. Begins'
  BY <1>b, <1>c, <1>t DEF Begins, Begun, OnFiber, StackPc, PostPc
<1>8. PinsKept'
  BY <1>b, <1>c, <1>d, <1>q DEF PinsKept, Begun
<1> QED
  BY <1>1, <1>2, <1>3, <1>4, <1>5, <1>6, <1>7, <1>8

\* A fiber is resumed: the job of a fresh one starts here, on its thread.
LEMMA ResumeKeepsJobs ==
    ASSUME TypeInv, TypeInv', JobInv, NEW t \in Runners, Resume(t)
    PROVE  JobInv'
<1> USE DEF JobInv
<1> DEFINE f == ft[t].fiber
<1>a. TypeOK /\ NoFiber \notin Fibers /\ NoJob \notin Jobs
  BY SchedulerAssumption DEF TypeInv
<1>b. UNCHANGED <<queue, mCb, held, ft, cbFiber, phase, pinOf>>
  BY DEF Resume, schedVars
<1>f. /\ f \in Fibers /\ Current(t) = f /\ mState[f] # "EXEC" /\ ~InUse(f)
      /\ mCb[f] \in Jobs /\ phase[mCb[f]] = "submitted"
  BY <1>a, CurrentType DEF Resume, TookFiber, Resumable, Ended, Current
<1>c. pc[t] = "took" /\ pc'[t] = "exec" /\ \A u \in Runners \ {t} : pc'[u] = pc[u]
  BY <1>a DEF Resume, TookFiber, SwapIn, Goto, TypeOK
<1>m. mState'[f] = "EXEC" /\ \A g \in Fibers \ {f} : mState'[g] = mState[g]
  BY <1>a, <1>f DEF Resume, SwapIn, TypeOK
<1>r. /\ ran' = IF mState[f] = "INIT" THEN [ran EXCEPT ![mCb[f]] = @ + 1] ELSE ran
      /\ ran \in [Jobs -> Nat]
  BY <1>a DEF Resume, SwapIn, TypeOK
<1>s. ran'[mCb[f]] = 1 /\ \A j \in Jobs : j # mCb[f] => ran'[j] = ran[j]
  BY <1>f, <1>r DEF Bound
<1> HIDE DEF f
<1>t. \A u \in Runners : Current(u)' = Current(u)
  BY <1>b DEF Current
<1>g. \A g \in Fibers : Begun(g) => Begun(g)'
  BY <1>b, <1>m DEF Begun
<1>n. ft[t].fiber = f
  BY DEF f
<1>1. Shapes'
  BY <1>b, <1>c DEF Shapes
<1>2. Queued'
  BY <1>b, <1>c, <1>f, <1>s DEF Queued
<1>3. Taken'
  BY <1>b, <1>c, <1>f, <1>s DEF Taken
<1>4. Bound'
  BY <1>b, <1>f, <1>m, <1>s DEF Bound
<1>5. Counts'
  BY <1>b, <1>f, <1>s DEF Counts
<1>6. Stacks'
  <2>1. \A u \in Runners : pc'[u] \in InTask => Live(Current(u))'
    BY <1>b, <1>c, <1>f, <1>t DEF Stacks, Live
  <2>2. \A u \in Runners \ {t} : pc'[u] \in StackPc => Current(u)' # Current(t)'
    BY <1>c, <1>f, <1>t DEF InUse, OnStack
  <2> QED
    BY <1>c, <1>t, <2>1, <2>2 DEF Stacks
<1>7. Begins'
  <2>1. \A u \in Runners \ {t} : pc'[u] \in OnFiber => Current(u)' \in Fibers /\ Begun(Current(u))'
    <3>1. \A u \in Runners : pc[u] \in OnFiber => Current(u) \in Fibers
      BY <1>a, CurrentType DEF TypeInv, HasFiber, OnFiber
    <3> QED
      BY <1>c, <1>g, <1>t, <3>1 DEF Begins
  <2>2. Begun(Current(t))'
    BY <1>f, <1>m, <1>t DEF Begun
  <2>3. \A u \in Runners : cbFiber'[u] # NoFiber => Begun(cbFiber[u])' /\ cbFiber'[u] = cbFiber[u]
    BY <1>a, <1>b, <1>g DEF Begins, TypeOK
  <2>4. \A g \in held' : Begun(g)'
    BY <1>a, <1>b, <1>g DEF Begins, TypeOK
  <2> QED
    BY <2>1, <2>2, <2>3, <2>4 DEF Begins
<1>8. PinsKept'
  BY <1>b, <1>c, <1>g DEF PinsKept
<1> QED
  BY <1>1, <1>2, <1>3, <1>4, <1>5, <1>6, <1>7, <1>8

LEMMA ResumeEmptyKeepsJobs ==
    ASSUME TypeInv, TypeInv', JobInv, NEW t \in Runners, ResumeEmpty(t)
    PROVE  JobInv'
<1> USE DEF JobInv
<1> DEFINE f == ft[t].fiber
<1>a. TypeOK /\ NoFiber \notin Fibers /\ NoJob \notin Jobs
  BY SchedulerAssumption DEF TypeInv
<1>b. UNCHANGED <<queue, mCb, held, ft, cbFiber, phase, ran, pinOf>>
  BY DEF ResumeEmpty, schedVars, jobVars
<1>f. f \in Fibers /\ Current(t) = f /\ mState[f] = "INIT" /\ ~InUse(f) /\ ~Live(f)
  BY <1>a, CurrentType DEF ResumeEmpty, TookFiber, Ended, Current, Live
<1>c. pc[t] = "took" /\ pc'[t] = "swapOut" /\ \A u \in Runners \ {t} : pc'[u] = pc[u]
  BY <1>a DEF ResumeEmpty, TookFiber, Goto, TypeOK
<1>m. mState'[f] = "EXCEPT" /\ \A g \in Fibers \ {f} : mState'[g] = mState[g]
  BY <1>a, <1>f DEF ResumeEmpty, TypeOK
<1> HIDE DEF f
<1>t. \A u \in Runners : Current(u)' = Current(u)
  BY <1>b DEF Current
<1>g. \A g \in Fibers : Begun(g) => Begun(g)'
  BY <1>b, <1>m DEF Begun
<1>1. Shapes'
  BY <1>b, <1>c DEF Shapes
<1>2. Queued'
  BY <1>b, <1>c DEF Queued
<1>3. Taken'
  BY <1>b, <1>c DEF Taken
<1>4. Bound'
  BY <1>b, <1>f, <1>m DEF Bound, Live
<1>5. Counts'
  BY <1>b DEF Counts
<1>6. Stacks'
  <2>1. \A u \in Runners : pc'[u] \in InTask => Live(Current(u))'
    BY <1>b, <1>c, <1>t DEF Stacks, Live, InTask
  <2>2. \A u \in Runners \ {t} : pc'[u] \in StackPc => Current(u)' # Current(t)'
    BY <1>c, <1>f, <1>t DEF InUse, OnStack
  <2> QED
    BY <1>c, <1>t, <2>1, <2>2 DEF Stacks
<1>7. Begins'
  <2>1. \A u \in Runners \ {t} : pc'[u] \in OnFiber => Current(u)' \in Fibers /\ Begun(Current(u))'
    <3>1. \A u \in Runners : pc[u] \in OnFiber => Current(u) \in Fibers
      BY <1>a, CurrentType DEF TypeInv, HasFiber, OnFiber
    <3> QED
      BY <1>c, <1>g, <1>t, <3>1 DEF Begins
  <2>2. Begun(Current(t))'
    BY <1>f, <1>m, <1>t DEF Begun
  <2>3. \A u \in Runners : cbFiber'[u] # NoFiber => Begun(cbFiber[u])' /\ cbFiber'[u] = cbFiber[u]
    BY <1>a, <1>b, <1>g DEF Begins, TypeOK
  <2>4. \A g \in held' : Begun(g)'
    BY <1>a, <1>b, <1>g DEF Begins, TypeOK
  <2> QED
    BY <2>1, <2>2, <2>3, <2>4 DEF Begins
<1>8. PinsKept'
  BY <1>b, <1>c, <1>g DEF PinsKept
<1> QED
  BY <1>1, <1>2, <1>3, <1>4, <1>5, <1>6, <1>7, <1>8

\* A callback moves from its thread to cb_fiber, and starts.
LEMMA RunCbKeepsJobs ==
    ASSUME TypeInv, TypeInv', JobInv, NEW t \in Runners, RunCb(t)
    PROVE  JobInv'
<1> USE DEF JobInv
<1> DEFINE j == ft[t].cb
<1>a. TypeOK /\ NoFiber \notin Fibers /\ NoJob \notin Jobs
  BY SchedulerAssumption DEF TypeInv
<1>b. UNCHANGED <<queue, held, phase, pinOf>> /\ ft' = [ft EXCEPT ![t] = NoEntry]
  BY DEF RunCb, schedVars
<1> PICK f \in Fibers :
          /\ IF cbFiber[t] = NoFiber THEN Free(f)
             ELSE f = cbFiber[t] /\ mState[f] \in Disposable /\ ~InUse(f)
          /\ cbFiber' = [cbFiber EXCEPT ![t] = f]
          /\ mCb' = [mCb EXCEPT ![f] = j]
          /\ SwapIn(t, f, j, TRUE)
  BY DEF RunCb
<1>j. pc[t] = "took" /\ ft[t].fiber = NoFiber /\ j \in Jobs
  BY <1>a, CurrentType DEF RunCb, Shapes, OneOf
<1>k. /\ phase[j] = "submitted" /\ ran[j] = 0 /\ pinOf[j] \in {AnyThread, t}
      /\ \A u \in Runners : pc[u] = "took" /\ ft[u].cb = j => u = t
      /\ \A g \in Fibers : mCb[g] # j
      /\ \A i \in DOMAIN queue : queue[i].cb # j
  BY <1>j DEF Taken, Queued
<1>c. pc'[t] = "exec" /\ \A u \in Runners \ {t} : pc'[u] = pc[u]
  BY <1>a DEF SwapIn, Goto, TypeOK
<1>m. /\ mState'[f] = "EXEC" /\ mCb'[f] = j
      /\ \A g \in Fibers \ {f} : mState'[g] = mState[g] /\ mCb'[g] = mCb[g]
  BY <1>a DEF SwapIn, TypeOK
<1>s. ran'[j] = 1 /\ \A k \in Jobs : k # j => ran'[k] = ran[k]
  BY <1>a, <1>j, <1>k DEF SwapIn, TypeOK
<1>v. /\ ft'[t] = NoEntry /\ cbFiber'[t] = f
      /\ \A u \in Runners \ {t} : ft'[u] = ft[u] /\ cbFiber'[u] = cbFiber[u]
  BY <1>a, <1>b DEF TypeOK
<1> HIDE DEF j
<1>t. Current(t)' = f /\ \A u \in Runners \ {t} : Current(u)' = Current(u)
  BY <1>v DEF Current, NoEntry
<1>g. \A g \in Fibers : Begun(g) => Begun(g)'
  BY <1>m DEF Begun
<1>u. \A u \in Runners \ {t} : pc[u] \in StackPc => Current(u) # f
  <2>1. CASE cbFiber[t] = NoFiber
    BY <2>1 DEF Free, Referenced, Owned, Current
  <2>2. CASE cbFiber[t] # NoFiber
    BY <2>2 DEF InUse, OnStack
  <2> QED
    BY <2>1, <2>2
<1>1. Shapes'
  BY <1>b, <1>c, <1>v DEF Shapes, OneOf
<1>2. Queued'
  <2>1. \A i \in DOMAIN queue, k \in Jobs : queue[i].cb = k =>
             k # j /\ (\A g \in Fibers : mCb'[g] # k) /\ ran'[k] = 0
    BY <1>k, <1>m, <1>s DEF Queued
  <2> QED
    BY <1>b, <1>c, <1>v, <2>1 DEF Queued
<1>3. Taken'
  <2>1. \A u \in Runners, k \in Jobs : pc'[u] = "took" /\ ft'[u].cb = k =>
             u # t /\ k # j /\ pc[u] = "took" /\ ft[u].cb = k
    BY <1>c, <1>k, <1>v
  <2> QED
    BY <1>b, <1>m, <1>s, <2>1 DEF Taken
<1>4. Bound'
  <2>1. \A k \in Jobs : mCb'[f] = k => k = j
    BY <1>m
  <2>2. \A g \in Fibers \ {f} : mCb'[g] # j
    BY <1>k, <1>m
  <2> QED
    BY <1>b, <1>k, <1>m, <1>s, <2>1, <2>2 DEF Bound
<1>5. Counts'
  BY <1>b, <1>k, <1>s DEF Counts
<1>6. Stacks'
  <2>1. \A u \in Runners \ {t} : pc[u] \in InTask => Live(Current(u)) /\ Current(u) \in Fibers \ {f}
    <3>1. \A u \in Runners : pc[u] \in InTask => Current(u) \in Fibers
      BY <1>a, CurrentType DEF TypeInv, HasFiber, InTask, StackPc
    <3> QED
      BY <1>u, <3>1 DEF Stacks, InTask, StackPc
  <2>2. \A u \in Runners : pc'[u] \in InTask => Live(Current(u))'
    BY <1>b, <1>c, <1>j, <1>k, <1>m, <1>t, <2>1 DEF Live
  <2> QED
    BY <1>c, <1>t, <1>u, <2>2 DEF Stacks
<1>7. Begins'
  <2>1. \A u \in Runners \ {t} : pc'[u] \in OnFiber => Current(u)' \in Fibers /\ Begun(Current(u))'
    <3>1. \A u \in Runners : pc[u] \in OnFiber => Current(u) \in Fibers
      BY <1>a, CurrentType DEF TypeInv, HasFiber, OnFiber
    <3> QED
      BY <1>c, <1>g, <1>t, <3>1 DEF Begins
  <2>2. Begun(Current(t))' /\ Begun(cbFiber[t])'
    BY <1>m, <1>t, <1>v DEF Begun
  <2>3. \A u \in Runners \ {t} : cbFiber'[u] # NoFiber => Begun(cbFiber[u])' /\ cbFiber'[u] = cbFiber[u]
    BY <1>a, <1>v, <1>g DEF Begins, TypeOK
  <2>4. \A g \in held' : Begun(g)'
    BY <1>a, <1>b, <1>g DEF Begins, TypeOK
  <2> QED
    BY <2>1, <2>2, <2>3, <2>4 DEF Begins
<1>8. PinsKept'
  BY <1>b, <1>c, <1>g, <1>m, <1>v DEF PinsKept, Begun
<1> QED
  BY <1>1, <1>2, <1>3, <1>4, <1>5, <1>6, <1>7, <1>8

\* The job returns or throws.
LEMMA FinishKeepsJobs ==
    ASSUME TypeInv, TypeInv', JobInv, NEW t \in Runners, NEW s \in Finished, Finish(t, s)
    PROVE  JobInv'
<1> USE DEF JobInv
<1> DEFINE f == Current(t)
           j == mCb[f]
<1>a. TypeOK /\ NoFiber \notin Fibers /\ NoJob \notin Jobs
  BY SchedulerAssumption DEF TypeInv
<1>b. UNCHANGED <<queue, held, ft, cbFiber, ran, pinOf>>
  BY DEF Finish, schedVars
<1>c. pc[t] = "exec" /\ pc'[t] = "swapOut" /\ \A u \in Runners \ {t} : pc'[u] = pc[u]
  BY <1>a DEF Finish, Goto, TypeOK
<1>f. f \in Fibers /\ j \in Jobs /\ phase[j] = "submitted" /\ mState[f] # "INIT"
  BY <1>a, <1>c, CurrentType DEF TypeInv, HasFiber, StackPc, Stacks, Live, InTask, Begins, Begun, OnFiber
<1>r. ran[j] = 1
  BY <1>f DEF Bound
<1>m. /\ mState'[f] = s /\ \A g \in Fibers \ {f} : mState'[g] = mState[g] /\ mCb'[g] = mCb[g]
      /\ mCb'[f] \in {j, NoJob}
  BY <1>a, <1>f DEF Finish, SetState, CurrentJob, TypeOK
<1>p. phase'[j] = "done" /\ \A k \in Jobs : k # j => phase'[k] = phase[k]
  BY <1>a, <1>f DEF Finish, CurrentJob, TypeOK
<1>k. /\ \A g \in Fibers : mCb[g] = j => g = f
      /\ \A i \in DOMAIN queue : queue[i].cb # j
      /\ \A u \in Runners : pc[u] = "took" => ft[u].cb # j
  BY <1>f DEF Bound, Queued, Taken
<1>i. s # "INIT"
  BY DEF Finished
<1>z. f = Current(t) /\ j = mCb[f]
  OBVIOUS
<1> HIDE DEF f, j
<1>t. \A u \in Runners : Current(u)' = Current(u)
  BY <1>b DEF Current
<1>g. \A g \in Fibers : Begun(g) => Begun(g)'
  BY <1>i, <1>m DEF Begun
<1>o. \A u \in Runners : pc[u] \in OnFiber => Current(u) \in Fibers
  BY <1>a, CurrentType DEF TypeInv, HasFiber, OnFiber
<1>1. Shapes'
  BY <1>b, <1>c DEF Shapes
<1>2. Queued'
  BY <1>a, <1>b, <1>c, <1>k, <1>m, <1>p, <1>z DEF Queued
<1>3. Taken'
  BY <1>a, <1>b, <1>c, <1>k, <1>m, <1>p, <1>z DEF Taken
<1>4. Bound'
  <2>1. \A g \in Fibers, k \in Jobs : mCb'[g] = k => mCb[g] = k
    BY <1>a, <1>m, <1>z
  <2>2. \A g \in Fibers, k \in Jobs : mCb'[g] = k /\ phase'[k] = "submitted" => g # f
    BY <1>a, <1>m, <1>p
  <2> QED
    BY <1>b, <1>m, <1>p, <2>1, <2>2 DEF Bound
<1>5. Counts'
  BY <1>b, <1>p, <1>r DEF Counts
<1>6. Stacks'
  <2>1. \A u \in Runners \ {t} : pc[u] \in InTask =>
             Current(u) \in Fibers \ {f} /\ Live(Current(u)) /\ mCb[Current(u)] # j
    BY <1>c, <1>k, <1>o, <1>z DEF Stacks, InTask, StackPc, OnFiber
  <2>2. \A u \in Runners : pc'[u] \in InTask => Live(Current(u))'
    BY <1>c, <1>m, <1>p, <1>t, <2>1 DEF Live, InTask
  <2>3. \A u \in Runners : pc'[u] \in StackPc => pc[u] \in StackPc
    BY <1>c DEF StackPc
  <2> QED
    BY <1>t, <2>2, <2>3 DEF Stacks
<1>7. Begins'
  <2>1. \A u \in Runners : pc'[u] \in OnFiber => Begun(Current(u))'
    <3>1. \A u \in Runners : pc'[u] \in OnFiber => pc[u] \in OnFiber
      BY <1>c DEF OnFiber, StackPc
    <3> QED
      BY <1>g, <1>o, <1>t, <3>1 DEF Begins
  <2>3. \A u \in Runners : cbFiber'[u] # NoFiber => Begun(cbFiber[u])' /\ cbFiber'[u] = cbFiber[u]
    BY <1>a, <1>b, <1>g DEF Begins, TypeOK
  <2>4. \A g \in held' : Begun(g)'
    BY <1>a, <1>b, <1>g DEF Begins, TypeOK
  <2> QED
    BY <2>1, <2>3, <2>4 DEF Begins
<1>8. PinsKept'
  BY <1>b, <1>c, <1>g, <1>i, <1>m DEF PinsKept, Begun
<1> QED
  BY <1>1, <1>2, <1>3, <1>4, <1>5, <1>6, <1>7, <1>8

\* cb_fiber is reset to be reused.
LEMMA ResetKeepsJobs ==
    ASSUME TypeInv, TypeInv', JobInv, NEW t \in Runners, PostFinished(t), ft[t].fiber = NoFiber
    PROVE  JobInv'
<1> USE DEF JobInv
<1> DEFINE f == cbFiber[t]
<1>a. TypeOK /\ NoFiber \notin Fibers /\ NoJob \notin Jobs
  BY SchedulerAssumption DEF TypeInv
<1>b. UNCHANGED <<queue, held, ft, cbFiber, phase, ran, pinOf>>
  BY DEF PostFinished, schedVars, jobVars
<1>c. pc[t] = "post" /\ pc'[t] = "scan" /\ \A u \in Runners \ {t} : pc'[u] = pc[u]
  BY <1>a DEF PostFinished, Goto, TypeOK
<1>f. f \in Fibers /\ Current(t) = f /\ ~InUse(f)
  BY <1>a, <1>c, CurrentType DEF PostFinished, TypeInv, HasFiber, PostPc, Current
<1>m. /\ mState'[f] = "INIT" /\ mCb'[f] = NoJob
      /\ \A g \in Fibers \ {f} : mState'[g] = mState[g] /\ mCb'[g] = mCb[g]
  BY <1>a, <1>f DEF PostFinished, SetState, TypeOK
<1> HIDE DEF f
<1>t. \A u \in Runners : Current(u)' = Current(u)
  BY <1>b DEF Current
<1>g. \A g \in Fibers : Begun(g) => Begun(g)'
  BY <1>m DEF Begun
<1>o. \A u \in Runners : pc[u] \in OnFiber => Current(u) \in Fibers
  BY <1>a, CurrentType DEF TypeInv, HasFiber, OnFiber
<1>p. \A u \in Runners : /\ pc'[u] = "took" => pc[u] = "took"
                         /\ pc'[u] \in InTask => pc[u] \in InTask
                         /\ pc'[u] \in StackPc => pc[u] \in StackPc
                         /\ pc'[u] \in OnFiber => pc[u] \in OnFiber
  BY <1>c DEF OnFiber, StackPc, PostPc, InTask
<1>1. Shapes'
  BY <1>b, <1>p DEF Shapes
<1>2. Queued'
  BY <1>a, <1>b, <1>p, <1>m DEF Queued
<1>3. Taken'
  BY <1>a, <1>b, <1>p, <1>m DEF Taken
<1>4. Bound'
  BY <1>a, <1>b, <1>m DEF Bound
<1>5. Counts'
  BY <1>b DEF Counts
<1>6. Stacks'
  <2>1. \A u \in Runners : pc[u] \in InTask => Current(u) \in Fibers \ {f}
    BY <1>f, <1>o DEF InUse, OnStack, InTask, StackPc, OnFiber
  <2>2. \A u \in Runners : pc'[u] \in InTask => Live(Current(u))'
    BY <1>b, <1>m, <1>p, <1>t, <2>1 DEF Live, Stacks
  <2> QED
    BY <1>p, <1>t, <2>2 DEF Stacks
<1>7. Begins'
  <2>1. \A u \in Runners : pc'[u] \in OnFiber => Begun(Current(u))'
    BY <1>g, <1>o, <1>p, <1>t DEF Begins
  <2>3. \A u \in Runners : cbFiber'[u] # NoFiber => Begun(cbFiber[u])' /\ cbFiber'[u] = cbFiber[u]
    BY <1>a, <1>b, <1>g DEF Begins, TypeOK
  <2>4. \A g \in held' : Begun(g)'
    BY <1>a, <1>b, <1>g DEF Begins, TypeOK
  <2> QED
    BY <2>1, <2>3, <2>4 DEF Begins
<1>8. PinsKept'
  BY <1>b, <1>p, <1>g, <1>m DEF PinsKept, Begun
<1> QED
  BY <1>1, <1>2, <1>3, <1>4, <1>5, <1>6, <1>7, <1>8

\* An assertion that fails ends every thread and forgets every wakeup.
LEMMA AbortKeepsJobs ==
    ASSUME TypeInv, TypeInv', JobInv, NEW why, Abort(why)
    PROVE  JobInv'
<1>1. TypeOK
  BY DEF TypeInv
<1>2. Calm
  BY <1>1 DEF Abort, Calm, jobVars, InTask, OnFiber, StackPc, PostPc, TypeOK
<1> QED
  BY <1>2, CalmKeepsJobs

\* A thread moves from one pc to another and touches nothing else of a job.
LEMMA MoveKeepsJobs ==
    ASSUME TypeInv, TypeInv', JobInv,
           UNCHANGED <<queue, mState, mCb, held, ft, cbFiber, phase, ran, pinOf>>,
           \A t \in Runners : /\ pc'[t] = "took" => pc[t] = "took"
                              /\ pc'[t] \in InTask => pc[t] \in InTask
                              /\ pc'[t] \in StackPc => pc[t] \in StackPc
                              /\ pc'[t] \in OnFiber => pc[t] \in OnFiber
    PROVE  JobInv'
<1>1. Calm
  BY DEF Calm, JobInv, Begins
<1> QED
  BY <1>1, CalmKeepsJobs

LEMMA JobInvStep ==
    ASSUME TypeInv, TypeInv', JobInv, [Next]_vars
    PROVE  JobInv'
<1> USE DEF schedVars, fiberVars, threadVars, jobVars
<1>a. TypeOK /\ NoFiber \notin Fibers /\ NoJob \notin Jobs
  BY SchedulerAssumption DEF TypeInv
<1>o. \A u \in Runners : pc[u] \in OnFiber => Current(u) \in Fibers
  BY <1>a, CurrentType DEF TypeInv, HasFiber, OnFiber
<1>h. \A f \in held : Begun(f) /\ f \in Fibers
  BY <1>a DEF JobInv, Begins, TypeOK
<1>k. \A u \in Runners : pc[u] \in OnFiber => Begun(Current(u)) /\ Current(u) \in Fibers
  BY <1>o DEF JobInv, Begins
<1>1. CASE \E j \in Jobs, p \in Pins : Submit(j, p)
  <2> PICK j \in Jobs, p \in Pins : Submit(j, p)
    BY <1>1
  <2>1. p \in Runners \cup {AnyThread} /\ ScheduleJob(j, p) /\ UNCHANGED pc
    BY SchedulerAssumption DEF Submit, ScheduleJob
  <2> QED
    BY <2>1, ScheduleJobKeepsJobs
<1>2. CASE \E t \in Runners, j \in Jobs, p \in SpawnPins : Spawn(t, j, p)
  <2> PICK t \in Runners, j \in Jobs, p \in SpawnPins : Spawn(t, j, p)
    BY <1>2
  <2>1. p \in Runners \cup {AnyThread} /\ ScheduleJob(j, p) /\ UNCHANGED pc
    BY SchedulerAssumption DEF Spawn, ScheduleJob
  <2> QED
    BY <2>1, ScheduleJobKeepsJobs
<1>3. CASE Start
  BY <1>3, MoveKeepsJobs DEF Start, InTask, OnFiber, StackPc, PostPc
<1>4. CASE StopStep
  <2>1. UNCHANGED <<queue, mState, mCb, held, ft, cbFiber, phase, ran, pinOf>>
    BY <1>4 DEF StopStep, StopBegin, StopCheck, StopCalled, StopJoin
  <2>2. \A t \in Runners : pc'[t] = pc[t] \/ pc'[t] = "scan"
    BY <1>4 DEF StopStep, StopBegin, StopCheck, StopCalled, StopJoin
  <2> QED
    BY <2>1, <2>2, MoveKeepsJobs DEF InTask, OnFiber, StackPc, PostPc
<1>5. CASE \E t \in Runners : ScanNone(t) \/ Exit(t) \/ IdleIn(t) \/ Idle(t) \/ IdleOut(t)
  <2> PICK t \in Runners : ScanNone(t) \/ Exit(t) \/ IdleIn(t) \/ Idle(t) \/ IdleOut(t)
    BY <1>5
  <2>1. UNCHANGED <<queue, mState, mCb, held, ft, cbFiber, phase, ran, pinOf>>
    BY DEF ScanNone, Exit, IdleIn, Idle, IdleOut
  <2>2. \E l \in {"noTask", "exit", "idle", "idleOut", "scan"} : pc' = [pc EXCEPT ![t] = l]
    BY DEF ScanNone, Exit, IdleIn, Idle, IdleOut, Goto
  <2> QED
    BY <2>1, <2>2, MoveKeepsJobs DEF InTask, OnFiber, StackPc, PostPc
<1>6. CASE \E t \in Runners : SwapOut(t) \/ Returned(t) \/ PostUnfinished(t)
  <2> PICK t \in Runners : SwapOut(t) \/ Returned(t) \/ PostUnfinished(t)
    BY <1>6
  <2>1. UNCHANGED <<queue, mState, mCb, held, ft, cbFiber, phase, ran, pinOf>>
    BY DEF SwapOut, Returned, PostUnfinished
  <2>2. /\ pc[t] \in OnFiber
        /\ \E l \in {"returned", "post", "resched", "setHold"} : pc' = [pc EXCEPT ![t] = l]
    BY DEF SwapOut, Returned, PostUnfinished, Goto, OnFiber, StackPc, PostPc
  <2> QED
    BY <2>1, <2>2, MoveKeepsJobs DEF InTask, StackPc
<1>7. CASE \E t \in Runners : ScanTake(t)
  BY <1>7, ScanTakeKeepsJobs
<1>8. CASE \E t \in Runners : Resume(t) \/ ResumeEmpty(t) \/ RunCb(t)
  BY <1>8, ResumeKeepsJobs, ResumeEmptyKeepsJobs, RunCbKeepsJobs
<1>9. CASE \E t \in Runners : AbortSwapIn(t) \/ AbortStack(t) \/ AbortEnded(t) \/ AbortYield(t)
                              \/ AbortReset(t)
  BY <1>9, AbortKeepsJobs DEF AbortSwapIn, AbortStack, AbortEnded, AbortYield, AbortReset
<1>10. CASE \E f \in Fibers : AbortDestroy(f)
  BY <1>10, AbortKeepsJobs DEF AbortDestroy
<1>11. CASE \E t \in Runners : DropFinished(t)
  <2> PICK t \in Runners : DropFinished(t)
    BY <1>11
  <2>1. Calm
    BY <1>a, <1>h DEF DropFinished, TookFiber, Goto, Calm, TypeOK, InTask, OnFiber, StackPc, PostPc
  <2> QED
    BY <2>1, CalmKeepsJobs
<1>12. CASE \E t \in Runners : PostFinished(t)
  <2> PICK t \in Runners : PostFinished(t)
    BY <1>12
  <2>1. CASE ft[t].fiber = NoFiber
    BY <2>1, ResetKeepsJobs
  <2>2. CASE ft[t].fiber # NoFiber
    <3>1. Calm
      BY <1>a, <1>h, <2>2 DEF PostFinished, Goto, Calm, TypeOK, InTask, OnFiber, StackPc, PostPc
    <3> QED
      BY <3>1, CalmKeepsJobs
  <2> QED
    BY <2>1, <2>2
<1>13. CASE \E t \in Runners : Reschedule(t)
  <2> PICK t \in Runners : Reschedule(t)
    BY <1>13
  <2>1. Begun(Current(t)) /\ Current(t) \in Fibers
    BY <1>k DEF Reschedule, OnFiber, PostPc
  <2>2. /\ pc'[t] = "scan" /\ \A u \in Runners \ {t} : pc'[u] = pc[u]
        /\ \A u \in Runners \ {t} : ft'[u] = ft[u] /\ cbFiber'[u] = cbFiber[u]
        /\ cbFiber'[t] \in {cbFiber[t], NoFiber}
    BY <1>a DEF Reschedule, Goto, Release, TypeOK
  <2>3. /\ UNCHANGED <<mState, mCb, held, phase, ran, pinOf>>
        /\ queue' = Append(queue, FiberEntry(Current(t), AnyThread))
    BY DEF Reschedule, Enqueue
  <2>4. Calm
    BY <1>h, <2>1, <2>2, <2>3 DEF Calm, InTask, OnFiber, StackPc, PostPc
  <2> QED
    BY <2>4, CalmKeepsJobs
<1>14. CASE \E t \in Runners : SetHold(t)
  <2> PICK t \in Runners : SetHold(t)
    BY <1>14
  <2>1. Begun(Current(t)) /\ Current(t) \in Fibers
    BY <1>k DEF SetHold, OnFiber, PostPc
  <2>2. /\ pc'[t] = "scan" /\ \A u \in Runners \ {t} : pc'[u] = pc[u]
        /\ \A u \in Runners \ {t} : ft'[u] = ft[u] /\ cbFiber'[u] = cbFiber[u]
        /\ cbFiber'[t] \in {cbFiber[t], NoFiber}
    BY <1>a DEF SetHold, Goto, Release, TypeOK
  <2>3. UNCHANGED <<queue, mCb, held, phase, ran, pinOf>>
    BY DEF SetHold
  <2>4. \A f \in Fibers : mState'[f] = mState[f] \/ (mState'[f] # "INIT" /\ (mState[f] # "INIT" \/ ~Live(f)))
    BY <1>a, <2>1 DEF SetHold, SetState, Begun, Live, TypeOK
  <2>5. Calm
    BY <1>h, <2>2, <2>3, <2>4 DEF Calm, InTask, OnFiber, StackPc, PostPc
  <2> QED
    BY <2>5, CalmKeepsJobs
<1>15. CASE \E t \in Runners : YieldToReady(t) \/ YieldToHold(t)
  <2> PICK t \in Runners : YieldToReady(t) \/ YieldToHold(t)
    BY <1>15
  <2>1. pc[t] \in StackPc /\ mState[Current(t)] = "EXEC" /\ pc' = [pc EXCEPT ![t] = "swapOut"]
    BY DEF YieldToReady, YieldToHold, Goto, StackPc
  <2>2. UNCHANGED <<queue, mCb, held, ft, cbFiber, phase, ran, pinOf>>
    BY DEF YieldToReady, YieldToHold
  <2>3. \A f \in Fibers : mState'[f] = mState[f] \/ (mState'[f] # "INIT" /\ mState[f] # "INIT")
    BY <1>a, <2>1 DEF YieldToReady, YieldToHold, SetState, TypeOK
  <2>4. Calm
    BY <1>a, <1>h, <2>1, <2>2, <2>3 DEF Calm, TypeOK, InTask, OnFiber, StackPc, PostPc
  <2> QED
    BY <2>4, CalmKeepsJobs
<1>16. CASE \E t \in Runners : Arm(t)
  <2> PICK t \in Runners : Arm(t)
    BY <1>16
  <2>1. /\ pc[t] = "exec" /\ pc' = [pc EXCEPT ![t] = "armed"] /\ held' = held \cup {Current(t)}
        /\ UNCHANGED <<queue, mState, mCb, ft, cbFiber, phase, ran, pinOf>>
    BY DEF Arm, Goto
  <2>2. \A f \in held' : Begun(f)
    BY <1>h, <1>k, <2>1 DEF OnFiber, StackPc
  <2>3. Calm
    BY <1>a, <2>1, <2>2 DEF Calm, TypeOK, InTask, OnFiber, StackPc
  <2> QED
    BY <2>3, CalmKeepsJobs
<1>17. CASE \E t \in Runners, s \in Finished : Finish(t, s)
  BY <1>17, FinishKeepsJobs
<1>18. CASE \E f \in Fibers : Wake(f)
  <2> PICK f \in Fibers : Wake(f)
    BY <1>18
  <2>1. /\ f \in held /\ held' = held \ {f} /\ queue' = Append(queue, FiberEntry(f, AnyThread))
        /\ UNCHANGED <<mState, mCb, pc, ft, cbFiber, phase, ran, pinOf>>
    BY DEF Wake, Enqueue
  <2>2. Calm
    BY <1>h, <2>1 DEF Calm
  <2> QED
    BY <2>2, CalmKeepsJobs
<1>19. CASE UNCHANGED vars
  BY <1>19, MoveKeepsJobs DEF vars
<1> QED
  BY <1>1, <1>2, <1>3, <1>4, <1>5, <1>6, <1>7, <1>8, <1>9, <1>10, <1>11, <1>12, <1>13, <1>14,
     <1>15, <1>16, <1>17, <1>18, <1>19 DEF Next, RunStep, JobStep, Halted

LEMMA JobInvInit == Init => JobInv
<1> SUFFICES ASSUME Init PROVE JobInv
  OBVIOUS
<1>1. NoJob \notin Jobs
  BY SchedulerAssumption
<1>2. DOMAIN queue = {}
  BY DEF Init
<1> QED
  BY <1>1, <1>2 DEF Init, JobInv, Shapes, Queued, Taken, Bound, Counts, Stacks, Begins, PinsKept,
     StackPc, PostPc, OnFiber, InTask

LEMMA JobInvHolds == Spec => [](TypeInv /\ JobInv)
<1>1. TypeInv /\ JobInv /\ [Next]_vars => TypeInv' /\ JobInv'
  BY TypeInvStep, JobInvStep
<1> QED
  BY <1>1, TypeInvInit, JobInvInit, PTL DEF Spec

\* However threads race for a task, and also when fibers hold and are woken
\* early, run() enters the function of a job once, and a job that finished
\* was entered: a task leaves m_fibers with the thread that takes it, and a
\* fiber that has begun is never taken for a fresh one.
THEOREM RunsOnce == Spec => []JobOnce
<1>1. JobInv => JobOnce
  BY DEF JobInv, Counts, JobOnce
<1> QED
  BY <1>1, JobInvHolds, PTL

\* A job starts on a thread it may run on: the pin is compared when the task
\* is taken and travels with it, and only begun fibers lose it.
THEOREM PinnedStart == Spec => StartsOnPin
<1> DEFINE Starts == \A j \in Jobs : ran'[j] > ran[j] =>
                       \E t \in Runners :
                          pc[t] = "took" /\ pc'[t] = "exec" /\ pinOf[j] \in {AnyThread, t}
<1>1. ASSUME TypeInv, JobInv, [Next]_vars PROVE Starts
  <2>a. TypeOK /\ NoFiber \notin Fibers /\ NoJob \notin Jobs /\ \A j \in Jobs : ran[j] \in Nat
    BY <1>1, SchedulerAssumption DEF TypeInv, TypeOK
  <2>1. ASSUME NEW t \in Runners, Resume(t) PROVE Starts
    <3> DEFINE f == ft[t].fiber
    <3>1. f \in Fibers /\ mCb[f] \in Jobs /\ pc[t] = "took" /\ pc'[t] = "exec"
      BY <2>a, <2>1, CurrentType DEF Resume, TookFiber, SwapIn, Goto, Ended, TypeOK
    <3>2. ASSUME NEW j \in Jobs, ran'[j] > ran[j] PROVE mState[f] = "INIT" /\ j = mCb[f]
      BY <2>a, <2>1, <3>2 DEF Resume, SwapIn, TypeOK
    <3>3. mState[f] = "INIT" => pinOf[mCb[f]] \in {AnyThread, t}
      BY <1>1, <2>a, <3>1 DEF JobInv, PinsKept, Begun
    <3> QED
      BY <3>1, <3>2, <3>3
  <2>2. ASSUME NEW t \in Runners, RunCb(t) PROVE Starts
    <3>1. pc[t] = "took" /\ pc'[t] = "exec" /\ ft[t].cb \in Jobs
      BY <1>1, <2>a, <2>2, CurrentType DEF RunCb, SwapIn, Goto, TypeOK, JobInv, Shapes, OneOf
    <3>2. ASSUME NEW j \in Jobs, ran'[j] > ran[j] PROVE j = ft[t].cb
      BY <2>a, <2>2, <3>2 DEF RunCb, SwapIn, TypeOK
    <3>3. pinOf[ft[t].cb] \in {AnyThread, t}
      BY <1>1, <3>1 DEF JobInv, Taken
    <3> QED
      BY <3>1, <3>2, <3>3
  <2>3. CASE UNCHANGED ran
    BY <2>3, <2>a
  <2>4. \/ UNCHANGED ran
        \/ \E t \in Runners : Resume(t) \/ RunCb(t)
    BY <1>1 DEF Next, vars, jobVars, RunStep, JobStep, StopStep, Halted, Submit, Spawn, ScheduleJob,
       Start, StopBegin, StopCheck, StopCalled, StopJoin, ScanTake, ScanNone, DropFinished,
       ResumeEmpty, AbortSwapIn, AbortStack, AbortEnded, AbortYield, AbortReset, AbortDestroy, Abort,
       SwapOut, Returned, PostUnfinished, PostFinished, Reschedule, SetHold, Exit, IdleIn, Idle,
       IdleOut, YieldToReady, Arm, YieldToHold, Finish, Wake
  <2> QED
    BY <2>1, <2>2, <2>3, <2>4
<1>2. TypeInv /\ JobInv /\ [Next]_vars => [Starts]_vars
  BY <1>1
<1> QED
  BY <1>2, JobInvHolds, PTL DEF Spec, StartsOnPin

-----------------------------------------------------------------------------
(* Where no job holds, a fiber has one owner.  A job that calls            *)
(* YieldToHold() hands a reference of its own fiber to what will wake it,  *)
(* and the fiber then has two: the assertions of swapIn() and of the       *)
(* yields can fail, as TLC finds (YieldsFromExec).  ~MayHold is the        *)
(* condition under which the rest of this module shows that they cannot.   *)

\* A fiber entry, a thread's ft and a thread's cb_fiber never share a fiber.
OneOwner ==
    /\ \A i, k \in DOMAIN queue :
          queue[i].fiber # NoFiber /\ queue[i].fiber = queue[k].fiber => i = k
    /\ \A i \in DOMAIN queue, t \in Runners :
          queue[i].fiber # NoFiber => queue[i].fiber # ft[t].fiber /\ queue[i].fiber # cbFiber[t]
    /\ \A t, u \in Runners :
          ft[t].fiber # NoFiber =>
             ft[t].fiber # cbFiber[u] /\ (ft[t].fiber = ft[u].fiber => t = u)
    /\ \A t, u \in Runners : cbFiber[t] # NoFiber /\ cbFiber[t] = cbFiber[u] => t = u

\* A fiber that waits for a thread is fresh or READY, and has a job to run.
Waiting(f) == mState[f] \in {"INIT", "READY"} /\ Live(f)

QueuePlaces == \A i \in DOMAIN queue : queue[i].fiber # NoFiber => Waiting(queue[i].fiber)

\* The state of the fibers of thread t at every pc of run().
PlaceOf(t) ==
    /\ pc[t] \notin {"armed", "setHold"}
    /\ pc[t] = "took" /\ ft[t].fiber # NoFiber => Waiting(ft[t].fiber)
    /\ pc[t] = "exec" => mState[Current(t)] = "EXEC"
    /\ pc[t] \in {"swapOut", "returned", "post"} => mState[Current(t)] \in Finished \cup {"READY"}
    /\ pc[t] = "resched" => mState[Current(t)] = "READY"
    /\ pc[t] \notin OnFiber \cup {"took"} => ft[t].fiber = NoFiber
    /\ cbFiber[t] # NoFiber /\ ~(pc[t] \in OnFiber /\ ft[t].fiber = NoFiber) =>
          mState[cbFiber[t]] = "INIT" /\ mCb[cbFiber[t]] = NoJob

\* A fiber with an unfinished job has an owner, and only such a fiber is in
\* one of the states between the entry and the end of its function.
Kept == \A f \in Fibers : Live(f) => Owned(f) /\ mState[f] \notin Finished
Sound == \A f \in Fibers : mState[f] \in {"EXEC", "READY", "HOLD"} => Live(f)

\* An unfinished job is somewhere.
Somewhere ==
    \A j \in Jobs : phase[j] = "submitted" =>
        \/ \E i \in DOMAIN queue : queue[i].cb = j
        \/ \E t \in Runners : pc[t] = "took" /\ ft[t].cb = j
        \/ \E f \in Fibers : mCb[f] = j

OwnInv ==
    /\ failed = "no" /\ held = {}
    /\ OneOwner /\ QueuePlaces /\ \A t \in Runners : PlaceOf(t)
    /\ Kept /\ Sound /\ Somewhere

\* The fibers of a thread are in no other hands.
LEMMA OwnFibers ==
    ASSUME TypeInv, OneOwner, NEW t \in Runners
    PROVE  /\ pc[t] \in OnFiber => Current(t) \in Fibers
           /\ \A u \in Runners \ {t} : Current(t) # NoFiber =>
                 Current(t) # ft[u].fiber /\ Current(t) # cbFiber[u] /\ Current(t) # Current(u)
           /\ \A i \in DOMAIN queue : queue[i].fiber # NoFiber => queue[i].fiber # Current(t)
           /\ ft[t].fiber # NoFiber => Current(t) = ft[t].fiber /\ cbFiber[t] # Current(t)
           /\ ft[t].fiber = NoFiber => Current(t) = cbFiber[t]
<1>1. pc[t] \in OnFiber => Current(t) \in Fibers
  BY CurrentType DEF TypeInv, HasFiber, OnFiber
<1> QED
  BY <1>1 DEF OneOwner, Current

\* What a step on fiber f leaves alone.
LEMMA PlaceFrame ==
    ASSUME NEW t \in Runners, PlaceOf(t), NEW f,
           pc'[t] = pc[t], ft'[t] = ft[t], cbFiber'[t] = cbFiber[t],
           ft[t].fiber \in Fibers \cup {NoFiber}, cbFiber[t] \in Fibers \cup {NoFiber},
           ft[t].fiber # f, cbFiber[t] # f, pc[t] \in OnFiber => Current(t) \in Fibers,
           \A g \in Fibers \ {f} : mState'[g] = mState[g] /\ mCb'[g] = mCb[g] /\ (Live(g) => Live(g)')
    PROVE  PlaceOf(t)'
<1>1. Current(t)' = Current(t) /\ Current(t) # f
  BY DEF Current
<1>2. pc[t] \in OnFiber => mState'[Current(t)] = mState[Current(t)]
  BY <1>1
<1>3. pc[t] = "took" /\ ft[t].fiber # NoFiber => (Waiting(ft[t].fiber) => Waiting(ft[t].fiber)')
  BY DEF Waiting
<1> QED
  BY <1>1, <1>2, <1>3 DEF PlaceOf, OnFiber, StackPc, PostPc

\* The owner of g keeps it.
LEMMA OwnedStays ==
    ASSUME NEW g, g # NoFiber, Owned(g), held = {}, held' = {},
           \A i \in DOMAIN queue : queue[i].fiber = g =>
              \/ \E k \in DOMAIN queue' : queue'[k].fiber = g
              \/ \E t \in Runners : ft'[t].fiber = g,
           \A t \in Runners : ft[t].fiber = g \/ cbFiber[t] = g =>
              \/ ft'[t].fiber = g
              \/ cbFiber'[t] = g
              \/ \E k \in DOMAIN queue' : queue'[k].fiber = g
    PROVE  Owned(g)'
  BY DEF Owned

\* No assertion fails.
LEMMA NoAborts ==
    ASSUME TypeInv, OwnInv, NEW t \in Runners
    PROVE  /\ ~AbortSwapIn(t) /\ ~AbortStack(t) /\ ~AbortEnded(t) /\ ~AbortYield(t) /\ ~AbortReset(t)
           /\ ~DropFinished(t) /\ ~ResumeEmpty(t) /\ ~SetHold(t) /\ ~YieldToHold(t)
           /\ \A f \in Fibers : ~AbortDestroy(f)
<1> USE DEF OwnInv
<1>a. NoFiber \notin Fibers /\ NoJob \notin Jobs /\ TypeOK
  BY SchedulerAssumption DEF TypeInv
<1>b. \A u \in Runners : Current(u) \in Fibers \cup {NoFiber} /\ ft[u].fiber \in Fibers \cup {NoFiber}
                         /\ cbFiber[u] \in Fibers \cup {NoFiber}
  BY <1>a, CurrentType
<1>1. TookFiber(t) => /\ ft[t].fiber \in Fibers /\ Waiting(ft[t].fiber)
                      /\ ~InUse(ft[t].fiber) /\ ~Ended(ft[t].fiber)
  <2> SUFFICES ASSUME TookFiber(t)
               PROVE  /\ ft[t].fiber \in Fibers /\ Waiting(ft[t].fiber)
                      /\ ~InUse(ft[t].fiber) /\ ~Ended(ft[t].fiber)
    OBVIOUS
  <2>1. pc[t] = "took" /\ ft[t].fiber \in Fibers /\ Waiting(ft[t].fiber)
    BY <1>b DEF PlaceOf, TookFiber
  <2>2. ~InUse(ft[t].fiber)
    BY <1>a, <2>1, OwnFibers DEF InUse, OnStack, StackPc, Current
  <2> QED
    BY <2>1, <2>2 DEF Waiting, Live, Ended
<1>2. ~AbortSwapIn(t) /\ ~AbortStack(t) /\ ~AbortEnded(t) /\ ~DropFinished(t) /\ ~ResumeEmpty(t)
  BY <1>1 DEF AbortSwapIn, AbortStack, AbortEnded, DropFinished, ResumeEmpty, Waiting, Finished
<1>3. ~AbortYield(t) /\ ~SetHold(t) /\ ~YieldToHold(t)
  BY DEF AbortYield, SetHold, YieldToHold, PlaceOf
<1>4. ~AbortReset(t)
  <2> SUFFICES ASSUME ResetsCbFiber(t)
               PROVE  mState[cbFiber[t]] \in Disposable /\ ~InUse(cbFiber[t])
    BY DEF AbortReset
  <2>1. /\ ft[t].fiber = NoFiber /\ cbFiber[t] # NoFiber /\ Current(t) = cbFiber[t]
        /\ pc[t] = "took" \/ (pc[t] = "post" /\ mState[cbFiber[t]] \in Finished)
    BY DEF ResetsCbFiber, Current
  <2>2. mState[cbFiber[t]] \in Disposable
    BY <2>1 DEF PlaceOf, OnFiber, StackPc, PostPc, Disposable
  <2>3. ~InUse(cbFiber[t])
    BY <2>1, OwnFibers DEF InUse, OnStack, StackPc
  <2> QED
    BY <2>2, <2>3
<1>5. \A f \in Fibers : ~AbortDestroy(f)
  BY <1>a DEF AbortDestroy, Referenced, Kept, Sound, Disposable, Finished, TypeOK, FiberState
<1> QED
  BY <1>2, <1>3, <1>4, <1>5

\* A thread moves from one pc to another with what it holds.
LEMMA MoveKeepsOwner ==
    ASSUME TypeInv, OwnInv,
           UNCHANGED <<queue, mState, mCb, held, ft, cbFiber, phase, failed>>,
           \A t \in Runners :
              \/ pc'[t] = pc[t]
              \/ /\ pc[t] \notin OnFiber \cup {"took"}
                 /\ pc'[t] \in {"off", "scan", "noTask", "idle", "idleOut", "exit"}
              \/ pc[t] \in {"swapOut", "returned"} /\ pc'[t] \in {"returned", "post"}
              \/ pc[t] = "post" /\ pc'[t] = "resched" /\ mState[Current(t)] = "READY"
    PROVE  OwnInv'
<1> USE DEF OwnInv
<1>c. \A t \in Runners : Current(t)' = Current(t)
  BY DEF Current
<1>1. OneOwner' /\ QueuePlaces' /\ Sound'
  BY DEF OneOwner, QueuePlaces, Waiting, Live, Sound
<1>2. \A t \in Runners : PlaceOf(t)'
  <2> SUFFICES ASSUME NEW t \in Runners PROVE PlaceOf(t)'
    OBVIOUS
  <2> QED
    BY <1>c DEF PlaceOf, Waiting, Live, OnFiber, StackPc, PostPc
<1>3. Kept'
  BY DEF Kept, Owned, Live
<1>4. Somewhere'
  <2>1. \A t \in Runners : pc[t] = "took" => pc'[t] = "took"
    BY DEF OnFiber, StackPc, PostPc
  <2> QED
    BY <2>1 DEF Somewhere
<1> QED
  BY <1>1, <1>2, <1>3, <1>4

LEMMA ScheduleJobKeepsOwner ==
    ASSUME TypeInv, JobInv, OwnInv, UNCHANGED pc,
           NEW j \in Jobs, NEW p \in Runners \cup {AnyThread}, ScheduleJob(j, p)
    PROVE  OwnInv'
<1> USE DEF OwnInv
<1>a. TypeOK /\ NoFiber \notin Fibers /\ NoJob \notin Jobs
  BY SchedulerAssumption DEF TypeInv
<1>b. /\ phase[j] = "new" /\ UNCHANGED <<pc, ft, cbFiber, held, failed>>
      /\ phase'[j] = "submitted" /\ \A k \in Jobs \ {j} : phase'[k] = phase[k]
  BY <1>a DEF ScheduleJob, threadVars, TypeOK
<1>n. \A f \in Fibers : mCb[f] # j
  BY <1>b DEF JobInv, Bound
<1>t. \A t \in Runners : Current(t)' = Current(t)
  BY <1>b DEF Current
<1>o. \A t \in Runners : /\ pc[t] \in OnFiber => Current(t) \in Fibers
                         /\ ft[t].fiber \in Fibers \cup {NoFiber} /\ cbFiber[t] \in Fibers \cup {NoFiber}
  BY <1>a, OwnFibers, CurrentType
<1>1. CASE Enqueue(CbEntry(j, p)) /\ UNCHANGED <<mState, mCb>>
  <2>e. CbEntry(j, p) \in Entry
    BY EntryTypes
  <2>v. CbEntry(j, p).fiber = NoFiber /\ CbEntry(j, p).cb = j
    BY DEF CbEntry
  <2>q. /\ DOMAIN queue' = DOMAIN queue \cup {Len(queue) + 1}
        /\ Len(queue) + 1 \notin DOMAIN queue
        /\ \A i \in DOMAIN queue : queue'[i] = queue[i]
        /\ queue'[Len(queue) + 1] = CbEntry(j, p)
    BY <1>a, <1>1, <2>e, EntriesAfterAppend DEF Enqueue
  <2>l. \A f \in Fibers : Live(f)' <=> Live(f)
    BY <1>b, <1>n, <1>1 DEF Live
  <2>1. OneOwner'
    BY <1>b, <2>q, <2>v DEF OneOwner
  <2>2. QueuePlaces'
    <3>1. \A i \in DOMAIN queue : queue[i].fiber \in Fibers \cup {NoFiber}
      BY <1>a, EntryTypes, ElementOfSeq DEF TypeOK
    <3> QED
      BY <1>1, <2>l, <2>q, <2>v, <3>1 DEF QueuePlaces, Waiting
  <2>3. \A t \in Runners : PlaceOf(t)'
    <3> SUFFICES ASSUME NEW t \in Runners PROVE PlaceOf(t)'
      OBVIOUS
    <3>2. ft[t].fiber # NoFiber => (Waiting(ft[t].fiber) => Waiting(ft[t].fiber)')
      BY <1>b, <1>o, <1>1, <2>l DEF Waiting
    <3> QED
      BY <1>b, <1>t, <1>1, <3>2 DEF PlaceOf
  <2>4. Kept' /\ Sound'
    <3>1. \A f \in Fibers : Owned(f) => Owned(f)'
      BY <1>b, <2>q DEF Owned
    <3> QED
      BY <1>1, <2>l, <3>1 DEF Kept, Sound
  <2>5. Somewhere'
    BY <1>b, <1>1, <2>q, <2>v DEF Somewhere
  <2> QED
    BY <1>b, <2>1, <2>2, <2>3, <2>4, <2>5
<1>2. CASE \E f \in Fibers : /\ Free(f) /\ mState' = [mState EXCEPT ![f] = "INIT"]
                             /\ mCb' = [mCb EXCEPT ![f] = j] /\ Enqueue(FiberEntry(f, p))
  <2> PICK f \in Fibers : /\ Free(f) /\ mState' = [mState EXCEPT ![f] = "INIT"]
                          /\ mCb' = [mCb EXCEPT ![f] = j] /\ Enqueue(FiberEntry(f, p))
    BY <1>2
  <2>m. /\ mState'[f] = "INIT" /\ mCb'[f] = j
        /\ \A g \in Fibers \ {f} : mState'[g] = mState[g] /\ mCb'[g] = mCb[g]
    BY <1>a DEF TypeOK
  <2>e. FiberEntry(f, p) \in Entry
    BY EntryTypes
  <2>v. FiberEntry(f, p).fiber = f /\ FiberEntry(f, p).cb = NoJob
    BY DEF FiberEntry
  <2>q. /\ DOMAIN queue' = DOMAIN queue \cup {Len(queue) + 1}
        /\ Len(queue) + 1 \notin DOMAIN queue
        /\ \A i \in DOMAIN queue : queue'[i] = queue[i]
        /\ queue'[Len(queue) + 1] = FiberEntry(f, p)
    BY <1>a, <2>e, EntriesAfterAppend DEF Enqueue
  <2>o. /\ \A i \in DOMAIN queue : queue[i].fiber # f
        /\ \A t \in Runners : ft[t].fiber # f /\ cbFiber[t] # f
        /\ ~Live(f)
    BY DEF Free, Referenced, Owned, Kept
  <2>l. Live(f)' /\ \A g \in Fibers \ {f} : Live(g)' <=> Live(g)
    BY <1>b, <1>n, <2>m DEF Live
  <2>1. OneOwner'
    BY <1>a, <1>b, <2>o, <2>q, <2>v DEF OneOwner
  <2>2. QueuePlaces'
    <3>1. \A i \in DOMAIN queue : queue[i].fiber \in Fibers \cup {NoFiber}
      BY <1>a, EntryTypes, ElementOfSeq DEF TypeOK
    <3> QED
      BY <2>l, <2>m, <2>o, <2>q, <2>v, <3>1 DEF QueuePlaces, Waiting
  <2>3. \A t \in Runners : PlaceOf(t)'
    BY <1>b, <1>o, <2>l, <2>m, <2>o, PlaceFrame
  <2>4. Kept' /\ Sound'
    <3>1. Owned(f)' /\ \A g \in Fibers : Owned(g) => Owned(g)'
      BY <1>b, <2>q, <2>v DEF Owned
    <3> QED
      BY <2>l, <2>m, <3>1 DEF Kept, Sound, Finished
  <2>5. Somewhere'
    <3>1. \A k \in Jobs : k # j /\ phase[k] = "submitted" => mCb[f] # k
      BY <2>o DEF Live
    <3> QED
      BY <1>b, <2>m, <2>q, <2>v, <3>1 DEF Somewhere
  <2> QED
    BY <1>b, <2>1, <2>2, <2>3, <2>4, <2>5
<1> QED
  BY <1>1, <1>2 DEF ScheduleJob

LEMMA ScanTakeKeepsOwner ==
    ASSUME TypeInv, OwnInv, NEW t \in Runners, ScanTake(t)
    PROVE  OwnInv'
<1> USE DEF OwnInv
<1>a. TypeOK /\ NoFiber \notin Fibers /\ NoJob \notin Jobs
  BY SchedulerAssumption DEF TypeInv
<1>b. UNCHANGED <<mState, mCb, held, cbFiber, phase, failed>>
  BY DEF ScanTake, fiberVars, jobVars
<1>c. pc[t] = "scan" /\ pc'[t] = "took" /\ \A u \in Runners \ {t} : pc'[u] = pc[u]
  BY <1>a DEF ScanTake, Goto, TypeOK
<1> PICK i \in DOMAIN queue : ft' = [ft EXCEPT ![t] = queue[i]] /\ queue' = RemoveAt(queue, i)
  BY DEF ScanTake
<1>d. ft'[t] = queue[i] /\ \A u \in Runners \ {t} : ft'[u] = ft[u]
  BY <1>a DEF TypeOK
<1>n. ft[t].fiber = NoFiber
  BY <1>c DEF PlaceOf, OnFiber, StackPc, PostPc
<1>s. queue \in Seq(Entry)
  BY <1>a DEF TypeOK
<1>q. /\ \A k \in DOMAIN queue' : \E m \in DOMAIN queue : m # i /\ queue'[k] = queue[m]
      /\ \A m \in DOMAIN queue : m # i => \E k \in DOMAIN queue' : queue'[k] = queue[m]
  BY <1>s, RemoveAtElements
<1>1. OneOwner'
  <2>1. \A k, l \in DOMAIN queue' :
           queue'[k].fiber # NoFiber /\ queue'[k].fiber = queue'[l].fiber => k = l
    <3> SUFFICES ASSUME NEW k \in DOMAIN queue', NEW l \in DOMAIN queue',
                        queue'[k].fiber # NoFiber, queue'[k].fiber = queue'[l].fiber
                 PROVE  k = l
      OBVIOUS
    <3> DEFINE from(m) == IF m < i THEN m ELSE m + 1
    <3>1. Len(queue) \in Nat /\ DOMAIN queue = 1 .. Len(queue) /\ i \in 1 .. Len(queue)
      BY <1>s, LenProperties
    <3>2. /\ DOMAIN queue' = 1 .. Len(queue) - 1
          /\ \A m \in 1 .. Len(queue) - 1 : queue'[m] = IF m < i THEN queue[m] ELSE queue[m + 1]
      <4>1. /\ queue' \in Seq(Entry) /\ Len(queue') = Len(queue) - 1
            /\ \A m \in 1 .. Len(queue) - 1 :
                  queue'[m] = IF m < i THEN queue[m] ELSE queue[m + 1]
        BY <1>s, RemoveAtProperties
      <4> QED
        BY <4>1, LenProperties
    <3>3. \A m \in DOMAIN queue' : from(m) \in DOMAIN queue /\ queue'[m] = queue[from(m)]
      BY <3>1, <3>2
    <3>4. from(k) = from(l)
      BY <3>3 DEF OneOwner
    <3> QED
      BY <3>1, <3>2, <3>4
  <2>2. \A k \in DOMAIN queue', u \in Runners :
           queue'[k].fiber # NoFiber => queue'[k].fiber # ft'[u].fiber /\ queue'[k].fiber # cbFiber'[u]
    <3>1. \A k \in DOMAIN queue' : queue'[k].fiber # NoFiber => queue'[k].fiber # ft'[t].fiber
      BY <1>d, <1>q DEF OneOwner
    <3> QED
      BY <1>b, <1>d, <1>q, <3>1 DEF OneOwner
  <2>3. \A u, w \in Runners :
           ft'[u].fiber # NoFiber =>
              ft'[u].fiber # cbFiber'[w] /\ (ft'[u].fiber = ft'[w].fiber => u = w)
    BY <1>b, <1>d DEF OneOwner
  <2> QED
    BY <1>b, <2>1, <2>2, <2>3 DEF OneOwner
<1>2. QueuePlaces'
  BY <1>b, <1>q DEF QueuePlaces, Waiting, Live
<1>3. \A u \in Runners : PlaceOf(u)'
  <2>1. PlaceOf(t)'
    BY <1>b, <1>c, <1>d, <1>n DEF PlaceOf, QueuePlaces, Waiting, Live, OnFiber, StackPc, PostPc
  <2>2. \A u \in Runners \ {t} : PlaceOf(u)'
    <3> SUFFICES ASSUME NEW u \in Runners \ {t} PROVE PlaceOf(u)'
      OBVIOUS
    <3>1. Current(u)' = Current(u)
      BY <1>b, <1>d DEF Current
    <3> QED
      BY <1>b, <1>c, <1>d, <3>1 DEF PlaceOf, Waiting, Live
  <2> QED
    BY <2>1, <2>2
<1>4. Kept' /\ Sound'
  <2>1. ASSUME NEW f \in Fibers, Owned(f) PROVE Owned(f)'
    <3>1. \A m \in DOMAIN queue : queue[m].fiber = f =>
             \/ \E k \in DOMAIN queue' : queue'[k].fiber = f
             \/ \E u \in Runners : ft'[u].fiber = f
      BY <1>d, <1>q
    <3>2. \A u \in Runners : ft[u].fiber = f \/ cbFiber[u] = f => ft'[u].fiber = f \/ cbFiber'[u] = f
      BY <1>a, <1>b, <1>d, <1>n
    <3> QED
      BY <1>a, <1>b, <2>1, <3>1, <3>2, OwnedStays
  <2> QED
    BY <1>b, <2>1 DEF Kept, Sound, Live
<1>5. Somewhere'
  <2>1. \A j \in Jobs, m \in DOMAIN queue : queue[m].cb = j =>
             \/ \E k \in DOMAIN queue' : queue'[k].cb = j
             \/ pc'[t] = "took" /\ ft'[t].cb = j
    BY <1>c, <1>d, <1>q
  <2>2. \A j \in Jobs, u \in Runners : pc[u] = "took" /\ ft[u].cb = j => pc'[u] = "took" /\ ft'[u].cb = j
    BY <1>c, <1>d
  <2> QED
    BY <1>b, <2>1, <2>2 DEF Somewhere
<1> QED
  BY <1>b, <1>1, <1>2, <1>3, <1>4, <1>5

\* The other threads, and the list, know nothing of the fibers of thread t.
LEMMA OthersKeepPlaces ==
    ASSUME TypeInv, OwnInv, NEW t \in Runners, NEW f \in Fibers,
           \A u \in Runners \ {t} : /\ pc'[u] = pc[u] /\ ft'[u] = ft[u] /\ cbFiber'[u] = cbFiber[u]
                                    /\ ft[u].fiber # f /\ cbFiber[u] # f,
           \A g \in Fibers \ {f} : mState'[g] = mState[g] /\ mCb'[g] = mCb[g] /\ (Live(g) => Live(g)')
    PROVE  /\ \A u \in Runners \ {t} : PlaceOf(u)'
           /\ \A g \in Fibers \ {f} : Waiting(g) => Waiting(g)'
<1> USE DEF OwnInv
<1>a. TypeOK
  BY DEF TypeInv
<1>1. ASSUME NEW u \in Runners \ {t} PROVE PlaceOf(u)'
  <2>1. /\ pc[u] \in OnFiber => Current(u) \in Fibers
        /\ ft[u].fiber \in Fibers \cup {NoFiber} /\ cbFiber[u] \in Fibers \cup {NoFiber}
    BY <1>a, OwnFibers, CurrentType
  <2> QED
    BY <2>1, PlaceFrame
<1>2. \A g \in Fibers \ {f} : Waiting(g) => Waiting(g)'
  BY DEF Waiting
<1> QED
  BY <1>1, <1>2

\* Thread t changes the state of its current fiber from one pc to another.
LEMMA StateKeepsOwner ==
    ASSUME TypeInv, JobInv, OwnInv, NEW t \in Runners, NEW f \in Fibers, Current(t) = f,
           UNCHANGED <<queue, held, ft, cbFiber, failed>>,
           \A u \in Runners \ {t} : pc'[u] = pc[u],
           \A g \in Fibers \ {f} : mState'[g] = mState[g] /\ mCb'[g] = mCb[g] /\ (Live(g)' <=> Live(g)),
           pc[t] \in OnFiber \cup {"took"}, pc'[t] # "took",
           PlaceOf(t)', Live(f)' => Live(f) /\ mState'[f] \notin Finished,
           mState'[f] \in {"EXEC", "READY", "HOLD"} => Live(f)',
           \A j \in Jobs : phase'[j] = "submitted" =>
              phase[j] = "submitted" /\ (mCb[f] = j => mCb'[f] = j),
           pc[t] = "took" => ft[t].fiber # NoFiber
    PROVE  OwnInv'
<1> USE DEF OwnInv
<1>a. TypeOK /\ NoFiber \notin Fibers /\ NoJob \notin Jobs
  BY SchedulerAssumption DEF TypeInv
<1>o. /\ \A u \in Runners \ {t} : ft[u].fiber # f /\ cbFiber[u] # f
      /\ \A i \in DOMAIN queue : queue[i].fiber # f
  BY <1>a, OwnFibers
<1>1. OneOwner'
  BY DEF OneOwner
<1>2. /\ \A u \in Runners \ {t} : PlaceOf(u)'
      /\ \A g \in Fibers \ {f} : Waiting(g) => Waiting(g)'
  BY <1>o, OthersKeepPlaces
<1>3. QueuePlaces'
  <2>1. \A i \in DOMAIN queue : queue[i].fiber \in Fibers \cup {NoFiber}
    BY <1>a, EntryTypes, ElementOfSeq DEF TypeOK
  <2> QED
    BY <1>o, <1>2, <2>1 DEF QueuePlaces
<1>4. Kept' /\ Sound'
  BY DEF Kept, Sound, Owned
<1>5. Somewhere'
  <2>1. \A u \in Runners, j \in Jobs : pc[u] = "took" /\ ft[u].cb = j => pc'[u] = "took" /\ ft'[u].cb = j
    BY <1>a DEF JobInv, Shapes, OneOf
  <2>2. \A g \in Fibers, j \in Jobs : phase'[j] = "submitted" /\ mCb[g] = j => mCb'[g] = j
    OBVIOUS
  <2> QED
    BY <2>1, <2>2 DEF Somewhere
<1> QED
  BY <1>1, <1>2, <1>3, <1>4, <1>5

LEMMA ResumeKeepsOwner ==
    ASSUME TypeInv, JobInv, OwnInv, NEW t \in Runners, Resume(t)
    PROVE  OwnInv'
<1> DEFINE f == ft[t].fiber
<1>a. TypeOK /\ NoFiber \notin Fibers /\ NoJob \notin Jobs
  BY SchedulerAssumption DEF TypeInv
<1>b. UNCHANGED <<queue, mCb, held, ft, cbFiber, phase, failed>>
  BY DEF Resume, schedVars
<1>f. f \in Fibers /\ f # NoFiber /\ Current(t) = f /\ Live(f)
  BY <1>a, CurrentType DEF Resume, TookFiber, Ended, Current, Live, TypeOK
<1>c. pc[t] = "took" /\ pc'[t] = "exec" /\ \A u \in Runners \ {t} : pc'[u] = pc[u]
  BY <1>a DEF Resume, TookFiber, SwapIn, Goto, TypeOK
<1>m. mState'[f] = "EXEC" /\ \A g \in Fibers \ {f} : mState'[g] = mState[g]
  BY <1>a, <1>f DEF Resume, SwapIn, TypeOK
<1>z. ft[t].fiber = f
  OBVIOUS
<1> HIDE DEF f
<1>t. Current(t)' = f
  BY <1>b, <1>f DEF Current
<1>l. \A g \in Fibers : Live(g)' <=> Live(g)
  BY <1>b DEF Live
<1>p. PlaceOf(t)'
  <2>1. cbFiber[t] # NoFiber => /\ mState[cbFiber[t]] = "INIT" /\ mCb[cbFiber[t]] = NoJob
                                /\ cbFiber[t] \in Fibers \ {f}
    BY <1>a, <1>c, <1>f, <1>z, CurrentType DEF OwnInv, OneOwner, PlaceOf, OnFiber, StackPc, PostPc
  <2> QED
    BY <1>b, <1>c, <1>f, <1>m, <1>t, <1>z, <2>1 DEF PlaceOf, OnFiber, StackPc, PostPc
<1> QED
  BY <1>b, <1>c, <1>f, <1>l, <1>m, <1>p, <1>z, StateKeepsOwner DEF Finished

LEMMA YieldToReadyKeepsOwner ==
    ASSUME TypeInv, JobInv, OwnInv, NEW t \in Runners, YieldToReady(t)
    PROVE  OwnInv'
<1> DEFINE f == Current(t)
<1>a. TypeOK /\ NoFiber \notin Fibers /\ NoJob \notin Jobs
  BY SchedulerAssumption DEF TypeInv
<1>b. UNCHANGED <<queue, mCb, held, ft, cbFiber, phase, failed>>
  BY DEF YieldToReady, schedVars
<1>c. pc[t] = "exec" /\ pc'[t] = "swapOut" /\ \A u \in Runners \ {t} : pc'[u] = pc[u]
  BY <1>a DEF YieldToReady, Goto, TypeOK
<1>f. f \in Fibers /\ Live(f)
  BY <1>c, OwnFibers DEF OwnInv, OnFiber, StackPc, JobInv, Stacks, InTask
<1>m. mState'[f] = "READY" /\ \A g \in Fibers \ {f} : mState'[g] = mState[g]
  BY <1>a, <1>f DEF YieldToReady, SetState, TypeOK
<1>z. Current(t) = f
  OBVIOUS
<1> HIDE DEF f
<1>t. Current(t)' = f
  BY <1>b, <1>z DEF Current
<1>l. \A g \in Fibers : Live(g)' <=> Live(g)
  BY <1>b DEF Live
<1>p. PlaceOf(t)'
  <2>1. ft[t].fiber # NoFiber /\ cbFiber[t] # NoFiber =>
           /\ mState[cbFiber[t]] = "INIT" /\ mCb[cbFiber[t]] = NoJob /\ cbFiber[t] \in Fibers \ {f}
    BY <1>a, <1>z, CurrentType, OwnFibers DEF OwnInv, PlaceOf
  <2> QED
    BY <1>b, <1>c, <1>m, <1>t, <2>1 DEF PlaceOf, OnFiber, StackPc, PostPc
<1>o. pc[t] \in OnFiber
  BY <1>c DEF OnFiber, StackPc
<1> QED
  BY <1>b, <1>c, <1>f, <1>l, <1>m, <1>o, <1>p, <1>z, StateKeepsOwner DEF Finished

LEMMA FinishKeepsOwner ==
    ASSUME TypeInv, JobInv, OwnInv, NEW t \in Runners, NEW s \in Finished, Finish(t, s)
    PROVE  OwnInv'
<1>a. TypeOK /\ NoFiber \notin Fibers /\ NoJob \notin Jobs
  BY SchedulerAssumption DEF TypeInv
<1>b. UNCHANGED <<queue, held, ft, cbFiber, failed>>
  BY DEF Finish, schedVars
<1>c. pc[t] = "exec" /\ pc'[t] = "swapOut" /\ \A u \in Runners \ {t} : pc'[u] = pc[u]
  BY <1>a DEF Finish, Goto, TypeOK
<1>0. Current(t) \in Fibers /\ mCb[Current(t)] \in Jobs
  BY <1>c, OwnFibers DEF OwnInv, OnFiber, StackPc, JobInv, Stacks, InTask, Live
<1> PICK f \in Fibers, j \in Jobs : Current(t) = f /\ mCb[f] = j
  BY <1>0
<1>f. f \in Fibers /\ j \in Jobs
  OBVIOUS
<1>m. /\ mState'[f] = s /\ mCb'[f] \in {j, NoJob}
      /\ \A g \in Fibers \ {f} : mState'[g] = mState[g] /\ mCb'[g] = mCb[g]
  BY <1>a, <1>f DEF Finish, SetState, TypeOK
<1>p. phase'[j] = "done" /\ \A k \in Jobs \ {j} : phase'[k] = phase[k]
  BY <1>a, <1>f DEF Finish, CurrentJob, TypeOK
<1>k. \A g \in Fibers \ {f} : mCb[g] # j
  BY <1>f DEF JobInv, Bound
<1>z. Current(t) = f /\ mCb[f] = j
  OBVIOUS
<1>t. Current(t)' = f
  BY <1>b, <1>z DEF Current
<1>l. ~Live(f)' /\ \A g \in Fibers \ {f} : Live(g)' <=> Live(g)
  <2>1. ~Live(f)'
    BY <1>a, <1>m, <1>p DEF Live
  <2>2. ASSUME NEW g \in Fibers \ {f} PROVE Live(g)' <=> Live(g)
    BY <1>k, <1>m, <1>p DEF Live
  <2> QED
    BY <2>1, <2>2
<1>q. PlaceOf(t)'
  <2>1. ft[t].fiber # NoFiber /\ cbFiber[t] # NoFiber =>
           /\ mState[cbFiber[t]] = "INIT" /\ mCb[cbFiber[t]] = NoJob /\ cbFiber[t] \in Fibers \ {f}
    BY <1>a, <1>z, CurrentType, OwnFibers DEF OwnInv, PlaceOf
  <2> QED
    BY <1>b, <1>c, <1>m, <1>t, <2>1 DEF PlaceOf, OnFiber, StackPc, PostPc
<1>o. pc[t] \in OnFiber
  BY <1>c DEF OnFiber, StackPc
<1>r. \A k \in Jobs : phase'[k] = "submitted" => phase[k] = "submitted" /\ mCb[f] # k
  BY <1>p, <1>z
<1>s. s \notin {"EXEC", "READY", "HOLD"}
  BY DEF Finished
<1>v. Live(f)' => Live(f) /\ mState'[f] \notin Finished
  BY <1>l
<1>w. mState'[f] \in {"EXEC", "READY", "HOLD"} => Live(f)'
  BY <1>m, <1>s
<1>x. \A g \in Fibers \ {f} : mState'[g] = mState[g] /\ mCb'[g] = mCb[g] /\ (Live(g)' <=> Live(g))
  BY <1>l, <1>m
<1>y. pc'[t] # "took" /\ pc[t] # "took"
  BY <1>c
<1> QED
  BY <1>b, <1>c, <1>f, <1>o, <1>q, <1>r, <1>v, <1>w, <1>x, <1>y, <1>z, StateKeepsOwner

\* Back in run() the thread gives up a finished fiber, or resets cb_fiber.
LEMMA PostFinishedKeepsOwner ==
    ASSUME TypeInv, JobInv, OwnInv, NEW t \in Runners, PostFinished(t)
    PROVE  OwnInv'
<1>a. TypeOK /\ NoFiber \notin Fibers /\ NoJob \notin Jobs
  BY SchedulerAssumption DEF TypeInv
<1>b. UNCHANGED <<queue, held, cbFiber, phase, failed>>
  BY DEF PostFinished, schedVars, jobVars
<1>c. /\ pc[t] = "post" /\ pc'[t] = "scan" /\ \A u \in Runners \ {t} : pc'[u] = pc[u]
      /\ mState[Current(t)] \in Finished
  BY <1>a DEF PostFinished, Goto, TypeOK
<1>o. pc[t] \in OnFiber
  BY <1>c DEF OnFiber, PostPc
<1> PICK f \in Fibers : Current(t) = f
  BY <1>o, OwnFibers DEF OwnInv
<1>f. f \in Fibers /\ ~Live(f)
  BY <1>c, <1>o, OwnFibers DEF OwnInv, Kept
<1>1. CASE ft[t].fiber = NoFiber
  <2>1. cbFiber[t] = f /\ UNCHANGED ft
    BY <1>1 DEF PostFinished, Current
  <2>m. /\ mState'[f] = "INIT" /\ mCb'[f] = NoJob
        /\ \A g \in Fibers \ {f} : mState'[g] = mState[g] /\ mCb'[g] = mCb[g]
    BY <1>a, <1>f, <1>1, <2>1 DEF PostFinished, SetState, TypeOK
  <2>z. Current(t) = f
    OBVIOUS
  <2>l. ~Live(f)' /\ \A g \in Fibers \ {f} : Live(g)' <=> Live(g)
    <3>1. ~Live(f)'
      BY <1>a, <2>m DEF Live
    <3>2. \A g \in Fibers \ {f} : Live(g)' <=> Live(g)
      BY <1>b, <2>m DEF Live
    <3> QED
      BY <3>1, <3>2
  <2>p. PlaceOf(t)'
    BY <1>b, <1>c, <1>1, <2>1, <2>m DEF PlaceOf, OnFiber, StackPc, PostPc
  <2>r. \A k \in Jobs : phase'[k] = "submitted" => phase[k] = "submitted" /\ mCb[f] # k
    BY <1>b, <1>f DEF Live
  <2> QED
    BY <1>b, <1>c, <1>f, <1>o, <2>1, <2>l, <2>m, <2>p, <2>r, <2>z, StateKeepsOwner
<1>2. CASE ft[t].fiber # NoFiber
  <2>1. /\ ft'[t] = NoEntry /\ \A u \in Runners \ {t} : ft'[u] = ft[u]
        /\ UNCHANGED <<mState, mCb>> /\ ft[t].fiber = f
    BY <1>a, <1>2 DEF PostFinished, TypeOK, Current
  <2>n. NoEntry.fiber = NoFiber /\ NoEntry.cb = NoJob
    BY DEF NoEntry
  <2>z. Current(t) = f
    OBVIOUS
  <2>l. \A g \in Fibers : Live(g)' <=> Live(g)
    BY <1>b, <2>1 DEF Live
  <2>2. OneOwner'
    BY <1>b, <2>1, <2>n DEF OwnInv, OneOwner
  <2>3. QueuePlaces' /\ Sound' /\ Somewhere'
    <3>1. \A u \in Runners : pc[u] = "took" => pc'[u] = "took" /\ ft'[u] = ft[u]
      BY <1>c, <2>1
    <3> QED
      BY <1>b, <2>1, <2>l, <3>1 DEF OwnInv, QueuePlaces, Waiting, Sound, Somewhere, Live
  <2>4. \A u \in Runners : PlaceOf(u)'
    <3>1. \A u \in Runners \ {t} : ft[u].fiber # f /\ cbFiber[u] # f
      BY <1>a, <1>f, <2>z, OwnFibers DEF OwnInv
    <3>2. \A u \in Runners \ {t} : PlaceOf(u)'
      BY <1>b, <1>c, <1>f, <2>1, <2>l, <3>1, OthersKeepPlaces
    <3>3. PlaceOf(t)'
      BY <1>b, <1>c, <1>2, <2>1, <2>n DEF OwnInv, PlaceOf, OnFiber, StackPc, PostPc
    <3> QED
      BY <3>2, <3>3
  <2>5. Kept'
    <3>1. ASSUME NEW g \in Fibers \ {f}, Owned(g) PROVE Owned(g)'
      <4>1. \A u \in Runners : ft[u].fiber = g \/ cbFiber[u] = g => ft'[u].fiber = g \/ cbFiber'[u] = g
        BY <1>b, <2>1
      <4> QED
        BY <1>a, <1>b, <3>1, <4>1, OwnedStays DEF OwnInv
    <3> QED
      BY <1>f, <2>1, <2>l, <3>1 DEF OwnInv, Kept
  <2> QED
    BY <1>b, <2>2, <2>3, <2>4, <2>5 DEF OwnInv
<1> QED
  BY <1>1, <1>2

\* schedule() of a READY fiber: the reference moves to the list.
LEMMA RescheduleKeepsOwner ==
    ASSUME TypeInv, JobInv, OwnInv, NEW t \in Runners, Reschedule(t)
    PROVE  OwnInv'
<1> USE DEF OwnInv
<1> DEFINE f == Current(t)
           e == FiberEntry(f, AnyThread)
<1>a. TypeOK /\ NoFiber \notin Fibers /\ NoJob \notin Jobs
  BY SchedulerAssumption DEF TypeInv
<1>b. UNCHANGED <<mState, mCb, held, phase, failed>>
  BY DEF Reschedule, schedVars, fiberVars, jobVars
<1>c. pc[t] = "resched" /\ pc'[t] = "scan" /\ \A u \in Runners \ {t} : pc'[u] = pc[u]
  BY <1>a DEF Reschedule, Goto, TypeOK
<1>o. pc[t] \in OnFiber
  BY <1>c DEF OnFiber, PostPc
<1>f. f \in Fibers /\ mState[f] = "READY" /\ Live(f)
  BY <1>c, <1>o, OwnFibers DEF PlaceOf, Sound
<1>d. e \in Entry /\ e.fiber = f /\ e.cb = NoJob
  BY <1>f, EntryTypes DEF FiberEntry
<1>q. /\ DOMAIN queue' = DOMAIN queue \cup {Len(queue) + 1}
      /\ Len(queue) + 1 \notin DOMAIN queue
      /\ \A i \in DOMAIN queue : queue'[i] = queue[i]
      /\ queue'[Len(queue) + 1] = e
  <2>1. queue' = Append(queue, e)
    BY DEF Reschedule, Enqueue
  <2> QED
    BY <1>a, <1>d, <2>1, EntriesAfterAppend
<1>r. /\ \A u \in Runners \ {t} : ft'[u] = ft[u] /\ cbFiber'[u] = cbFiber[u]
      /\ IF ft[t].fiber # NoFiber THEN ft'[t].fiber = NoFiber /\ cbFiber'[t] = cbFiber[t]
         ELSE ft'[t] = ft[t] /\ cbFiber'[t] = NoFiber
  BY <1>a DEF Reschedule, Release, TypeOK, NoEntry
<1>n. /\ \A u \in Runners \ {t} : f # ft[u].fiber /\ f # cbFiber[u]
      /\ \A i \in DOMAIN queue : queue[i].fiber # f
      /\ ft'[t].fiber = NoFiber /\ cbFiber'[t] # f
      /\ ft[t].fiber # NoFiber => cbFiber'[t] = cbFiber[t] /\ ft[t].fiber = f
      /\ ft[t].fiber = NoFiber => cbFiber'[t] = NoFiber /\ cbFiber[t] = f
  BY <1>a, <1>f, <1>r, OwnFibers
<1> HIDE DEF f, e
<1>l. \A g \in Fibers : Live(g)' <=> Live(g)
  BY <1>b DEF Live
<1>1. OneOwner'
  <2>1. \A i, k \in DOMAIN queue' :
           queue'[i].fiber # NoFiber /\ queue'[i].fiber = queue'[k].fiber => i = k
    BY <1>d, <1>n, <1>q DEF OneOwner
  <2>2. \A u \in Runners : f # ft'[u].fiber /\ f # cbFiber'[u]
    BY <1>a, <1>f, <1>n, <1>r
  <2>3. \A u \in Runners : /\ ft'[u].fiber \in {ft[u].fiber, NoFiber}
                           /\ cbFiber'[u] \in {cbFiber[u], NoFiber}
    BY <1>n, <1>r
  <2>4. \A i \in DOMAIN queue', u \in Runners : queue'[i].fiber # NoFiber =>
             queue'[i].fiber # ft'[u].fiber /\ queue'[i].fiber # cbFiber'[u]
    BY <1>d, <1>q, <2>2, <2>3 DEF OneOwner
  <2> QED
    BY <2>1, <2>3, <2>4 DEF OneOwner
<1>2. QueuePlaces'
  BY <1>b, <1>d, <1>f, <1>q DEF QueuePlaces, Waiting, Live
<1>3. \A u \in Runners : PlaceOf(u)'
  <2>1. PlaceOf(t)'
    BY <1>b, <1>c, <1>n DEF PlaceOf, OnFiber, StackPc, PostPc
  <2>2. \A u \in Runners \ {t} : PlaceOf(u)'
    BY <1>b, <1>c, <1>f, <1>l, <1>n, <1>r, OthersKeepPlaces
  <2> QED
    BY <2>1, <2>2
<1>4. Kept' /\ Sound'
  <2>1. ASSUME NEW g \in Fibers, Owned(g) PROVE Owned(g)'
    <3>1. \A i \in DOMAIN queue : queue[i].fiber = g => \E k \in DOMAIN queue' : queue'[k].fiber = g
      BY <1>q
    <3>2. ASSUME NEW u \in Runners, ft[u].fiber = g \/ cbFiber[u] = g
          PROVE  ft'[u].fiber = g \/ cbFiber'[u] = g \/ \E k \in DOMAIN queue' : queue'[k].fiber = g
      <4>1. CASE u # t
        BY <1>r, <3>2, <4>1
      <4>2. CASE g = f
        BY <1>d, <1>q, <4>2
      <4>3. CASE u = t /\ g # f
        BY <1>a, <1>n, <3>2, <4>3
      <4> QED
        BY <4>1, <4>2, <4>3
    <3> QED
      BY <1>a, <1>b, <2>1, <3>1, <3>2, OwnedStays
  <2> QED
    BY <1>b, <2>1 DEF Kept, Sound, Live
<1>5. Somewhere'
  <2>1. \A u \in Runners : pc[u] = "took" => pc'[u] = "took" /\ ft'[u] = ft[u]
    BY <1>c, <1>r
  <2> QED
    BY <1>b, <1>q, <2>1 DEF Somewhere
<1> QED
  BY <1>b, <1>1, <1>2, <1>3, <1>4, <1>5

\* A callback starts on cb_fiber, new or reused.
LEMMA RunCbKeepsOwner ==
    ASSUME TypeInv, JobInv, OwnInv, NEW t \in Runners, RunCb(t)
    PROVE  OwnInv'
<1> USE DEF OwnInv
<1>a. TypeOK /\ NoFiber \notin Fibers /\ NoJob \notin Jobs
  BY SchedulerAssumption DEF TypeInv
<1>b. UNCHANGED <<queue, held, phase, failed>> /\ ft' = [ft EXCEPT ![t] = NoEntry]
  BY DEF RunCb, schedVars
<1>0. pc[t] = "took" /\ ft[t].fiber = NoFiber /\ ft[t].cb \in Jobs
  BY <1>a, CurrentType DEF RunCb, JobInv, Shapes, OneOf
<1> PICK j \in Jobs : ft[t].cb = j
  BY <1>0
<1> PICK f \in Fibers :
          /\ IF cbFiber[t] = NoFiber THEN Free(f) ELSE f = cbFiber[t]
          /\ cbFiber' = [cbFiber EXCEPT ![t] = f]
          /\ mCb' = [mCb EXCEPT ![f] = j]
          /\ SwapIn(t, f, j, TRUE)
  BY DEF RunCb
<1>k. phase[j] = "submitted" /\ \A g \in Fibers : mCb[g] # j
  BY <1>0 DEF JobInv, Taken
<1>c. pc'[t] = "exec" /\ \A u \in Runners \ {t} : pc'[u] = pc[u]
  BY <1>a DEF SwapIn, Goto, TypeOK
<1>m. /\ mState'[f] = "EXEC" /\ mCb'[f] = j
      /\ \A g \in Fibers \ {f} : mState'[g] = mState[g] /\ mCb'[g] = mCb[g]
  BY <1>a DEF SwapIn, TypeOK
<1>v. /\ ft'[t].fiber = NoFiber /\ ft'[t].cb = NoJob /\ cbFiber'[t] = f
      /\ \A u \in Runners \ {t} : ft'[u] = ft[u] /\ cbFiber'[u] = cbFiber[u]
  BY <1>a, <1>b DEF TypeOK, NoEntry
<1>t. Current(t)' = f
  BY <1>v DEF Current
\* Nobody else has f, and f has no unfinished job.
<1>n. /\ \A u \in Runners \ {t} : ft[u].fiber # f /\ cbFiber[u] # f
      /\ \A i \in DOMAIN queue : queue[i].fiber # f
      /\ cbFiber[t] \in {NoFiber, f}
      /\ ~Live(f)
  <2>1. CASE cbFiber[t] = NoFiber
    BY <2>1 DEF Free, Referenced, Owned, Kept
  <2>2. CASE cbFiber[t] # NoFiber
    <3>1. f = cbFiber[t] /\ f # NoFiber
      BY <1>a, <2>2
    <3>2. mCb[f] = NoJob
      BY <1>0, <2>2, <3>1 DEF PlaceOf, OnFiber, StackPc, PostPc
    <3> QED
      BY <1>a, <3>1, <3>2 DEF OneOwner, Live
  <2> QED
    BY <2>1, <2>2
<1>l. Live(f)' /\ \A g \in Fibers \ {f} : Live(g)' <=> Live(g)
  BY <1>b, <1>k, <1>m DEF Live
<1>1. OneOwner'
  BY <1>0, <1>b, <1>n, <1>v DEF OneOwner
<1>2. /\ \A u \in Runners \ {t} : PlaceOf(u)'
      /\ \A g \in Fibers \ {f} : Waiting(g) => Waiting(g)'
  BY <1>c, <1>l, <1>m, <1>n, <1>v, OthersKeepPlaces
<1>3. QueuePlaces'
  <2>1. \A i \in DOMAIN queue : queue[i].fiber \in Fibers \cup {NoFiber}
    BY <1>a, EntryTypes, ElementOfSeq DEF TypeOK
  <2> QED
    BY <1>b, <1>n, <1>2, <2>1 DEF QueuePlaces
<1>4. PlaceOf(t)'
  BY <1>c, <1>m, <1>t, <1>v DEF PlaceOf, OnFiber, StackPc
<1>5. Kept' /\ Sound'
  <2>1. Owned(f)'
    BY <1>v DEF Owned
  <2>2. ASSUME NEW g \in Fibers, Owned(g) PROVE Owned(g)'
    <3>1. \A u \in Runners : ft[u].fiber = g \/ cbFiber[u] = g => ft'[u].fiber = g \/ cbFiber'[u] = g
      BY <1>a, <1>0, <1>n, <1>v
    <3> QED
      BY <1>a, <1>b, <2>2, <3>1, OwnedStays
  <2> QED
    BY <1>l, <1>m, <2>1, <2>2 DEF Kept, Sound, Finished
<1>6. Somewhere'
  <2>1. \A u \in Runners, k \in Jobs \ {j} :
           pc[u] = "took" /\ ft[u].cb = k => pc'[u] = "took" /\ ft'[u].cb = k
    BY <1>c, <1>v
  <2>2. \A g \in Fibers, k \in Jobs : phase[k] = "submitted" /\ mCb[g] = k => mCb'[g] = k
    BY <1>m, <1>n DEF Live
  <2> QED
    BY <1>b, <1>m, <2>1, <2>2 DEF Somewhere
<1> QED
  BY <1>b, <1>1, <1>2, <1>3, <1>4, <1>5, <1>6

LEMMA OwnInvStep ==
    ASSUME TypeInv, JobInv, OwnInv, ~MayHold, [Next]_vars
    PROVE  OwnInv'
<1> USE DEF schedVars, fiberVars, threadVars, jobVars
<1>1. CASE \E j \in Jobs, p \in Pins : Submit(j, p)
  <2> PICK j \in Jobs, p \in Pins : Submit(j, p)
    BY <1>1
  <2>1. p \in Runners \cup {AnyThread} /\ ScheduleJob(j, p) /\ UNCHANGED pc
    BY SchedulerAssumption DEF Submit, ScheduleJob
  <2> QED
    BY <2>1, ScheduleJobKeepsOwner
<1>2. CASE \E t \in Runners, j \in Jobs, p \in SpawnPins : Spawn(t, j, p)
  <2> PICK t \in Runners, j \in Jobs, p \in SpawnPins : Spawn(t, j, p)
    BY <1>2
  <2>1. p \in Runners \cup {AnyThread} /\ ScheduleJob(j, p) /\ UNCHANGED pc
    BY SchedulerAssumption DEF Spawn, ScheduleJob
  <2> QED
    BY <2>1, ScheduleJobKeepsOwner
<1>3. CASE Start \/ StopStep
  <2>1. UNCHANGED <<queue, mState, mCb, held, ft, cbFiber, phase, failed>>
    BY <1>3 DEF Start, StopStep, StopBegin, StopCheck, StopCalled, StopJoin
  <2>2. \A t \in Runners : pc'[t] = pc[t] \/ (pc[t] = "off" /\ pc'[t] \in {"off", "scan"})
    BY <1>3 DEF Start, StopStep, StopBegin, StopCheck, StopCalled, StopJoin, TypeInv, NotYetRunning
  <2> QED
    BY <2>1, <2>2, MoveKeepsOwner DEF OnFiber, StackPc, PostPc
<1>4. CASE \E t \in Runners : ScanNone(t) \/ Exit(t) \/ IdleIn(t) \/ Idle(t) \/ IdleOut(t)
  <2> PICK t \in Runners : ScanNone(t) \/ Exit(t) \/ IdleIn(t) \/ Idle(t) \/ IdleOut(t)
    BY <1>4
  <2>1. UNCHANGED <<queue, mState, mCb, held, ft, cbFiber, phase, failed>>
    BY DEF ScanNone, Exit, IdleIn, Idle, IdleOut
  <2>2. /\ pc[t] \in {"scan", "noTask", "idle", "idleOut"}
        /\ \E l \in {"noTask", "exit", "idle", "idleOut", "scan"} : pc' = [pc EXCEPT ![t] = l]
    BY DEF ScanNone, Exit, IdleIn, Idle, IdleOut, Goto
  <2>3. \A u \in Runners : pc'[u] = pc[u] \/ /\ pc[u] \in {"scan", "noTask", "idle", "idleOut"}
                                             /\ pc'[u] \in {"noTask", "exit", "idle", "idleOut", "scan"}
    BY <2>2 DEF TypeInv, TypeOK
  <2> QED
    BY <2>1, <2>3, MoveKeepsOwner DEF OnFiber, StackPc, PostPc
<1>5. CASE \E t \in Runners : SwapOut(t) \/ Returned(t) \/ PostUnfinished(t)
  <2> PICK t \in Runners : SwapOut(t) \/ Returned(t) \/ PostUnfinished(t)
    BY <1>5
  <2>1. UNCHANGED <<queue, mState, mCb, held, ft, cbFiber, phase, failed>>
    BY DEF SwapOut, Returned, PostUnfinished
  <2>2. \/ pc[t] \in {"swapOut", "returned"} /\ \E l \in {"returned", "post"} : pc' = [pc EXCEPT ![t] = l]
        \/ /\ pc[t] = "post" /\ mState[Current(t)] = "READY"
           /\ pc' = [pc EXCEPT ![t] = "resched"]
    BY DEF SwapOut, Returned, PostUnfinished, Goto, OwnInv, PlaceOf, Finished
  <2>3. \A u \in Runners : \/ pc'[u] = pc[u]
                           \/ pc[u] \in {"swapOut", "returned"} /\ pc'[u] \in {"returned", "post"}
                           \/ pc[u] = "post" /\ pc'[u] = "resched" /\ mState[Current(u)] = "READY"
    BY <2>2 DEF TypeInv, TypeOK
  <2> QED
    BY <2>1, <2>3, MoveKeepsOwner
<1>6. CASE \E t \in Runners : ScanTake(t)
  BY <1>6, ScanTakeKeepsOwner
<1>7. CASE \E t \in Runners : Resume(t)
  BY <1>7, ResumeKeepsOwner
<1>8. CASE \E t \in Runners : RunCb(t)
  BY <1>8, RunCbKeepsOwner
<1>9. CASE \E t \in Runners : YieldToReady(t)
  BY <1>9, YieldToReadyKeepsOwner
<1>10. CASE \E t \in Runners, s \in Finished : Finish(t, s)
  BY <1>10, FinishKeepsOwner
<1>11. CASE \E t \in Runners : PostFinished(t)
  BY <1>11, PostFinishedKeepsOwner
<1>12. CASE \E t \in Runners : Reschedule(t)
  BY <1>12, RescheduleKeepsOwner
<1>13. CASE UNCHANGED vars
  <2>1. UNCHANGED <<queue, mState, mCb, held, ft, cbFiber, phase, failed, pc>>
    BY <1>13 DEF vars
  <2> QED
    BY <2>1, MoveKeepsOwner
<1>14. \A t \in Runners : ~Arm(t)
  BY DEF Arm
<1>15. \A f \in Fibers : ~Wake(f)
  BY DEF Wake, OwnInv
<1>16. \E t \in Runners : TRUE
  BY SchedulerAssumption
<1> QED
  BY <1>1, <1>2, <1>3, <1>4, <1>5, <1>6, <1>7, <1>8, <1>9, <1>10, <1>11, <1>12, <1>13, <1>14, <1>15,
     <1>16, NoAborts DEF Next, RunStep, JobStep, Halted

LEMMA OwnInvInit == Init => OwnInv
<1> SUFFICES ASSUME Init PROVE OwnInv
  OBVIOUS
<1>1. NoJob \notin Jobs /\ DOMAIN queue = {} /\ NoEntry.fiber = NoFiber
  BY SchedulerAssumption DEF Init, NoEntry
<1>2. OneOwner /\ QueuePlaces
  BY <1>1 DEF Init, OneOwner, QueuePlaces
<1>3. \A t \in Runners : PlaceOf(t)
  BY <1>1 DEF Init, PlaceOf, OnFiber, StackPc, PostPc
<1>4. Kept /\ Sound /\ Somewhere
  BY <1>1 DEF Init, Kept, Sound, Somewhere, Live
<1> QED
  BY <1>2, <1>3, <1>4 DEF Init, OwnInv

LEMMA OwnInvHolds == ASSUME ~MayHold PROVE Spec => [](TypeInv /\ JobInv /\ OwnInv)
<1>1. TypeInv /\ JobInv /\ OwnInv /\ [Next]_vars => TypeInv' /\ JobInv' /\ OwnInv'
  BY TypeInvStep, JobInvStep, OwnInvStep
<1> QED
  BY <1>1, TypeInvInit, JobInvInit, OwnInvInit, PTL DEF Spec

\* Where no job holds, no assertion of swapIn(), reset(), ~Fiber or a yield
\* ever fails, and no fiber is resumed or reset while a thread is on its
\* stack: between the yield of a fiber and its return to run() no second
\* reference to it exists, so the unlocked m_state is read by its owner only.
THEOREM NeverAborts == ASSUME ~MayHold PROVE Spec => []NoAbort
<1>1. OwnInv => NoAbort
  BY DEF OwnInv, NoAbort
<1> QED
  BY <1>1, OwnInvHolds, PTL

\* Where no job holds, a job that was scheduled and has not finished is in
\* the list, in a thread's hands, or on an unfinished fiber somebody owns.
THEOREM NoJobLost == ASSUME ~MayHold PROVE Spec => []JobReachable
<1>1. OwnInv => JobReachable
  <2> SUFFICES ASSUME OwnInv, NEW j \in Jobs, phase[j] = "submitted",
                      NEW f \in Fibers, mCb[f] = j
               PROVE  mState[f] \notin Finished /\ Owned(f)
    BY DEF OwnInv, Somewhere, JobReachable
  <2> QED
    BY DEF OwnInv, Kept, Live
<1> QED
  BY <1>1, OwnInvHolds, PTL

-----------------------------------------------------------------------------
(* stop() returns when everything has been executed.  The threads leave    *)
(* run() one by one, each after a test of stopping() that may have been    *)
(* true while another thread was about to schedule its fiber again; that   *)
(* thread scans the list itself before it leaves.  It could not take a     *)
(* task pinned to a thread that has left, so the jobs must schedule        *)
(* without a thread argument: SpawnPins \subseteq {AnyThread}.             *)

\* Thread t is not running, or will leave run() without another scan.
Leaves(t) == pc[t] \in {"off", "exit"} \/ (pc[t] = "noTask" /\ idleTerm[t])

\* Once one thread has seen stopping(), no task is pinned to a thread.
SeenStopping ==
    \A t \in Runners : idleTerm[t] =>
        /\ mStopping /\ main \notin {"new", "up"}
        /\ \A i \in DOMAIN queue : queue[i].thread = AnyThread

\* Whatever is left in the list when stop() waits, somebody will scan it.
SomebodyScans ==
    main \in {"call", "join", "stopped"} /\ queue # <<>> => \E t \in Runners : ~Leaves(t)

\* Where the threads are at each step of the owner.
StopPlaces ==
    /\ \A t \in Runners : pc[t] = "exit" => idleTerm[t]
    /\ main = "up" => ~mStopping /\ \A t \in Workers : pc[t] # "off"
    /\ main = "check" => Caller # {}
    /\ main = "join" => \A t \in Caller : pc[t] \in {"off", "exit"}
    /\ main = "stopped" => \A t \in Runners : pc[t] \in {"off", "exit"}

Drain == SeenStopping /\ SomebodyScans /\ StopPlaces

LEMMA EmptyQueue == ASSUME TypeOK PROVE queue = <<>> <=> DOMAIN queue = {}
<1>1. queue \in Seq(Entry)
  BY DEF TypeOK
<1>2. Len(queue) \in Nat /\ DOMAIN queue = 1 .. Len(queue)
  BY <1>1, LenProperties
<1>3. Len(queue) = 0 <=> queue = <<>>
  BY <1>1, EmptySeq
<1> QED
  BY <1>2, <1>3

\* A step of a thread that is running.
LEMMA RunningKeepsDrain ==
    ASSUME Drain, NEW t \in Runners, UNCHANGED <<main, mStopping, idleTerm>>,
           \A u \in Runners \ {t} : pc'[u] = pc[u],
           pc[t] \notin {"off", "exit"}, pc'[t] # "off", pc'[t] = "exit" => idleTerm[t],
           \A i \in DOMAIN queue' : \/ queue'[i].thread = AnyThread
                                    \/ \E k \in DOMAIN queue : queue'[i] = queue[k],
           ~Leaves(t)' \/ queue' = <<>> \/ (queue' = queue /\ Leaves(t))
    PROVE  Drain'
<1> USE DEF Drain
<1>1. SeenStopping'
  BY DEF SeenStopping
<1>2. StopPlaces'
  BY DEF StopPlaces, Runners
<1>3. SomebodyScans'
  <2>1. \A u \in Runners \ {t} : ~Leaves(u) => ~Leaves(u)'
    BY DEF Leaves
  <2> QED
    BY <2>1 DEF SomebodyScans
<1> QED
  BY <1>1, <1>2, <1>3

\* Nothing keeps a thread from taking a task that is not pinned.
LEMMA NothingEligible ==
    ASSUME TypeInv, OwnInv, Drain, NEW t \in Runners, ScanNone(t), idleTerm[t]
    PROVE  queue = <<>>
<1>1. ASSUME NEW i \in DOMAIN queue PROVE Eligible(t, queue[i])
  BY DEF Drain, SeenStopping, OwnInv, QueuePlaces, Waiting, Eligible
<1> QED
  BY <1>1, EmptyQueue DEF ScanNone, TypeInv

LEMMA StopStepKeepsDrain ==
    ASSUME TypeInv, Drain, Start \/ StopStep
    PROVE  Drain'
<1> USE DEF Drain, schedVars, fiberVars, threadVars, jobVars
<1>a. /\ Runners = Workers \cup Caller /\ Workers \cap Caller = {} /\ Runners # {}
      /\ pc \in [Runners -> Pc] /\ \A t \in Runners : idleTerm[t] \in BOOLEAN
  BY SchedulerAssumption DEF Runners, TypeInv, TypeOK
<1>1. CASE Start
  <2>1. \A t \in Runners : ~idleTerm[t]
    BY <1>1 DEF Start, SeenStopping
  <2> QED
    BY <1>a, <1>1, <2>1 DEF Start, SeenStopping, SomebodyScans, StopPlaces
<1>2. CASE StopBegin
  <2>1. \A t \in Runners : ~idleTerm[t] /\ pc[t] # "exit"
    BY <1>2 DEF StopBegin, SeenStopping, StopPlaces
  <2>2. SeenStopping' /\ UNCHANGED <<pc, queue, idleTerm>>
    BY <1>2, <2>1 DEF StopBegin, SeenStopping
  <2>3. \A t \in Caller : pc[t] = "off"
    BY <1>2 DEF StopBegin, TypeInv, NotYetRunning
  <2>4. CASE main' = "join" /\ Caller = {}
    <3>1. PICK t \in Workers : TRUE
      BY <1>a, <2>4
    <3>2. t \in Runners /\ ~Leaves(t)'
      BY <1>a, <1>2, <2>1, <2>2 DEF StopBegin, StopPlaces, Leaves
    <3> QED
      BY <2>1, <2>2, <2>4, <3>2 DEF SomebodyScans, StopPlaces
  <2>5. CASE main' = "stopped" /\ Workers = {} /\ queue = <<>>
    BY <1>a, <2>1, <2>2, <2>3, <2>5 DEF SomebodyScans, StopPlaces
  <2>6. CASE main' = "check" /\ Caller # {}
    BY <2>1, <2>2, <2>6 DEF SomebodyScans, StopPlaces
  <2> QED
    BY <1>2, <2>4, <2>5, <2>6 DEF StopBegin
<1>3. CASE StopCheck
  <2>0. main = "check" /\ \A t \in Caller : pc[t] = "off"
    BY <1>3 DEF StopCheck, TypeInv, NotYetRunning
  <2>1. SeenStopping' /\ UNCHANGED <<queue, idleTerm>>
    BY <1>3 DEF StopCheck, SeenStopping
  <2>2. CASE Stopping /\ main' = "join" /\ UNCHANGED pc
    BY <2>0, <2>1, <2>2 DEF Stopping, SomebodyScans, StopPlaces
  <2>3. CASE main' = "call" /\ pc' = [t \in Runners |-> IF t \in Caller THEN "scan" ELSE pc[t]]
    <3>1. PICK t \in Caller : TRUE
      BY <2>0 DEF StopPlaces
    <3>2. t \in Runners /\ ~Leaves(t)'
      BY <1>a, <2>3 DEF Leaves
    <3>3. StopPlaces'
      BY <2>1, <2>3 DEF StopPlaces
    <3> QED
      BY <2>1, <3>2, <3>3 DEF SomebodyScans
  <2> QED
    BY <1>3, <2>2, <2>3 DEF StopCheck
<1>4. CASE StopCalled
  BY <1>4 DEF StopCalled, SeenStopping, SomebodyScans, StopPlaces, Leaves
<1>5. CASE StopJoin
  BY <1>a, <1>5 DEF StopJoin, SeenStopping, SomebodyScans, StopPlaces, Leaves
<1> QED
  BY <1>1, <1>2, <1>3, <1>4, <1>5 DEF StopStep

LEMMA DrainStep ==
    ASSUME TypeInv, JobInv, OwnInv, Drain, ~MayHold, SpawnPins \subseteq {AnyThread}, [Next]_vars
    PROVE  Drain'
<1> USE DEF schedVars, fiberVars, threadVars, jobVars
<1>a. TypeOK /\ pc \in [Runners -> Pc] /\ queue \in Seq(Entry)
  BY DEF TypeInv, TypeOK
<1>b. \A j \in Jobs, p \in Runners \cup {AnyThread} : ScheduleJob(j, p) =>
         \A i \in DOMAIN queue' : queue'[i].thread = p \/ \E k \in DOMAIN queue : queue'[i] = queue[k]
  <2> SUFFICES ASSUME NEW j \in Jobs, NEW p \in Runners \cup {AnyThread}, ScheduleJob(j, p)
               PROVE  \A i \in DOMAIN queue' : \/ queue'[i].thread = p
                                               \/ \E k \in DOMAIN queue : queue'[i] = queue[k]
    OBVIOUS
  <2>1. \E e \in Entry : e.thread = p /\ queue' = Append(queue, e)
    BY EntryTypes DEF ScheduleJob, Enqueue, CbEntry, FiberEntry
  <2> QED
    BY <1>a, <2>1, EntriesAfterAppend
<1>1. CASE \E j \in Jobs, p \in Pins : Submit(j, p)
  <2>1. main \in {"new", "up"} /\ UNCHANGED <<main, mStopping, idleTerm, pc>>
    BY <1>1 DEF Submit, ScheduleJob
  <2> QED
    BY <2>1 DEF Drain, SeenStopping, SomebodyScans, StopPlaces
<1>2. CASE \E t \in Runners, j \in Jobs, p \in SpawnPins : Spawn(t, j, p)
  <2> PICK t \in Runners, j \in Jobs, p \in SpawnPins : Spawn(t, j, p)
    BY <1>2
  <2>1. /\ pc[t] = "exec" /\ UNCHANGED <<main, mStopping, idleTerm, pc>>
        /\ ScheduleJob(j, p) /\ p = AnyThread
    BY DEF Spawn, ScheduleJob
  <2>2. \A i \in DOMAIN queue' : \/ queue'[i].thread = AnyThread
                                 \/ \E k \in DOMAIN queue : queue'[i] = queue[k]
    BY <1>b, <2>1
  <2>3. ~Leaves(t)' /\ pc[t] \notin {"off", "exit"} /\ pc'[t] \notin {"off", "exit"}
    BY <2>1 DEF Leaves
  <2> QED
    BY <2>1, <2>2, <2>3, RunningKeepsDrain
<1>3. CASE Start \/ StopStep
  BY <1>3, StopStepKeepsDrain
<1>4. CASE \E t \in Runners : ScanNone(t)
  <2> PICK t \in Runners : ScanNone(t)
    BY <1>4
  <2>1. pc[t] = "scan" /\ pc' = [pc EXCEPT ![t] = "noTask"] /\ UNCHANGED <<main, mStopping, idleTerm, queue>>
    BY DEF ScanNone, Goto
  <2>2. pc'[t] = "noTask" /\ \A u \in Runners \ {t} : pc'[u] = pc[u]
    BY <1>a, <2>1
  <2>3. ~Leaves(t)' \/ queue' = <<>>
    BY <2>1, <2>2, NothingEligible DEF Leaves
  <2> QED
    BY <2>1, <2>2, <2>3, RunningKeepsDrain
<1>5. CASE \E t \in Runners : Exit(t)
  <2> PICK t \in Runners : Exit(t)
    BY <1>5
  <2>1. /\ pc[t] = "noTask" /\ idleTerm[t] /\ pc'[t] = "exit"
        /\ UNCHANGED <<main, mStopping, idleTerm, queue>> /\ \A u \in Runners \ {t} : pc'[u] = pc[u]
    BY <1>a DEF Exit, Goto
  <2> QED
    BY <2>1, RunningKeepsDrain DEF Leaves
<1>6. CASE \E t \in Runners : Idle(t)
  <2> PICK t \in Runners : Idle(t)
    BY <1>6
  <2>1. /\ pc[t] = "idle" /\ pc'[t] = "idleOut" /\ UNCHANGED <<main, mStopping, queue>>
        /\ idleTerm'[t] = Stopping
        /\ \A u \in Runners \ {t} : pc'[u] = pc[u] /\ idleTerm'[u] = idleTerm[u]
    BY <1>a DEF Idle, Goto, TypeOK
  <2>2. ~Leaves(t)' /\ \A u \in Runners \ {t} : Leaves(u)' <=> Leaves(u)
    BY <2>1 DEF Leaves
  <2>3. Stopping => main \notin {"new", "up"} /\ DOMAIN queue = {}
    BY <1>a, <2>1, EmptyQueue DEF Stopping, Drain, StopPlaces, TypeInv, NotYetRunning
  <2>4. SeenStopping'
    BY <2>1, <2>3 DEF Drain, SeenStopping, Stopping
  <2>5. StopPlaces'
    BY <2>1 DEF Drain, StopPlaces, Runners
  <2> QED
    BY <2>1, <2>2, <2>4, <2>5 DEF Drain, SomebodyScans
<1>7. CASE \E t \in Runners : IdleIn(t) \/ IdleOut(t) \/ SwapOut(t) \/ Returned(t) \/ PostUnfinished(t)
                              \/ PostFinished(t) \/ Resume(t) \/ RunCb(t) \/ YieldToReady(t)
                              \/ \E s \in Finished : Finish(t, s)
  <2> PICK t \in Runners : IdleIn(t) \/ IdleOut(t) \/ SwapOut(t) \/ Returned(t) \/ PostUnfinished(t)
                           \/ PostFinished(t) \/ Resume(t) \/ RunCb(t) \/ YieldToReady(t)
                           \/ \E s \in Finished : Finish(t, s)
    BY <1>7
  <2>1. /\ pc[t] \in {"noTask", "idleOut", "swapOut", "returned", "post", "took", "exec"}
        /\ UNCHANGED <<main, mStopping, idleTerm, queue>>
        /\ \E l \in Pc \ {"off", "exit", "noTask"} : pc' = [pc EXCEPT ![t] = l]
    BY DEF IdleIn, IdleOut, SwapOut, Returned, PostUnfinished, PostFinished, Resume, RunCb,
       YieldToReady, Finish, SwapIn, TookFiber, Goto, Pc, ActivePc, PostPc
  <2>2. ~Leaves(t)' /\ pc'[t] \notin {"off", "exit"} /\ \A u \in Runners \ {t} : pc'[u] = pc[u]
    BY <1>a, <2>1 DEF Leaves
  <2> QED
    BY <2>1, <2>2, RunningKeepsDrain
<1>8. CASE \E t \in Runners : ScanTake(t)
  <2> PICK t \in Runners : ScanTake(t)
    BY <1>8
  <2>1. /\ pc[t] = "scan" /\ pc'[t] = "took" /\ \A u \in Runners \ {t} : pc'[u] = pc[u]
        /\ UNCHANGED <<main, mStopping, idleTerm>>
    BY <1>a DEF ScanTake, Goto
  <2>2. \A k \in DOMAIN queue' : \E m \in DOMAIN queue : queue'[k] = queue[m]
    BY <1>a, RemoveAtElements DEF ScanTake
  <2> QED
    BY <2>1, <2>2, RunningKeepsDrain DEF Leaves
<1>9. CASE \E t \in Runners : Reschedule(t)
  <2> PICK t \in Runners : Reschedule(t)
    BY <1>9
  <2>1. /\ pc[t] = "resched" /\ pc'[t] = "scan" /\ \A u \in Runners \ {t} : pc'[u] = pc[u]
        /\ UNCHANGED <<main, mStopping, idleTerm>>
    BY <1>a DEF Reschedule, Goto
  <2>2. \A i \in DOMAIN queue' : \/ queue'[i].thread = AnyThread
                                 \/ \E k \in DOMAIN queue : queue'[i] = queue[k]
    <3>1. Current(t) \in Fibers \cup {NoFiber}
      BY <1>a, CurrentType
    <3>2. /\ FiberEntry(Current(t), AnyThread) \in Entry
          /\ FiberEntry(Current(t), AnyThread).thread = AnyThread
      BY <3>1, EntryTypes DEF FiberEntry
    <3> QED
      BY <1>a, <3>2, EntriesAfterAppend DEF Reschedule, Enqueue
  <2> QED
    BY <2>1, <2>2, RunningKeepsDrain DEF Leaves
<1>10. CASE UNCHANGED vars
  <2>1. UNCHANGED <<main, mStopping, idleTerm, pc, queue>>
    BY <1>10 DEF vars
  <2> QED
    BY <2>1 DEF Drain, SeenStopping, SomebodyScans, StopPlaces, Leaves
<1>11. \A t \in Runners : ~Arm(t)
  BY DEF Arm
<1>12. \A f \in Fibers : ~Wake(f)
  BY DEF Wake, OwnInv
<1>13. \E t \in Runners : TRUE
  BY SchedulerAssumption
<1> QED
  BY <1>1, <1>2, <1>3, <1>4, <1>5, <1>6, <1>7, <1>8, <1>9, <1>10, <1>11, <1>12, <1>13, NoAborts
  DEF Next, RunStep, JobStep, Halted

\* stop() does not return before the list is empty, no thread executes a
\* task and every job has finished, where no job holds and jobs schedule
\* without a thread argument.
THEOREM StopWaits ==
    ASSUME ~MayHold, SpawnPins \subseteq {AnyThread}
    PROVE  Spec => []StopDrains
<1>1. Init => Drain
  BY DEF Init, Drain, SeenStopping, SomebodyScans, StopPlaces
<1>2. TypeInv /\ JobInv /\ OwnInv /\ Drain /\ [Next]_vars => Drain'
  BY DrainStep
<1>3. ASSUME TypeInv, JobInv, OwnInv, Drain, CountersMatch PROVE StopDrains
  <2> SUFFICES ASSUME main = "stopped"
               PROVE  queue = <<>> /\ active = 0 /\ \A j \in Jobs : phase[j] # "submitted"
    BY DEF StopDrains
  <2>1. \A t \in Runners : pc[t] \in {"off", "exit"}
    BY <1>3 DEF Drain, StopPlaces
  <2>2. queue = <<>>
    BY <1>3, <2>1 DEF Drain, SomebodyScans, Leaves
  <2>3. active = 0
    <3>1. {t \in Runners : pc[t] \in ActivePc} = {}
      BY <2>1 DEF ActivePc
    <3> QED
      BY <1>3, <3>1, FS_EmptySet DEF CountersMatch
  <2>4. ASSUME NEW j \in Jobs, phase[j] = "submitted" PROVE FALSE
    <3>1. DOMAIN queue = {}
      BY <2>2
    <3>2. PICK f \in Fibers : mCb[f] = j
      BY <1>3, <2>1, <2>4, <3>1 DEF OwnInv, Somewhere
    <3>3. Live(f)
      BY <2>4, <3>2 DEF Live
    <3>4. PICK t \in Runners : ft[t].fiber = f \/ cbFiber[t] = f
      BY <1>3, <3>1, <3>3 DEF OwnInv, Kept, Owned
    <3>5. pc[t] \notin OnFiber \cup {"took"}
      BY <2>1 DEF OnFiber, StackPc, PostPc
    <3>6. NoFiber \notin Fibers /\ NoJob \notin Jobs
      BY SchedulerAssumption
    <3> QED
      BY <1>3, <2>4, <3>2, <3>4, <3>5, <3>6 DEF OwnInv, PlaceOf
  <2> QED
    BY <2>2, <2>3, <2>4
<1> QED
  BY <1>1, <1>2, <1>3, OwnInvHolds, CountersCorrect, PTL DEF Spec
=============================================================================
