------------------------------ MODULE Scheduler ------------------------------
(***************************************************************************)
(* The fiber scheduler: Fiber (fiber.cpp) and Scheduler (scheduler.cpp/.h).*)
(* A pool of threads, and the thread that calls stop() when the scheduler  *)
(* was built with use_caller, all execute Scheduler::run() on one shared   *)
(* list of tasks.  A task is a callback, which run() executes on the       *)
(* thread's cb_fiber, or a fiber, which run() resumes.                     *)
(*                                                                         *)
(* A step is one access to shared state: a critical section of m_mutex, or *)
(* one unlocked read or write of an atomic counter or of Fiber::m_state.   *)
(* tickle() of the base class only logs and is left out.                   *)
(***************************************************************************)
EXTENDS Integers, Sequences, FiniteSets, SequencesExt

CONSTANTS Workers,    \* the threads start() creates
          Caller,     \* {root thread} with use_caller, {} without
          Jobs,       \* the functions that users hand to schedule()
          Fibers,     \* fiber objects (memory is reused after destruction)
          AnyThread,  \* FiberOrCb::thread = -1
          NoFiber,    \* null Fiber::ptr
          NoJob,      \* null std::function
          Pins,       \* values main passes as schedule()'s thread argument
          SpawnPins,  \* the same, for schedule() called from a running job
          MaxYields,  \* bound: how often one job yields
          MayHold     \* whether jobs use YieldToHold

Runners == Workers \cup Caller

ASSUME SchedulerAssumption ==
    /\ IsFiniteSet(Runners) /\ Runners # {} /\ Workers \cap Caller = {}
    /\ \A c, d \in Caller : c = d
    /\ AnyThread \notin Runners /\ NoFiber \notin Fibers /\ NoJob \notin Jobs
    /\ Pins \subseteq Runners \cup {AnyThread}
    /\ SpawnPins \subseteq Runners \cup {AnyThread}
    /\ MaxYields \in Nat /\ MayHold \in BOOLEAN

VARIABLES queue,      \* m_fibers
          active,     \* m_activeThreadCount
          idling,     \* m_idleThreadCount
          mStopping,  \* m_stopping
          mState,     \* Fiber::m_state of every fiber object
          mCb,        \* Fiber::m_cb of every fiber object
          held,       \* fibers referenced by a wakeup source (timer, event)
          pc,         \* where each thread is in run()
          ft,         \* the local ft of run()
          cbFiber,    \* the local cb_fiber of run()
          idleTerm,   \* idle_fiber's state is TERM
          main,       \* where the owning thread is: start() ... stop()
          phase,      \* history of each job
          ran,        \* how often each job's function was entered
          pinOf,      \* the thread argument the job was scheduled with
          yields,     \* yields each job has left
          failed      \* the assertion that aborted the process, or "no"

schedVars  == <<queue, active, idling, mStopping>>
fiberVars  == <<mState, mCb, held>>
threadVars == <<pc, ft, cbFiber, idleTerm>>
jobVars    == <<phase, ran, pinOf, yields>>
vars == <<schedVars, fiberVars, threadVars, jobVars, main, failed>>

FiberState == {"INIT", "HOLD", "EXEC", "TERM", "READY", "EXCEPT"}
Finished   == {"TERM", "EXCEPT"}
Entry == [fiber : Fibers \cup {NoFiber}, cb : Jobs \cup {NoJob},
          thread : Runners \cup {AnyThread}]
\* Mutant: FiberOrCb::reset() and its constructor leave the thread unset.
NoEntryUnsetThread == [fiber |-> NoFiber, cb |-> NoJob, thread |-> NoFiber]

NoEntry == [fiber |-> NoFiber, cb |-> NoJob, thread |-> AnyThread]
FiberEntry(f, t) == [fiber |-> f, cb |-> NoJob, thread |-> t]
CbEntry(j, t)    == [fiber |-> NoFiber, cb |-> j, thread |-> t]

\* The pcs of run() between ++m_activeThreadCount and --m_activeThreadCount,
\* and those at which the thread executes on the stack of its current fiber.
ActivePc == {"took", "exec", "armed", "swapOut", "returned"}
StackPc  == {"exec", "armed", "swapOut"}
PostPc   == {"post", "resched", "setHold"}
Pc == ActivePc \cup PostPc \cup {"off", "scan", "noTask", "idle", "idleOut", "exit"}

\* The fiber thread t resumes: ft.fiber, or cb_fiber once ft.cb was moved in.
Current(t) == IF ft[t].fiber # NoFiber THEN ft[t].fiber ELSE cbFiber[t]
OnStack(t, f) == pc[t] \in StackPc /\ Current(t) = f

\* The function of f has returned or was never set.
Ended(f) == mCb[f] \notin {j \in Jobs : phase[j] = "submitted"}

\* Somebody who can resume or reuse f owns a Fiber::ptr to it.
Owned(f) ==
    \/ f \in held
    \/ \E i \in DOMAIN queue : queue[i].fiber = f
    \/ \E t \in Runners : ft[t].fiber = f \/ cbFiber[t] = f

\* ~Fiber runs when no Fiber::ptr is left.  From its entry to the end of its
\* function a fiber refers to itself, by `cur` in MainFunc.
Referenced(f) == Owned(f) \/ (mState[f] # "INIT" /\ ~Ended(f))

TypeOK ==
    /\ queue \in Seq(Entry)
    /\ active \in Int /\ idling \in Int
    /\ mStopping \in BOOLEAN
    /\ mState \in [Fibers -> FiberState]
    /\ mCb \in [Fibers -> Jobs \cup {NoJob}]
    /\ held \in SUBSET Fibers
    /\ pc \in [Runners -> Pc]
    /\ ft \in [Runners -> Entry]
    /\ cbFiber \in [Runners -> Fibers \cup {NoFiber}]
    /\ idleTerm \in [Runners -> BOOLEAN]
    /\ main \in {"new", "up", "check", "call", "join", "stopped", "aborted"}
    /\ phase \in [Jobs -> {"new", "submitted", "done"}]
    /\ ran \in [Jobs -> Nat]
    /\ pinOf \in [Jobs -> Runners \cup {AnyThread}]
    /\ yields \in [Jobs -> 0 .. MaxYields]
    /\ failed \in {"no", "swapIn", "stack", "ended", "reset", "yield", "destroy"}

Init ==
    /\ queue = <<>> /\ active = 0 /\ idling = 0 /\ mStopping = TRUE
    /\ mState = [f \in Fibers |-> "TERM"] /\ mCb = [f \in Fibers |-> NoJob]
    /\ held = {}
    /\ pc = [t \in Runners |-> "off"] /\ ft = [t \in Runners |-> NoEntry]
    /\ cbFiber = [t \in Runners |-> NoFiber]
    /\ idleTerm = [t \in Runners |-> FALSE]
    /\ main = "new"
    /\ phase = [j \in Jobs |-> "new"] /\ ran = [j \in Jobs |-> 0]
    /\ pinOf = [j \in Jobs |-> AnyThread] /\ yields = [j \in Jobs |-> MaxYields]
    /\ failed = "no"

Goto(t, l) == pc' = [pc EXCEPT ![t] = l]

\* SERVER_CC_ASSERT calls assert(): the process, with all its threads, ends.
Abort(why) ==
    /\ failed' = why /\ main' = "aborted"
    /\ pc' = [t \in Runners |-> "off"] /\ held' = {}
    /\ active' = 0 /\ idling' = 0
    /\ UNCHANGED <<queue, mStopping, mState, mCb, ft, cbFiber, idleTerm, jobVars>>

-----------------------------------------------------------------------------
(* schedule() and the owner's start() and stop().                          *)

\* scheduleNoLock: append under m_mutex; the returned need_tickle is unused
\* by the base class.
Enqueue(e) == queue' = Append(queue, e)

\* The states in which reset() and ~Fiber accept a fiber.
Disposable == Finished \cup {"INIT"}

\* new Fiber(cb): the object is constructed in memory nobody refers to.
Free(f) == ~Referenced(f) /\ mState[f] \in Disposable

\* schedule(cb, thread), or schedule(Fiber::ptr(new Fiber(cb)), thread).
ScheduleJob(j, p) ==
    /\ phase[j] = "new"
    /\ phase' = [phase EXCEPT ![j] = "submitted"]
    /\ pinOf' = [pinOf EXCEPT ![j] = p]
    /\ \/ Enqueue(CbEntry(j, p)) /\ UNCHANGED <<mState, mCb>>
       \/ \E f \in Fibers :
            /\ Free(f)
            /\ mState' = [mState EXCEPT ![f] = "INIT"]
            /\ mCb' = [mCb EXCEPT ![f] = j]
            /\ Enqueue(FiberEntry(f, p))
    /\ UNCHANGED <<active, idling, mStopping, held, threadVars, main, ran, yields, failed>>

Submit(j, p) == main \in {"new", "up"} /\ ScheduleJob(j, p)

Spawn(t, j, p) == pc[t] = "exec" /\ ScheduleJob(j, p)

\* start(): holds m_mutex while it creates the threads.
Start ==
    /\ main = "new" /\ main' = "up"
    /\ mStopping' = FALSE
    /\ pc' = [t \in Runners |-> IF t \in Workers THEN "scan" ELSE "off"]
    /\ UNCHANGED <<queue, active, idling, fiberVars, ft, cbFiber, idleTerm, jobVars, failed>>

\* Mutant: stopping() does not look at m_fibers.
StoppingIgnoresQueue == mStopping /\ active = 0

\* Scheduler::stopping()
Stopping == mStopping /\ queue = <<>> /\ active = 0

\* stop() up to the test of stopping(); the early return when the caller is
\* the only runner and has nothing to do.
StopBegin ==
    /\ main = "up"
    /\ mStopping' = TRUE
    /\ main' = IF Caller = {} THEN "join"
               ELSE IF Workers = {} /\ queue = <<>> /\ active = 0 THEN "stopped"
               ELSE "check"
    /\ UNCHANGED <<queue, active, idling, fiberVars, threadVars, jobVars, failed>>

\* if(!stopping()) m_rootFiber->call();
StopCheck ==
    /\ main = "check"
    /\ \/ Stopping /\ main' = "join" /\ UNCHANGED pc
       \/ /\ ~Stopping /\ main' = "call"
          /\ pc' = [t \in Runners |-> IF t \in Caller THEN "scan" ELSE pc[t]]
    /\ UNCHANGED <<schedVars, fiberVars, ft, cbFiber, idleTerm, jobVars, failed>>

\* CallerMainFunc -> back(): run() has returned on the caller.
StopCalled ==
    /\ main = "call" /\ \A t \in Caller : pc[t] = "exit"
    /\ main' = "join"
    /\ UNCHANGED <<schedVars, fiberVars, threadVars, jobVars, failed>>

\* for(auto& i : thrs) i->join();
StopJoin ==
    /\ main = "join" /\ \A t \in Workers : pc[t] = "exit"
    /\ main' = "stopped"
    /\ UNCHANGED <<schedVars, fiberVars, threadVars, jobVars, failed>>

-----------------------------------------------------------------------------
(* Scheduler::run() on thread t.                                           *)

\* Mutant: the scan does not compare it->thread with its own id.
EligibleAnywhere(t, e) == e.fiber # NoFiber => mState[e.fiber] # "EXEC"

\* it->thread is this thread or -1, and a fiber still executing is skipped.
Eligible(t, e) ==
    /\ e.thread \in {AnyThread, t}
    /\ e.fiber # NoFiber => mState[e.fiber] # "EXEC"

\* Mutant: the task is copied but not erased from m_fibers.
ScanTakeKeepsEntry(t) ==
    /\ pc[t] = "scan"
    /\ \E i \in DOMAIN queue :
        /\ Eligible(t, queue[i])
        /\ \A k \in 1 .. (i - 1) : ~Eligible(t, queue[k])
        /\ ft' = [ft EXCEPT ![t] = queue[i]]
    /\ active' = active + 1
    /\ Goto(t, "took")
    /\ UNCHANGED <<queue, idling, mStopping, fiberVars, cbFiber, idleTerm, main, jobVars, failed>>

\* The scan under m_mutex takes the first eligible task ...
ScanTake(t) ==
    /\ pc[t] = "scan"
    /\ \E i \in DOMAIN queue :
        /\ Eligible(t, queue[i])
        /\ \A k \in 1 .. (i - 1) : ~Eligible(t, queue[k])
        /\ ft' = [ft EXCEPT ![t] = queue[i]]
        /\ queue' = RemoveAt(queue, i)
    /\ active' = active + 1
    /\ Goto(t, "took")
    /\ UNCHANGED <<idling, mStopping, fiberVars, cbFiber, idleTerm, main, jobVars, failed>>

\* ... or finds none.
ScanNone(t) ==
    /\ pc[t] = "scan"
    /\ \A i \in DOMAIN queue : ~Eligible(t, queue[i])
    /\ Goto(t, "noTask")
    /\ UNCHANGED <<schedVars, fiberVars, ft, cbFiber, idleTerm, main, jobVars, failed>>

\* Fiber::swapIn(): switch to f, which starts the job of a fresh fiber.
SwapIn(t, f, j, fresh) ==
    /\ Goto(t, "exec")
    /\ mState' = [mState EXCEPT ![f] = "EXEC"]
    /\ ran' = IF fresh THEN [ran EXCEPT ![j] = @ + 1] ELSE ran

TookFiber(t) == pc[t] = "took" /\ ft[t].fiber # NoFiber
InUse(f) == \E u \in Runners : OnStack(u, f)
Resumable(f) == mState[f] \notin Finished \cup {"EXEC"}

\* A fiber that has finished since it was queued is dropped.
DropFinished(t) ==
    /\ TookFiber(t) /\ mState[ft[t].fiber] \in Finished
    /\ active' = active - 1
    /\ ft' = [ft EXCEPT ![t] = NoEntry]
    /\ Goto(t, "scan")
    /\ UNCHANGED <<queue, idling, mStopping, fiberVars, cbFiber, idleTerm, main, jobVars, failed>>

Resume(t) ==
    /\ TookFiber(t)
    /\ LET f == ft[t].fiber IN
       /\ Resumable(f) /\ ~InUse(f) /\ ~Ended(f)
       /\ SwapIn(t, f, mCb[f], mState[f] = "INIT")
    /\ UNCHANGED <<schedVars, mCb, held, ft, cbFiber, idleTerm, main, phase, pinOf, yields, failed>>

\* A fiber that was reset(nullptr) since it was queued: calling the empty
\* function throws at once.
ResumeEmpty(t) ==
    /\ TookFiber(t)
    /\ LET f == ft[t].fiber IN
       /\ mState[f] = "INIT" /\ ~InUse(f) /\ Ended(f)
       /\ mState' = [mState EXCEPT ![f] = "EXCEPT"]
    /\ Goto(t, "swapOut")
    /\ UNCHANGED <<schedVars, mCb, held, ft, cbFiber, idleTerm, main, jobVars, failed>>

\* A callback task runs on cb_fiber: Fiber::reset(cb) or a new Fiber.
RunCb(t) ==
    /\ pc[t] = "took" /\ ft[t].fiber = NoFiber
    /\ \E f \in Fibers :
        /\ IF cbFiber[t] = NoFiber THEN Free(f)
           ELSE f = cbFiber[t] /\ mState[f] \in Disposable /\ ~InUse(f)
        /\ cbFiber' = [cbFiber EXCEPT ![t] = f]
        /\ mCb' = [mCb EXCEPT ![f] = ft[t].cb]
        /\ SwapIn(t, f, ft[t].cb, TRUE)
    /\ ft' = [ft EXCEPT ![t] = NoEntry]
    /\ UNCHANGED <<schedVars, held, idleTerm, main, phase, pinOf, yields, failed>>

\* The process aborts, or is undefined, when swapIn() finds the fiber in
\* EXEC, when another thread is still on the fiber's stack (no context was
\* saved yet), when the fiber's function has already returned ("never
\* reach"), when reset() meets a fiber in use, and when a yield finds its own
\* state not EXEC.
AbortSwapIn(t) == TookFiber(t) /\ mState[ft[t].fiber] = "EXEC" /\ Abort("swapIn")

AbortStack(t) ==
    /\ TookFiber(t) /\ Resumable(ft[t].fiber) /\ InUse(ft[t].fiber)
    /\ Abort("stack")

AbortEnded(t) ==
    /\ TookFiber(t) /\ Resumable(ft[t].fiber) /\ ~InUse(ft[t].fiber)
    /\ Ended(ft[t].fiber) /\ mState[ft[t].fiber] # "INIT"
    /\ Abort("ended")

AbortYield(t) ==
    /\ \/ pc[t] = "armed"
       \/ pc[t] = "exec" /\ yields[mCb[Current(t)]] > 0
    /\ mState[Current(t)] # "EXEC"
    /\ Abort("yield")

-----------------------------------------------------------------------------
(* The job on thread t.                                                    *)

CurrentJob(t) == mCb[Current(t)]

SpendYield(t) ==
    /\ yields[CurrentJob(t)] > 0
    /\ yields' = [yields EXCEPT ![CurrentJob(t)] = @ - 1]

SetState(t, s) == mState' = [mState EXCEPT ![Current(t)] = s]

\* The state changes first; the context is saved by SwapOut, a later step.
YieldToReady(t) ==
    /\ pc[t] = "exec" /\ mState[Current(t)] = "EXEC"
    /\ SpendYield(t)
    /\ SetState(t, "READY")
    /\ Goto(t, "swapOut")
    /\ UNCHANGED <<schedVars, mCb, held, ft, cbFiber, idleTerm, main, phase, ran, pinOf, failed>>

\* Before it holds, the fiber hands a reference to whatever will wake it.
Arm(t) ==
    /\ MayHold /\ pc[t] = "exec"
    /\ SpendYield(t)
    /\ held' = held \cup {Current(t)}
    /\ Goto(t, "armed")
    /\ UNCHANGED <<schedVars, mState, mCb, ft, cbFiber, idleTerm, main, phase, ran, pinOf, failed>>

YieldToHold(t) ==
    /\ pc[t] = "armed" /\ mState[Current(t)] = "EXEC"
    /\ SetState(t, "HOLD")
    /\ Goto(t, "swapOut")
    /\ UNCHANGED <<schedVars, mCb, held, ft, cbFiber, idleTerm, main, jobVars, failed>>

\* MainFunc after m_cb(): TERM clears m_cb, an exception leaves it.
Finish(t, s) ==
    /\ pc[t] = "exec"
    /\ phase' = [phase EXCEPT ![CurrentJob(t)] = "done"]
    /\ SetState(t, s)
    /\ mCb' = IF s = "TERM" THEN [mCb EXCEPT ![Current(t)] = NoJob] ELSE mCb
    /\ Goto(t, "swapOut")
    /\ UNCHANGED <<schedVars, held, ft, cbFiber, idleTerm, main, ran, pinOf, yields, failed>>

\* The wakeup source schedules the fiber it was given.
Wake(f) ==
    /\ f \in held
    /\ held' = held \ {f}
    /\ Enqueue(FiberEntry(f, AnyThread))
    /\ UNCHANGED <<active, idling, mStopping, mState, mCb, threadVars, main, jobVars, failed>>

-----------------------------------------------------------------------------
(* Back in run() after swapIn().                                           *)

SwapOut(t) ==
    /\ pc[t] = "swapOut" /\ Goto(t, "returned")
    /\ UNCHANGED <<schedVars, fiberVars, ft, cbFiber, idleTerm, main, jobVars, failed>>

\* Mutant: the thread still counts as active after its task.
ReturnedKeepsActive(t) ==
    /\ pc[t] = "returned" /\ Goto(t, "post")
    /\ UNCHANGED <<schedVars, fiberVars, ft, cbFiber, idleTerm, main, jobVars, failed>>

Returned(t) ==
    /\ pc[t] = "returned" /\ Goto(t, "post")
    /\ active' = active - 1
    /\ UNCHANGED <<queue, idling, mStopping, fiberVars, ft, cbFiber, idleTerm, main, jobVars, failed>>

\* The unlocked read of m_state decides what becomes of the fiber.
PostUnfinished(t) ==
    /\ pc[t] = "post" /\ mState[Current(t)] \notin Finished
    /\ Goto(t, IF mState[Current(t)] = "READY" THEN "resched" ELSE "setHold")
    /\ UNCHANGED <<schedVars, fiberVars, ft, cbFiber, idleTerm, main, jobVars, failed>>

\* ft.reset(), or cb_fiber->reset(nullptr), which keeps cb_fiber for reuse.
PostFinished(t) ==
    /\ pc[t] = "post" /\ mState[Current(t)] \in Finished
    /\ \/ /\ ft[t].fiber # NoFiber
          /\ ft' = [ft EXCEPT ![t] = NoEntry]
          /\ UNCHANGED <<mState, mCb>>
       \/ /\ ft[t].fiber = NoFiber
          /\ ~InUse(cbFiber[t])
          /\ SetState(t, "INIT")
          /\ mCb' = [mCb EXCEPT ![cbFiber[t]] = NoJob]
          /\ UNCHANGED ft
    /\ Goto(t, "scan")
    /\ UNCHANGED <<schedVars, held, cbFiber, idleTerm, main, jobVars, failed>>

\* reset() of cb_fiber, before a callback or after a finished one, when it is
\* suspended or a thread has not left its stack yet.
ResetsCbFiber(t) ==
    /\ ft[t].fiber = NoFiber /\ cbFiber[t] # NoFiber
    /\ pc[t] = "took" \/ (pc[t] = "post" /\ mState[cbFiber[t]] \in Finished)

AbortReset(t) ==
    /\ ResetsCbFiber(t)
    /\ mState[cbFiber[t]] \notin Disposable \/ InUse(cbFiber[t])
    /\ Abort("reset")

\* ft.reset() or cb_fiber.reset(): the thread gives up its reference.
Release(t) ==
    IF ft[t].fiber # NoFiber
    THEN ft' = [ft EXCEPT ![t] = NoEntry] /\ UNCHANGED cbFiber
    ELSE cbFiber' = [cbFiber EXCEPT ![t] = NoFiber] /\ UNCHANGED ft

\* ~Fiber asserts that a fiber nobody refers to has not begun or is finished.
AbortDestroy(f) ==
    /\ main # "aborted" /\ ~Referenced(f) /\ mState[f] \notin Disposable
    /\ Abort("destroy")

\* Mutants: a READY fiber is released but not scheduled again, or scheduled
\* again without cb_fiber.reset().
RescheduleLost(t) ==
    /\ pc[t] = "resched"
    /\ Release(t)
    /\ Goto(t, "scan")
    /\ UNCHANGED <<schedVars, fiberVars, idleTerm, main, jobVars, failed>>

RescheduleNoRelease(t) ==
    /\ pc[t] = "resched"
    /\ Enqueue(FiberEntry(Current(t), AnyThread))
    /\ ft' = [ft EXCEPT ![t] = NoEntry]
    /\ Goto(t, "scan")
    /\ UNCHANGED <<active, idling, mStopping, fiberVars, cbFiber, idleTerm, main, jobVars, failed>>

\* schedule(ft.fiber): no thread argument, so the task is no longer pinned.
Reschedule(t) ==
    /\ pc[t] = "resched"
    /\ Enqueue(FiberEntry(Current(t), AnyThread))
    /\ Release(t)
    /\ Goto(t, "scan")
    /\ UNCHANGED <<active, idling, mStopping, fiberVars, idleTerm, main, jobVars, failed>>

\* m_state = HOLD, whatever it has become since it was read.
SetHold(t) ==
    /\ pc[t] = "setHold"
    /\ SetState(t, "HOLD")
    /\ Release(t)
    /\ Goto(t, "scan")
    /\ UNCHANGED <<schedVars, mCb, held, idleTerm, main, jobVars, failed>>

-----------------------------------------------------------------------------
(* No task: the idle fiber, and the end of run().                          *)

Exit(t) ==
    /\ pc[t] = "noTask" /\ idleTerm[t]
    /\ Goto(t, "exit")
    /\ UNCHANGED <<schedVars, fiberVars, ft, cbFiber, idleTerm, main, jobVars, failed>>

IdleIn(t) ==
    /\ pc[t] = "noTask" /\ ~idleTerm[t]
    /\ idling' = idling + 1
    /\ Goto(t, "idle")
    /\ UNCHANGED <<queue, active, mStopping, fiberVars, ft, cbFiber, idleTerm, main, jobVars, failed>>

\* idle(): one test of stopping() per resume; the fiber terminates or holds.
Idle(t) ==
    /\ pc[t] = "idle"
    /\ idleTerm' = [idleTerm EXCEPT ![t] = Stopping]
    /\ Goto(t, "idleOut")
    /\ UNCHANGED <<schedVars, fiberVars, ft, cbFiber, main, jobVars, failed>>

IdleOut(t) ==
    /\ pc[t] = "idleOut"
    /\ idling' = idling - 1
    /\ Goto(t, "scan")
    /\ UNCHANGED <<queue, active, mStopping, fiberVars, ft, cbFiber, idleTerm, main, jobVars, failed>>

-----------------------------------------------------------------------------
RunStep(t) ==
    \/ ScanTake(t) \/ ScanNone(t) \/ DropFinished(t)
    \/ Resume(t) \/ ResumeEmpty(t) \/ RunCb(t)
    \/ AbortSwapIn(t) \/ AbortStack(t) \/ AbortEnded(t) \/ AbortYield(t) \/ AbortReset(t)
    \/ SwapOut(t) \/ Returned(t) \/ PostUnfinished(t) \/ PostFinished(t)
    \/ Reschedule(t) \/ SetHold(t)
    \/ Exit(t) \/ IdleIn(t) \/ Idle(t) \/ IdleOut(t)

JobStep(t) ==
    \/ YieldToReady(t) \/ Arm(t) \/ YieldToHold(t)
    \/ \E s \in Finished : Finish(t, s)
    \/ \E j \in Jobs, p \in SpawnPins : Spawn(t, j, p)

StopStep == StopBegin \/ StopCheck \/ StopCalled \/ StopJoin

\* stop() has returned, or the process was aborted.
Halted == main \in {"stopped", "aborted"} /\ UNCHANGED vars

Next ==
    \/ Start \/ StopStep
    \/ \E j \in Jobs, p \in Pins : Submit(j, p)
    \/ \E t \in Runners : RunStep(t) \/ JobStep(t)
    \/ \E f \in Fibers : Wake(f) \/ AbortDestroy(f)
    \/ Halted

Spec == Init /\ [][Next]_vars

\* Every runner thread keeps running, the owner finishes stop() once it has
\* begun, and a wakeup source eventually schedules what it holds.  Nothing
\* obliges the owner to call stop() or anybody to submit a job.
Fairness ==
    /\ \A t \in Runners : WF_vars(RunStep(t) \/ JobStep(t))
    /\ WF_vars(StopCheck \/ StopCalled \/ StopJoin)
    /\ \A f \in Fibers : WF_vars(Wake(f))

FairSpec == Spec /\ Fairness

-----------------------------------------------------------------------------
(* Properties.                                                             *)

\* The two atomic counters count exactly the threads that are executing a
\* task and the threads that are in the idle fiber; stopping() and tickle()
\* of the subclasses rely on them.
CountersMatch ==
    /\ active = Cardinality({t \in Runners : pc[t] \in ActivePc})
    /\ idling = Cardinality({t \in Runners : pc[t] \in {"idle", "idleOut"}})

\* No assertion of swapIn() or of the yields fires, and no fiber is resumed
\* or reset while another thread is on its stack.
NoAbort == failed = "no"

\* A job that was scheduled and has not finished is still owned by somebody
\* who will run it: it waits in m_fibers, a thread has just taken it, or its
\* unfinished fiber is in a list, a wakeup source or a thread's hands.  No
\* fiber is left suspended with only the reference on its own stack.
JobReachable ==
    \A j \in Jobs : phase[j] = "submitted" =>
        \/ \E i \in DOMAIN queue : queue[i].cb = j
        \/ \E t \in Runners : pc[t] = "took" /\ ft[t].cb = j
        \/ \E f \in Fibers :
              mCb[f] = j /\ mState[f] \notin Finished /\ Owned(f)

\* Whatever threads race for a task, its function is entered once, and it
\* does not finish without having been entered.
JobOnce == \A j \in Jobs : ran[j] <= 1 /\ (phase[j] = "done" => ran[j] = 1)

\* stop() does not return before every job is finished, although threads
\* leave run() one by one and finished jobs may have scheduled new ones.
StopDrains ==
    main = "stopped" =>
        queue = <<>> /\ active = 0 /\ \A j \in Jobs : phase[j] # "submitted"

\* A job scheduled for a thread starts on that thread.
StartsOnPin ==
    [][\A j \in Jobs : ran'[j] > ran[j] =>
          \E t \in Runners :
             pc[t] = "took" /\ pc'[t] = "exec" /\ pinOf[j] \in {AnyThread, t}]_vars

\* What the assertions in YieldToReady() and YieldToHold() say: a fiber that
\* yields is in state EXEC.
YieldsFromExec == failed # "yield"

\* Once begun, stop() returns.
StopTerminates == (mStopping /\ main # "new") ~> (main = "stopped")

\* While the scheduler is not being stopped, a scheduled job is eventually
\* executed to its end, however the others yield, hold and are woken.  The
\* use_caller thread runs tasks inside stop() only.
JobsComplete ==
    \A j \in Jobs :
        (phase[j] = "submitted" /\ main # "new" /\ pinOf[j] \notin Caller)
            ~> (phase[j] = "done" \/ mStopping)
=============================================================================
