-------------------------------- MODULE Hook --------------------------------
(***************************************************************************)
(* The hook (hook.cpp) and its table of descriptors (fd_manager.cpp/.h):   *)
(* a fiber that would block in read(), accept() or connect() sets a timer, *)
(* registers an event and yields; the event, the timer or close() wakes    *)
(* it, and it tries again or gives up.                                     *)
(*                                                                         *)
(* A step is a system call, a critical section of the timers, of a         *)
(* FdContext or of FdManager, or the test of timer_info.  Fibers and the   *)
(* callbacks of timers share a pool of threads: between two yields a fiber *)
(* keeps its thread, so with one thread nothing comes between its steps.   *)
(* IOManager and TimerManager are reduced to what they promise here: one   *)
(* registration per descriptor and event, and timers that cancel() stops   *)
(* until they are collected (modules of their own have the detail).        *)
(* read() stands for all calls do_io() is used for but accept(); a signal  *)
(* that interrupts a call (EINTR) only repeats it and is left out.         *)
(***************************************************************************)
EXTENDS Integers, FiniteSets

CONSTANTS Fibers, Fds,
          ThreadCounts,  \* the sizes of the pool of threads
          HookModes,     \* values of t_hook_enable, the same on all threads
          EarlyTimers,   \* a timer may be collected before its event is registered
          Fionbio,       \* what is passed to ioctl(FIONBIO)
          May,           \* the calls each fiber makes
          MaxOpen,       \* bound: how often a descriptor is opened
          MaxCalls,      \* bound: calls of each fiber, those that set options included
          MaxData,       \* bound: what waits unread on a descriptor
          NoFiber

Kinds == {"read", "accept", "connect", "sleep", "socket", "close", "option"}

ASSUME HookAssumption ==
    /\ IsFiniteSet(Fibers) /\ IsFiniteSet(Fds) /\ Fds \subseteq Nat /\ Fds # {} /\ NoFiber \notin Fibers
    /\ ThreadCounts \subseteq Nat \ {0} /\ HookModes \subseteq BOOLEAN
    /\ EarlyTimers \in BOOLEAN
    /\ May \in [Fibers -> SUBSET Kinds] /\ Fionbio \subseteq BOOLEAN
    /\ MaxOpen \in Nat \ {0} /\ MaxCalls \in Nat /\ MaxData \in Nat \ {0}

VARIABLES threads,  \* how many threads the pool has
          hook,     \* t_hook_enable
          failed,   \* an assertion has ended the process
          file,     \* kernel: which open file the descriptor is; 0 = closed
          opened,   \* kernel: how often the descriptor was opened
          avail,    \* kernel: bytes or connections that wait on it
          up,       \* kernel: its connection
          nonblock, \* kernel: O_NONBLOCK
          ctx,      \* FdManager: m_datas[fd]
          reg,      \* IOManager: the fiber and file registered for an event
          timers,   \* condition timers and sleepers' timers that still exist
          pc, call, calls, \* of each fiber: where it is, in which call
          cancelled,       \* timer_info::cancelled of the call
          late,            \* history: a timer of this call was collected
          result           \* how the last call ended

poolVars == <<threads, hook, failed>>
kernelVars == <<file, opened, avail, up, nonblock>>
fiberVars == <<pc, call, calls, cancelled, late, result>>
vars == <<poolVars, kernelVars, ctx, reg, timers, fiberVars>>
restVars == <<threads, hook, kernelVars, ctx, reg, timers, fiberVars>>

Events == {"READ", "WRITE"}
\* The event a call waits for, and the pcs of a fiber that has a thread.
EventOf(k) == IF k = "connect" THEN "WRITE" ELSE "READ"
OnThread == {"user", "plain", "try", "timer", "add", "check", "kernel", "adopt", "cancelAll", "del", "closef"}
NoCtx == [here |-> FALSE, user |-> FALSE, timed |-> FALSE]
NoReg == [who |-> NoFiber, file |-> 0]
NoCall == [kind |-> "socket", fd |-> CHOOSE fd \in Fds : \A d \in Fds : fd <= d, file |-> 0, timed |-> FALSE, ours |-> FALSE,
           shared |-> FALSE]

HookTypeOK ==
    /\ threads \in ThreadCounts /\ hook \in HookModes /\ failed \in BOOLEAN
    /\ file \in [Fds -> 0 .. MaxOpen] /\ opened \in [Fds -> 0 .. MaxOpen]
    /\ avail \in [Fds -> 0 .. MaxData] /\ nonblock \in [Fds -> BOOLEAN]
    /\ up \in [Fds -> {"idle", "progress", "up", "refused"}]
    /\ ctx \in [Fds -> [here : BOOLEAN, user : BOOLEAN, timed : BOOLEAN]]
    /\ reg \in [Fds \X Events -> [who : Fibers \cup {NoFiber}, file : 0 .. MaxOpen]]
    /\ timers \subseteq [owner : Fibers, call : 1 .. MaxCalls, kind : Kinds, fd : Fds,
                         stage : {"armed", "collected", "cancel"}]
    /\ pc \in [Fibers -> OnThread \cup {"new", "hold", "woken", "done"}]
    /\ call \in [Fibers -> [kind : Kinds, fd : Fds, file : 0 .. MaxOpen, timed : BOOLEAN, ours : BOOLEAN,
                         shared : BOOLEAN]]
    /\ calls \in [Fibers -> 0 .. MaxCalls]
    /\ cancelled \in [Fibers -> BOOLEAN] /\ late \in [Fibers -> BOOLEAN]
    /\ result \in [Fibers -> {"none", "data", "timeout", "badf", "error", "again",
                              "refused", "connected", "ok", "full"}]

\* One descriptor is open, and known if the hook is enabled; the others are free.
Init ==
    /\ threads \in ThreadCounts /\ hook \in HookModes /\ failed = FALSE
    /\ LET first == NoCall.fd IN
        /\ file = [fd \in Fds |-> IF fd = first THEN 1 ELSE 0]
        /\ nonblock = [fd \in Fds |-> hook /\ fd = first]
        /\ ctx = [fd \in Fds |-> IF hook /\ fd = first THEN [NoCtx EXCEPT !.here = TRUE] ELSE NoCtx]
    /\ opened = file
    /\ avail = [fd \in Fds |-> 0] /\ up = [fd \in Fds |-> "idle"]
    /\ reg = [r \in Fds \X Events |-> NoReg]
    /\ timers = {}
    /\ pc = [f \in Fibers |-> "new"]
    /\ call = [f \in Fibers |-> NoCall] /\ calls = [f \in Fibers |-> 0]
    /\ cancelled = [f \in Fibers |-> FALSE] /\ late = [f \in Fibers |-> FALSE]
    /\ result = [f \in Fibers |-> "none"]

-----------------------------------------------------------------------------
(* Threads                                                                 *)

Busy == Cardinality({f \in Fibers : pc[f] \in OnThread})
        + Cardinality({t \in timers : t.stage = "cancel"})
ThreadFree == Busy < threads

Goto(f, l) == pc' = [pc EXCEPT ![f] = l]
Keep(f, l) == Goto(f, l) /\ UNCHANGED <<call, calls, cancelled, late, result>>

Start(f) ==
    /\ pc[f] = "new" /\ ThreadFree
    /\ Keep(f, "user")
    /\ UNCHANGED <<poolVars, kernelVars, ctx, reg, timers>>

Finish(f) ==
    /\ pc[f] = "user"
    /\ Keep(f, "done")
    /\ UNCHANGED <<poolVars, kernelVars, ctx, reg, timers>>

\* timer_info is destroyed on return: timers of the call find no owner.
Return(f, r) ==
    /\ Goto(f, "user")
    /\ result' = [result EXCEPT ![f] = r]
    /\ call' = [call EXCEPT ![f] = NoCall]
    /\ cancelled' = [cancelled EXCEPT ![f] = FALSE]
    /\ late' = [late EXCEPT ![f] = FALSE]
    /\ UNCHANGED calls

\* open() and its kin return the lowest number that is free.
Lowest(fd) == file[fd] = 0 /\ \A d \in Fds : d < fd => file[d] # 0

InCall(f) == pc[f] \notin {"new", "user", "done"}
Closing(g, fd) == InCall(g) /\ call[g].kind = "close" /\ call[g].fd = fd

\* A descriptor the user knows: it is open, and socket() or accept() has returned it.
Known(fd) == file[fd] # 0 /\ \A g \in Fibers : ~(pc[g] = "adopt" /\ call[g].fd = fd)

\* A fiber is in a call that waits, if it must, for the same event of the number
\* as k would.  Such a call may outlive the file it began with.
Waits(g, k, fd) ==
    /\ InCall(g) /\ pc[g] # "adopt" /\ call[g].kind \in {"read", "accept", "connect"}
    /\ call[g].fd = fd /\ EventOf(call[g].kind) = EventOf(k)

\* The caller's side of addEvent(): two fibers do not use one file for one event.
\* They cannot know of a fiber still in a call on an earlier file of the number.
Only(f, k, fd) == \A g \in Fibers \ {f} : Waits(g, k, fd) => call[g].file # file[fd]

\* A fiber begins a call; ours: the hook takes it and nobody asked for EAGAIN;
\* shared: another fiber is still in a call on that number.
Begin(f, k, fd, ours, timed, l) ==
    /\ pc[f] = "user" /\ calls[f] < MaxCalls /\ k \in May[f]
    /\ Goto(f, l)
    /\ call' = [call EXCEPT ![f] = [kind |-> k, fd |-> fd, file |-> file[fd], timed |-> timed, ours |-> ours,
                                    shared |-> \E g \in Fibers \ {f} : Waits(g, k, fd)]]
    /\ calls' = [calls EXCEPT ![f] = @ + 1]
    /\ result' = [result EXCEPT ![f] = "none"]
    /\ UNCHANGED <<cancelled, late>>

\* A call that ends in the step in which it begins.
AtOnce(f, k, r) ==
    /\ pc[f] = "user" /\ calls[f] < MaxCalls /\ k \in May[f]
    /\ calls' = [calls EXCEPT ![f] = @ + 1]
    /\ result' = [result EXCEPT ![f] = r]
    /\ UNCHANGED <<pc, call, cancelled, late>>

-----------------------------------------------------------------------------
(* do_io() and connect_with_timeout()                                      *)

\* The first part of do_io(): a descriptor without FdCtx, or one the user
\* made nonblocking, gets the original call.
CallIo(f, k, fd) ==
    LET ours == hook /\ ctx[fd].here /\ ~ctx[fd].user IN
    /\ Known(fd) /\ k \in {"read", "accept"} /\ Only(f, k, fd)
    /\ Begin(f, k, fd, ours, ours /\ ctx[fd].timed, IF ours THEN "try" ELSE "plain")
    /\ UNCHANGED <<poolVars, kernelVars, ctx, reg, timers>>

\* One system call that finds something to read.  accept() makes the new
\* descriptor known to FdManager afterwards, whether the hook is enabled or not.
Obtain(f) ==
    LET fd == call[f].fd IN
    /\ pc[f] \in {"try", "plain"} /\ call[f].kind \in {"read", "accept"}
    /\ file[fd] # 0 /\ avail[fd] > 0
    /\ \/ /\ call[f].kind = "read"
          /\ avail' = [avail EXCEPT ![fd] = @ - 1]
          /\ Return(f, "data")
          /\ UNCHANGED <<file, opened, up, nonblock>>
       \/ /\ call[f].kind = "accept"
          /\ \E new \in Fds :
              /\ Lowest(new) /\ opened[new] < MaxOpen
              /\ file' = [file EXCEPT ![new] = opened[new] + 1]
              /\ opened' = [opened EXCEPT ![new] = @ + 1]
              /\ avail' = [avail EXCEPT ![fd] = @ - 1, ![new] = 0]
              /\ up' = [up EXCEPT ![new] = "up"]
              /\ nonblock' = [nonblock EXCEPT ![new] = FALSE]
              /\ call' = [call EXCEPT ![f].fd = new]
          /\ Goto(f, "adopt")
          /\ UNCHANGED <<calls, cancelled, late, result>>
    /\ UNCHANGED <<poolVars, ctx, reg, timers>>

\* FdManager::get(fd, true) with the constructor of FdCtx: a descriptor that is
\* known stays as it is, a new one is made nonblocking.
Adopt(f) ==
    LET fd == call[f].fd IN
    /\ pc[f] = "adopt"
    /\ IF ctx[fd].here THEN UNCHANGED <<ctx, nonblock>>
       ELSE /\ ctx' = [ctx EXCEPT ![fd] = [NoCtx EXCEPT !.here = TRUE]]
            /\ nonblock' = [nonblock EXCEPT ![fd] = TRUE]
    /\ Return(f, IF call[f].kind = "accept" THEN "data" ELSE "ok")
    /\ UNCHANGED <<poolVars, file, opened, avail, up, reg, timers>>

\* EAGAIN; without O_NONBLOCK the thread would stay in the kernel.
Again(f) ==
    LET fd == call[f].fd IN
    /\ pc[f] \in {"try", "plain"} /\ call[f].kind \in {"read", "accept"}
    /\ file[fd] # 0 /\ avail[fd] = 0 /\ nonblock[fd]
    /\ IF pc[f] = "plain" THEN Return(f, "again")
       ELSE Keep(f, IF call[f].timed THEN "timer" ELSE "add")
    /\ UNCHANGED <<poolVars, kernelVars, ctx, reg, timers>>

\* connect() always has a timeout, s_connect_timeout.
CallConnect(f, fd) ==
    LET ours == hook /\ ctx[fd].here /\ ~ctx[fd].user IN
    /\ Known(fd) /\ up[fd] = "idle" /\ Only(f, "connect", fd)
    /\ \/ /\ ~hook \/ ctx[fd].here
          /\ Begin(f, "connect", fd, ours, ours, IF ours THEN "try" ELSE "plain")
       \/ /\ hook /\ ~ctx[fd].here
          /\ AtOnce(f, "connect", "badf")
    /\ UNCHANGED <<poolVars, kernelVars, ctx, reg, timers>>

\* connect_f(): EINPROGRESS on a nonblocking descriptor.
Dial(f) ==
    LET fd == call[f].fd IN
    /\ pc[f] \in {"try", "plain"} /\ call[f].kind = "connect"
    /\ file[fd] # 0 /\ up[fd] = "idle"
    /\ up' = [up EXCEPT ![fd] = "progress"]
    /\ \/ ~nonblock[fd] /\ Keep(f, "kernel")
       \/ nonblock[fd] /\ pc[f] = "plain" /\ Return(f, "again")
       \/ nonblock[fd] /\ pc[f] = "try" /\ Keep(f, "timer")
    /\ UNCHANGED <<poolVars, file, opened, avail, nonblock, ctx, reg, timers>>

\* connect_f() on a blocking one returns.
Dialled(f) ==
    LET fd == call[f].fd IN
    /\ pc[f] = "kernel" /\ up[fd] # "progress"
    /\ Return(f, IF up[fd] = "up" THEN "connected" ELSE "refused")
    /\ UNCHANGED <<poolVars, kernelVars, ctx, reg, timers>>

\* The descriptor is closed, or for connect() no longer a fresh one, or there
\* is no number left for what accept() would return.
Refuse(f) ==
    LET fd == call[f].fd IN
    /\ pc[f] \in {"try", "plain"}
    /\ \/ file[fd] = 0 /\ Return(f, "badf")
       \/ /\ file[fd] # 0 /\ call[f].kind = "connect" /\ up[fd] # "idle"
          /\ Return(f, "error")
       \/ /\ file[fd] # 0 /\ call[f].kind = "accept" /\ avail[fd] > 0
          /\ \A new \in Fds : ~Lowest(new) \/ opened[new] = MaxOpen
          /\ Return(f, "full")
    /\ UNCHANGED <<poolVars, kernelVars, ctx, reg, timers>>

Timer(f, k, stage) ==
    [owner |-> f, call |-> calls[f], kind |-> k, fd |-> call[f].fd, stage |-> stage]
Armed(f) == Timer(f, call[f].kind, "armed")

AddTimer(f) ==
    /\ pc[f] = "timer"
    /\ timers' = timers \cup {Armed(f)}
    /\ Keep(f, "add")
    /\ UNCHANGED <<poolVars, kernelVars, ctx, reg>>

\* epoll knows what is registered for the descriptor: nothing of an earlier
\* file of the same number is left in IOManager.
Watched(fd) == \A e \in Events : reg[<<fd, e>>] # NoReg => reg[<<fd, e>>].file = file[fd]

\* addEvent() and YieldToHold().
AddEvent(f) ==
    LET fd == call[f].fd  e == <<call[f].fd, EventOf(call[f].kind)>> IN
    /\ pc[f] = "add" /\ reg[e] = NoReg /\ file[fd] # 0 /\ Watched(fd)
    /\ reg' = [reg EXCEPT ![e] = [who |-> f, file |-> file[fd]]]
    /\ Keep(f, "hold")
    /\ UNCHANGED <<poolVars, kernelVars, ctx, timers>>

\* The event is still registered, for this file or for an earlier one of the
\* number: the assertion of addEvent() ends the process.
AddEventAborts(f) ==
    /\ pc[f] = "add" /\ reg[<<call[f].fd, EventOf(call[f].kind)>>] # NoReg
    /\ failed' = TRUE
    /\ UNCHANGED restVars

\* epoll_ctl() fails, as nothing is open or the registration that makes it an
\* EPOLL_CTL_MOD is of an earlier file; do_io() gives up, connect_with_timeout() goes on.
AddEventFails(f) ==
    LET fd == call[f].fd  e == <<call[f].fd, EventOf(call[f].kind)>> IN
    /\ pc[f] = "add" /\ reg[e] = NoReg /\ (file[fd] = 0 \/ ~Watched(fd))
    /\ timers' = timers \ {Armed(f)}
    /\ IF call[f].kind = "connect" THEN Keep(f, "check") ELSE Return(f, "error")
    /\ UNCHANGED <<poolVars, kernelVars, ctx, reg>>

\* Mutant of Resume: after an event the call is not tried again.
ResumeNoRetry(f) ==
    /\ pc[f] = "woken" /\ ThreadFree
    /\ timers' = timers \ {Armed(f)}
    /\ \/ call[f].kind = "sleep" /\ Return(f, "ok")
       \/ call[f].kind # "sleep" /\ cancelled[f] /\ Return(f, "timeout")
       \/ call[f].kind \in {"read", "accept"} /\ ~cancelled[f] /\ Return(f, "again")
       \/ call[f].kind = "connect" /\ ~cancelled[f] /\ Keep(f, "check")
    /\ UNCHANGED <<poolVars, kernelVars, ctx, reg>>

\* Back from YieldToHold(): the timer is cancelled, timer_info says why.
Resume(f) ==
    /\ pc[f] = "woken" /\ ThreadFree
    /\ timers' = timers \ {Armed(f)}
    /\ \/ call[f].kind = "sleep" /\ Return(f, "ok")
       \/ call[f].kind # "sleep" /\ cancelled[f] /\ Return(f, "timeout")
       \/ call[f].kind \in {"read", "accept"} /\ ~cancelled[f] /\ Keep(f, "try")
       \/ call[f].kind = "connect" /\ ~cancelled[f] /\ Keep(f, "check")
    /\ UNCHANGED <<poolVars, kernelVars, ctx, reg>>

\* Mutant of Check: an event means that the connection is there.
CheckNoError(f) ==
    /\ pc[f] = "check"
    /\ Return(f, "connected")
    /\ UNCHANGED <<poolVars, kernelVars, ctx, reg, timers>>

\* getsockopt(SO_ERROR): no error is reported while the connect is in progress.
Check(f) ==
    LET fd == call[f].fd IN
    /\ pc[f] = "check"
    /\ Return(f, IF file[fd] = 0 THEN "badf"
                 ELSE IF up[fd] = "refused" THEN "refused" ELSE "connected")
    /\ UNCHANGED <<poolVars, kernelVars, ctx, reg, timers>>

-----------------------------------------------------------------------------
(* Timers and events                                                       *)

\* sleep(), usleep(), nanosleep(): a timer that schedules the fiber.
CallSleep(f, fd) ==
    /\ hook
    /\ Begin(f, "sleep", fd, FALSE, TRUE, "hold")
    /\ timers' = timers \cup {[owner |-> f, call |-> calls[f] + 1, kind |-> "sleep",
                               fd |-> fd, stage |-> "armed"]}
    /\ UNCHANGED <<poolVars, kernelVars, ctx, reg>>

\* An idle thread collects a timer that is due: cancel() comes too late.
Collect(t) ==
    /\ t \in timers /\ t.stage = "armed" /\ ThreadFree
    /\ EarlyTimers \/ pc[t.owner] # "add"
    /\ timers' = (timers \ {t}) \cup {[t EXCEPT !.stage = "collected"]}
    /\ late' = [late EXCEPT ![t.owner] = TRUE]
    /\ UNCHANGED <<poolVars, kernelVars, ctx, reg, pc, call, calls, cancelled, result>>

\* The weak pointer still finds the timer_info of the call.
Alive(t) == calls[t.owner] = t.call /\ InCall(t.owner)

\* Mutant of Fire: the callback does not cancel the event.
FireNoCancel(t) ==
    /\ t \in timers /\ t.stage = "collected" /\ ThreadFree
    /\ timers' = timers \ {t}
    /\ IF t.kind = "sleep" THEN Goto(t.owner, "woken") /\ UNCHANGED cancelled
       ELSE /\ cancelled' = [cancelled EXCEPT ![t.owner] = Alive(t) \/ @]
            /\ UNCHANGED pc
    /\ UNCHANGED <<poolVars, kernelVars, ctx, reg, call, calls, late, result>>

\* The callback up to t->cancelled = ETIMEDOUT, under OnTimer().
Fire(t) ==
    /\ t \in timers /\ t.stage = "collected" /\ ThreadFree
    /\ \/ /\ t.kind # "sleep" /\ Alive(t) /\ ~cancelled[t.owner]
          /\ cancelled' = [cancelled EXCEPT ![t.owner] = TRUE]
          /\ timers' = (timers \ {t}) \cup {[t EXCEPT !.stage = "cancel"]}
          /\ UNCHANGED pc
       \/ /\ t.kind # "sleep" /\ (~Alive(t) \/ cancelled[t.owner])
          /\ timers' = timers \ {t}
          /\ UNCHANGED <<cancelled, pc>>
       \/ /\ t.kind = "sleep"
          /\ timers' = timers \ {t}
          /\ Goto(t.owner, "woken")
          /\ UNCHANGED cancelled
    /\ UNCHANGED <<poolVars, kernelVars, ctx, reg, call, calls, late, result>>

\* triggerEvent(): the waiters of a set of registrations are scheduled.
Trigger(S) ==
    /\ pc' = [f \in Fibers |-> IF \E e \in S : reg[e].who = f THEN "woken" ELSE pc[f]]
    /\ reg' = [e \in DOMAIN reg |-> IF e \in S THEN NoReg ELSE reg[e]]

\* epoll_ctl() finds what IOManager wants to remove.
Live(e) == reg[e] # NoReg /\ reg[e].file = file[e[1]]

\* The callback's cancelEvent(), whoever waits there by now.
CancelEvent(t) ==
    /\ t \in timers /\ t.stage = "cancel"
    /\ LET e == <<t.fd, EventOf(t.kind)>> IN Trigger(IF Live(e) THEN {e} ELSE {})
    /\ timers' = timers \ {t}
    /\ UNCHANGED <<poolVars, kernelVars, ctx, call, calls, cancelled, late, result>>

\* IOManager::idle() takes an event from epoll.
Ready(e) ==
    /\ Live(e) /\ ThreadFree
    /\ IF e[2] = "READ" THEN avail[e[1]] > 0 ELSE up[e[1]] \in {"up", "refused"}
    /\ Trigger({e})
    /\ UNCHANGED <<poolVars, kernelVars, ctx, timers, call, calls, cancelled, late, result>>

Arrive(fd) ==
    /\ file[fd] # 0 /\ avail[fd] < MaxData
    /\ avail' = [avail EXCEPT ![fd] = @ + 1]
    /\ UNCHANGED <<poolVars, file, opened, up, nonblock, ctx, reg, timers, fiberVars>>

Establish(fd) ==
    /\ up[fd] = "progress"
    /\ \E r \in {"up", "refused"} : up' = [up EXCEPT ![fd] = r]
    /\ UNCHANGED <<poolVars, file, opened, avail, nonblock, ctx, reg, timers, fiberVars>>

-----------------------------------------------------------------------------
(* The other calls                                                         *)

\* socket(): the kernel's part, then FdManager::get(fd, true).
CallSocket(f, fd) ==
    /\ Lowest(fd) /\ opened[fd] < MaxOpen
    /\ file' = [file EXCEPT ![fd] = opened[fd] + 1]
    /\ opened' = [opened EXCEPT ![fd] = @ + 1]
    /\ nonblock' = [nonblock EXCEPT ![fd] = FALSE]
    /\ up' = [up EXCEPT ![fd] = "idle"]
    /\ \/ hook /\ Begin(f, "socket", fd, FALSE, FALSE, "adopt")
       \/ ~hook /\ AtOnce(f, "socket", "ok")
    /\ UNCHANGED <<poolVars, avail, ctx, reg, timers>>

\* Mutant of CallClose: the events of the descriptor are not cancelled.
CallCloseNoCancel(f, fd) ==
    /\ Known(fd)
    /\ \A g \in Fibers : ~Closing(g, fd)
    /\ Begin(f, "close", fd, FALSE, FALSE, IF hook /\ ctx[fd].here THEN "del" ELSE "closef")
    /\ UNCHANGED <<poolVars, kernelVars, ctx, reg, timers>>

\* close(): cancelAll(), FdManager::del(), close_f().  Two fibers do not close
\* one descriptor at a time: Socket::close() forgets it first.
CallClose(f, fd) ==
    /\ Known(fd)
    /\ \A g \in Fibers : ~Closing(g, fd)
    /\ \/ hook /\ ctx[fd].here /\ Begin(f, "close", fd, FALSE, FALSE, "cancelAll")
       \/ (~hook \/ ~ctx[fd].here) /\ Begin(f, "close", fd, FALSE, FALSE, "closef")
    /\ UNCHANGED <<poolVars, kernelVars, ctx, reg, timers>>

\* Mutant of CancelAll: the FdCtx is not deleted afterwards.
CancelAllNoDel(f) ==
    LET S == {e \in Fds \X Events : e[1] = call[f].fd /\ reg[e] # NoReg} IN
    /\ pc[f] = "cancelAll"
    /\ reg' = [e \in DOMAIN reg |-> IF e \in S /\ Watched(call[f].fd) THEN NoReg ELSE reg[e]]
    /\ pc' = [g \in Fibers |-> IF g = f THEN "closef"
                               ELSE IF Watched(call[f].fd) /\ \E e \in S : reg[e].who = g THEN "woken"
                               ELSE pc[g]]
    /\ UNCHANGED <<poolVars, kernelVars, ctx, timers, call, calls, cancelled, late, result>>

\* Without a registration of this file epoll_ctl() fails and nobody is woken.
CancelAll(f) ==
    LET S == {e \in Fds \X Events : e[1] = call[f].fd /\ reg[e] # NoReg} IN
    /\ pc[f] = "cancelAll"
    /\ reg' = [e \in DOMAIN reg |-> IF e \in S /\ Watched(call[f].fd) THEN NoReg ELSE reg[e]]
    /\ pc' = [g \in Fibers |-> IF g = f THEN "del"
                               ELSE IF Watched(call[f].fd) /\ \E e \in S : reg[e].who = g THEN "woken"
                               ELSE pc[g]]
    /\ UNCHANGED <<poolVars, kernelVars, ctx, timers, call, calls, cancelled, late, result>>

Del(f) ==
    /\ pc[f] = "del"
    /\ ctx' = [ctx EXCEPT ![call[f].fd] = NoCtx]
    /\ Keep(f, "closef")
    /\ UNCHANGED <<poolVars, kernelVars, reg, timers>>

CloseF(f) ==
    LET fd == call[f].fd IN
    /\ pc[f] = "closef"
    /\ file' = [file EXCEPT ![fd] = 0]
    /\ avail' = [avail EXCEPT ![fd] = 0]
    /\ up' = [up EXCEPT ![fd] = "idle"]
    /\ nonblock' = [nonblock EXCEPT ![fd] = FALSE]
    /\ Return(f, "ok")
    /\ UNCHANGED <<poolVars, opened, ctx, reg, timers>>

\* setsockopt(SO_RCVTIMEO).
SetTimeout(f, fd, b) ==
    /\ Known(fd) /\ hook /\ ctx[fd].here
    /\ AtOnce(f, "option", "ok")
    /\ ctx' = [ctx EXCEPT ![fd].timed = b]
    /\ UNCHANGED <<poolVars, kernelVars, reg, timers>>

\* fcntl(F_SETFL): the user's wish is noted, the descriptor stays nonblocking.
SetFlags(f, fd, b) ==
    /\ Known(fd) /\ AtOnce(f, "option", "ok")
    /\ ctx' = IF ctx[fd].here THEN [ctx EXCEPT ![fd].user = b] ELSE ctx
    /\ nonblock' = [nonblock EXCEPT ![fd] = ctx[fd].here \/ b]
    /\ UNCHANGED <<poolVars, file, opened, avail, up, reg, timers>>

\* ioctl(FIONBIO): the same, but the original call gets what the user wants.
SetFionbio(f, fd, b) ==
    /\ Known(fd) /\ AtOnce(f, "option", "ok")
    /\ ctx' = IF ctx[fd].here THEN [ctx EXCEPT ![fd].user = b] ELSE ctx
    /\ nonblock' = [nonblock EXCEPT ![fd] = b]
    /\ UNCHANGED <<poolVars, file, opened, avail, up, reg, timers>>

UserStep(f) ==
    \/ Start(f) \/ Finish(f)
    \/ \E fd \in Fds :
        \/ \E k \in {"read", "accept"} : CallIo(f, k, fd)
        \/ CallConnect(f, fd) \/ CallSleep(f, fd) \/ CallSocket(f, fd) \/ CallClose(f, fd)
        \/ \E b \in BOOLEAN : SetTimeout(f, fd, b) \/ SetFlags(f, fd, b)
        \/ \E b \in Fionbio : SetFionbio(f, fd, b)

\* What the library does once a call has begun.
CallStep(f) ==
    \/ Obtain(f) \/ Adopt(f) \/ Again(f) \/ Dial(f) \/ Dialled(f) \/ Refuse(f)
    \/ AddTimer(f) \/ AddEvent(f) \/ AddEventAborts(f) \/ AddEventFails(f)
    \/ Resume(f) \/ Check(f) \/ CancelAll(f) \/ Del(f) \/ CloseF(f)

TimerStep(f) == \E t \in timers : t.owner = f /\ (Collect(t) \/ Fire(t) \/ CancelEvent(t))

\* The program has ended.
Halted == (failed \/ \A f \in Fibers : pc[f] = "done") /\ UNCHANGED vars

Next ==
    \/ /\ ~failed
       /\ \/ \E f \in Fibers : UserStep(f) \/ CallStep(f) \/ TimerStep(f)
          \/ \E e \in Fds \X Events : Ready(e)
          \/ \E fd \in Fds : Arrive(fd) \/ Establish(fd)
    \/ Halted

Spec == Init /\ [][Next]_vars

-----------------------------------------------------------------------------
(* Properties                                                              *)

Calls == INSTANCE BlockingCall WITH
    call <- [f \in Fibers |->
                IF ~InCall(f) THEN [phase |-> "out"]
                ELSE [phase |-> IF pc[f] = "adopt" /\ call[f].kind = "accept" THEN "got" ELSE "in",
                      promised |-> call[f].ours, late |-> late[f],
                      shared |-> call[f].shared, fd |-> call[f].fd, file |-> call[f].file]],
    unread <- avail,
    left <- {fd \in Fds : ~Watched(fd)},
    ended <- failed

\* do_io() and connect_with_timeout() make the original calls look as if they
\* blocked: every end of a call has its reason, whatever other fibers, timers
\* and close() do meanwhile (BlockingCall).  Reasons no other call would have are a
\* registration that was left behind when a number was closed, and another call
\* that is still on the number; the assertion of addEvent() ends the process only
\* where two calls on a number began with different files of it.
LooksBlocking == Calls!Spec

\* A fiber that has yielded in a call can still be woken: a timer will schedule
\* it, or it is registered for the file that is open now.  It is close() that
\* could leave it behind, on a file that is gone: with one thread it does not;
\* with two the fiber it wakes may try again and register before close_f().
NoLostWaiter ==
    \A f \in Fibers : threads = 1 /\ pc[f] = "hold" =>
        \/ \E t \in timers : t.owner = f /\ t.kind = "sleep" /\ t.call = calls[f]
        \/ \E e \in DOMAIN reg : reg[e].who = f /\ Live(e)

\* A call that do_io() or connect_with_timeout() has taken never stops its thread:
\* what FdCtx says of a descriptor and its O_NONBLOCK agree, whatever the user
\* sets and however often the number is closed and opened again.
HookedNeverBlocks ==
    \A f \in Fibers : pc[f] = "try" /\ file[call[f].fd] = call[f].file => nonblock[call[f].fd]

\* connect() says 0 only of a connection that is there (with one thread; a
\* second one may cancel the event of a later connect() on the same number).  A
\* call that began while one on an earlier file was still on its number is
\* exempt: the timer of that one may cancel its event too.
ConnectTrue ==
    [][\A f \in Fibers :
        /\ threads = 1 /\ pc[f] \in {"check", "kernel"} /\ result'[f] = "connected"
        /\ ~call[f].shared /\ file[call[f].fd] = call[f].file
        => up[call[f].fd] = "up"]_vars

\* A call with a timeout, or sleep(), is woken again when the timeout has passed,
\* whichever event or close() comes first: while it is on hold a timer of it is
\* armed, or has been collected and its callback will schedule it.
TimeoutKept ==
    \A f \in Fibers : pc[f] = "hold" /\ call[f].timed =>
        \E t \in timers :
            /\ t.owner = f /\ t.call = calls[f]
            /\ \/ t.kind = "sleep"
               \/ t.stage # "cancel" /\ ~cancelled[f]
               \/ t.stage = "cancel" /\ reg[<<t.fd, EventOf(t.kind)>>].who = f

\* What do_io() achieves of that when nothing comes between its steps.
TimeoutKeptAlone == threads = 1 => TimeoutKept
=============================================================================
