------------------------------ MODULE IOManager ------------------------------
(***************************************************************************)
(* IOManager (iomanager.cpp/.h): tasks wait for events on descriptors; the *)
(* idle threads of the scheduler collect the events from epoll and put the *)
(* waiting tasks back into the list.  Events may be deleted and cancelled  *)
(* by tasks and by threads outside the scheduler at any time.              *)
(*                                                                         *)
(* The critical section of FdContext::mutex is one step where it calls     *)
(* nobody; triggerEvent(), which calls schedule(), and the unlocked        *)
(* --m_pendingEventCount after it are steps of their own.                  *)
(*                                                                         *)
(* The scheduler is reduced to what stopping() reads: the list of tasks    *)
(* and m_activeThreadCount (module Scheduler has its detail).  epoll is    *)
(* edge-triggered: a descriptor enters its ready list when it is armed     *)
(* while ready and when it becomes ready while armed.  Every wait may end  *)
(* without an event, after MAX_TIMEOUT or by a tickle, so tickle() only    *)
(* makes things happen earlier and is left out.                            *)
(***************************************************************************)
EXTENDS Integers, FiniteSets, Sequences

CONSTANTS Threads,   \* threads that execute run(), and idle() of this class
          Outside,   \* threads that only call addEvent(..., cb) and cancel
          Jobs,      \* fibers and callbacks that wait for events
          On,        \* the descriptor and event each job waits for
          InitSize,  \* size of m_fdContexts at first: 32 in the code
          MaxGen,    \* bound: FdContext objects built for one descriptor
          MaxOps,    \* bound: calls of the four operations
          MaxHups,   \* bound: descriptors that report EPOLLERR or EPOLLHUP
          Nobody     \* no job

Actors == Threads \cup Outside
Events == {"READ", "WRITE"}
Fds == {On[j][1] : j \in Jobs}
Contexts == Fds \X (1 .. MaxGen)

ASSUME IOManagerAssumption ==
    /\ IsFiniteSet(Actors) /\ IsFiniteSet(Jobs) /\ Threads \cap Outside = {}
    /\ On \in [Jobs -> Nat \X Events] /\ Nobody \notin Jobs
    /\ \A j, k \in Jobs : On[j] = On[k] => j = k
    /\ InitSize \in Nat \ {0, 1} /\ MaxGen \in Nat \ {0} /\ MaxOps \in Nat /\ MaxHups \in Nat

VARIABLES size,     \* m_fdContexts.size()
          table,    \* which context m_fdContexts[fd] is; 0 = beyond the size
          built,    \* how many contexts were built for fd
          events,   \* FdContext::events
          waiter,   \* EventContext::fiber or cb
          pending,  \* m_pendingEventCount
          armed,    \* epoll: the events registered for fd
          ptr,      \* epoll: data.ptr of fd
          ready,    \* kernel: what fd is ready for
          edges,    \* epoll: the ready list
          queue,    \* m_fibers
          active,   \* m_activeThreadCount
          stop,     \* m_stopping
          idleTerm, \* the idle fiber of the thread has terminated
          phase,    \* of each job
          pc, cur, op, cx, todo, got, \* of each actor, see below
          ops, failed

tableVars == <<size, table, built>>
eventVars == <<events, waiter, pending>>
epollVars == <<armed, ptr, ready, edges>>
schedVars == <<queue, active, stop, idleTerm, phase>>
actorVars == <<pc, cur, op, cx, todo, got>>
vars == <<tableVars, eventVars, epollVars, schedVars, actorVars, ops, failed>>

\* An actor's op is the call it is in: kind, descriptor, event and, for
\* addEvent, the job; cur is the job a thread executes, cx the FdContext it
\* works on, todo the events it still triggers, got what epoll_wait returned.
Kinds == {"addFiber", "addCb", "delEvent", "cancelEvent", "cancelAll", "epoll"}
NoOp == [kind |-> "epoll", fd |-> 0, event |-> "READ", job |-> Nobody]

\* The pc of an actor in code that may call the four operations.
UserPc  == {"task", "free"}
\* In these it holds the mutex of context cx.
LockPc  == {"trigger", "count"}
Pc == UserPc \cup LockPc \cup
      {"scan", "yield", "leave", "pending", "stopping", "wait", "handle", "exit", "resize", "context", "dead"}

TypeOK ==
    /\ size \in Nat /\ table \in [Fds -> 0 .. MaxGen] /\ built \in [Fds -> 0 .. MaxGen]
    /\ events \in [Contexts -> SUBSET Events]
    /\ waiter \in [Contexts -> [Events -> Jobs \cup {Nobody}]]
    /\ pending \in Int
    /\ armed \in [Fds -> SUBSET Events] /\ ptr \in [Fds -> 0 .. MaxGen]
    /\ ready \in [Fds -> SUBSET (Events \cup {"ERR"})] /\ edges \subseteq Fds
    /\ queue \subseteq Jobs /\ active \in Int /\ stop \in BOOLEAN
    /\ idleTerm \in [Threads -> BOOLEAN]
    /\ phase \in [Jobs -> {"new", "run", "hold", "done"}]
    /\ pc \in [Actors -> Pc]
    /\ cur \in [Actors -> Jobs \cup {Nobody}]
    /\ op \in [Actors -> [kind : Kinds, fd : Nat, event : Events, job : Jobs \cup {Nobody}]]
    /\ cx \in [Actors -> Contexts \cup {<<0, 0>>}]
    /\ todo \in [Actors -> {<<>>, <<"READ">>, <<"WRITE">>, <<"READ", "WRITE">>}]
    /\ got \in [Actors -> SUBSET [cx : Contexts, ev : SUBSET (Events \cup {"ERR"})]]
    /\ ops \in Nat /\ failed \in BOOLEAN

Init ==
    /\ size = InitSize
    /\ table = [f \in Fds |-> IF f < InitSize THEN 1 ELSE 0]
    /\ built = [f \in Fds |-> IF f < InitSize THEN 1 ELSE 0]
    /\ events = [c \in Contexts |-> {}]
    /\ waiter = [c \in Contexts |-> [e \in Events |-> Nobody]]
    /\ pending = 0
    /\ armed = [f \in Fds |-> {}] /\ ptr = [f \in Fds |-> 0]
    /\ ready = [f \in Fds |-> {}] /\ edges = {}
    /\ queue = {} /\ active = 0 /\ stop = FALSE
    /\ idleTerm = [t \in Threads |-> FALSE]
    /\ phase = [j \in Jobs |-> "new"]
    /\ pc = [a \in Actors |-> IF a \in Threads THEN "scan" ELSE "free"]
    /\ cur = [a \in Actors |-> Nobody]
    /\ op = [a \in Actors |-> NoOp]
    /\ cx = [a \in Actors |-> <<0, 0>>]
    /\ todo = [a \in Actors |-> <<>>]
    /\ got = [a \in Actors |-> {}]
    /\ ops = 0 /\ failed = FALSE

Goto(a, l) == pc' = [pc EXCEPT ![a] = l]

\* FdContext::mutex of c is free.
Unlocked(c) == \A a \in Actors : ~(pc[a] \in LockPc /\ cx[a] = c)

\* Where an actor continues after a call, or after an event of epoll_wait.
Home(a) == IF op[a].kind = "epoll" THEN "handle"
           ELSE IF a \in Threads THEN "task" ELSE "free"

Return(a, l) ==
    /\ Goto(a, l)
    /\ op' = [op EXCEPT ![a] = NoOp] /\ cx' = [cx EXCEPT ![a] = <<0, 0>>]

\* The two events of a set in the order the code triggers them.
InOrder(S) == IF S = Events THEN <<"READ", "WRITE">>
              ELSE IF S = {} THEN <<>> ELSE <<CHOOSE e \in S : TRUE>>

\* epoll_ctl on fd with ADD or MOD for a set of events, DEL for none.
Control(fd, S) ==
    /\ armed' = [armed EXCEPT ![fd] = S]
    /\ edges' = IF S # {} /\ ready[fd] \cap (S \cup {"ERR"}) # {}
                THEN edges \cup {fd} ELSE edges \ {fd}

-----------------------------------------------------------------------------
(* addEvent, delEvent, cancelEvent and cancelAll.                          *)

\* A call reads m_fdContexts under the read lock.  A descriptor beyond its
\* end makes addEvent grow it and the others return false.
Call(a, k, fd, e, j) ==
    /\ pc[a] \in UserPc /\ ops < MaxOps /\ ops' = ops + 1
    /\ op' = [op EXCEPT ![a] = [kind |-> k, fd |-> fd, event |-> e, job |-> j]]
    /\ \/ fd < size /\ Goto(a, "context") /\ cx' = [cx EXCEPT ![a] = <<fd, table[fd]>>]
       \/ fd >= size /\ k \in {"addFiber", "addCb"} /\ Goto(a, "resize") /\ UNCHANGED cx
    /\ UNCHANGED <<tableVars, eventVars, epollVars, queue, active, stop, idleTerm, cur, todo, got, failed>>

\* A task adds the event its own fiber will wait for.
CallAddFiber(t) ==
    /\ pc[t] = "task"
    /\ Call(t, "addFiber", On[cur[t]][1], On[cur[t]][2], cur[t])
    /\ UNCHANGED phase

\* A callback is added; the owner adds none once it has called stop().
CallAddCb(a, j) ==
    /\ phase[j] = "new" /\ (a \in Outside => ~stop)
    /\ Call(a, "addCb", On[j][1], On[j][2], j)
    /\ phase' = [phase EXCEPT ![j] = "hold"]

CallOther(a, k, j) ==
    /\ Call(a, k, On[j][1], On[j][2], Nobody)
    /\ UNCHANGED phase

\* contextResize(fd * 1.5) under the write lock; it is not asked whether the
\* table has grown since the read lock was released.
ContextResize(a) ==
    /\ pc[a] = "resize"
    /\ LET n == (op[a].fd * 3) \div 2
           New == {f \in Fds : f < n /\ table[f] = 0}
       IN /\ \A f \in New : built[f] < MaxGen
          /\ size' = n
          /\ built' = [f \in Fds |-> IF f \in New THEN built[f] + 1 ELSE built[f]]
          /\ table' = [f \in Fds |-> IF f >= n THEN 0
                                    ELSE IF f \in New THEN built[f] + 1 ELSE table[f]]
    /\ cx' = [cx EXCEPT ![a] = <<op[a].fd, table'[op[a].fd]>>]
    /\ Goto(a, "context")
    /\ UNCHANGED <<eventVars, epollVars, schedVars, cur, op, todo, got, ops, failed>>

\* The actor enters the critical section of its context for a call of kind k.
Locks(a, k) == pc[a] = "context" /\ op[a].kind \in k /\ Unlocked(cx[a])

\* Mutant of AddEvent: event_ctx.fiber and cb are not set.
AddEventNoWaiter(a) ==
    /\ Locks(a, {"addFiber", "addCb"})
    /\ LET fd == op[a].fd
           e  == op[a].event
       IN /\ e \notin events[cx[a]]
          /\ events[cx[a]] = {} => armed[fd] = {}
          /\ Control(fd, events[cx[a]] \cup {e})
          /\ ptr' = [ptr EXCEPT ![fd] = cx[a][2]]
          /\ events' = [events EXCEPT ![cx[a]] = @ \cup {e}]
    /\ pending' = pending + 1
    /\ Return(a, IF op[a].kind = "addFiber" THEN "yield" ELSE Home(a))
    /\ UNCHANGED <<tableVars, waiter, ready, schedVars, cur, todo, got, ops, failed>>

\* Mutant of AddEvent: EPOLL_CTL_MOD without the events registered before.
AddEventForgets(a) ==
    /\ Locks(a, {"addFiber", "addCb"})
    /\ LET fd == op[a].fd
           e  == op[a].event
       IN /\ e \notin events[cx[a]]
          /\ events[cx[a]] = {} => armed[fd] = {}
          /\ Control(fd, {e})
          /\ ptr' = [ptr EXCEPT ![fd] = cx[a][2]]
          /\ events' = [events EXCEPT ![cx[a]] = @ \cup {e}]
          /\ waiter' = [waiter EXCEPT ![cx[a]][e] = op[a].job]
    /\ pending' = pending + 1
    /\ Return(a, IF op[a].kind = "addFiber" THEN "yield" ELSE Home(a))
    /\ UNCHANGED <<tableVars, ready, schedVars, cur, todo, got, ops, failed>>

\* epoll_ctl succeeds: ADD of a descriptor that has no events, else MOD.
AddEvent(a) ==
    /\ Locks(a, {"addFiber", "addCb"})
    /\ LET fd == op[a].fd
           e  == op[a].event
       IN /\ e \notin events[cx[a]]
          /\ events[cx[a]] = {} => armed[fd] = {}
          /\ Control(fd, events[cx[a]] \cup {e})
          /\ ptr' = [ptr EXCEPT ![fd] = cx[a][2]]
          /\ events' = [events EXCEPT ![cx[a]] = @ \cup {e}]
          /\ waiter' = [waiter EXCEPT ![cx[a]][e] = op[a].job]
    /\ pending' = pending + 1
    /\ Return(a, IF op[a].kind = "addFiber" THEN "yield" ELSE Home(a))
    /\ UNCHANGED <<tableVars, ready, schedVars, cur, todo, got, ops, failed>>

\* epoll_ctl fails: -1 is returned and the callback is dropped.
AddEventFails(a) ==
    /\ Locks(a, {"addFiber", "addCb"})
    /\ phase' = [phase EXCEPT ![op[a].job] = IF op[a].kind = "addCb" THEN "new" ELSE @]
    /\ Return(a, Home(a))
    /\ UNCHANGED <<tableVars, eventVars, epollVars, queue, active, stop, idleTerm, cur, todo, got, ops, failed>>

\* The event is not registered (any more): false is returned.
NotRegistered(a) ==
    /\ \/ Locks(a, {"delEvent", "cancelEvent"}) /\ op[a].event \notin events[cx[a]]
       \/ Locks(a, {"cancelAll"}) /\ events[cx[a]] = {}
    /\ Return(a, Home(a))
    /\ UNCHANGED <<tableVars, eventVars, epollVars, schedVars, cur, todo, got, ops, failed>>

\* Mutant of DelEvent: m_pendingEventCount is not decremented.
DelEventKeepsCount(a) ==
    /\ Locks(a, {"delEvent"})
    /\ LET c == cx[a]
           e == op[a].event
       IN /\ e \in events[c]
          /\ Control(op[a].fd, events[c] \ {e})
          /\ events' = [events EXCEPT ![c] = @ \ {e}]
          /\ waiter' = [waiter EXCEPT ![c][e] = Nobody]
    /\ Return(a, Home(a))
    /\ UNCHANGED <<tableVars, pending, ptr, ready, schedVars, cur, todo, got, ops, failed>>

\* delEvent: the event and its context are dropped without being triggered.
DelEvent(a) ==
    /\ Locks(a, {"delEvent"})
    /\ LET c == cx[a]
           e == op[a].event
       IN /\ e \in events[c]
          /\ Control(op[a].fd, events[c] \ {e})
          /\ events' = [events EXCEPT ![c] = @ \ {e}]
          /\ waiter' = [waiter EXCEPT ![c][e] = Nobody]
    /\ pending' = pending - 1
    /\ Return(a, Home(a))
    /\ UNCHANGED <<tableVars, ptr, ready, schedVars, cur, todo, got, ops, failed>>

\* cancelEvent and cancelAll up to triggerEvent().
Cancel(a) ==
    /\ Locks(a, {"cancelEvent", "cancelAll"})
    /\ LET c == cx[a]
           S == IF op[a].kind = "cancelAll" THEN events[c] ELSE {op[a].event}
       IN /\ S # {} /\ S \subseteq events[c]
          /\ Control(op[a].fd, events[c] \ S)
          /\ todo' = [todo EXCEPT ![a] = InOrder(S)]
    /\ Goto(a, "trigger")
    /\ UNCHANGED <<tableVars, eventVars, ptr, ready, schedVars, cur, op, cx, got, ops, failed>>

\* triggerEvent(): the event is no longer registered and its fiber or
\* callback moves to the scheduler's list.
TriggerEvent(a) ==
    /\ pc[a] = "trigger" /\ Head(todo[a]) \in events[cx[a]]
    /\ events' = [events EXCEPT ![cx[a]] = @ \ {Head(todo[a])}]
    /\ waiter' = [waiter EXCEPT ![cx[a]][Head(todo[a])] = Nobody]
    /\ queue' = queue \cup {waiter[cx[a]][Head(todo[a])]}
    /\ todo' = [todo EXCEPT ![a] = Tail(@)]
    /\ Goto(a, "count")
    /\ UNCHANGED <<tableVars, pending, epollVars, active, stop, idleTerm, phase, cur, op, cx, got, ops, failed>>

\* SERVER_CC_ASSERT(events & event)
AbortTrigger(a) ==
    /\ pc[a] = "trigger" /\ Head(todo[a]) \notin events[cx[a]]
    /\ failed' = TRUE /\ pc' = [b \in Actors |-> "dead"]
    /\ UNCHANGED <<tableVars, eventVars, epollVars, schedVars, cur, op, cx, todo, got, ops>>

\* --m_pendingEventCount
Count(a) ==
    /\ pc[a] = "count" /\ pending' = pending - 1
    /\ IF todo[a] = <<>> THEN Return(a, Home(a)) ELSE Goto(a, "trigger") /\ UNCHANGED <<op, cx>>
    /\ UNCHANGED <<tableVars, events, waiter, epollVars, schedVars, cur, todo, got, ops, failed>>

-----------------------------------------------------------------------------
(* Tasks on thread t, and what the scheduler does with them.               *)

Submit(j) ==
    /\ ~failed /\ ~stop /\ phase[j] = "new"
    /\ phase' = [phase EXCEPT ![j] = "hold"]
    /\ queue' = queue \cup {j}
    /\ UNCHANGED <<tableVars, eventVars, epollVars, active, stop, idleTerm, actorVars, ops, failed>>

\* run() skips a fiber that is still executing.
ScanTake(t, j) ==
    /\ pc[t] = "scan" /\ j \in queue /\ phase[j] # "run"
    /\ queue' = queue \ {j} /\ active' = active + 1
    /\ phase' = [phase EXCEPT ![j] = "run"] /\ cur' = [cur EXCEPT ![t] = j]
    /\ Goto(t, "task")
    /\ UNCHANGED <<tableVars, eventVars, epollVars, stop, idleTerm, op, cx, todo, got, ops, failed>>

ScanNone(t) ==
    /\ pc[t] = "scan" /\ \A j \in queue : phase[j] = "run"
    /\ Goto(t, IF idleTerm[t] THEN "exit" ELSE "pending")
    /\ UNCHANGED <<tableVars, eventVars, epollVars, schedVars, cur, op, cx, todo, got, ops, failed>>

\* The task holds after a successful addEvent, or its function returns.
Suspend(t, s) ==
    /\ pc[t] = (IF s = "hold" THEN "yield" ELSE "task")
    /\ phase' = [phase EXCEPT ![cur[t]] = s] /\ cur' = [cur EXCEPT ![t] = Nobody]
    /\ Goto(t, "leave")
    /\ UNCHANGED <<tableVars, eventVars, epollVars, queue, active, stop, idleTerm, op, cx, todo, got, ops, failed>>

Leave(t) ==
    /\ pc[t] = "leave" /\ active' = active - 1 /\ Goto(t, "scan")
    /\ UNCHANGED <<tableVars, eventVars, epollVars, queue, stop, idleTerm, phase, cur, op, cx, todo, got, ops, failed>>

\* The task reads or writes until EAGAIN.
Drain(t) ==
    /\ pc[t] = "task" /\ On[cur[t]][2] \in ready[On[cur[t]][1]]
    /\ ready' = [ready EXCEPT ![On[cur[t]][1]] = @ \ {On[cur[t]][2]}]
    /\ UNCHANGED <<tableVars, eventVars, armed, ptr, edges, schedVars, actorVars, ops, failed>>

Stop ==
    /\ ~failed /\ ~stop /\ \A a \in Outside : op[a].kind # "addCb"
    /\ stop' = TRUE
    /\ UNCHANGED <<tableVars, eventVars, epollVars, queue, active, idleTerm, phase, actorVars, ops, failed>>

-----------------------------------------------------------------------------
(* IOManager::idle() on thread t.                                          *)

\* stopping() reads m_pendingEventCount without a lock ...
AskPending(t) ==
    /\ pc[t] = "pending"
    /\ Goto(t, IF pending = 0 THEN "stopping" ELSE "wait")
    /\ UNCHANGED <<tableVars, eventVars, epollVars, schedVars, cur, op, cx, todo, got, ops, failed>>

\* ... and then Scheduler::stopping().
AskStopping(t) ==
    /\ pc[t] = "stopping"
    /\ LET done == stop /\ queue = {} /\ active = 0
       IN /\ idleTerm' = [idleTerm EXCEPT ![t] = done]
          /\ Goto(t, IF done THEN "scan" ELSE "wait")
    /\ UNCHANGED <<tableVars, eventVars, epollVars, queue, active, stop, phase, cur, op, cx, todo, got, ops, failed>>

\* epoll_wait: all that is on the ready list and still has something to
\* report (never more than MAX_EVENTS in an instance).
EpollWait(t) ==
    /\ pc[t] = "wait"
    /\ LET What(fd) == ready[fd] \cap (armed[fd] \cup {"ERR"})
       IN got' = [got EXCEPT ![t] =
                    {[cx |-> <<fd, ptr[fd]>>, ev |-> What(fd)] :
                        fd \in {f \in edges : armed[f] # {} /\ What(f) # {}}}]
    /\ edges' = {}
    /\ Goto(t, "handle")
    /\ UNCHANGED <<tableVars, eventVars, armed, ptr, ready, schedVars, cur, op, cx, todo, ops, failed>>

\* Mutant of RealEvents: an error or hangup reports no event of its own.
RealEventsOnly(g) == g.ev \cap Events

\* An error or hangup reports every registered event.
RealEvents(g) == (IF "ERR" \in g.ev THEN g.ev \cup events[g.cx] ELSE g.ev) \cap Events

\* Nothing of what was reported is registered any more.
HandleStale(t, g) ==
    /\ pc[t] = "handle" /\ g \in got[t] /\ Unlocked(g.cx)
    /\ events[g.cx] \cap RealEvents(g) = {}
    /\ got' = [got EXCEPT ![t] = @ \ {g}]
    /\ UNCHANGED <<tableVars, eventVars, epollVars, schedVars, pc, cur, op, cx, todo, ops, failed>>

\* Mutant of Handle: the descriptor is always deleted from epoll.
HandleDeletes(t, g) ==
    /\ pc[t] = "handle" /\ g \in got[t] /\ Unlocked(g.cx)
    /\ events[g.cx] \cap RealEvents(g) # {}
    /\ Control(g.cx[1], {})
    /\ got' = [got EXCEPT ![t] = @ \ {g}]
    /\ cx' = [cx EXCEPT ![t] = g.cx]
    /\ todo' = [todo EXCEPT ![t] = InOrder(RealEvents(g))]
    /\ Goto(t, "trigger")
    /\ UNCHANGED <<tableVars, eventVars, ptr, ready, schedVars, cur, op, ops, failed>>

\* What is left is armed again; every reported event is triggered, also one
\* that is not registered any more.
Handle(t, g) ==
    /\ pc[t] = "handle" /\ g \in got[t] /\ Unlocked(g.cx)
    /\ events[g.cx] \cap RealEvents(g) # {}
    /\ Control(g.cx[1], events[g.cx] \ RealEvents(g))
    /\ got' = [got EXCEPT ![t] = @ \ {g}]
    /\ cx' = [cx EXCEPT ![t] = g.cx]
    /\ todo' = [todo EXCEPT ![t] = InOrder(RealEvents(g))]
    /\ Goto(t, "trigger")
    /\ UNCHANGED <<tableVars, eventVars, ptr, ready, schedVars, cur, op, ops, failed>>

\* swapOut() back to run()
HandleDone(t) ==
    /\ pc[t] = "handle" /\ got[t] = {} /\ Goto(t, "scan")
    /\ UNCHANGED <<tableVars, eventVars, epollVars, schedVars, cur, op, cx, todo, got, ops, failed>>

-----------------------------------------------------------------------------
(* The kernel: descriptors become ready, peers hang up.                    *)

BecomeReady(fd, e) ==
    /\ ~failed
    /\ e \notin ready[fd] \/ (e \in armed[fd] /\ fd \notin edges)
    /\ ready' = [ready EXCEPT ![fd] = @ \cup {e}]
    /\ edges' = IF e \in armed[fd] THEN edges \cup {fd} ELSE edges
    /\ UNCHANGED <<tableVars, eventVars, armed, ptr, schedVars, actorVars, ops, failed>>

HangUp(fd) ==
    /\ ~failed /\ "ERR" \notin ready[fd] /\ Cardinality({f \in Fds : "ERR" \in ready[f]}) < MaxHups
    /\ ready' = [ready EXCEPT ![fd] = @ \cup {"ERR"}]
    /\ edges' = IF armed[fd] # {} THEN edges \cup {fd} ELSE edges
    /\ UNCHANGED <<tableVars, eventVars, armed, ptr, schedVars, actorVars, ops, failed>>

-----------------------------------------------------------------------------
CallStep(a) ==
    \/ ContextResize(a) \/ AddEvent(a) \/ AddEventFails(a)
    \/ NotRegistered(a) \/ DelEvent(a) \/ Cancel(a)
    \/ TriggerEvent(a) \/ AbortTrigger(a) \/ Count(a)

RunStep(t) ==
    \/ \E j \in Jobs : ScanTake(t, j)
    \/ ScanNone(t) \/ Leave(t)
    \/ \E s \in {"hold", "done"} : Suspend(t, s)
    \/ AskPending(t) \/ AskStopping(t) \/ EpollWait(t)
    \/ \E g \in got[t] : HandleStale(t, g) \/ Handle(t, g)
    \/ HandleDone(t)

UserStep(a) ==
    \/ \E j \in Jobs : CallAddCb(a, j)
    \/ \E j \in Jobs, k \in {"delEvent", "cancelEvent", "cancelAll"} : CallOther(a, k, j)

\* An assertion ended the process, or all threads have left run().
Halted ==
    /\ failed \/ \A t \in Threads : pc[t] = "exit"
    /\ UNCHANGED vars

Next ==
    \/ Stop
    \/ \E j \in Jobs : Submit(j)
    \/ \E a \in Actors : CallStep(a) \/ UserStep(a)
    \/ \E t \in Threads : RunStep(t) \/ CallAddFiber(t) \/ Drain(t)
    \/ \E fd \in Fds : HangUp(fd) \/ \E e \in Events : BecomeReady(fd, e)
    \/ Halted

Spec == Init /\ [][Next]_vars

\* Every thread keeps running and every call returns.  Nothing obliges a
\* descriptor to become ready or the owner to call stop().
Fairness ==
    /\ \A a \in Actors : WF_vars(CallStep(a))
    /\ \A t \in Threads : WF_vars(RunStep(t))

FairSpec == Spec /\ Fairness

-----------------------------------------------------------------------------
(* Properties.                                                             *)

\* Events whose triggerEvent() is still to come, or has not been counted.
InTrigger(c) == UNION {{todo[a][i] : i \in DOMAIN todo[a]} :
                       a \in {b \in Actors : pc[b] \in LockPc /\ cx[b] = c}}
Registered == {r \in Contexts \X Events : r[2] \in events[r[1]]}

\* m_pendingEventCount, which alone keeps idle threads from leaving, counts
\* the registered events and those just triggered, through every race of
\* add, delete, cancel and epoll.
PendingMatches ==
    ~failed => pending = Cardinality(Registered) + Cardinality({a \in Actors : pc[a] = "count"})

\* epoll watches exactly the events that are registered and not about to be
\* triggered, with the context they are registered in: no registered event
\* is left that epoll will never report.
KernelAgrees ==
    /\ \A c \in Contexts :
          ~failed /\ events[c] \ InTrigger(c) # {} =>
              armed[c[1]] = events[c] \ InTrigger(c) /\ ptr[c[1]] = c[2]
    /\ \A fd \in Fds :
          ~failed /\ armed[fd] # {} =>
              armed[fd] = events[<<fd, ptr[fd]>>] \ InTrigger(<<fd, ptr[fd]>>)

\* A registered event whose descriptor is ready for it, or has failed, is on
\* the ready list of epoll or with a thread that epoll_wait reported it to:
\* edge-triggered epoll reports it once, and none of those who take, drop,
\* delete, cancel or arm events of the descriptor in between loses it.
EventKept ==
    ~failed => \A c \in Contexts : \A e \in events[c] \ InTrigger(c) :
        ready[c[1]] \cap {e, "ERR"} # {} =>
            \/ c[1] \in edges
            \/ \E t \in Threads : \E g \in got[t] : g.cx = c /\ g.ev \cap {e, "ERR"} # {}

\* What the comment in idle() says: idle threads end when no event is left to
\* handle.  When all have left run(), no task is in the list and no event is
\* registered.
StopDrains ==
    (\A t \in Threads : pc[t] = "exit") => queue = {} /\ Registered = {}

\* What the assertion in triggerEvent() says: a triggered event is registered.
TriggersRegistered == ~failed

\* What the comment in addEvent() says: the table of contexts is extended.
TableGrows == [][size' >= size]_vars

\* Before stop(), a registered event that is ready is triggered, unless it
\* stops being ready, however the threads share the events of epoll.
Delivered ==
    \A c \in Contexts, e \in Events :
        (e \in events[c] /\ e \in ready[c[1]])
            ~> (e \notin events[c] \/ e \notin ready[c[1]] \/ failed \/ stop)
=============================================================================
