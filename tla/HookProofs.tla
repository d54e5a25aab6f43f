----------------------------- MODULE HookProofs -----------------------------
(***************************************************************************)
(* Proofs about Hook, for any number of fibers and descriptors:            *)
(*   - for any number of threads the types, that a call the hook has       *)
(*     taken never blocks its thread, and that the calls implement         *)
(*     BlockingCall;                                                       *)
(*   - for one thread that no fiber is left waiting, that timeouts are     *)
(*     kept, that connect() tells the truth, and that close() leaves no    *)
(*     registration of an earlier file behind.                             *)
(***************************************************************************)
EXTENDS Hook, Recursion, FiniteSetTheorems, TLAPS

-----------------------------------------------------------------------------
(* What TakenNeverBlocks asks of the program                               *)

\* No step takes O_NONBLOCK away with ioctl(FIONBIO) from a descriptor that
\* FdManager knows, or in any way from one that a close() is under way on.
Disciplined ==
    \A f \in Fibers, fd \in Fds :
        /\ SetFionbio(f, fd, FALSE) => ~ctx[fd].here
        /\ SetFlags(f, fd, FALSE) \/ SetFionbio(f, fd, FALSE) => \A g \in Fibers : ~Closing(g, fd)

-----------------------------------------------------------------------------
(* The invariant                                                           *)

Io == {"read", "accept", "connect"}
ClosePc == {"cancelAll", "del", "closef"}
IoPc == {"try", "timer", "add", "hold", "woken"}

\* Which calls are at which point, and that the call has been counted.
CallOK(f) ==
    /\ InCall(f) => calls[f] # 0
    /\ pc[f] \in {"try", "plain", "timer", "add"} => call[f].kind \in Io
    /\ pc[f] \in {"hold", "woken"} => call[f].kind \in Io \cup {"sleep"}
    /\ pc[f] = "adopt" => file[call[f].fd] # 0
    /\ pc[f] \in ClosePc => call[f].kind = "close" /\ "close" \in May[f] /\ file[call[f].fd] # 0

\* A registered fiber is on hold in a call that waits for that event.
RegOK ==
    \A e \in Fds \X Events : reg[e].who \in Fibers =>
        /\ pc[reg[e].who] = "hold" /\ call[reg[e].who].kind \in Io
        /\ call[reg[e].who].fd = e[1] /\ EventOf(call[reg[e].who].kind) = e[2]

\* The timer of a sleeper is the only one, and the sleeper is on hold.
SleepOK ==
    /\ \A t \in timers : t.kind = "sleep" => pc[t.owner] = "hold" /\ call[t.owner].kind = "sleep"
    /\ \A t, u \in timers : t.kind = "sleep" /\ u.kind = "sleep" /\ t.owner = u.owner => t = u

\* FdManager knows open descriptors only.
TableOK == hook => \A fd \in Fds : file[fd] = 0 => ~ctx[fd].here

\* One fiber closes a descriptor, and none that accept() or socket() is about to
\* return; past del() nobody makes it known again.
CloseOK ==
    \A f \in Fibers : pc[f] \in ClosePc =>
        /\ \A g \in Fibers \ {f} : pc[g] \in ClosePc \cup {"adopt"} => call[g].fd # call[f].fd
        /\ hook /\ pc[f] = "closef" => ~ctx[call[f].fd].here

\* A descriptor that is open has the file it was opened with last.
FileOK == \A fd \in Fds : file[fd] \in {0, opened[fd]}

TypeInv ==
    /\ HookTypeOK /\ \A f \in Fibers : CallOK(f)
    /\ RegOK /\ SleepOK /\ FileOK /\ TableOK /\ CloseOK

\* What FdManager knows is nonblocking.
NonblockOK == hook => \A fd \in Fds : ctx[fd].here => nonblock[fd]

\* A call the hook has taken began on a nonblocking file; as long as that file is
\* open it is known, or being closed.
TakenOK ==
    \A f \in Fibers : pc[f] \in IoPc /\ call[f].kind \in Io =>
        /\ hook /\ call[f].file # 0 /\ call[f].file <= opened[call[f].fd]
        /\ file[call[f].fd] = call[f].file =>
            /\ nonblock[call[f].fd]
            /\ \/ ctx[call[f].fd].here
               \/ \E g \in Fibers : pc[g] \in ClosePc /\ call[g].fd = call[f].fd

-----------------------------------------------------------------------------
(* The initial states                                                      *)

\* The first descriptor, which Init opens, exists.
LEMMA FirstFd == NoCall.fd \in Fds
<1>1. \E fd \in Fds : \A d \in Fds : fd <= d
  BY HookAssumption, LeastNat
<1> QED
  BY <1>1 DEF NoCall

LEMMA NoCallType ==
    NoCall \in [kind : Kinds, fd : Fds, file : 0 .. MaxOpen, timed : BOOLEAN, ours : BOOLEAN,
                            shared : BOOLEAN]
  BY FirstFd, HookAssumption DEF NoCall, Kinds

LEMMA TypeInit == Init => TypeInv
<1> SUFFICES ASSUME Init PROVE TypeInv
  OBVIOUS
<1> USE HookAssumption
<1>1. HookTypeOK
  <2>1. /\ file \in [Fds -> 0 .. MaxOpen] /\ opened \in [Fds -> 0 .. MaxOpen]
    BY DEF Init
  <2>4. ctx \in [Fds -> [here : BOOLEAN, user : BOOLEAN, timed : BOOLEAN]]
    BY DEF Init, NoCtx
  <2>5. nonblock \in [Fds -> BOOLEAN]
    <3>1. nonblock = [fd \in Fds |-> hook /\ fd = NoCall.fd]
      BY DEF Init
    <3>2. \A fd \in Fds : (hook /\ fd = NoCall.fd) \in BOOLEAN
      OBVIOUS
    <3> HIDE DEF NoCall
    <3> QED
      BY <3>1, <3>2, Zenon
  <2>6. failed \in BOOLEAN
    BY Zenon DEF Init
  <2>2. /\ threads \in ThreadCounts /\ hook \in HookModes
        /\ avail \in [Fds -> 0 .. MaxData]
        /\ up \in [Fds -> {"idle", "progress", "up", "refused"}]
        /\ reg \in [Fds \X Events -> [who : Fibers \cup {NoFiber}, file : 0 .. MaxOpen]]
    BY DEF Init, NoReg
  <2>3. /\ timers = {} /\ calls \in [Fibers -> 0 .. MaxCalls]
        /\ call \in [Fibers -> [kind : Kinds, fd : Fds, file : 0 .. MaxOpen, timed : BOOLEAN, ours : BOOLEAN,
                            shared : BOOLEAN]]
    BY NoCallType DEF Init
  <2> QED
    BY <2>1, <2>2, <2>3, <2>4, <2>5, <2>6 DEF Init, HookTypeOK
<1>2. \A f \in Fibers : CallOK(f)
  BY DEF Init, CallOK, InCall, ClosePc
<1>3. RegOK /\ SleepOK
  BY DEF Init, RegOK, SleepOK, NoReg
<1>4. FileOK /\ TableOK
  BY <1>1 DEF Init, FileOK, TableOK, NoCtx, HookTypeOK
<1>5. CloseOK
  BY DEF Init, CloseOK, ClosePc
<1> QED
  BY <1>1, <1>2, <1>3, <1>4, <1>5 DEF TypeInv

-----------------------------------------------------------------------------
(* The types                                                               *)

Pcs == OnThread \cup {"new", "hold", "woken", "done"}
Results == {"none", "data", "timeout", "badf", "error", "again", "refused", "connected", "ok", "full"}
CallRecords == [kind : Kinds, fd : Fds, file : 0 .. MaxOpen, timed : BOOLEAN, ours : BOOLEAN,
                            shared : BOOLEAN]
TimerRecords == [owner : Fibers, call : 1 .. MaxCalls, kind : Kinds, fd : Fds,
                 stage : {"armed", "collected", "cancel"}]

FiberTypeOK ==
    /\ pc \in [Fibers -> Pcs] /\ call \in [Fibers -> CallRecords] /\ calls \in [Fibers -> 0 .. MaxCalls]
    /\ cancelled \in [Fibers -> BOOLEAN] /\ late \in [Fibers -> BOOLEAN] /\ result \in [Fibers -> Results]

KernelTypeOK ==
    /\ file \in [Fds -> 0 .. MaxOpen] /\ opened \in [Fds -> 0 .. MaxOpen]
    /\ avail \in [Fds -> 0 .. MaxData] /\ nonblock \in [Fds -> BOOLEAN]
    /\ up \in [Fds -> {"idle", "progress", "up", "refused"}]

CtxTypeOK == ctx \in [Fds -> [here : BOOLEAN, user : BOOLEAN, timed : BOOLEAN]]
RegTypeOK == reg \in [Fds \X Events -> [who : Fibers \cup {NoFiber}, file : 0 .. MaxOpen]]
TimerTypeOK == timers \subseteq TimerRecords
ThreadsTypeOK == threads \in ThreadCounts /\ hook \in HookModes /\ failed \in BOOLEAN

TypesOK == FiberTypeOK /\ KernelTypeOK /\ CtxTypeOK /\ RegTypeOK /\ TimerTypeOK /\ ThreadsTypeOK

LEMMA TypeParts == HookTypeOK <=> TypesOK
  BY DEF HookTypeOK, TypesOK, FiberTypeOK, KernelTypeOK, CtxTypeOK, RegTypeOK, TimerTypeOK,
     ThreadsTypeOK,
         Pcs, Results, CallRecords, TimerRecords

\* The end of the process, and a process that has ended, change nothing else.
LEMMA Endings == (\E f \in Fibers : AddEventAborts(f)) \/ UNCHANGED vars => UNCHANGED restVars
  BY DEF AddEventAborts, vars, restVars, poolVars

\* The ways in which the state of a fiber changes.
LEMMA KeepType ==
    ASSUME FiberTypeOK, NEW f \in Fibers, NEW l \in Pcs, Keep(f, l)
    PROVE  FiberTypeOK'
  BY DEF FiberTypeOK, Keep, Goto

LEMMA ReturnType ==
    ASSUME FiberTypeOK, NEW f \in Fibers, NEW r \in Results, Return(f, r)
    PROVE  FiberTypeOK'
<1>1. NoCall \in CallRecords
  BY NoCallType DEF CallRecords
<1>2. pc' \in [Fibers -> Pcs] /\ call' \in [Fibers -> CallRecords] /\ result' \in [Fibers -> Results]
  BY <1>1 DEF FiberTypeOK, Return, Goto, Pcs, OnThread
<1>3. cancelled' \in [Fibers -> BOOLEAN] /\ late' \in [Fibers -> BOOLEAN] /\ calls' \in [Fibers -> 0 .. MaxCalls]
  BY DEF FiberTypeOK, Return
<1> QED
  BY <1>2, <1>3 DEF FiberTypeOK

LEMMA BeginType ==
    ASSUME FiberTypeOK, KernelTypeOK, NEW f \in Fibers, NEW k \in Kinds, NEW fd \in Fds,
           NEW ours \in BOOLEAN, NEW timed \in BOOLEAN, NEW l \in Pcs, Begin(f, k, fd, ours, timed, l)
    PROVE  FiberTypeOK'
<1>1. \E s \in BOOLEAN :
        call' = [call EXCEPT ![f] = [kind |-> k, fd |-> fd, file |-> file[fd], timed |-> timed, ours |-> ours,
                                     shared |-> s]]
  BY DEF Begin
<1>4. PICK s \in BOOLEAN :
        call' = [call EXCEPT ![f] = [kind |-> k, fd |-> fd, file |-> file[fd], timed |-> timed, ours |-> ours,
                                     shared |-> s]]
  BY <1>1
<1>5. [kind |-> k, fd |-> fd, file |-> file[fd], timed |-> timed, ours |-> ours, shared |-> s] \in CallRecords
  BY DEF CallRecords, KernelTypeOK
<1>2. pc' \in [Fibers -> Pcs] /\ call' \in [Fibers -> CallRecords] /\ result' \in [Fibers -> Results]
  <2>1. pc' \in [Fibers -> Pcs] /\ result' \in [Fibers -> Results]
    BY DEF FiberTypeOK, Begin, Goto, Results
  <2>2. PICK c \in CallRecords : call' = [call EXCEPT ![f] = c]
    BY <1>4, <1>5
  <2>3. call' \in [Fibers -> CallRecords]
    BY <2>2 DEF FiberTypeOK
  <2> QED
    BY <2>1, <2>3
<1>3. calls' \in [Fibers -> 0 .. MaxCalls]
  BY HookAssumption DEF FiberTypeOK, Begin
<1> QED
  BY <1>2, <1>3 DEF FiberTypeOK, Begin

LEMMA AtOnceType ==
    ASSUME FiberTypeOK, NEW f \in Fibers, NEW k \in Kinds, NEW r \in Results, AtOnce(f, k, r)
    PROVE  FiberTypeOK'
  BY HookAssumption DEF FiberTypeOK, AtOnce

LEMMA TriggerType ==
    ASSUME FiberTypeOK, RegTypeOK, NEW S, Trigger(S)
    PROVE  pc' \in [Fibers -> Pcs] /\ RegTypeOK'
<1>1. NoReg \in [who : Fibers \cup {NoFiber}, file : 0 .. MaxOpen]
  BY HookAssumption DEF NoReg
<1> QED
  BY <1>1 DEF FiberTypeOK, RegTypeOK, Trigger, Pcs

\* Every step keeps the types.
LEMMA TypesStep ==
    ASSUME TypesOK, \A f \in Fibers : CallOK(f), [Next]_vars
    PROVE  TypesOK'
<1> USE HookAssumption DEF poolVars, kernelVars, fiberVars, TypesOK
<1>1. ASSUME NEW f \in Fibers, Start(f) PROVE TypesOK'
  <2>1. FiberTypeOK'
    BY <1>1, KeepType, ReturnType DEF Start, Pcs, OnThread, Results
  <2> QED
    BY <1>1, <2>1 DEF Start, KernelTypeOK, CtxTypeOK, RegTypeOK, TimerTypeOK, ThreadsTypeOK
<1>2. ASSUME NEW f \in Fibers, Finish(f) PROVE TypesOK'
  <2>1. FiberTypeOK'
    BY <1>2, KeepType, ReturnType DEF Finish, Pcs, OnThread, Results
  <2> QED
    BY <1>2, <2>1 DEF Finish, KernelTypeOK, CtxTypeOK, RegTypeOK, TimerTypeOK, ThreadsTypeOK
<1>3. ASSUME NEW f \in Fibers, Again(f) PROVE TypesOK'
  <2>1. FiberTypeOK'
    BY <1>3, KeepType, ReturnType DEF Again, Pcs, OnThread, Results
  <2> QED
    BY <1>3, <2>1 DEF Again, KernelTypeOK, CtxTypeOK, RegTypeOK, TimerTypeOK, ThreadsTypeOK
<1>4. ASSUME NEW f \in Fibers, Dialled(f) PROVE TypesOK'
  <2>1. FiberTypeOK'
    BY <1>4, KeepType, ReturnType DEF Dialled, Pcs, OnThread, Results
  <2> QED
    BY <1>4, <2>1 DEF Dialled, KernelTypeOK, CtxTypeOK, RegTypeOK, TimerTypeOK, ThreadsTypeOK
<1>5. ASSUME NEW f \in Fibers, Refuse(f) PROVE TypesOK'
  <2>1. FiberTypeOK'
    BY <1>5, KeepType, ReturnType DEF Refuse, Pcs, OnThread, Results
  <2> QED
    BY <1>5, <2>1 DEF Refuse, KernelTypeOK, CtxTypeOK, RegTypeOK, TimerTypeOK, ThreadsTypeOK
<1>6. ASSUME NEW f \in Fibers, Check(f) PROVE TypesOK'
  <2>1. FiberTypeOK'
    BY <1>6, KeepType, ReturnType DEF Check, Pcs, OnThread, Results
  <2> QED
    BY <1>6, <2>1 DEF Check, KernelTypeOK, CtxTypeOK, RegTypeOK, TimerTypeOK, ThreadsTypeOK
<1>7. ASSUME NEW f \in Fibers, Dial(f) PROVE TypesOK'
  <2>1. FiberTypeOK'
    BY <1>7, KeepType, ReturnType DEF Dial, Pcs, OnThread, Results
  <2> QED
    BY <1>7, <2>1 DEF Dial, KernelTypeOK, CtxTypeOK, RegTypeOK, TimerTypeOK, ThreadsTypeOK,
       FiberTypeOK, CallRecords
<1>8. ASSUME NEW f \in Fibers, AddTimer(f) PROVE TypesOK'
  <2>1. FiberTypeOK'
    BY <1>8, KeepType DEF AddTimer, Pcs, OnThread
  <2>2. Armed(f) \in TimerRecords
    <3>1. calls[f] \in 1 .. MaxCalls
      BY <1>8 DEF AddTimer, CallOK, InCall, FiberTypeOK
    <3>2. call[f].kind \in Kinds /\ call[f].fd \in Fds
      BY DEF FiberTypeOK, CallRecords
    <3> QED
      BY <3>1, <3>2 DEF Armed, Timer, TimerRecords
  <2> QED
    BY <1>8, <2>1, <2>2 DEF AddTimer, KernelTypeOK, CtxTypeOK, RegTypeOK, TimerTypeOK,
       ThreadsTypeOK
<1>9. ASSUME NEW f \in Fibers, AddEventFails(f) PROVE TypesOK'
  <2>1. FiberTypeOK'
    BY <1>9, KeepType, ReturnType DEF AddEventFails, Pcs, OnThread, Results
  <2> QED
    BY <1>9, <2>1 DEF AddEventFails, KernelTypeOK, CtxTypeOK, RegTypeOK, TimerTypeOK, ThreadsTypeOK
<1>10. ASSUME NEW f \in Fibers, Resume(f) PROVE TypesOK'
  <2>1. FiberTypeOK'
    BY <1>10, KeepType, ReturnType DEF Resume, Pcs, OnThread, Results
  <2> QED
    BY <1>10, <2>1 DEF Resume, KernelTypeOK, CtxTypeOK, RegTypeOK, TimerTypeOK, ThreadsTypeOK
<1>11. ASSUME NEW f \in Fibers, Del(f) PROVE TypesOK'
  <2>1. FiberTypeOK'
    BY <1>11, KeepType, ReturnType DEF Del, Pcs, OnThread, Results
  <2> QED
    BY <1>11, <2>1 DEF Del, KernelTypeOK, CtxTypeOK, RegTypeOK, TimerTypeOK, ThreadsTypeOK,
       NoCtx, FiberTypeOK, CallRecords
<1>12. ASSUME NEW f \in Fibers, CloseF(f) PROVE TypesOK'
  <2>1. FiberTypeOK'
    BY <1>12, KeepType, ReturnType DEF CloseF, Pcs, OnThread, Results
  <2> QED
    BY <1>12, <2>1 DEF CloseF, KernelTypeOK, CtxTypeOK, RegTypeOK, TimerTypeOK, ThreadsTypeOK,
       FiberTypeOK, CallRecords
<1>13. ASSUME NEW f \in Fibers, AddEvent(f) PROVE TypesOK'
  <2>1. FiberTypeOK'
    BY <1>13, KeepType, ReturnType DEF AddEvent, Pcs, OnThread, Results
  <2> QED
    BY <1>13, <2>1 DEF AddEvent, KernelTypeOK, CtxTypeOK, RegTypeOK, TimerTypeOK, ThreadsTypeOK,
       FiberTypeOK, CallRecords
<1>14. ASSUME NEW f \in Fibers, NEW k \in {"read", "accept"}, NEW fd \in Fds, CallIo(f, k, fd)
       PROVE  TypesOK'
  <2>1. FiberTypeOK'
    <3> DEFINE ours == hook /\ ctx[fd].here /\ ~ctx[fd].user
    <3>1. ours \in BOOLEAN /\ (ours /\ ctx[fd].timed) \in BOOLEAN /\ k \in Kinds
      BY DEF Kinds
    <3>2. (IF ours THEN "try" ELSE "plain") \in Pcs
      BY DEF Pcs, OnThread
    <3>3. Begin(f, k, fd, ours, ours /\ ctx[fd].timed, IF ours THEN "try" ELSE "plain")
      BY <1>14 DEF CallIo
    <3> HIDE DEF ours
    <3>4. PICK o \in BOOLEAN, tm \in BOOLEAN, l \in Pcs : Begin(f, k, fd, o, tm, l)
      BY <3>1, <3>2, <3>3, Zenon
    <3> QED
      BY <3>1, <3>4, BeginType
  <2> QED
    BY <1>14, <2>1 DEF CallIo, KernelTypeOK, CtxTypeOK, RegTypeOK, TimerTypeOK, ThreadsTypeOK
<1>15. ASSUME NEW f \in Fibers, NEW fd \in Fds, CallConnect(f, fd) PROVE TypesOK'
  <2>1. FiberTypeOK'
    BY <1>15, BeginType, AtOnceType DEF CallConnect, Pcs, OnThread, Kinds, Results, CtxTypeOK,
       ThreadsTypeOK
  <2> QED
    BY <1>15, <2>1 DEF CallConnect, KernelTypeOK, CtxTypeOK, RegTypeOK, TimerTypeOK, ThreadsTypeOK
<1>16. ASSUME NEW f \in Fibers, NEW fd \in Fds, CallSleep(f, fd) PROVE TypesOK'
  <2>1. FiberTypeOK'
    BY <1>16, BeginType DEF CallSleep, Pcs, OnThread, Kinds
  <2>2. calls[f] + 1 \in 1 .. MaxCalls
    BY <1>16 DEF CallSleep, Begin, FiberTypeOK
  <2>3. TimerTypeOK'
    BY <1>16, <2>2 DEF CallSleep, TimerTypeOK, TimerRecords, Kinds
  <2> QED
    BY <1>16, <2>1, <2>3 DEF CallSleep, KernelTypeOK, CtxTypeOK, RegTypeOK, TimerTypeOK,
       ThreadsTypeOK
<1>17. ASSUME NEW f \in Fibers, NEW fd \in Fds, CallSocket(f, fd) PROVE TypesOK'
  <2>1. FiberTypeOK'
    BY <1>17, BeginType, AtOnceType DEF CallSocket, Pcs, OnThread, Kinds, Results
  <2> QED
    BY <1>17, <2>1 DEF CallSocket, KernelTypeOK, CtxTypeOK, RegTypeOK, TimerTypeOK, ThreadsTypeOK
<1>18. ASSUME NEW f \in Fibers, NEW fd \in Fds, CallClose(f, fd) PROVE TypesOK'
  <2>1. FiberTypeOK'
    BY <1>18, BeginType DEF CallClose, Pcs, OnThread, Kinds
  <2> QED
    BY <1>18, <2>1 DEF CallClose, KernelTypeOK, CtxTypeOK, RegTypeOK, TimerTypeOK, ThreadsTypeOK
<1>19. ASSUME NEW f \in Fibers, NEW fd \in Fds, NEW b \in BOOLEAN, SetTimeout(f, fd, b)
       PROVE  TypesOK'
  <2>1. FiberTypeOK'
    BY <1>19, AtOnceType DEF SetTimeout, Kinds, Results
  <2>2. CtxTypeOK'
    <3>1. [ctx[fd] EXCEPT !.timed = b] \in [here : BOOLEAN, user : BOOLEAN, timed : BOOLEAN]
      BY DEF CtxTypeOK
    <3>2. ctx' = [ctx EXCEPT ![fd] = [ctx[fd] EXCEPT !.timed = b]] \/ ctx' = ctx
      BY <1>19 DEF SetTimeout
    <3> QED
      BY <3>1, <3>2 DEF CtxTypeOK
  <2>3. KernelTypeOK'
    BY <1>19 DEF SetTimeout, KernelTypeOK, CtxTypeOK
  <2> QED
    BY <1>19, <2>1, <2>2, <2>3 DEF SetTimeout, RegTypeOK, TimerTypeOK, ThreadsTypeOK
<1>20. ASSUME NEW f \in Fibers, NEW fd \in Fds, NEW b \in BOOLEAN, SetFlags(f, fd, b)
       PROVE  TypesOK'
  <2>1. FiberTypeOK'
    BY <1>20, AtOnceType DEF SetFlags, Kinds, Results
  <2>2. CtxTypeOK'
    <3>1. [ctx[fd] EXCEPT !.user = b] \in [here : BOOLEAN, user : BOOLEAN, timed : BOOLEAN]
      BY DEF CtxTypeOK
    <3>2. ctx' = [ctx EXCEPT ![fd] = [ctx[fd] EXCEPT !.user = b]] \/ ctx' = ctx
      BY <1>20 DEF SetFlags
    <3> QED
      BY <3>1, <3>2 DEF CtxTypeOK
  <2>3. KernelTypeOK'
    BY <1>20 DEF SetFlags, KernelTypeOK, CtxTypeOK
  <2> QED
    BY <1>20, <2>1, <2>2, <2>3 DEF SetFlags, RegTypeOK, TimerTypeOK, ThreadsTypeOK
<1>21. ASSUME NEW f \in Fibers, NEW fd \in Fds, NEW b \in BOOLEAN, SetFionbio(f, fd, b)
       PROVE  TypesOK'
  <2>1. FiberTypeOK'
    BY <1>21, AtOnceType DEF SetFionbio, Kinds, Results
  <2>2. CtxTypeOK'
    <3>1. [ctx[fd] EXCEPT !.user = b] \in [here : BOOLEAN, user : BOOLEAN, timed : BOOLEAN]
      BY DEF CtxTypeOK
    <3>2. ctx' = [ctx EXCEPT ![fd] = [ctx[fd] EXCEPT !.user = b]] \/ ctx' = ctx
      BY <1>21 DEF SetFionbio
    <3> QED
      BY <3>1, <3>2 DEF CtxTypeOK
  <2>3. KernelTypeOK'
    BY <1>21 DEF SetFionbio, KernelTypeOK, CtxTypeOK
  <2> QED
    BY <1>21, <2>1, <2>2, <2>3 DEF SetFionbio, RegTypeOK, TimerTypeOK, ThreadsTypeOK
<1>22. ASSUME NEW f \in Fibers, Adopt(f) PROVE TypesOK'
  <2>1. FiberTypeOK'
    BY <1>22, ReturnType DEF Adopt, Results
  <2>2. CtxTypeOK'
    <3>1. [NoCtx EXCEPT !.here = TRUE] \in [here : BOOLEAN, user : BOOLEAN, timed : BOOLEAN]
      BY DEF NoCtx
    <3> QED
      BY <1>22, <3>1 DEF Adopt, CtxTypeOK, FiberTypeOK, CallRecords
  <2>3. KernelTypeOK'
    BY <1>22 DEF Adopt, KernelTypeOK, FiberTypeOK, CallRecords
  <2> QED
    BY <1>22, <2>1, <2>2, <2>3 DEF Adopt, RegTypeOK, TimerTypeOK, ThreadsTypeOK
<1>23. ASSUME NEW f \in Fibers, Obtain(f) PROVE TypesOK'
  <2> DEFINE fd == call[f].fd
  <2>1. fd \in Fds
    BY DEF FiberTypeOK, CallRecords
  <2>2. CASE call[f].kind = "read"
    <3>1. FiberTypeOK'
      BY <1>23, <2>2, ReturnType DEF Obtain, Results
    <3>2. KernelTypeOK'
      BY <1>23, <2>1, <2>2 DEF Obtain, KernelTypeOK
    <3> QED
      BY <1>23, <3>1, <3>2 DEF Obtain, CtxTypeOK, RegTypeOK, TimerTypeOK, ThreadsTypeOK
  <2>3. CASE call[f].kind = "accept"
    <3>1. PICK new \in Fds :
            /\ opened[new] < MaxOpen
            /\ file' = [file EXCEPT ![new] = opened[new] + 1]
            /\ opened' = [opened EXCEPT ![new] = @ + 1]
            /\ avail' = [avail EXCEPT ![fd] = @ - 1, ![new] = 0]
            /\ up' = [up EXCEPT ![new] = "up"]
            /\ nonblock' = [nonblock EXCEPT ![new] = FALSE]
            /\ call' = [call EXCEPT ![f].fd = new]
      BY <1>23, <2>3 DEF Obtain
    <3>2. KernelTypeOK'
      <4>1. avail[fd] \in 0 .. MaxData /\ avail[fd] > 0
        BY <1>23, <2>1 DEF Obtain, KernelTypeOK
      <4>2. avail' \in [Fds -> 0 .. MaxData]
        BY <2>1, <3>1, <4>1 DEF KernelTypeOK
      <4>3. file' \in [Fds -> 0 .. MaxOpen] /\ opened' \in [Fds -> 0 .. MaxOpen]
        BY <3>1 DEF KernelTypeOK
      <4> QED
        BY <3>1, <4>2, <4>3 DEF KernelTypeOK
    <3>3. FiberTypeOK'
      <4>1. call' \in [Fibers -> CallRecords]
        BY <3>1, SMTT(30) DEF FiberTypeOK, CallRecords
      <4> QED
        BY <1>23, <2>3, <4>1 DEF Obtain, Goto, FiberTypeOK, Pcs, OnThread
    <3> QED
      BY <1>23, <3>2, <3>3 DEF Obtain, CtxTypeOK, RegTypeOK, TimerTypeOK, ThreadsTypeOK
  <2> QED
    BY <1>23, <2>2, <2>3 DEF Obtain
<1>24. ASSUME NEW f \in Fibers, CancelAll(f) PROVE TypesOK'
  <2>1. FiberTypeOK'
    BY <1>24, TypesOK DEF CancelAll, Pcs, OnThread, FiberTypeOK
  <2> QED
    BY <1>24, <2>1 DEF CancelAll, KernelTypeOK, CtxTypeOK, RegTypeOK, TimerTypeOK, ThreadsTypeOK,
       NoReg, FiberTypeOK, CallRecords
<1>25. ASSUME NEW f \in Fibers, NEW t \in timers, t.owner = f, Collect(t) PROVE TypesOK'
  <2>1. FiberTypeOK'
    BY <1>25, TriggerType DEF Collect, Pcs, OnThread, FiberTypeOK, Goto, TimerTypeOK,
       TimerRecords
  <2> QED
    BY <1>25, <2>1 DEF Collect, KernelTypeOK, CtxTypeOK, RegTypeOK, TimerTypeOK, ThreadsTypeOK,
       TimerRecords
<1>26. ASSUME NEW f \in Fibers, NEW t \in timers, t.owner = f, Fire(t) PROVE TypesOK'
  <2>1. FiberTypeOK'
    BY <1>26, TriggerType DEF Fire, Pcs, OnThread, FiberTypeOK, Goto, TimerTypeOK, TimerRecords
  <2> QED
    BY <1>26, <2>1 DEF Fire, KernelTypeOK, CtxTypeOK, RegTypeOK, TimerTypeOK, ThreadsTypeOK,
       TimerRecords
<1>27. ASSUME NEW f \in Fibers, NEW t \in timers, CancelEvent(t) PROVE TypesOK'
  <2>1. PICK S : Trigger(S)
    BY <1>27 DEF CancelEvent
  <2>2. pc' \in [Fibers -> Pcs] /\ RegTypeOK'
    BY <2>1, TriggerType
  <2> QED
    BY <1>27, <2>2 DEF CancelEvent, FiberTypeOK, KernelTypeOK, CtxTypeOK, TimerTypeOK,
       ThreadsTypeOK
<1>28. ASSUME NEW e \in Fds \X Events, Ready(e) PROVE TypesOK'
  BY <1>28, TriggerType DEF Ready, FiberTypeOK, KernelTypeOK, CtxTypeOK, RegTypeOK,
     TimerTypeOK, ThreadsTypeOK
<1>29. ASSUME NEW fd \in Fds, Arrive(fd) \/ Establish(fd) PROVE TypesOK'
  BY <1>29, SMTT(20) DEF Arrive, Establish, FiberTypeOK, KernelTypeOK, CtxTypeOK, RegTypeOK,
     TimerTypeOK, ThreadsTypeOK
<1>30. ASSUME UNCHANGED restVars, failed' \in BOOLEAN PROVE TypesOK'
  BY <1>30 DEF restVars, FiberTypeOK, KernelTypeOK, CtxTypeOK, RegTypeOK, TimerTypeOK, ThreadsTypeOK
<1>31. ASSUME (\E f \in Fibers : AddEventAborts(f)) \/ UNCHANGED vars PROVE failed' \in BOOLEAN
  BY <1>31 DEF AddEventAborts, vars, ThreadsTypeOK
<1> QED
  BY <1>1, <1>2, <1>3, <1>4, <1>5, <1>6, <1>7, <1>8, <1>9, <1>10, <1>11, <1>12, <1>13, <1>14,
     <1>15, <1>16, <1>17, <1>18, <1>19, <1>20, <1>21, <1>22, <1>23, <1>24, <1>25, <1>26,
     <1>27, <1>28, <1>29, <1>30, <1>31, Endings
  DEF Next, UserStep, CallStep, TimerStep, Halted, TimerTypeOK, TimerRecords

-----------------------------------------------------------------------------
(* Where the fibers are                                                    *)

ControlInv == (\A f \in Fibers : CallOK(f)) /\ RegOK /\ SleepOK /\ FileOK /\ TableOK /\ CloseOK

\* A step of a fiber that is not on hold leaves the registrations as they should be.
LEMMA RegKept ==
    ASSUME RegOK, RegTypeOK, NEW f \in Fibers, pc[f] # "hold", UNCHANGED reg,
           \A g \in Fibers \ {f} : pc'[g] = pc[g] /\ call'[g] = call[g]
    PROVE  RegOK'
  BY DEF RegOK, RegTypeOK

\* A step of a fiber that is not on hold, and that opens and closes nothing.
LEMMA FiberMoves ==
    ASSUME TypeInv, TypesOK', NEW f \in Fibers, CallOK(f)', pc[f] # "hold",
           UNCHANGED <<hook, file, opened, reg>>,
           \A fd \in Fds : ctx'[fd].here => ctx[fd].here,
           \A g \in Fibers \ {f} : pc'[g] = pc[g] /\ call'[g] = call[g] /\ calls'[g] = calls[g],
           \A t : t.kind = "sleep" => (t \in timers' <=> t \in timers),
           pc'[f] \notin ClosePc \cup {"adopt"}
    PROVE  ControlInv'
<1> USE DEF TypeInv, TypesOK, FiberTypeOK, CallRecords
<1>1. \A g \in Fibers : CallOK(g)'
  BY DEF CallOK, InCall, ClosePc
<1>2. RegOK'
  BY RegKept, TypeParts
<1>3. SleepOK'
  BY DEF SleepOK, TimerTypeOK, TimerRecords
<1>4. FileOK' /\ TableOK'
  BY DEF FileOK, TableOK
<1>5. CloseOK'
  <2> SUFFICES ASSUME NEW h \in Fibers, pc'[h] \in ClosePc
               PROVE  /\ \A g \in Fibers \ {h} : pc'[g] \in ClosePc \cup {"adopt"} => call'[g].fd # call'[h].fd
                      /\ hook' /\ pc'[h] = "closef" => ~ctx'[call'[h].fd].here
    BY DEF CloseOK
  <2>1. h # f /\ pc'[h] = pc[h] /\ call'[h] = call[h] /\ call[h].fd \in Fds
    BY TypeParts
  <2>2. ASSUME NEW g \in Fibers \ {h}, pc'[g] \in ClosePc \cup {"adopt"}
        PROVE  call'[g].fd # call'[h].fd
    <3>1. g # f /\ pc'[g] = pc[g] /\ call'[g] = call[g]
      BY <2>2
    <3> QED
      BY <2>1, <2>2, <3>1 DEF CloseOK
  <2> QED
    BY <2>1, <2>2 DEF CloseOK
<1> QED
  BY <1>1, <1>2, <1>3, <1>4, <1>5 DEF ControlInv

\* triggerEvent() wakes fibers that are on hold, and those it wakes lose their registration.
LEMMA TriggerControl ==
    ASSUME TypeInv, TypesOK', NEW S \in SUBSET (Fds \X Events), Trigger(S), timers' \subseteq timers,
           UNCHANGED <<hook, file, opened, ctx, call, calls>>
    PROVE  ControlInv'
<1> USE DEF TypeInv, TypesOK, FiberTypeOK, CallRecords, RegTypeOK
<1>0. TypesOK
  BY TypeParts
<1>1. \A g \in Fibers : (pc'[g] = "woken" /\ pc[g] = "hold" /\ call[g].kind \in Io) \/ pc'[g] = pc[g]
  BY <1>0 DEF Trigger, RegOK
<1>2. \A g \in Fibers : CallOK(g)'
  BY <1>0, <1>1 DEF CallOK, InCall, ClosePc, OnThread
<1>3. RegOK'
  <2> SUFFICES ASSUME NEW e \in Fds \X Events, reg'[e].who \in Fibers
               PROVE  /\ pc'[reg'[e].who] = "hold" /\ call[reg'[e].who].kind \in Io
                      /\ call[reg'[e].who].fd = e[1] /\ EventOf(call[reg'[e].who].kind) = e[2]
    BY DEF RegOK
  <2>1. e \notin S /\ reg'[e] = reg[e]
    BY <1>0, HookAssumption DEF Trigger, NoReg
  <2>2. ASSUME NEW d \in S PROVE reg[d].who # reg[e].who
    <3>1. d \in Fds \X Events /\ d # e
      BY <2>1
    <3>2. d[1] # e[1] \/ d[2] # e[2]
      BY <3>1
    <3> QED
      BY <2>1, <3>1, <3>2 DEF RegOK
  <2> QED
    BY <1>0, <2>1, <2>2 DEF Trigger, RegOK
<1>4. SleepOK'
  BY <1>0, <1>1 DEF SleepOK, TimerTypeOK, TimerRecords, Io
<1>5. FileOK' /\ TableOK' /\ CloseOK'
  BY <1>0, <1>1 DEF FileOK, TableOK, CloseOK, ClosePc
<1> QED
  BY <1>2, <1>3, <1>4, <1>5 DEF ControlInv

\* Every step keeps where the fibers are.
LEMMA ControlStep ==
    ASSUME TypeInv, TypesOK', [Next]_vars
    PROVE  ControlInv'
<1> USE HookAssumption DEF poolVars, kernelVars, fiberVars
<1>0. TypesOK
  BY TypeParts DEF TypeInv
<1>1. ASSUME NEW f \in Fibers, Start(f) PROVE ControlInv'
  BY <1>1, <1>0, FiberMoves DEF Start, Return, Goto, Keep, Begin, AtOnce, InCall, ClosePc, Io,
     TypesOK, FiberTypeOK, CallRecords, TypeInv, CallOK
<1>2. ASSUME NEW f \in Fibers, Finish(f) PROVE ControlInv'
  BY <1>2, <1>0, FiberMoves DEF Finish, Return, Goto, Keep, Begin, AtOnce, InCall, ClosePc,
     Io, TypesOK, FiberTypeOK, CallRecords, TypeInv, CallOK
<1>3. ASSUME NEW f \in Fibers, Dial(f) PROVE ControlInv'
  <2> USE DEF Dial, Return, Goto, Keep, InCall, ClosePc, Io, TypesOK, FiberTypeOK, CallRecords,
              TypeInv
  <2>1. CallOK(f)' /\ pc[f] # "hold" /\ pc'[f] \notin ClosePc \cup {"adopt"}
    BY <1>3, <1>0, CallOK(f) DEF CallOK, NoCall
  <2>2. \A g \in Fibers \ {f} : pc'[g] = pc[g] /\ call'[g] = call[g] /\ calls'[g] = calls[g]
    BY <1>3, <1>0
  <2> QED
    BY <1>3, <2>1, <2>2, FiberMoves
<1>4. ASSUME NEW f \in Fibers, Dialled(f) PROVE ControlInv'
  BY <1>4, <1>0, FiberMoves DEF Dialled, Return, Goto, Keep, Begin, AtOnce, InCall, ClosePc,
     Io, TypesOK, FiberTypeOK, CallRecords, TypeInv, CallOK
<1>5. ASSUME NEW f \in Fibers, Refuse(f) PROVE ControlInv'
  BY <1>5, <1>0, FiberMoves DEF Refuse, Return, Goto, Keep, Begin, AtOnce, InCall, ClosePc,
     Io, TypesOK, FiberTypeOK, CallRecords, TypeInv, CallOK
<1>6. ASSUME NEW f \in Fibers, Check(f) PROVE ControlInv'
  BY <1>6, <1>0, FiberMoves DEF Check, Return, Goto, Keep, Begin, AtOnce, InCall, ClosePc, Io,
     TypesOK, FiberTypeOK, CallRecords, TypeInv, CallOK
<1>7. ASSUME NEW f \in Fibers, AddTimer(f) PROVE ControlInv'
  <2> USE DEF AddTimer, Goto, Keep, InCall, ClosePc, Io, TypesOK, FiberTypeOK, CallRecords, TypeInv
  <2>1. CallOK(f)' /\ pc[f] # "hold" /\ pc'[f] \notin ClosePc \cup {"adopt"}
    BY <1>7, <1>0, CallOK(f) DEF CallOK
  <2>2. \A g \in Fibers \ {f} : pc'[g] = pc[g] /\ call'[g] = call[g] /\ calls'[g] = calls[g]
    BY <1>7, <1>0
  <2>3. \A t : t.kind = "sleep" => (t \in timers' <=> t \in timers)
    BY <1>7, <1>0 DEF CallOK, Armed, Timer
  <2> QED
    BY <1>7, <2>1, <2>2, <2>3, FiberMoves
<1>8. ASSUME NEW f \in Fibers, Again(f) PROVE ControlInv'
  <2> USE DEF Again, Return, Goto, Keep, Begin, AtOnce, InCall, ClosePc, Io, TypesOK,
              FiberTypeOK, CallRecords, TypeInv
  <2>1. CallOK(f)' /\ pc[f] # "hold" /\ pc'[f] \notin ClosePc \cup {"adopt"}
    BY <1>8, <1>0, CallOK(f) DEF CallOK, NoCall
  <2>2. \A g \in Fibers \ {f} : pc'[g] = pc[g] /\ call'[g] = call[g] /\ calls'[g] = calls[g]
    BY <1>8, <1>0
  <2>3. \A t : t.kind = "sleep" => (t \in timers' <=> t \in timers)
    BY <1>8, <1>0 DEF CallOK, Armed, Timer, SleepOK, TimerTypeOK, TimerRecords
  <2> QED
    BY <1>8, <2>1, <2>2, <2>3, FiberMoves
<1>9. ASSUME NEW f \in Fibers, AddEventFails(f) PROVE ControlInv'
  <2> USE DEF AddEventFails, Return, Goto, Keep, Begin, AtOnce, InCall, ClosePc, Io, TypesOK,
              FiberTypeOK, CallRecords, TypeInv
  <2>1. CallOK(f)' /\ pc[f] # "hold" /\ pc'[f] \notin ClosePc \cup {"adopt"}
    BY <1>9, <1>0, CallOK(f) DEF CallOK, NoCall
  <2>2. \A g \in Fibers \ {f} : pc'[g] = pc[g] /\ call'[g] = call[g] /\ calls'[g] = calls[g]
    BY <1>9, <1>0
  <2>3. \A t : t.kind = "sleep" => (t \in timers' <=> t \in timers)
    BY <1>9, <1>0 DEF CallOK, Armed, Timer, SleepOK, TimerTypeOK, TimerRecords
  <2> QED
    BY <1>9, <2>1, <2>2, <2>3, FiberMoves
<1>10. ASSUME NEW f \in Fibers, Resume(f) PROVE ControlInv'
  <2> USE DEF Resume, Return, Goto, Keep, Begin, AtOnce, InCall, ClosePc, Io, TypesOK,
              FiberTypeOK, CallRecords, TypeInv
  <2>1. CallOK(f)' /\ pc[f] # "hold" /\ pc'[f] \notin ClosePc \cup {"adopt"}
    BY <1>10, <1>0, CallOK(f) DEF CallOK, NoCall
  <2>2. \A g \in Fibers \ {f} : pc'[g] = pc[g] /\ call'[g] = call[g] /\ calls'[g] = calls[g]
    BY <1>10, <1>0
  <2>3. \A t : t.kind = "sleep" => (t \in timers' <=> t \in timers)
    BY <1>10, <1>0 DEF CallOK, Armed, Timer, SleepOK, TimerTypeOK, TimerRecords
  <2> QED
    BY <1>10, <2>1, <2>2, <2>3, FiberMoves
<1>11. ASSUME NEW f \in Fibers, NEW k \in {"read", "accept"}, NEW fd \in Fds, CallIo(f, k, fd)
       PROVE  ControlInv'
  BY <1>11, <1>0, FiberMoves DEF CallIo, Return, Goto, Keep, Begin, AtOnce, InCall, ClosePc,
     Io, TypesOK, FiberTypeOK, CallRecords, TypeInv, CallOK
<1>12. ASSUME NEW f \in Fibers, NEW fd \in Fds, CallConnect(f, fd) PROVE ControlInv'
  <2> USE DEF CallConnect, Return, Goto, Keep, Begin, AtOnce, InCall, ClosePc, Io, TypesOK,
              FiberTypeOK, CallRecords, TypeInv
  <2>1. CallOK(f)' /\ pc[f] # "hold" /\ pc'[f] \notin ClosePc \cup {"adopt"}
    BY <1>12, <1>0, CallOK(f) DEF CallOK, NoCall
  <2>2. \A g \in Fibers \ {f} : pc'[g] = pc[g] /\ call'[g] = call[g] /\ calls'[g] = calls[g]
    BY <1>12, <1>0
  <2>3. \A t : t.kind = "sleep" => (t \in timers' <=> t \in timers)
    BY <1>12, <1>0 DEF CallOK, Armed, Timer, SleepOK, TimerTypeOK, TimerRecords
  <2> QED
    BY <1>12, <2>1, <2>2, <2>3, FiberMoves
<1>13. ASSUME NEW f \in Fibers, NEW fd \in Fds, NEW b \in BOOLEAN, SetTimeout(f, fd, b)
       PROVE  ControlInv'
  BY <1>13, <1>0, FiberMoves DEF SetTimeout, Return, Goto, Keep, Begin, AtOnce, InCall,
     ClosePc, Io, TypesOK, FiberTypeOK, CallRecords, TypeInv, CallOK, CtxTypeOK
<1>14. ASSUME NEW f \in Fibers, NEW fd \in Fds, NEW b \in BOOLEAN, SetFlags(f, fd, b)
       PROVE  ControlInv'
  BY <1>14, <1>0, FiberMoves DEF SetFlags, Return, Goto, Keep, Begin, AtOnce, InCall, ClosePc,
     Io, TypesOK, FiberTypeOK, CallRecords, TypeInv, CallOK, CtxTypeOK
<1>15. ASSUME NEW f \in Fibers, NEW fd \in Fds, NEW b \in BOOLEAN, SetFionbio(f, fd, b)
       PROVE  ControlInv'
  BY <1>15, <1>0, FiberMoves DEF SetFionbio, Return, Goto, Keep, Begin, AtOnce, InCall,
     ClosePc, Io, TypesOK, FiberTypeOK, CallRecords, TypeInv, CallOK, CtxTypeOK
<1>16. ASSUME NEW f \in Fibers, NEW fd \in Fds, CallSleep(f, fd) PROVE ControlInv'
  <2> USE DEF CallSleep, Return, Goto, Keep, Begin, AtOnce, InCall, NoReg, NoCtx, ClosePc, Io,
              TypeInv,
              TypesOK, FiberTypeOK, KernelTypeOK, CtxTypeOK, RegTypeOK, TimerTypeOK,
              ThreadsTypeOK, CallRecords, TimerRecords
  <2>1. \A g \in Fibers : CallOK(g)'
    BY <1>16, <1>0 DEF CallOK, CloseOK, RegOK, SleepOK, Known, Lowest
  <2>2. RegOK'
    BY <1>16, <1>0, RegKept
  <2>3. SleepOK'
    BY <1>16, <1>0 DEF CallOK, RegOK, SleepOK, Armed, Timer
  <2>4. FileOK' /\ TableOK'
    BY <1>16, <1>0 DEF CallOK, FileOK, TableOK, CloseOK
  <2>5. CloseOK'
    BY <1>16, <1>0 DEF CallOK, CloseOK, RegOK, SleepOK, Known, Closing, Lowest
  <2> QED
    BY <2>1, <2>2, <2>3, <2>4, <2>5 DEF ControlInv
<1>17. ASSUME NEW f \in Fibers, NEW fd \in Fds, CallSocket(f, fd) PROVE ControlInv'
  <2> USE DEF CallSocket, Return, Goto, Keep, Begin, AtOnce, InCall, NoReg, NoCtx, ClosePc,
              Io, TypeInv,
              TypesOK, FiberTypeOK, KernelTypeOK, CtxTypeOK, RegTypeOK, TimerTypeOK,
              ThreadsTypeOK, CallRecords, TimerRecords
  <2>1. \A g \in Fibers : CallOK(g)'
    BY <1>17, <1>0 DEF CallOK, CloseOK, RegOK, SleepOK, Known, Lowest
  <2>2. RegOK'
    BY <1>17, <1>0, RegKept
  <2>3. SleepOK'
    BY <1>17, <1>0 DEF CallOK, RegOK, SleepOK, Armed, Timer
  <2>4. FileOK' /\ TableOK'
    BY <1>17, <1>0 DEF CallOK, FileOK, TableOK, CloseOK
  <2>5. CloseOK'
    <3>1. /\ \A g \in Fibers \ {f} : pc'[g] = pc[g] /\ call'[g] = call[g]
          /\ pc'[f] \notin ClosePc /\ (pc'[f] = "adopt" => call'[f].fd = fd)
      BY <1>17, <1>0
    <3>2. UNCHANGED <<ctx, hook>> /\ file[fd] = 0
      BY <1>17 DEF Lowest
    <3>3. \A g \in Fibers : pc[g] \in ClosePc => call[g].fd # fd
      BY <3>2 DEF CallOK
    <3>4. ASSUME NEW h \in Fibers, pc'[h] \in ClosePc
          PROVE  h # f /\ pc'[h] = pc[h] /\ call'[h] = call[h] /\ call[h].fd # fd
      BY <3>1, <3>3, <3>4
    <3>5. ASSUME NEW h \in Fibers, pc'[h] \in ClosePc, NEW g \in Fibers \ {h}, pc'[g] \in ClosePc \cup {"adopt"}
          PROVE  call'[g].fd # call'[h].fd
      <4>1. CASE g = f
        BY <3>1, <3>4, <3>5, <4>1
      <4>2. CASE g # f
        <5>1. pc'[g] = pc[g] /\ call'[g] = call[g]
          BY <3>1, <4>2
        <5> QED
          BY <3>4, <3>5, <5>1 DEF CloseOK
      <4> QED
        BY <4>1, <4>2
    <3> QED
      BY <3>2, <3>4, <3>5 DEF CloseOK
  <2> QED
    BY <2>1, <2>2, <2>3, <2>4, <2>5 DEF ControlInv
<1>18. ASSUME NEW f \in Fibers, NEW fd \in Fds, CallClose(f, fd) PROVE ControlInv'
  <2> USE DEF CallClose, Return, Goto, Keep, Begin, AtOnce, InCall, NoReg, NoCtx, ClosePc, Io,
              TypeInv,
              TypesOK, FiberTypeOK, KernelTypeOK, CtxTypeOK, RegTypeOK, TimerTypeOK,
              ThreadsTypeOK, CallRecords, TimerRecords
  <2>1. \A g \in Fibers : CallOK(g)'
    <3>1. /\ pc[f] = "user" /\ "close" \in May[f] /\ file'[fd] # 0 /\ calls'[f] # 0
          /\ pc'[f] \in ClosePc /\ call'[f].kind = "close" /\ call'[f].fd = fd
      BY <1>18, <1>0 DEF Known
    <3>2. /\ UNCHANGED file
          /\ \A g \in Fibers \ {f} : pc'[g] = pc[g] /\ call'[g] = call[g] /\ calls'[g] = calls[g]
      BY <1>18, <1>0
    <3>3. CallOK(f)'
      BY <3>1 DEF CallOK
    <3>4. ASSUME NEW g \in Fibers \ {f} PROVE CallOK(g)'
      BY <3>2 DEF CallOK
    <3> QED
      BY <3>3, <3>4
  <2>2. RegOK'
    BY <1>18, <1>0, RegKept
  <2>3. SleepOK'
    <3>1. \A g \in Fibers \ {f} : pc'[g] = pc[g] /\ call'[g] = call[g]
      BY <1>18, <1>0
    <3>2. pc[f] # "hold" /\ UNCHANGED timers
      BY <1>18
    <3> HIDE DEF CallClose, Begin, Goto
    <3> QED
      BY <1>0, <3>1, <3>2 DEF SleepOK
  <2>4. FileOK' /\ TableOK'
    BY <1>18, <1>0 DEF CallOK, FileOK, TableOK, CloseOK
  <2>5. CloseOK'
    <3>1. pc'[f] = "closef" /\ hook => ~ctx[fd].here
      BY <1>18, <1>0
    <3>2. /\ pc[f] = "user" /\ call'[f].fd = fd
          /\ \A g \in Fibers \ {f} : pc'[g] = pc[g] /\ call'[g] = call[g]
      BY <1>18, <1>0
    <3>3. \A g \in Fibers \ {f} : pc[g] \in ClosePc \cup {"adopt"} => call[g].fd # fd
      BY <1>18, <1>0 DEF CallOK, Known, Closing
    <3>4. UNCHANGED <<ctx, hook>>
      BY <1>18
    <3>5. ASSUME NEW h \in Fibers \ {f}, pc'[h] \in ClosePc
          PROVE  /\ \A g \in Fibers \ {h} : pc'[g] \in ClosePc \cup {"adopt"} => call'[g].fd # call'[h].fd
                 /\ hook' /\ pc'[h] = "closef" => ~ctx'[call'[h].fd].here
      <4>1. call[h].fd # fd
        BY <3>2, <3>3, <3>5
      <4> HIDE DEF CallClose, Begin, Goto
      <4>2. /\ \A g \in Fibers \ {h} : pc[g] \in ClosePc \cup {"adopt"} => call[g].fd # call[h].fd
            /\ hook /\ pc[h] = "closef" => ~ctx[call[h].fd].here
        BY <3>2, <3>5 DEF CloseOK
      <4> QED
        BY <3>2, <3>4, <3>5, <4>1, <4>2
    <3>6. /\ \A g \in Fibers \ {f} : pc'[g] \in ClosePc \cup {"adopt"} => call'[g].fd # call'[f].fd
          /\ hook' /\ pc'[f] = "closef" => ~ctx'[call'[f].fd].here
      BY <3>1, <3>2, <3>3, <3>4
    <3> QED
      BY <3>5, <3>6, Zenon DEF CloseOK
  <2> QED
    BY <2>1, <2>2, <2>3, <2>4, <2>5 DEF ControlInv
<1>19. ASSUME NEW f \in Fibers, Obtain(f), call[f].kind = "read" PROVE ControlInv'
  BY <1>19, <1>0, FiberMoves DEF Obtain, Return, Goto, Keep, Begin, AtOnce, InCall, ClosePc,
     Io, TypesOK, FiberTypeOK, CallRecords, TypeInv, CallOK
<1>20. ASSUME NEW f \in Fibers, Obtain(f), call[f].kind = "accept" PROVE ControlInv'
  <2> USE DEF TypeInv, TypesOK, FiberTypeOK, KernelTypeOK, CtxTypeOK, RegTypeOK, CallRecords,
              ClosePc, InCall
  <2>1. PICK new \in Fds :
          /\ file[new] = 0 /\ file' = [file EXCEPT ![new] = opened[new] + 1]
          /\ opened' = [opened EXCEPT ![new] = @ + 1] /\ call' = [call EXCEPT ![f].fd = new]
    BY <1>20 DEF Obtain, Lowest
  <2>2. /\ pc[f] \in {"try", "plain"} /\ pc' = [pc EXCEPT ![f] = "adopt"]
        /\ UNCHANGED <<hook, ctx, reg, timers, calls>>
    BY <1>20 DEF Obtain, Goto, poolVars
  <2>3. /\ pc'[f] = "adopt" /\ call'[f].fd = new /\ file'[new] # 0
        /\ \A g \in Fibers \ {f} : pc'[g] = pc[g] /\ call'[g] = call[g]
        /\ \A d \in Fds : file[d] # 0 => file'[d] # 0
    BY <1>0, <2>1, <2>2
  <2>4. \A g \in Fibers : CallOK(g)'
    <3>1. CallOK(f)'
      BY <1>0, <2>2, <2>3 DEF CallOK
    <3>2. ASSUME NEW g \in Fibers \ {f} PROVE CallOK(g)'
      <4>1. CallOK(g) /\ pc'[g] = pc[g] /\ call'[g] = call[g] /\ calls'[g] = calls[g] /\ call[g].fd \in Fds
        BY <1>0, <2>2, <2>3
      <4> QED
        BY <2>3, <4>1 DEF CallOK
    <3> QED
      BY <3>1, <3>2
  <2>5. RegOK'
    BY <1>0, <2>2, <2>3, RegKept
  <2>6. SleepOK'
    BY <1>0, <2>2, <2>3 DEF SleepOK, TimerTypeOK, TimerRecords
  <2>7. FileOK' /\ TableOK'
    BY <1>0, <2>1, <2>2, <2>3 DEF FileOK, TableOK
  <2>8. CloseOK'
    BY <1>0, <2>1, <2>2, <2>3 DEF CloseOK, CallOK
  <2> QED
    BY <2>4, <2>5, <2>6, <2>7, <2>8 DEF ControlInv
<1>21. ASSUME NEW f \in Fibers, Obtain(f) PROVE ControlInv'
  BY <1>21, <1>19, <1>20 DEF Obtain
<1>22. ASSUME NEW f \in Fibers, Adopt(f) PROVE ControlInv'
  <2> USE DEF Adopt, Return, Goto, Keep, Begin, AtOnce, InCall, NoReg, NoCtx, ClosePc, Io,
              TypeInv,
              TypesOK, FiberTypeOK, KernelTypeOK, CtxTypeOK, RegTypeOK, TimerTypeOK,
              ThreadsTypeOK, CallRecords, TimerRecords
  <2>1. \A g \in Fibers : CallOK(g)'
    BY <1>22, <1>0 DEF CallOK, CloseOK, RegOK, SleepOK, Known, Lowest
  <2>2. RegOK'
    BY <1>22, <1>0 DEF CallOK, RegOK, SleepOK, Lowest
  <2>3. SleepOK'
    BY <1>22, <1>0 DEF CallOK, RegOK, SleepOK, Armed, Timer
  <2>4. FileOK' /\ TableOK'
    <3>1. \A d \in Fds : ctx'[d].here => ctx[d].here \/ d = call[f].fd
      BY <1>22, <1>0
    <3>2. file[call[f].fd] # 0 /\ call[f].fd \in Fds /\ UNCHANGED <<hook, file, opened>>
      BY <1>22, <1>0 DEF CallOK
    <3> QED
      BY <3>1, <3>2 DEF FileOK, TableOK
  <2>5. CloseOK'
    BY <1>22, <1>0 DEF CallOK, CloseOK, RegOK, SleepOK, Known, Closing, Lowest
  <2> QED
    BY <2>1, <2>2, <2>3, <2>4, <2>5 DEF ControlInv
<1>23. ASSUME NEW f \in Fibers, AddEvent(f) PROVE ControlInv'
  <2> USE DEF AddEvent, Return, Goto, Keep, Begin, AtOnce, InCall, NoReg, NoCtx, ClosePc, Io,
              TypeInv,
              TypesOK, FiberTypeOK, KernelTypeOK, CtxTypeOK, RegTypeOK, TimerTypeOK,
              ThreadsTypeOK, CallRecords, TimerRecords
  <2>1. \A g \in Fibers : CallOK(g)'
    BY <1>23, <1>0 DEF CallOK, CloseOK, RegOK, SleepOK, Known, Lowest
  <2>2. RegOK'
    BY <1>23, <1>0 DEF CallOK, RegOK, SleepOK, Lowest
  <2>3. SleepOK'
    BY <1>23, <1>0 DEF CallOK, RegOK, SleepOK, Armed, Timer
  <2>4. FileOK' /\ TableOK'
    BY <1>23, <1>0 DEF CallOK, FileOK, TableOK, CloseOK
  <2>5. CloseOK'
    BY <1>23, <1>0 DEF CallOK, CloseOK, RegOK, SleepOK, Known, Closing, Lowest
  <2> QED
    BY <2>1, <2>2, <2>3, <2>4, <2>5 DEF ControlInv
<1>24. ASSUME NEW f \in Fibers, CancelAll(f) PROVE ControlInv'
  <2> USE DEF CancelAll, Return, Goto, Keep, Begin, AtOnce, InCall, NoReg, NoCtx, ClosePc, Io,
              TypeInv,
              TypesOK, FiberTypeOK, KernelTypeOK, CtxTypeOK, RegTypeOK, TimerTypeOK,
              ThreadsTypeOK, CallRecords, TimerRecords
  <2>1. \A g \in Fibers : CallOK(g)'
    BY <1>24, <1>0 DEF CallOK, CloseOK, RegOK, SleepOK, Known, Lowest
  <2>2. RegOK'
    <3> SUFFICES ASSUME NEW e \in Fds \X Events, reg'[e].who \in Fibers
                 PROVE  /\ pc'[reg'[e].who] = "hold" /\ call'[reg'[e].who].kind \in Io
                        /\ call'[reg'[e].who].fd = e[1]
                        /\ EventOf(call'[reg'[e].who].kind) = e[2]
      BY Zenon DEF RegOK
    <3> DEFINE w == reg[e].who
               fd == call[f].fd
    <3>1. reg'[e] = reg[e] /\ reg[e] # NoReg /\ UNCHANGED call
      BY <1>24, <1>0
    <3>2. pc[w] = "hold" /\ call[w].kind \in Io /\ call[w].fd = e[1] /\ EventOf(call[w].kind) = e[2]
      BY <3>1 DEF RegOK
    <3>3. ASSUME Watched(fd), NEW d \in Fds \X Events, d[1] = fd, reg[d].who = w PROVE FALSE
      <4>1. e[1] = fd
        BY <3>1, <3>2, <3>3 DEF RegOK
      <4> QED
        BY <1>24, <1>0, <3>1, <3>3, <4>1
    <3>4. pc'[w] = "hold"
      BY <1>24, <3>1, <3>2, <3>3
    <3> QED
      BY <3>1, <3>2, <3>4
  <2>3. SleepOK'
    <3>1. UNCHANGED <<timers, call>> /\ pc[f] = "cancelAll" /\ SleepOK
      BY <1>24, <1>0
    <3>2. ASSUME NEW t \in timers, t.kind = "sleep" PROVE pc'[t.owner] = "hold"
      <4>1. pc[t.owner] = "hold" /\ call[t.owner].kind = "sleep" /\ t.owner # f /\ t.owner \in Fibers
        BY <1>0, <3>1, <3>2 DEF SleepOK, TimerRecords
      <4>2. ASSUME NEW e \in Fds \X Events, reg[e].who = t.owner PROVE FALSE
        BY <1>0, <4>1, <4>2 DEF RegOK, Io
      <4> QED
        BY <1>24, <1>0, <4>1, <4>2
    <3> QED
      BY <3>1, <3>2 DEF SleepOK
  <2>4. FileOK' /\ TableOK'
    BY <1>24, <1>0 DEF CallOK, FileOK, TableOK, CloseOK
  <2>5. CloseOK'
    BY <1>24, <1>0 DEF CallOK, CloseOK, RegOK, SleepOK, Known, Closing, Lowest
  <2> QED
    BY <2>1, <2>2, <2>3, <2>4, <2>5 DEF ControlInv
<1>25. ASSUME NEW f \in Fibers, Del(f) PROVE ControlInv'
  <2> USE DEF Del, Return, Goto, Keep, Begin, AtOnce, InCall, NoReg, NoCtx, ClosePc, Io,
              TypeInv,
              TypesOK, FiberTypeOK, KernelTypeOK, CtxTypeOK, RegTypeOK, TimerTypeOK,
              ThreadsTypeOK, CallRecords, TimerRecords
  <2>1. \A g \in Fibers : CallOK(g)'
    BY <1>25, <1>0 DEF CallOK, CloseOK, RegOK, SleepOK, Known, Lowest
  <2>2. RegOK'
    BY <1>25, <1>0 DEF CallOK, RegOK, SleepOK, Lowest
  <2>3. SleepOK'
    BY <1>25, <1>0 DEF CallOK, RegOK, SleepOK, Armed, Timer
  <2>4. FileOK' /\ TableOK'
    BY <1>25, <1>0 DEF CallOK, FileOK, TableOK, CloseOK
  <2>5. CloseOK'
    BY <1>25, <1>0 DEF CallOK, CloseOK, RegOK, SleepOK, Known, Closing, Lowest
  <2> QED
    BY <2>1, <2>2, <2>3, <2>4, <2>5 DEF ControlInv
<1>26. ASSUME NEW f \in Fibers, CloseF(f) PROVE ControlInv'
  <2> USE DEF CloseF, Return, Goto, Keep, Begin, AtOnce, InCall, NoReg, NoCtx, ClosePc, Io,
              TypeInv,
              TypesOK, FiberTypeOK, KernelTypeOK, CtxTypeOK, RegTypeOK, TimerTypeOK,
              ThreadsTypeOK, CallRecords, TimerRecords
  <2>1. \A g \in Fibers : CallOK(g)'
    BY <1>26, <1>0 DEF CallOK, CloseOK, RegOK, SleepOK, Known, Lowest
  <2>2. RegOK'
    BY <1>26, <1>0 DEF CallOK, RegOK, SleepOK, Lowest
  <2>3. SleepOK'
    BY <1>26, <1>0 DEF CallOK, RegOK, SleepOK, Armed, Timer
  <2>4. FileOK' /\ TableOK'
    BY <1>26, <1>0 DEF CallOK, FileOK, TableOK, CloseOK
  <2>5. CloseOK'
    BY <1>26, <1>0 DEF CallOK, CloseOK, RegOK, SleepOK, Known, Closing, Lowest
  <2> QED
    BY <2>1, <2>2, <2>3, <2>4, <2>5 DEF ControlInv
<1>27. ASSUME NEW t \in timers, Collect(t) PROVE ControlInv'
  <2> USE DEF Collect, Return, Goto, Keep, Begin, AtOnce, InCall, NoReg, NoCtx, ClosePc, Io,
              TypeInv,
              TypesOK, FiberTypeOK, KernelTypeOK, CtxTypeOK, RegTypeOK, TimerTypeOK,
              ThreadsTypeOK, CallRecords, TimerRecords
  <2>1. \A g \in Fibers : CallOK(g)'
    BY <1>27, <1>0 DEF CallOK, CloseOK, RegOK, SleepOK, Known, Lowest
  <2>2. RegOK'
    BY <1>27, <1>0 DEF CallOK, RegOK, SleepOK, Lowest
  <2>3. SleepOK'
    <3>1. \A u \in timers' : \E v \in timers :
             /\ u.owner = v.owner /\ u.kind = v.kind
             /\ v # t => u = v
             /\ v = t => u = [t EXCEPT !.stage = "collected"]
      BY <1>27, <1>0
    <3>2. SleepOK /\ UNCHANGED <<pc, call>> /\ t \in timers
      BY <1>27
    <3>3. \A u \in timers' : u.kind = "sleep" => pc'[u.owner] = "hold" /\ call'[u.owner].kind = "sleep"
      BY <3>1, <3>2, SMTT(20) DEF SleepOK
    <3>4. ASSUME NEW u \in timers', NEW w \in timers', u.kind = "sleep", w.kind = "sleep", u.owner = w.owner
          PROVE  u = w
      <4>1. PICK v \in timers : u.owner = v.owner /\ u.kind = v.kind /\ (v # t => u = v)
                                /\ (v = t => u = [t EXCEPT !.stage = "collected"])
        BY <3>1
      <4>2. PICK x \in timers : w.owner = x.owner /\ w.kind = x.kind /\ (x # t => w = x)
                                /\ (x = t => w = [t EXCEPT !.stage = "collected"])
        BY <3>1
      <4>3. v.kind = "sleep" /\ x.kind = "sleep" /\ v.owner = x.owner
        BY <3>4, <4>1, <4>2
      <4>4. v = x
        BY <3>2, <4>3 DEF SleepOK
      <4> QED
        BY <4>1, <4>2, <4>4
    <3> QED
      BY <3>3, <3>4, Zenon DEF SleepOK
  <2>4. FileOK' /\ TableOK'
    BY <1>27, <1>0 DEF CallOK, FileOK, TableOK, CloseOK
  <2>5. CloseOK'
    BY <1>27, <1>0 DEF CallOK, CloseOK, RegOK, SleepOK, Known, Closing, Lowest
  <2> QED
    BY <2>1, <2>2, <2>3, <2>4, <2>5 DEF ControlInv
<1>28. ASSUME NEW t \in timers, Fire(t) PROVE ControlInv'
  <2> USE DEF Fire, Return, Goto, Keep, Begin, AtOnce, InCall, NoReg, NoCtx, ClosePc, Io,
              TypeInv,
              TypesOK, FiberTypeOK, KernelTypeOK, CtxTypeOK, RegTypeOK, TimerTypeOK,
              ThreadsTypeOK, CallRecords, TimerRecords
  <2>1. \A g \in Fibers : CallOK(g)'
    BY <1>28, <1>0 DEF CallOK, CloseOK, RegOK, SleepOK, Known, Lowest
  <2>2. RegOK'
    BY <1>28, <1>0 DEF CallOK, RegOK, SleepOK, Lowest
  <2>3. SleepOK'
    BY <1>28, <1>0 DEF CallOK, RegOK, SleepOK, Armed, Timer
  <2>4. FileOK' /\ TableOK'
    BY <1>28, <1>0 DEF CallOK, FileOK, TableOK, CloseOK
  <2>5. CloseOK'
    BY <1>28, <1>0 DEF CallOK, CloseOK, RegOK, SleepOK, Known, Closing, Lowest
  <2> QED
    BY <2>1, <2>2, <2>3, <2>4, <2>5 DEF ControlInv
<1>29. ASSUME NEW t \in timers, CancelEvent(t) PROVE ControlInv'
  <2> DEFINE e == <<t.fd, EventOf(t.kind)>>
  <2>1. t.fd \in Fds /\ EventOf(t.kind) \in Events
    BY <1>0 DEF TypesOK, TimerTypeOK, TimerRecords, EventOf, Events
  <2>2. (IF Live(e) THEN {e} ELSE {}) \in SUBSET (Fds \X Events)
    BY <2>1
  <2>3. Trigger(IF Live(e) THEN {e} ELSE {})
    BY <1>29 DEF CancelEvent
  <2> QED
    BY <1>29, <2>2, <2>3, TriggerControl DEF CancelEvent
<1>30. ASSUME NEW e \in Fds \X Events, Ready(e) PROVE ControlInv'
  BY <1>30, TriggerControl DEF Ready
<1>31. ASSUME NEW fd \in Fds, Arrive(fd) \/ Establish(fd) PROVE ControlInv'
  BY <1>31 DEF Arrive, Establish, TypeInv, ControlInv, CallOK, InCall, RegOK, SleepOK, FileOK,
     TableOK, CloseOK
<1>32. ASSUME UNCHANGED restVars PROVE ControlInv'
  BY <1>32 DEF restVars, TypeInv, ControlInv, CallOK, InCall, RegOK, SleepOK, FileOK, TableOK,
     CloseOK
<1> QED
  BY <1>1, <1>2, <1>3, <1>4, <1>5, <1>6, <1>7, <1>8, <1>9, <1>10, <1>11, <1>12, <1>13, <1>14,
     <1>15, <1>16, <1>17, <1>18, <1>19, <1>20, <1>21, <1>22, <1>23, <1>24, <1>25, <1>26,
     <1>27, <1>28, <1>29, <1>30, <1>31, <1>32, Endings
  DEF Next, UserStep, CallStep, TimerStep, Halted

LEMMA TypeInvStep ==
    ASSUME TypeInv, [Next]_vars
    PROVE  TypeInv'
<1>1. TypesOK'
  BY TypeParts, TypesStep DEF TypeInv
<1>2. ControlInv'
  BY <1>1, ControlStep
<1>3. HookTypeOK'
  BY <1>1 DEF HookTypeOK, TypesOK, FiberTypeOK, KernelTypeOK, CtxTypeOK, RegTypeOK,
     TimerTypeOK, ThreadsTypeOK,
              Pcs, Results, CallRecords, TimerRecords
<1> QED
  BY <1>2, <1>3 DEF TypeInv, ControlInv

\* The types of the hook's state, of FdManager's table and of timer_info (hook.cpp:64,
\* fd_manager.h:22), whatever the fibers call and however many threads there are.
THEOREM HookTypeCorrect == Spec => []HookTypeOK
<1>1. TypeInv => HookTypeOK
  BY DEF TypeInv
<1> QED
  BY <1>1, TypeInit, TypeInvStep, PTL DEF Spec

-----------------------------------------------------------------------------
(* Calls the hook has taken                                                *)

Taken(f) == pc[f] \in IoPc /\ call[f].kind \in Io
Closer(g, fd) == pc[g] \in ClosePc /\ call[g].fd = fd

\* A file keeps its flag and its entry while it is open; a number that is opened
\* again is another file.
LEMMA TakenKept ==
    ASSUME TypeInv, TypesOK', TakenOK, UNCHANGED hook,
           \A f \in Fibers : Taken(f)' => Taken(f) /\ call'[f] = call[f],
           \A fd \in Fds :
              \/ /\ opened'[fd] = opened[fd] /\ file'[fd] = file[fd]
                 /\ nonblock[fd] => nonblock'[fd]
                 /\ (\E f \in Fibers : Taken(f) /\ call[f].fd = fd) /\ ctx[fd].here
                        => ctx'[fd].here \/ \E g \in Fibers : Closer(g, fd)'
                 /\ \A g \in Fibers : Closer(g, fd) => Closer(g, fd)'
              \/ opened'[fd] = opened[fd] /\ file'[fd] = 0
              \/ opened'[fd] = opened[fd] + 1 /\ file'[fd] = opened'[fd]
    PROVE  TakenOK'
<1> SUFFICES ASSUME NEW f \in Fibers, Taken(f)'
             PROVE  /\ hook /\ call[f].file # 0 /\ call[f].file <= opened'[call[f].fd]
                    /\ file'[call[f].fd] = call[f].file =>
                        /\ nonblock'[call[f].fd]
                        /\ ctx'[call[f].fd].here \/ \E g \in Fibers : Closer(g, call[f].fd)'
  BY DEF TakenOK, Taken, Closer
<1> DEFINE fd == call[f].fd
<1>1. Taken(f) /\ TypesOK
  BY TypeParts DEF TypeInv
<1>2. fd \in Fds /\ call[f].file \in Nat /\ opened[fd] \in Nat
  <2>1. fd \in Fds /\ call[f].file \in 0 .. MaxOpen
    BY <1>1 DEF TypesOK, FiberTypeOK, CallRecords
  <2>2. opened[fd] \in 0 .. MaxOpen
    BY <1>1, <2>1 DEF TypesOK, KernelTypeOK
  <2> QED
    BY <2>1, <2>2, HookAssumption
<1>3. hook /\ call[f].file # 0 /\ call[f].file <= opened[fd]
  BY <1>1 DEF TakenOK, Taken
<1>4. /\ file[fd] = call[f].file => nonblock[fd]
      /\ file[fd] = call[f].file => ctx[fd].here \/ \E g \in Fibers : Closer(g, fd)
  BY <1>1 DEF TakenOK, Taken, Closer
<1> HIDE DEF Taken, Closer
<1> QED
  BY <1>1, <1>2, <1>3, <1>4

\* Steps that change no file, and no entry of FdManager's table.
LEMMA TakenMoves ==
    ASSUME TypeInv, TypesOK', TakenOK, UNCHANGED <<hook, opened, file, nonblock, ctx>>,
           \A f \in Fibers : Taken(f)' => Taken(f) /\ call'[f] = call[f],
           \A g \in Fibers : pc[g] \in ClosePc => pc'[g] \in ClosePc /\ call'[g] = call[g]
    PROVE  TakenOK'
<1>1. \A fd \in Fds : \A g \in Fibers : Closer(g, fd) => Closer(g, fd)'
  BY DEF Closer
<1> QED
  BY <1>1, TakenKept

\* Fibers that triggerEvent() wakes are on hold.
LEMMA TakenTrigger ==
    ASSUME TypeInv, TypesOK', TakenOK, NEW S \in SUBSET (Fds \X Events), Trigger(S),
           UNCHANGED <<hook, opened, file, nonblock, ctx, call>>
    PROVE  TakenOK'
<1>0. TypesOK
  BY TypeParts DEF TypeInv
<1>1. \A g \in Fibers : (pc'[g] = "woken" /\ pc[g] = "hold") \/ pc'[g] = pc[g]
  BY <1>0 DEF Trigger, RegOK, TypeInv, TypesOK, FiberTypeOK, RegTypeOK
<1> QED
  BY <1>1, TakenMoves DEF Taken, IoPc, ClosePc

\* A fiber at a step of close() is in close().
LEMMA NotClosing ==
    ASSUME TypeInv, NEW fd \in Fds, \A g \in Fibers : ~Closing(g, fd)
    PROVE  \A g \in Fibers : ~Closer(g, fd)
  BY DEF TypeInv, CallOK, Closing, Closer, InCall, ClosePc

\* Every step keeps what FdManager knows and what the hook has taken.
LEMMA TakenStep ==
    ASSUME Disciplined, TypeInv, TypesOK', NonblockOK, TakenOK, [Next]_vars
    PROVE  NonblockOK' /\ TakenOK'
<1> USE HookAssumption DEF poolVars, kernelVars, fiberVars, TypesOK, FiberTypeOK,
        KernelTypeOK, CtxTypeOK, CallRecords
<1>0. TypesOK
  BY TypeParts DEF TypeInv
<1>1. ASSUME NEW f \in Fibers, Start(f) PROVE NonblockOK' /\ TakenOK'
  BY <1>1, <1>0, TakenKept DEF Start, NonblockOK, Taken, Closer, IoPc, Io, ClosePc, Return,
     Goto, Keep, Begin, AtOnce, NoCall, NoCtx
<1>2. ASSUME NEW f \in Fibers, Finish(f) PROVE NonblockOK' /\ TakenOK'
  BY <1>2, <1>0, TakenKept DEF Finish, NonblockOK, Taken, Closer, IoPc, Io, ClosePc, Return,
     Goto, Keep, Begin, AtOnce, NoCall, NoCtx
<1>3. ASSUME NEW f \in Fibers, Obtain(f) PROVE NonblockOK' /\ TakenOK'
  <2>1. NonblockOK'
    BY <1>3, <1>0 DEF Obtain, Lowest, NonblockOK, TypeInv, TableOK
  <2>2. TakenOK'
    BY <1>3, <1>0, TakenKept DEF Obtain, Taken, Closer, IoPc, Io, ClosePc, Return, Goto, Keep,
       Begin, AtOnce, NoCall, NoCtx
  <2> QED
    BY <2>1, <2>2
<1>4. ASSUME NEW f \in Fibers, Adopt(f) PROVE NonblockOK' /\ TakenOK'
  <2>1. NonblockOK'
    <3>1. UNCHANGED hook
      BY <1>4 DEF Adopt, Return
    <3>2. CASE ctx[call[f].fd].here
      BY <1>4, <3>1, <3>2 DEF Adopt, NonblockOK
    <3>3. CASE ~ctx[call[f].fd].here
      <4>1. PICK v : v = [NoCtx EXCEPT !.here = TRUE]
        OBVIOUS
      <4>2. ctx' = [ctx EXCEPT ![call[f].fd] = v] /\ nonblock' = [nonblock EXCEPT ![call[f].fd] = TRUE]
        BY <1>4, <3>3, <4>1 DEF Adopt
      <4>3. nonblock'[call[f].fd] /\ \A d \in Fds \ {call[f].fd} : nonblock'[d] = nonblock[d] /\ ctx'[d] = ctx[d]
        BY <1>0, <4>2
      <4> QED
        BY <3>1, <4>3 DEF NonblockOK
    <3> QED
      BY <3>2, <3>3
  <2>2. TakenOK'
    <3>1. UNCHANGED <<hook, opened, file>> /\ \A fd \in Fds : (nonblock[fd] => nonblock'[fd]) /\ (ctx[fd].here => ctx'[fd].here)
      BY <1>4, <1>0 DEF Adopt, NoCtx
    <3>2. \A g \in Fibers : Taken(g)' => Taken(g) /\ call'[g] = call[g]
      BY <1>4, <1>0 DEF Adopt, Return, Goto, Taken, IoPc
    <3>3. \A fd \in Fds : \A g \in Fibers : Closer(g, fd) => Closer(g, fd)'
      BY <1>4, <1>0 DEF Adopt, Return, Goto, Closer, ClosePc
    <3> QED
      BY <3>1, <3>2, <3>3, TakenKept
  <2> QED
    BY <2>1, <2>2
<1>5. ASSUME NEW f \in Fibers, Again(f) PROVE NonblockOK' /\ TakenOK'
  <2>1. NonblockOK'
    BY <1>5, <1>0 DEF Again, NonblockOK, NoCtx
  <2>2. TakenOK'
    <3>1. /\ pc[f] \in {"try", "plain"} /\ \A g \in Fibers \ {f} : pc'[g] = pc[g] /\ call'[g] = call[g]
          /\ pc'[f] \in IoPc => call'[f] = call[f] /\ pc[f] \in IoPc
      BY <1>5, <1>0 DEF Again, Return, Goto, Keep, IoPc
    <3>2. UNCHANGED <<hook, opened, file, nonblock, ctx>>
      BY <1>5 DEF Again
    <3> QED
      BY <3>1, <3>2, TakenMoves DEF Taken, ClosePc
  <2> QED
    BY <2>1, <2>2
<1>6. ASSUME NEW f \in Fibers, Dial(f) PROVE NonblockOK' /\ TakenOK'
  <2>1. NonblockOK'
    BY <1>6, <1>0 DEF Dial, NonblockOK, NoCtx
  <2>2. TakenOK'
    <3>1. /\ pc[f] \in {"try", "plain"} /\ \A g \in Fibers \ {f} : pc'[g] = pc[g] /\ call'[g] = call[g]
          /\ pc'[f] \in IoPc => call'[f] = call[f] /\ pc[f] \in IoPc
      BY <1>6, <1>0 DEF Dial, Return, Goto, Keep, IoPc
    <3>2. UNCHANGED <<hook, opened, file, nonblock, ctx>>
      BY <1>6 DEF Dial
    <3> QED
      BY <3>1, <3>2, TakenMoves DEF Taken, ClosePc
  <2> QED
    BY <2>1, <2>2
<1>7. ASSUME NEW f \in Fibers, Dialled(f) PROVE NonblockOK' /\ TakenOK'
  BY <1>7, <1>0, TakenKept DEF Dialled, NonblockOK, Taken, Closer, IoPc, Io, ClosePc, Return,
     Goto, Keep, Begin, AtOnce, NoCall, NoCtx
<1>8. ASSUME NEW f \in Fibers, Refuse(f) PROVE NonblockOK' /\ TakenOK'
  BY <1>8, <1>0, TakenKept DEF Refuse, NonblockOK, Taken, Closer, IoPc, Io, ClosePc, Return,
     Goto, Keep, Begin, AtOnce, NoCall, NoCtx
<1>9. ASSUME NEW f \in Fibers, AddTimer(f) PROVE NonblockOK' /\ TakenOK'
  BY <1>9, <1>0, TakenKept DEF AddTimer, NonblockOK, Taken, Closer, IoPc, Io, ClosePc, Return,
     Goto, Keep, Begin, AtOnce, NoCall, NoCtx
<1>10. ASSUME NEW f \in Fibers, AddEvent(f) PROVE NonblockOK' /\ TakenOK'
  BY <1>10, <1>0, TakenKept DEF AddEvent, NonblockOK, Taken, Closer, IoPc, Io, ClosePc,
     Return, Goto, Keep, Begin, AtOnce, NoCall, NoCtx
<1>11. ASSUME NEW f \in Fibers, AddEventFails(f) PROVE NonblockOK' /\ TakenOK'
  BY <1>11, <1>0, TakenKept DEF AddEventFails, NonblockOK, Taken, Closer, IoPc, Io, ClosePc,
     Return, Goto, Keep, Begin, AtOnce, NoCall, NoCtx
<1>12. ASSUME NEW f \in Fibers, Resume(f) PROVE NonblockOK' /\ TakenOK'
  BY <1>12, <1>0, TakenKept DEF Resume, NonblockOK, Taken, Closer, IoPc, Io, ClosePc, Return,
     Goto, Keep, Begin, AtOnce, NoCall, NoCtx
<1>13. ASSUME NEW f \in Fibers, Check(f) PROVE NonblockOK' /\ TakenOK'
  BY <1>13, <1>0, TakenKept DEF Check, NonblockOK, Taken, Closer, IoPc, Io, ClosePc, Return,
     Goto, Keep, Begin, AtOnce, NoCall, NoCtx
<1>14. ASSUME NEW f \in Fibers, CancelAll(f) PROVE NonblockOK' /\ TakenOK'
  <2>1. NonblockOK'
    BY <1>14, <1>0 DEF CancelAll, NonblockOK, NoCtx
  <2>2. TakenOK'
    <3>0. \A g \in Fibers, e \in Fds \X Events : reg[e].who = g => pc[g] = "hold"
      BY DEF TypeInv, RegOK
    <3>1. \A g \in Fibers : \/ pc'[g] = "woken" /\ pc[g] = "hold"
                            \/ pc'[g] = pc[g]
                            \/ pc'[g] = "del" /\ pc[g] = "cancelAll"
      <4>1. pc[f] = "cancelAll" /\ pc'[f] = "del"
        BY <1>14 DEF CancelAll
      <4>2. ASSUME NEW g \in Fibers \ {f}, pc'[g] # pc[g]
            PROVE  pc'[g] = "woken" /\ pc[g] = "hold"
        <5>1. pc'[g] = "woken" /\ \E e \in Fds \X Events : reg[e].who = g
          BY <1>14, <4>2 DEF CancelAll
        <5> QED
          BY <3>0, <5>1
      <4> QED
        BY <4>1, <4>2
    <3>2. UNCHANGED <<hook, opened, file, nonblock, ctx, call>>
      BY <1>14 DEF CancelAll
    <3> QED
      BY <3>1, <3>2, TakenMoves DEF Taken, IoPc, ClosePc
  <2> QED
    BY <2>1, <2>2
<1>15. ASSUME NEW f \in Fibers, Del(f) PROVE NonblockOK' /\ TakenOK'
  BY <1>15, <1>0, TakenKept DEF Del, NonblockOK, Taken, Closer, IoPc, Io, ClosePc, Return,
     Goto, Keep, Begin, AtOnce, NoCall, NoCtx
<1>16. ASSUME NEW f \in Fibers, CloseF(f) PROVE NonblockOK' /\ TakenOK'
  <2>1. NonblockOK'
    BY <1>16, <1>0 DEF CloseF, NonblockOK, TypeInv, CloseOK, ClosePc
  <2>2. TakenOK'
    BY <1>16, <1>0, TakenKept DEF CloseF, Taken, Closer, IoPc, Io, ClosePc, Return, Goto,
       Keep, Begin, AtOnce, NoCall, NoCtx
  <2> QED
    BY <2>1, <2>2
<1>17. ASSUME NEW f \in Fibers, NEW k \in {"read", "accept"}, NEW fd \in Fds, CallIo(f, k, fd)
       PROVE  NonblockOK' /\ TakenOK'
  <2>1. NonblockOK'
    BY <1>17, <1>0 DEF CallIo, NonblockOK, NoCtx
  <2>2. TakenOK'
    <3>1. \A g \in Fibers \ {f} : pc'[g] = pc[g] /\ call'[g] = call[g]
      BY <1>17, <1>0 DEF CallIo, Begin, AtOnce, Goto
    <3>2. UNCHANGED <<hook, opened, file, nonblock, ctx>> /\ pc[f] = "user"
      BY <1>17 DEF CallIo, Begin, AtOnce
    <3>3. ASSUME pc'[f] \in IoPc
          PROVE  hook /\ ctx[fd].here /\ file[fd] # 0 /\ call'[f].fd = fd /\ call'[f].file = file[fd]
      BY <1>17, <1>0, <3>3 DEF CallIo, Begin, AtOnce, Goto, IoPc, Known
    <3>4. file[fd] <= opened[fd] /\ (hook /\ ctx[fd].here => nonblock[fd])
      <4>1. file[fd] \in Nat /\ opened[fd] \in Nat /\ file[fd] \in {0, opened[fd]}
        BY <1>0 DEF TypeInv, FileOK
      <4>2. hook /\ ctx[fd].here => nonblock[fd]
        BY DEF NonblockOK
      <4> QED
        BY <4>1, <4>2
    <3>5. \A h \in Fibers : pc[h] \in ClosePc => pc'[h] \in ClosePc /\ call'[h] = call[h]
      BY <3>1, <3>2 DEF ClosePc
    <3>6. ASSUME NEW g \in Fibers, Taken(g)'
          PROVE  /\ hook' /\ call'[g].file # 0 /\ call'[g].file <= opened'[call'[g].fd]
                 /\ file'[call'[g].fd] = call'[g].file =>
                     /\ nonblock'[call'[g].fd]
                     /\ \/ ctx'[call'[g].fd].here
                        \/ \E h \in Fibers : pc'[h] \in ClosePc /\ call'[h].fd = call'[g].fd
      <4>1. CASE g = f
        BY <3>2, <3>3, <3>4, <3>6, <4>1 DEF Taken
      <4>2. CASE g # f
        BY <3>1, <3>2, <3>5, <3>6, <4>2, SMTT(30) DEF Taken, TakenOK
      <4> QED
        BY <4>1, <4>2
    <3> QED
      BY <3>6 DEF TakenOK, Taken
  <2> QED
    BY <2>1, <2>2
<1>18. ASSUME NEW f \in Fibers, NEW fd \in Fds, CallConnect(f, fd) PROVE NonblockOK' /\ TakenOK'
  <2>1. NonblockOK'
    BY <1>18, <1>0 DEF CallConnect, NonblockOK, NoCtx
  <2>2. TakenOK'
    <3>1. \A g \in Fibers \ {f} : pc'[g] = pc[g] /\ call'[g] = call[g]
      BY <1>18, <1>0 DEF CallConnect, Begin, AtOnce, Goto
    <3>2. UNCHANGED <<hook, opened, file, nonblock, ctx>> /\ pc[f] = "user"
      BY <1>18 DEF CallConnect, Begin, AtOnce
    <3>3. ASSUME pc'[f] \in IoPc
          PROVE  hook /\ ctx[fd].here /\ file[fd] # 0 /\ call'[f].fd = fd /\ call'[f].file = file[fd]
      BY <1>18, <1>0, <3>3 DEF CallConnect, Begin, AtOnce, Goto, IoPc, Known
    <3>4. file[fd] <= opened[fd] /\ (hook /\ ctx[fd].here => nonblock[fd])
      <4>1. file[fd] \in Nat /\ opened[fd] \in Nat /\ file[fd] \in {0, opened[fd]}
        BY <1>0 DEF TypeInv, FileOK
      <4>2. hook /\ ctx[fd].here => nonblock[fd]
        BY DEF NonblockOK
      <4> QED
        BY <4>1, <4>2
    <3>5. \A h \in Fibers : pc[h] \in ClosePc => pc'[h] \in ClosePc /\ call'[h] = call[h]
      BY <3>1, <3>2 DEF ClosePc
    <3>6. ASSUME NEW g \in Fibers, Taken(g)'
          PROVE  /\ hook' /\ call'[g].file # 0 /\ call'[g].file <= opened'[call'[g].fd]
                 /\ file'[call'[g].fd] = call'[g].file =>
                     /\ nonblock'[call'[g].fd]
                     /\ \/ ctx'[call'[g].fd].here
                        \/ \E h \in Fibers : pc'[h] \in ClosePc /\ call'[h].fd = call'[g].fd
      <4>1. CASE g = f
        BY <3>2, <3>3, <3>4, <3>6, <4>1 DEF Taken
      <4>2. CASE g # f
        BY <3>1, <3>2, <3>5, <3>6, <4>2, SMTT(30) DEF Taken, TakenOK
      <4> QED
        BY <4>1, <4>2
    <3> QED
      BY <3>6 DEF TakenOK, Taken
  <2> QED
    BY <2>1, <2>2
<1>19. ASSUME NEW f \in Fibers, NEW fd \in Fds, CallSleep(f, fd) PROVE NonblockOK' /\ TakenOK'
  BY <1>19, <1>0, TakenKept DEF CallSleep, NonblockOK, Taken, Closer, IoPc, Io, ClosePc,
     Return, Goto, Keep, Begin, AtOnce, NoCall, NoCtx
<1>20. ASSUME NEW f \in Fibers, NEW fd \in Fds, CallSocket(f, fd) PROVE NonblockOK' /\ TakenOK'
  <2>1. NonblockOK'
    BY <1>20, <1>0 DEF CallSocket, Lowest, NonblockOK, TypeInv, TableOK
  <2>2. TakenOK'
    BY <1>20, <1>0, TakenKept DEF CallSocket, Taken, Closer, IoPc, Io, ClosePc, Return, Goto,
       Keep, Begin, AtOnce, NoCall, NoCtx
  <2> QED
    BY <2>1, <2>2
<1>21. ASSUME NEW f \in Fibers, NEW fd \in Fds, CallClose(f, fd) PROVE NonblockOK' /\ TakenOK'
  <2>1. NonblockOK'
    BY <1>21, <1>0 DEF CallClose, NonblockOK
  <2>2. TakenOK'
    <3>1. UNCHANGED <<hook, opened, file, nonblock, ctx>> /\ pc[f] = "user" /\ pc'[f] \in ClosePc
      BY <1>21, <1>0 DEF CallClose, Begin, Goto, ClosePc
    <3>2. \A g \in Fibers \ {f} : pc'[g] = pc[g] /\ call'[g] = call[g]
      BY <1>21, <1>0 DEF CallClose, Begin, Goto
    <3> QED
      BY <3>1, <3>2, TakenMoves DEF Taken, IoPc, ClosePc
  <2> QED
    BY <2>1, <2>2
<1>22. ASSUME NEW f \in Fibers, NEW fd \in Fds, NEW b \in BOOLEAN, SetTimeout(f, fd, b)
       PROVE  NonblockOK' /\ TakenOK'
  BY <1>22, <1>0, TakenKept DEF SetTimeout, NonblockOK, Taken, Closer, IoPc, Io, ClosePc,
     Return, Goto, Keep, Begin, AtOnce, NoCall, NoCtx
<1>23. ASSUME NEW f \in Fibers, NEW fd \in Fds, NEW b \in BOOLEAN, SetFlags(f, fd, b)
       PROVE  NonblockOK' /\ TakenOK'
  <2>1. NonblockOK'
    BY <1>23, <1>0 DEF SetFlags, NonblockOK, NoCtx
  <2>2. TakenOK'
    <3>1. UNCHANGED <<hook, opened, file, pc, call>> /\ \A d \in Fds : ctx[d].here => ctx'[d].here
      BY <1>23, <1>0 DEF SetFlags, AtOnce
    <3>2. b = FALSE => \A g \in Fibers : ~Closer(g, fd)
      BY <1>23, NotClosing DEF Disciplined
    <3>3. /\ \A d \in Fds : nonblock[d] /\ ctx[d].here => nonblock'[d]
          /\ \A d \in Fds \ {fd} : nonblock'[d] = nonblock[d]
          /\ b => nonblock'[fd]
      BY <1>23, <1>0 DEF SetFlags
    <3>4. ASSUME NEW g \in Fibers, Taken(g), file[call[g].fd] = call[g].file
          PROVE  nonblock'[call[g].fd]
      <4>1. /\ call[g].fd \in Fds /\ nonblock[call[g].fd]
            /\ ctx[call[g].fd].here \/ \E h \in Fibers : Closer(h, call[g].fd)
        BY <1>0, <3>4 DEF TakenOK, Taken, Closer
      <4>2. CASE call[g].fd = fd
        <5>1. b = FALSE => ctx[fd].here
          BY <3>2, <4>1, <4>2, Zenon
        <5> QED
          BY <3>2, <3>3, <4>1, <4>2, <5>1
      <4> QED
        BY <3>3, <4>1, <4>2
    <3> QED
      BY <1>0, <3>1, <3>4 DEF TakenOK, Taken
  <2> QED
    BY <2>1, <2>2
<1>24. ASSUME NEW f \in Fibers, NEW fd \in Fds, NEW b \in Fionbio, SetFionbio(f, fd, b)
       PROVE  NonblockOK' /\ TakenOK'
  <2>1. NonblockOK'
    <3>1. b \in BOOLEAN /\ (b = FALSE => ~ctx[fd].here)
      BY <1>24 DEF Disciplined
    <3> QED
      BY <1>24, <1>0, <3>1 DEF SetFionbio, NonblockOK
  <2>2. TakenOK'
    <3>1. UNCHANGED <<hook, opened, file, pc, call>> /\ \A d \in Fds : ctx'[d].here = ctx[d].here
      BY <1>24, <1>0 DEF SetFionbio, AtOnce
    <3>2. b \in BOOLEAN /\ (b = FALSE => ~ctx[fd].here /\ \A g \in Fibers : ~Closer(g, fd))
      BY <1>24, NotClosing DEF Disciplined
    <3>3. (\A d \in Fds \ {fd} : nonblock'[d] = nonblock[d]) /\ (b => nonblock'[fd])
      BY <1>24, <1>0 DEF SetFionbio
    <3>4. ASSUME NEW g \in Fibers, Taken(g), file[call[g].fd] = call[g].file
          PROVE  nonblock'[call[g].fd]
      <4>1. /\ call[g].fd \in Fds /\ nonblock[call[g].fd]
            /\ ctx[call[g].fd].here \/ \E h \in Fibers : Closer(h, call[g].fd)
        BY <1>0, <3>4 DEF TakenOK, Taken, Closer
      <4>2. CASE call[g].fd = fd
        <5>1. b = FALSE => ctx[fd].here
          BY <3>2, <4>1, <4>2, Zenon
        <5> QED
          BY <3>2, <3>3, <4>1, <4>2, <5>1
      <4> QED
        BY <3>3, <4>1, <4>2
    <3> QED
      BY <1>0, <3>1, <3>4 DEF TakenOK, Taken
  <2> QED
    BY <2>1, <2>2
<1>25. ASSUME NEW t \in timers, Collect(t) PROVE NonblockOK' /\ TakenOK'
  BY <1>25, <1>0, TakenKept DEF Collect, NonblockOK, Taken, Closer, IoPc, Io, ClosePc, Return,
     Goto, Keep, Begin, AtOnce, NoCall, NoCtx
<1>26. ASSUME NEW t \in timers, Fire(t) PROVE NonblockOK' /\ TakenOK'
  <2>1. NonblockOK'
    BY <1>26, <1>0 DEF Fire, NonblockOK, NoCtx
  <2>2. TakenOK'
    <3>1. \A g \in Fibers : (pc'[g] = "woken" /\ pc[g] = "hold") \/ pc'[g] = pc[g]
      BY <1>26, <1>0 DEF Fire, Goto, TypeInv, SleepOK
    <3> QED
      BY <1>26, <3>1, TakenMoves DEF Fire, Taken, IoPc, ClosePc
  <2> QED
    BY <2>1, <2>2
<1>27. ASSUME NEW t \in timers, CancelEvent(t) PROVE NonblockOK' /\ TakenOK'
  <2>1. NonblockOK'
    BY <1>27, <1>0 DEF CancelEvent, NonblockOK, NoCtx
  <2>2. TakenOK'
    <3> DEFINE e == <<t.fd, EventOf(t.kind)>>
    <3>1. e \in Fds \X Events
      BY <1>0 DEF TimerTypeOK, TimerRecords, EventOf, Events
    <3>2. PICK S \in SUBSET (Fds \X Events) : Trigger(S)
      BY <1>27, <3>1 DEF CancelEvent
    <3> QED
      BY <1>27, <3>2, TakenTrigger DEF CancelEvent
  <2> QED
    BY <2>1, <2>2
<1>28. ASSUME NEW e \in Fds \X Events, Ready(e) PROVE NonblockOK' /\ TakenOK'
  <2>1. NonblockOK'
    BY <1>28, <1>0 DEF Ready, NonblockOK, NoCtx
  <2>2. TakenOK'
    BY <1>28, TakenTrigger DEF Ready
  <2> QED
    BY <2>1, <2>2
<1>29. ASSUME NEW fd \in Fds, Arrive(fd) \/ Establish(fd) PROVE NonblockOK' /\ TakenOK'
  BY <1>29 DEF Arrive, Establish, NonblockOK, TakenOK
<1>30. ASSUME UNCHANGED restVars PROVE NonblockOK' /\ TakenOK'
  BY <1>30 DEF restVars, NonblockOK, TakenOK
<1> QED
  BY <1>1, <1>2, <1>3, <1>4, <1>5, <1>6, <1>7, <1>8, <1>9, <1>10, <1>11, <1>12, <1>13, <1>14,
     <1>15, <1>16, <1>17, <1>18, <1>19, <1>20, <1>21, <1>22, <1>23, <1>24, <1>25, <1>26,
     <1>27, <1>28, <1>29, <1>30, Endings
  DEF Next, UserStep, CallStep, TimerStep, Halted

\* What FdManager knows and what the hook has taken, at the start.
LEMMA TakenInit == Init => NonblockOK /\ TakenOK
<1> SUFFICES ASSUME Init PROVE NonblockOK /\ TakenOK
  OBVIOUS
<1>1. NonblockOK
  BY DEF Init, NonblockOK, NoCtx
<1>2. TakenOK
  BY DEF Init, TakenOK, IoPc
<1> QED
  BY <1>1, <1>2

\* A call that do_io() or connect_with_timeout() has taken never stops its thread
\* (hook.cpp:93, 274, fd_manager.cpp:54): whatever is opened, closed and opened
\* again under its number, the flag of its file and the entry of FdManager agree.
\* It needs what Disciplined says of each step: ioctl(FIONBIO, 0) makes a known
\* descriptor blocking, and fcntl(F_SETFL) between del() and close_f() does as well.
THEOREM TakenNeverBlocks == Spec /\ [][Disciplined]_vars => []HookedNeverBlocks
<1> DEFINE Inv == TypeInv /\ NonblockOK /\ TakenOK
<1>1. Init => Inv
  BY TypeInit, TakenInit
<1>2. Inv /\ [Next]_vars /\ [Disciplined]_vars => Inv'
  <2> SUFFICES ASSUME Inv, [Next]_vars, [Disciplined]_vars PROVE Inv'
    OBVIOUS
  <2>1. TypesOK' /\ TypeInv'
    BY TypeParts, TypesStep, TypeInvStep DEF TypeInv
  <2>2. CASE UNCHANGED vars
    BY <2>1, <2>2 DEF vars, poolVars, kernelVars, fiberVars, NonblockOK, TakenOK
  <2>3. CASE Disciplined
    BY <2>1, <2>3, TakenStep
  <2> QED
    BY <2>2, <2>3
<1>3. Inv => HookedNeverBlocks
  BY DEF TypeInv, CallOK, TakenOK, HookedNeverBlocks, IoPc
<1> QED
  BY <1>1, <1>2, <1>3, PTL DEF Spec

-----------------------------------------------------------------------------
(* What the fibers leave behind, for any number of threads                 *)

\* An armed timer is that of a call which has still to wait or to look at why
\* it was woken: the library cancels it before it goes on.
ArmedOK ==
    \A t \in timers : t.stage = "armed" =>
        t = Armed(t.owner) /\ pc[t.owner] \in {"add", "hold", "woken"}

\* A timer belongs to the call its owner is in, or to one that is over.
OwnerOK ==
    \A t \in timers :
        /\ t.call <= calls[t.owner]
        /\ Alive(t) /\ pc[t.owner] # "adopt" =>
              t.kind = call[t.owner].kind /\ t.fd = call[t.owner].fd

\* timer_info says ETIMEDOUT, and a callback that could say so exists, only
\* when the timeout of this very call has passed.
LateOK ==
    /\ \A f \in Fibers : (late[f] => InCall(f)) /\ (cancelled[f] => late[f])
    /\ \A t \in timers : t.stage # "armed" /\ Alive(t) => late[t.owner]

\* A call for which the descriptor is not used was not promised anything; one that
\* waits began on a file, and a number that is opened again is another file.
BeginOK ==
    \A f \in Fibers :
        /\ pc[f] \in {"plain", "cancelAll", "del", "closef"} => ~call[f].ours
        /\ pc[f] \in IoPc \cup {"plain", "check", "kernel"} /\ call[f].kind \in Io =>
              call[f].file # 0 /\ call[f].file <= opened[call[f].fd]
        /\ pc[f] \in {"check", "kernel"} => call[f].kind = "connect"
        /\ pc[f] = "adopt" => call[f].kind \in {"accept", "socket"}

\* Without the hook nothing waits and nobody is registered; with it FdManager
\* knows every descriptor, up to what socket() and close() are about to do.
HookOK ==
    /\ ~hook => \A f \in Fibers : pc[f] \notin {"try", "timer", "add", "hold", "woken", "check", "cancelAll", "del"}
    /\ hook => \A fd \in Fds : file[fd] # 0 =>
          ctx[fd].here \/ \E g \in Fibers : pc[g] \in {"adopt", "closef"} /\ call[g].fd = fd

\* Two fibers wait for one event of one number only on two files of it, and the
\* one that began with the later file began while the other was in its call.
OnlyOK ==
    \A f, g \in Fibers :
        f # g /\ InCall(f) /\ InCall(g) /\ call[f].kind \in Io /\ call[g].kind \in Io
        /\ pc[f] # "adopt" /\ pc[g] # "adopt" /\ call[f].fd = call[g].fd
        /\ EventOf(call[f].kind) = EventOf(call[g].kind)
        => call[f].file # call[g].file /\ (call[f].file < call[g].file => call[g].shared)

CallInv == ArmedOK /\ OwnerOK /\ LateOK /\ BeginOK /\ HookOK /\ OnlyOK

-----------------------------------------------------------------------------
(* One thread                                                              *)

\* The thread is in one fiber or in one callback; an ETIMEDOUT is followed by
\* its cancelEvent() before anything else happens.
OneBusy ==
    /\ \A f, g \in Fibers : pc[f] \in OnThread /\ pc[g] \in OnThread => f = g
    /\ \A t \in timers : t.stage = "cancel" =>
          /\ \A f \in Fibers : pc[f] \notin OnThread
          /\ \A u \in timers : u.stage = "cancel" => t = u
          /\ Alive(t) /\ cancelled[t.owner] /\ t.kind # "sleep"

\* What is registered is registered for the file that is open now, and not at
\* all once close() has called cancelAll().
FreshRegs ==
    \A e \in Fds \X Events : reg[e] # NoReg =>
        /\ reg[e].who \in Fibers /\ reg[e].file = file[e[1]] /\ file[e[1]] # 0
        /\ \A g \in Fibers : pc[g] \in {"del", "closef"} => call[g].fd # e[1]

\* A fiber on hold sleeps or is registered.
HeldRegs ==
    \A f \in Fibers : pc[f] = "hold" =>
        \/ /\ call[f].kind = "sleep"
           /\ \E t \in timers : t.owner = f /\ t.kind = "sleep" /\ t.call = calls[f]
        \/ call[f].kind \in Io /\ reg[<<call[f].fd, EventOf(call[f].kind)>>].who = f

\* A call with a timeout has its timer from addTimer() on, until it is woken.
Timed ==
    /\ \A f \in Fibers : pc[f] \in {"try", "timer", "add", "check"} => ~cancelled[f]
    /\ \A f \in Fibers : pc[f] \in {"add", "hold"} /\ call[f].timed /\ ~cancelled[f] =>
          \E t \in timers : t.owner = f /\ t.call = calls[f] /\ t.stage # "cancel"
    /\ \A f \in Fibers : pc[f] = "hold" /\ cancelled[f] =>
          \E t \in timers : t.owner = f /\ t.stage = "cancel"

\* connect() is woken by its event, or by the close() of its descriptor; one that
\* shares its number may also be woken by the late timer of the other call.
Connected ==
    \A f \in Fibers :
        /\ pc[f] \in {"woken", "check"} /\ call[f].kind = "connect" /\ ~cancelled[f]
        /\ ~call[f].shared /\ file[call[f].fd] = call[f].file
        => \/ up[call[f].fd] \in {"up", "refused"}
           \/ \E g \in Fibers : pc[g] \in {"del", "closef"} /\ call[g].fd = call[f].fd

Alone == OneBusy /\ FreshRegs /\ HeldRegs /\ Timed /\ Connected

\* Everything about the other fibers stays as it is.
Moves(f) ==
    \A g \in Fibers \ {f} :
        /\ pc'[g] = pc[g] /\ call'[g] = call[g] /\ calls'[g] = calls[g]
        /\ cancelled'[g] = cancelled[g] /\ late'[g] = late[g]

\* Nobody enters a wait.
LEMMA OnlyKept ==
    ASSUME OnlyOK,
           \A g \in Fibers : InCall(g)' /\ pc'[g] # "adopt" /\ call'[g].kind \in Io =>
              InCall(g) /\ pc[g] # "adopt" /\ call'[g] = call[g]
    PROVE  OnlyOK'
  BY DEF OnlyOK, InCall

\* The world of the descriptors stays as it is, and nobody stops to be about to
\* adopt or to close one.
LEMMA HookKept ==
    ASSUME HookOK, UNCHANGED <<hook, file, ctx>>,
           ~hook => \A g \in Fibers : pc'[g] = pc[g] \/ pc'[g] \in {"user", "done", "plain", "kernel", "adopt", "closef"},
           \A g \in Fibers : pc[g] \in {"adopt", "closef"} => pc'[g] = pc[g] /\ call'[g] = call[g]
    PROVE  HookOK'
<1>1. ASSUME ~hook, NEW g \in Fibers
      PROVE  pc'[g] \notin {"try", "timer", "add", "hold", "woken", "check", "cancelAll", "del"}
  BY <1>1 DEF HookOK
<1>2. ASSUME hook, NEW fd \in Fds, file[fd] # 0
      PROVE  ctx[fd].here \/ \E g \in Fibers : pc'[g] \in {"adopt", "closef"} /\ call'[g].fd = fd
  BY <1>2 DEF HookOK
<1> QED
  BY <1>1, <1>2 DEF HookOK

\* A call that uses a number began with the file that is open now, if any, or
\* with an earlier one.
LEMMA Earlier ==
    ASSUME TypeInv, BeginOK, NEW g \in Fibers, InCall(g), pc[g] # "adopt", call[g].kind \in Io
    PROVE  /\ call[g].fd \in Fds /\ call[g].file \in Nat \ {0} /\ file[call[g].fd] \in Nat
           /\ file[call[g].fd] # 0 => call[g].file <= file[call[g].fd]
<1>0. TypesOK
  BY TypeParts DEF TypeInv
<1>1. pc[g] \in IoPc \cup {"plain", "check", "kernel"}
  BY <1>0 DEF TypeInv, CallOK, ClosePc, IoPc, InCall, TypesOK, FiberTypeOK, Pcs, OnThread, Io
<1>2. call[g].file # 0 /\ call[g].file <= opened[call[g].fd]
  BY <1>1 DEF BeginOK
<1>5. call[g].fd \in Fds /\ call[g].file \in 0 .. MaxOpen
  BY <1>0 DEF TypesOK, FiberTypeOK, CallRecords
<1>6. file[call[g].fd] \in 0 .. MaxOpen
  BY <1>0, <1>5 DEF TypesOK, KernelTypeOK
<1>7. MaxOpen \in Nat
  BY HookAssumption
<1>3. call[g].file \in Nat /\ file[call[g].fd] \in Nat
  BY <1>5, <1>6, <1>7
<1>4. file[call[g].fd] \in {0, opened[call[g].fd]}
  BY <1>5 DEF TypeInv, FileOK
<1> QED
  BY <1>2, <1>3, <1>4, <1>5

\* A call that ends and leaves no armed timer behind.
LEMMA Returned ==
    ASSUME TypeInv, TypesOK', CallInv, NEW f \in Fibers, NEW r, Return(f, r), InCall(f),
           pc[f] \notin {"adopt", "closef"}, timers' \subseteq timers,
           \A t \in timers' : t.stage = "armed" => t.owner # f,
           UNCHANGED <<hook, file, opened, ctx>>
    PROVE  CallInv'
<1> USE DEF CallInv, TypesOK, FiberTypeOK, TimerTypeOK, TimerRecords
<1>0. TypesOK
  BY TypeParts DEF TypeInv
<1>1. /\ pc'[f] = "user" /\ ~late'[f] /\ ~cancelled'[f] /\ calls' = calls /\ ~InCall(f)'
      /\ Moves(f)
  BY <1>0 DEF Return, Goto, Moves, InCall
<1>2. \A g \in Fibers \ {f} : (InCall(g)' <=> InCall(g)) /\ Armed(g)' = Armed(g)
  BY <1>1 DEF Moves, InCall, Armed, Timer
<1>3. \A t \in timers' : t \in timers /\ t.owner \in Fibers /\ (t.owner # f => (Alive(t)' <=> Alive(t))) /\ (t.owner = f => ~Alive(t)')
  BY <1>0, <1>1, <1>2 DEF Alive, Moves
<1>4. ArmedOK'
  BY <1>1, <1>2, <1>3 DEF ArmedOK, Moves
<1>5. OwnerOK'
  BY <1>1, <1>2, <1>3 DEF OwnerOK, Moves
<1>6. LateOK'
  BY <1>1, <1>2, <1>3 DEF LateOK, Moves
<1>7. BeginOK'
  BY <1>1 DEF BeginOK, Moves, IoPc
<1>8. HookOK'
  BY <1>1, HookKept DEF Moves
<1>9. OnlyOK'
  BY <1>1, <1>2, OnlyKept DEF Moves
<1> QED
  BY <1>4, <1>5, <1>6, <1>7, <1>8, <1>9

\* A call that goes on: it may arm its timer before addEvent().
LEMMA Went ==
    ASSUME TypeInv, TypesOK', CallInv, NEW f \in Fibers,
           NEW l \in {"try", "timer", "add", "hold", "check", "kernel"}, Keep(f, l),
           pc[f] \in {"try", "plain", "timer", "add", "woken"}, pc[f] = "plain" => l = "kernel",
           l \in {"check", "kernel"} => call[f].kind = "connect",
           \A t \in timers' : t \in timers \/ t = Armed(f),
           \A t \in timers' : t.stage = "armed" /\ t.owner = f => l \in {"add", "hold"},
           UNCHANGED <<hook, file, opened, ctx>>
    PROVE  CallInv'
<1> USE DEF CallInv, TypesOK, FiberTypeOK, TimerTypeOK, TimerRecords
<1>0. TypesOK
  BY TypeParts DEF TypeInv
<1>1. pc'[f] = l /\ UNCHANGED <<call, calls, cancelled, late>> /\ \A g \in Fibers \ {f} : pc'[g] = pc[g]
  BY <1>0 DEF Keep, Goto
<1>2. /\ \A g \in Fibers : (InCall(g)' <=> InCall(g)) /\ Armed(g)' = Armed(g)
      /\ \A t \in timers' : t.owner \in Fibers /\ (Alive(t)' <=> Alive(t))
  BY <1>0, <1>1 DEF InCall, Armed, Timer, Alive
<1>3. Armed(f).owner = f /\ Armed(f).stage = "armed" /\ Armed(f).call = calls[f]
      /\ Armed(f).kind = call[f].kind /\ Armed(f).fd = call[f].fd /\ calls[f] \in Nat
  BY <1>0, HookAssumption DEF Armed, Timer
<1>4. ArmedOK'
  BY <1>1, <1>2, <1>3 DEF ArmedOK
<1>5. OwnerOK'
  BY <1>1, <1>2, <1>3 DEF OwnerOK
<1>6. LateOK'
  BY <1>1, <1>2, <1>3 DEF LateOK
<1>7. BeginOK'
  BY <1>1 DEF BeginOK, IoPc
<1>8. HookOK'
  <2>1. ~hook => l = "kernel"
    BY DEF HookOK
  <2> QED
    BY <1>1, <2>1, HookKept
<1>9. OnlyOK'
  BY <1>1, <1>2, OnlyKept
<1> QED
  BY <1>4, <1>5, <1>6, <1>7, <1>8, <1>9

\* A call begins on a descriptor that is open.
LEMMA Began ==
    ASSUME TypeInv, TypesOK', CallInv, NEW f \in Fibers, NEW k \in Io \cup {"close"}, NEW fd \in Fds,
           NEW ours \in BOOLEAN, NEW timed \in BOOLEAN, NEW l \in {"try", "plain", "cancelAll", "closef"},
           Begin(f, k, fd, ours, timed, l), file[fd] # 0, k \in Io => Only(f, k, fd),
           l \in {"try", "cancelAll"} => hook, l # "try" => ~ours,
           UNCHANGED <<hook, file, opened, ctx, timers>>
    PROVE  CallInv'
<1> USE DEF CallInv, TypesOK, FiberTypeOK, TimerTypeOK, TimerRecords
<1>0. TypesOK
  BY TypeParts DEF TypeInv
<1>1. /\ pc[f] = "user" /\ pc'[f] = l /\ call'[f].kind = k /\ call'[f].fd = fd /\ call'[f].file = file[fd]
      /\ call'[f].ours = ours /\ calls'[f] = calls[f] + 1 /\ UNCHANGED <<cancelled, late>> /\ Moves(f)
  BY <1>0 DEF Begin, Goto, Moves
<1>2. ~InCall(f) /\ \A g \in Fibers \ {f} : (InCall(g)' <=> InCall(g)) /\ Armed(g)' = Armed(g)
  BY <1>1 DEF Moves, InCall, Armed, Timer
<1>3. \A t \in timers : t.owner \in Fibers /\ t.call \in Nat /\ t.call <= calls[t.owner]
  BY <1>0, HookAssumption DEF OwnerOK
<1>4. calls[f] \in Nat
  BY <1>0, HookAssumption
<1>5. \A t \in timers : (t.owner # f => (Alive(t)' <=> Alive(t))) /\ (t.owner = f => ~Alive(t)')
  BY <1>1, <1>2, <1>3, <1>4 DEF Alive, Moves
<1>6. ArmedOK'
  BY <1>1, <1>2, <1>3 DEF ArmedOK, Moves
<1>7. OwnerOK'
  BY <1>1, <1>3, <1>4, <1>5 DEF OwnerOK, Moves
<1>8. LateOK'
  BY <1>1, <1>2, <1>3, <1>5 DEF LateOK, Moves
<1>9. BeginOK'
  <2>1. file[fd] <= opened[fd] /\ file[fd] \in Nat /\ opened[fd] \in Nat
    BY <1>0, HookAssumption DEF TypeInv, FileOK, KernelTypeOK
  <2> QED
    BY <1>1, <2>1 DEF BeginOK, Moves, IoPc
<1>10. HookOK'
  BY <1>1, HookKept DEF Moves
<1>11. OnlyOK'
  <2>1. ASSUME NEW u \in Fibers \ {f}, InCall(u), pc[u] # "adopt", call[u].kind \in Io, k \in Io,
               call[u].fd = fd, EventOf(call[u].kind) = EventOf(k)
        PROVE  call[u].file < file[fd] /\ call'[f].shared
    <3>1. Waits(u, k, fd)
      BY <2>1 DEF Waits, Io
    <3>2. call[u].file # file[fd]
      BY <2>1, <3>1 DEF Only
    <3>5. call[u].file \in Nat /\ file[call[u].fd] \in Nat /\ call[u].file <= file[call[u].fd]
      BY <2>1, Earlier
    <3>3. call[u].file \in Nat /\ file[fd] \in Nat /\ call[u].file <= file[fd]
      <4>1. file[call[u].fd] = file[fd]
        BY <2>1
      <4> HIDE DEF CallInv
      <4> QED
        BY <3>5, <4>1
    <3>4. call'[f].shared = \E g \in Fibers \ {f} : Waits(g, k, fd)
      BY <1>0 DEF Begin
    <3> QED
      BY <3>1, <3>2, <3>3, <3>4
  <2>2. ASSUME NEW u \in Fibers \ {f}, InCall(u)', pc'[u] # "adopt", call'[u].kind \in Io, k \in Io,
               call'[u].fd = fd, EventOf(call'[u].kind) = EventOf(k)
        PROVE  call'[u].file < call'[f].file /\ call'[f].shared /\ call'[u].file \in Nat /\ call'[f].file \in Nat
    <3>1. call'[u] = call[u] /\ pc'[u] = pc[u] /\ InCall(u)
      BY <1>1, <1>2, <2>2 DEF Moves
    <3>2. call[u].file < file[fd] /\ call'[f].shared
      BY <2>1, <2>2, <3>1
    <3>3. call[u].file \in Nat /\ file[fd] \in Nat
      <4>1. call[u].file \in 0 .. MaxOpen /\ file[fd] \in 0 .. MaxOpen
        BY <1>0 DEF KernelTypeOK, CallRecords
      <4>2. MaxOpen \in Nat
        BY HookAssumption
      <4> QED
        BY <4>1, <4>2
    <3> QED
      BY <1>1, <3>1, <3>2, <3>3
  <2> SUFFICES ASSUME NEW g \in Fibers, NEW h \in Fibers, g # h, InCall(g)', InCall(h)',
                      call'[g].kind \in Io, call'[h].kind \in Io, pc'[g] # "adopt", pc'[h] # "adopt",
                      call'[g].fd = call'[h].fd, EventOf(call'[g].kind) = EventOf(call'[h].kind)
               PROVE  call'[g].file # call'[h].file /\ (call'[g].file < call'[h].file => call'[h].shared)
    BY DEF OnlyOK
  <2>3. CASE g = f
    BY <1>1, <2>2, <2>3
  <2>4. CASE h = f
    BY <1>1, <2>2, <2>4
  <2>5. CASE g # f /\ h # f
    BY <1>1, <1>2, <2>5 DEF Moves, OnlyOK
  <2> QED
    BY <2>3, <2>4, <2>5
<1> QED
  BY <1>6, <1>7, <1>8, <1>9, <1>10, <1>11

\* triggerEvent() only wakes fibers that are on hold.
LEMMA Awoken ==
    ASSUME TypeInv, TypesOK', CallInv, NEW S \in SUBSET (Fds \X Events), Trigger(S), timers' \subseteq timers,
           UNCHANGED <<hook, file, opened, ctx, call, calls, cancelled, late>>
    PROVE  CallInv'
<1> USE DEF CallInv, TypesOK, FiberTypeOK, RegTypeOK, TimerTypeOK, TimerRecords
<1>0. TypesOK
  BY TypeParts DEF TypeInv
<1>1. \A g \in Fibers : (pc'[g] = "woken" /\ pc[g] = "hold") \/ pc'[g] = pc[g]
  BY <1>0 DEF Trigger, RegOK, TypeInv
<1>2. /\ \A g \in Fibers : (InCall(g)' <=> InCall(g)) /\ Armed(g)' = Armed(g)
      /\ \A t \in timers : t.owner \in Fibers /\ (Alive(t)' <=> Alive(t))
  BY <1>0, <1>1 DEF InCall, Armed, Timer, Alive
<1>3. ArmedOK'
  BY <1>1, <1>2 DEF ArmedOK
<1>4. OwnerOK'
  BY <1>1, <1>2 DEF OwnerOK
<1>5. LateOK'
  BY <1>1, <1>2 DEF LateOK
<1>6. BeginOK'
  BY <1>1 DEF BeginOK, IoPc
<1>7. HookOK'
  BY <1>1, HookKept DEF HookOK
<1>8. OnlyOK'
  BY <1>1, <1>2, OnlyKept
<1> QED
  BY <1>3, <1>4, <1>5, <1>6, <1>7, <1>8

\* A call that ends in the step in which it begins.
LEMMA Instantly ==
    ASSUME TypeInv, TypesOK', CallInv, NEW f \in Fibers, NEW k, NEW r, AtOnce(f, k, r),
           UNCHANGED <<hook, file, opened, timers>>, \A fd \in Fds : ctx[fd].here => ctx'[fd].here
    PROVE  CallInv'
<1> USE DEF CallInv, TypesOK, FiberTypeOK, TimerTypeOK, TimerRecords
<1>0. TypesOK
  BY TypeParts DEF TypeInv
<1>1. /\ pc[f] = "user" /\ calls'[f] = calls[f] + 1 /\ UNCHANGED <<pc, call, cancelled, late>>
      /\ \A g \in Fibers \ {f} : calls'[g] = calls[g]
  BY <1>0 DEF AtOnce
<1>2. ~InCall(f) /\ \A g \in Fibers \ {f} : (InCall(g)' <=> InCall(g)) /\ Armed(g)' = Armed(g)
  BY <1>1 DEF InCall, Armed, Timer
<1>3. /\ \A t \in timers : t.owner \in Fibers /\ t.call \in Nat /\ t.call <= calls[t.owner]
      /\ calls[f] \in Nat
  BY <1>0, HookAssumption DEF OwnerOK
<1>4. \A t \in timers : (t.owner # f => (Alive(t)' <=> Alive(t))) /\ (t.owner = f => ~Alive(t)')
  BY <1>1, <1>2, <1>3 DEF Alive, InCall
<1>5. ArmedOK'
  BY <1>1, <1>2, <1>3 DEF ArmedOK
<1>6. OwnerOK'
  BY <1>1, <1>3, <1>4 DEF OwnerOK
<1>7. LateOK'
  BY <1>1, <1>2, <1>4 DEF LateOK, InCall
<1>8. BeginOK'
  BY <1>1 DEF BeginOK
<1>9. HookOK'
  BY <1>1 DEF HookOK
<1>10. OnlyOK'
  BY <1>1, OnlyKept DEF InCall
<1> QED
  BY <1>5, <1>6, <1>7, <1>8, <1>9, <1>10

\* A number that is opened for a fiber that is about to adopt it, or without the hook.
LEMMA BeginGrows ==
    ASSUME BeginOK, NEW f \in Fibers, Moves(f),
           \/ pc'[f] = "user"
           \/ pc'[f] = "adopt" /\ call'[f].kind \in {"accept", "socket"},
           \A fd \in Fds : opened[fd] \in Nat /\ opened'[fd] \in Nat /\ opened[fd] <= opened'[fd],
           \A g \in Fibers : call[g].file \in Nat /\ call[g].fd \in Fds
    PROVE  BeginOK'
<1> SUFFICES ASSUME NEW g \in Fibers
             PROVE  /\ pc'[g] \in {"plain", "cancelAll", "del", "closef"} => ~call'[g].ours
                    /\ pc'[g] \in IoPc \cup {"plain", "check", "kernel"} /\ call'[g].kind \in Io =>
                          call'[g].file # 0 /\ call'[g].file <= opened'[call'[g].fd]
                    /\ pc'[g] \in {"check", "kernel"} => call'[g].kind = "connect"
                    /\ pc'[g] = "adopt" => call'[g].kind \in {"accept", "socket"}
  BY DEF BeginOK
<1>1. CASE g = f
  BY <1>1 DEF IoPc
<1>2. CASE g # f
  <2>1. pc'[g] = pc[g] /\ call'[g] = call[g]
    BY <1>2 DEF Moves
  <2>2. pc[g] \in IoPc \cup {"plain", "check", "kernel"} /\ call[g].kind \in Io =>
           call[g].file # 0 /\ call[g].file <= opened[call[g].fd]
    BY DEF BeginOK
  <2>3. opened[call[g].fd] <= opened'[call[g].fd] /\ opened[call[g].fd] \in Nat
        /\ opened'[call[g].fd] \in Nat /\ call[g].file \in Nat
    OBVIOUS
  <2>4. pc[g] \in IoPc \cup {"plain", "check", "kernel"} /\ call[g].kind \in Io =>
           call[g].file # 0 /\ call[g].file <= opened'[call[g].fd]
    BY <2>2, <2>3
  <2> QED
    BY <2>1, <2>4 DEF BeginOK
<1> QED
  BY <1>1, <1>2

LEMMA Opens ==
    ASSUME HookOK, NEW f \in Fibers, Moves(f), NEW new \in Fds, UNCHANGED <<hook, ctx>>,
           pc[f] \notin {"adopt", "closef"},
           \/ pc'[f] = "adopt" /\ call'[f].fd = new
           \/ ~hook /\ pc'[f] = "user",
           \A fd \in Fds : file'[fd] # 0 => file[fd] # 0 \/ fd = new
    PROVE  HookOK'
<1>1. ASSUME ~hook, NEW g \in Fibers
      PROVE  pc'[g] \notin {"try", "timer", "add", "hold", "woken", "check", "cancelAll", "del"}
  BY <1>1 DEF HookOK, Moves
<1>2. ASSUME hook, NEW fd \in Fds, file'[fd] # 0
      PROVE  ctx[fd].here \/ \E g \in Fibers : pc'[g] \in {"adopt", "closef"} /\ call'[g].fd = fd
  <2>1. CASE fd = new
    BY <1>2, <2>1
  <2>2. CASE fd # new
    <3>1. ctx[fd].here \/ \E g \in Fibers : pc[g] \in {"adopt", "closef"} /\ call[g].fd = fd
      BY <1>2, <2>2 DEF HookOK
    <3> QED
      BY <3>1 DEF Moves
  <2> QED
    BY <2>1, <2>2
<1> QED
  BY <1>1, <1>2 DEF HookOK

LEMMA CallInvInit == Init => CallInv
<1> SUFFICES ASSUME Init PROVE CallInv
  OBVIOUS
<1>1. TypesOK
  BY TypeInit, TypeParts DEF TypeInv
<1>2. ArmedOK /\ OwnerOK
  BY DEF Init, ArmedOK, OwnerOK
<1>3. LateOK /\ BeginOK /\ OnlyOK
  BY DEF Init, LateOK, BeginOK, OnlyOK, InCall, IoPc
<1>4. HookOK
  BY FirstFd DEF Init, HookOK, NoCtx
<1> QED
  BY <1>2, <1>3, <1>4 DEF CallInv

\* Every step keeps them.
LEMMA CallInvStep ==
    ASSUME TypeInv, TypesOK', CallInv, [Next]_vars
    PROVE  CallInv'
<1> USE HookAssumption DEF poolVars, kernelVars, fiberVars, TypesOK, FiberTypeOK,
        KernelTypeOK, CtxTypeOK, RegTypeOK, TimerTypeOK, CallRecords, TimerRecords
<1>0. TypesOK
  BY TypeParts DEF TypeInv
<1>1. ASSUME NEW f \in Fibers, Start(f) PROVE CallInv'
  <2>1. ArmedOK'
    BY <1>1, <1>0 DEF Start, Goto, Keep, CallInv, TypeInv, CallOK, RegOK, SleepOK, ArmedOK,
       Armed, Timer
  <2>2. OwnerOK'
    BY <1>1, <1>0 DEF Start, Goto, Keep, CallInv, TypeInv, CallOK, RegOK, ArmedOK, OwnerOK,
       Alive, InCall, Armed, Timer
  <2>3. LateOK'
    BY <1>1, <1>0 DEF Start, Goto, Keep, CallInv, TypeInv, CallOK, RegOK, ArmedOK, OwnerOK,
       LateOK, Alive, InCall, Armed, Timer
  <2>4. BeginOK'
    BY <1>1, <1>0 DEF Start, Goto, Keep, CallInv, TypeInv, CallOK, RegOK, SleepOK, FileOK,
       BeginOK, IoPc, Io
  <2>5. HookOK'
    BY <1>1, <1>0, HookKept DEF Start, Goto, Keep, CallInv
  <2>6. OnlyOK'
    BY <1>1, <1>0, OnlyKept, SMTT(20) DEF Start, Goto, Keep, CallInv, TypeInv, CallOK, RegOK, SleepOK, OnlyOK,
       InCall, Io
  <2> QED
    BY <2>1, <2>2, <2>3, <2>4, <2>5, <2>6 DEF CallInv
<1>2. ASSUME NEW f \in Fibers, Finish(f) PROVE CallInv'
  <2>1. ArmedOK'
    BY <1>2, <1>0 DEF Finish, Goto, Keep, CallInv, TypeInv, CallOK, RegOK, SleepOK, ArmedOK,
       Armed, Timer
  <2>2. OwnerOK'
    BY <1>2, <1>0 DEF Finish, Goto, Keep, CallInv, TypeInv, CallOK, RegOK, ArmedOK, OwnerOK,
       Alive, InCall, Armed, Timer
  <2>3. LateOK'
    BY <1>2, <1>0 DEF Finish, Goto, Keep, CallInv, TypeInv, CallOK, RegOK, ArmedOK, OwnerOK,
       LateOK, Alive, InCall, Armed, Timer
  <2>4. BeginOK'
    BY <1>2, <1>0 DEF Finish, Goto, Keep, CallInv, TypeInv, CallOK, RegOK, SleepOK, FileOK,
       BeginOK, IoPc, Io
  <2>5. HookOK'
    BY <1>2, <1>0, HookKept DEF Finish, Goto, Keep, CallInv
  <2>6. OnlyOK'
    BY <1>2, <1>0, OnlyKept, SMTT(20) DEF Finish, Goto, Keep, CallInv, TypeInv, CallOK, RegOK, SleepOK, OnlyOK,
       InCall, Io
  <2> QED
    BY <2>1, <2>2, <2>3, <2>4, <2>5, <2>6 DEF CallInv
<1>3. ASSUME NEW f \in Fibers, Obtain(f) PROVE CallInv'
  <2>1. CASE call[f].kind = "read"
    <3>1. Return(f, "data") /\ pc[f] \in {"try", "plain"} /\ UNCHANGED <<hook, file, opened, ctx, timers>>
      BY <1>3, <2>1 DEF Obtain
    <3>2. InCall(f) /\ \A t \in timers' : t.stage = "armed" => t.owner # f
      BY <3>1 DEF InCall, CallInv, ArmedOK
    <3> QED
      BY <3>1, <3>2, Returned
  <2>2. CASE call[f].kind = "accept"
    <3>1. PICK new \in Fds :
             /\ file[new] = 0 /\ file' = [file EXCEPT ![new] = opened[new] + 1]
             /\ opened' = [opened EXCEPT ![new] = @ + 1] /\ call' = [call EXCEPT ![f].fd = new]
      BY <1>3, <2>2 DEF Obtain, Lowest
    <3>2. /\ pc[f] \in {"try", "plain"} /\ pc' = [pc EXCEPT ![f] = "adopt"]
          /\ UNCHANGED <<hook, ctx, reg, timers, calls, cancelled, late>>
      BY <1>3, <2>2 DEF Obtain, Goto
    <3>3. /\ pc'[f] = "adopt" /\ call'[f].fd = new /\ call'[f].kind = "accept" /\ call'[f].ours = call[f].ours
          /\ Moves(f) /\ InCall(f) /\ InCall(f)'
      BY <1>0, <2>2, <3>1, <3>2 DEF Moves, InCall
    <3>4. \A g \in Fibers \ {f} : (InCall(g)' <=> InCall(g)) /\ Armed(g)' = Armed(g)
      BY <3>3 DEF Moves, InCall, Armed, Timer
    <3>5. \A t \in timers : t.owner \in Fibers /\ (Alive(t)' <=> Alive(t))
      BY <1>0, <3>2, <3>3, <3>4 DEF Alive
    <3>6. \A fd \in Fds : opened[fd] \in Nat /\ opened[fd] <= opened'[fd] /\ opened'[fd] \in Nat
                          /\ (file'[fd] # 0 => file[fd] # 0 \/ fd = new)
      BY <1>0, <3>1
    <3>7. ArmedOK'
      BY <3>2, <3>3, <3>4, <3>5 DEF CallInv, ArmedOK, Moves
    <3>8. OwnerOK'
      BY <3>2, <3>3, <3>5 DEF CallInv, OwnerOK, Moves
    <3>9. LateOK'
      BY <3>2, <3>3, <3>4, <3>5 DEF CallInv, LateOK, Moves
    <3>10. BeginOK'
      <4>1. \A g \in Fibers : call[g].file \in Nat /\ call[g].fd \in Fds
        BY <1>0
      <4> QED
        BY <3>3, <3>6, <4>1, BeginGrows DEF CallInv
    <3>11. HookOK'
      BY <3>2, <3>3, <3>6, Opens DEF CallInv
    <3>12. OnlyOK'
      BY <3>3, <3>4, OnlyKept DEF CallInv, Moves
    <3> QED
      BY <3>7, <3>8, <3>9, <3>10, <3>11, <3>12 DEF CallInv
  <2> QED
    BY <1>3, <2>1, <2>2 DEF Obtain
<1>4. ASSUME NEW f \in Fibers, Adopt(f) PROVE CallInv'
  <2>1. ArmedOK'
    BY <1>4, <1>0 DEF Adopt, Return, Goto, Keep, NoCall, CallInv, TypeInv, CallOK, RegOK,
       SleepOK, ArmedOK, Armed, Timer
  <2>2. OwnerOK'
    BY <1>4, <1>0 DEF Adopt, Return, Goto, Keep, NoCall, CallInv, TypeInv, CallOK, RegOK,
       ArmedOK, OwnerOK, Alive, InCall, Armed, Timer
  <2>3. LateOK'
    BY <1>4, <1>0 DEF Adopt, Return, Goto, Keep, NoCall, CallInv, TypeInv, CallOK, RegOK,
       ArmedOK, OwnerOK, LateOK, Alive, InCall, Armed, Timer
  <2>4. BeginOK'
    BY <1>4, <1>0 DEF Adopt, Return, Goto, Keep, NoCall, CallInv, TypeInv, CallOK, RegOK,
       SleepOK, FileOK, BeginOK, IoPc, Io
  <2>5. HookOK'
    <3>1. /\ UNCHANGED <<hook, file>> /\ ctx'[call[f].fd].here /\ pc'[f] = "user"
          /\ \A fd \in Fds \ {call[f].fd} : ctx'[fd] = ctx[fd]
          /\ \A g \in Fibers \ {f} : pc'[g] = pc[g] /\ call'[g] = call[g]
      BY <1>4, <1>0 DEF Adopt, Return, Goto, NoCtx
    <3>2. pc[f] = "adopt"
      BY <1>4 DEF Adopt
    <3>3. ASSUME ~hook, NEW g \in Fibers
          PROVE  pc'[g] \notin {"try", "timer", "add", "hold", "woken", "check", "cancelAll", "del"}
      BY <3>1, <3>3 DEF CallInv, HookOK
    <3>4. ASSUME hook, NEW fd \in Fds, file[fd] # 0
          PROVE  ctx'[fd].here \/ \E g \in Fibers : pc'[g] \in {"adopt", "closef"} /\ call'[g].fd = fd
      <4>1. CASE fd = call[f].fd
        BY <3>1, <4>1
      <4>2. CASE fd # call[f].fd
        <5>1. ctx[fd].here \/ \E g \in Fibers \ {f} : pc[g] \in {"adopt", "closef"} /\ call[g].fd = fd
          BY <3>4, <4>2 DEF CallInv, HookOK
        <5> QED
          BY <3>1, <4>2, <5>1
      <4> QED
        BY <4>1, <4>2
    <3> QED
      BY <3>1, <3>3, <3>4 DEF HookOK
  <2>6. OnlyOK'
    BY <1>4, <1>0 DEF Adopt, Return, Goto, Keep, NoCall, CallInv, TypeInv, CallOK, RegOK,
       SleepOK, OnlyOK, InCall, Io
  <2> QED
    BY <2>1, <2>2, <2>3, <2>4, <2>5, <2>6 DEF CallInv
<1>5. ASSUME NEW f \in Fibers, Again(f) PROVE CallInv'
  <2>1. /\ pc[f] \in {"try", "plain"} /\ UNCHANGED <<hook, file, opened, ctx, timers>>
        /\ \A t \in timers' : t.stage = "armed" => t.owner # f
    BY <1>5 DEF Again, CallInv, ArmedOK
  <2>2. CASE pc[f] = "plain"
    BY <1>5, <2>1, <2>2, Returned DEF Again, InCall
  <2>3. CASE pc[f] = "try"
    <3>1. PICK l \in {"timer", "add"} : Keep(f, l)
      BY <1>5, <2>3 DEF Again
    <3> QED
      BY <2>1, <2>3, <3>1, Went
  <2> QED
    BY <2>1, <2>2, <2>3
<1>6. ASSUME NEW f \in Fibers, Dial(f) PROVE CallInv'
  <2>1. /\ pc[f] \in {"try", "plain"} /\ call[f].kind = "connect" /\ UNCHANGED <<hook, file, opened, ctx, timers>>
        /\ \A t \in timers' : t.stage = "armed" => t.owner # f
    BY <1>6 DEF Dial, CallInv, ArmedOK
  <2>2. CASE Return(f, "again")
    BY <2>1, <2>2, Returned DEF InCall
  <2>3. CASE Keep(f, "kernel")
    BY <2>1, <2>3, Went
  <2>4. CASE pc[f] = "try" /\ Keep(f, "timer")
    BY <2>1, <2>4, Went
  <2> QED
    BY <1>6, <2>2, <2>3, <2>4 DEF Dial
<1>7. ASSUME NEW f \in Fibers, Dialled(f) PROVE CallInv'
  <2>1. /\ pc[f] = "kernel" /\ UNCHANGED <<hook, file, opened, ctx, timers>>
        /\ \A t \in timers' : t.stage = "armed" => t.owner # f
    BY <1>7 DEF Dialled, CallInv, ArmedOK
  <2>2. PICK r : Return(f, r)
    BY <1>7 DEF Dialled
  <2> QED
    BY <2>1, <2>2, Returned DEF InCall
<1>8. ASSUME NEW f \in Fibers, Refuse(f) PROVE CallInv'
  <2>1. /\ pc[f] \in {"try", "plain"} /\ UNCHANGED <<hook, file, opened, ctx, timers>>
        /\ \A t \in timers' : t.stage = "armed" => t.owner # f
    BY <1>8 DEF Refuse, CallInv, ArmedOK
  <2>2. PICK r : Return(f, r)
    BY <1>8 DEF Refuse
  <2> QED
    BY <2>1, <2>2, Returned DEF InCall
<1>9. ASSUME NEW f \in Fibers, AddTimer(f) PROVE CallInv'
  <2>1. /\ pc[f] = "timer" /\ Keep(f, "add") /\ UNCHANGED <<hook, file, opened, ctx>>
        /\ timers' = timers \cup {Armed(f)}
    BY <1>9 DEF AddTimer
  <2> QED
    BY <2>1, Went
<1>10. ASSUME NEW f \in Fibers, AddEvent(f) PROVE CallInv'
  <2>1. pc[f] = "add" /\ Keep(f, "hold") /\ UNCHANGED <<hook, file, opened, ctx, timers>>
    BY <1>10 DEF AddEvent
  <2> QED
    BY <2>1, Went
<1>11. ASSUME NEW f \in Fibers, AddEventFails(f) PROVE CallInv'
  <2>1. /\ pc[f] = "add" /\ UNCHANGED <<hook, file, opened, ctx>> /\ timers' = timers \ {Armed(f)}
    BY <1>11 DEF AddEventFails
  <2>2. \A t \in timers' : t.stage = "armed" => t.owner # f
    BY <2>1 DEF CallInv, ArmedOK
  <2>3. CASE call[f].kind = "connect" /\ Keep(f, "check")
    BY <2>1, <2>2, <2>3, Went, SMTT(30)
  <2>4. CASE Return(f, "error")
    BY <2>1, <2>2, <2>4, Returned DEF InCall
  <2> QED
    BY <1>11, <2>3, <2>4 DEF AddEventFails
<1>12. ASSUME NEW f \in Fibers, Resume(f) PROVE CallInv'
  <2>1. /\ pc[f] = "woken" /\ UNCHANGED <<hook, file, opened, ctx>> /\ timers' = timers \ {Armed(f)}
    BY <1>12 DEF Resume
  <2>2. \A t \in timers' : t.stage = "armed" => t.owner # f
    BY <2>1 DEF CallInv, ArmedOK
  <2>3. CASE call[f].kind = "connect" /\ Keep(f, "check")
    BY <2>1, <2>2, <2>3, Went
  <2>4. CASE Keep(f, "try")
    BY <2>1, <2>2, <2>4, Went
  <2>5. CASE Return(f, "ok") \/ Return(f, "timeout")
    BY <2>1, <2>2, <2>5, Returned DEF InCall
  <2> QED
    BY <1>12, <2>3, <2>4, <2>5 DEF Resume
<1>13. ASSUME NEW f \in Fibers, Check(f) PROVE CallInv'
  <2>1. /\ pc[f] = "check" /\ UNCHANGED <<hook, file, opened, ctx, timers>>
        /\ \A t \in timers' : t.stage = "armed" => t.owner # f
    BY <1>13 DEF Check, CallInv, ArmedOK
  <2>2. PICK r : Return(f, r)
    BY <1>13 DEF Check
  <2> QED
    BY <2>1, <2>2, Returned DEF InCall
<1>14. ASSUME NEW f \in Fibers, CancelAll(f) PROVE CallInv'
  <2>1. ArmedOK'
    BY <1>14, <1>0 DEF CancelAll, Goto, Keep, CallInv, TypeInv, CallOK, RegOK, SleepOK,
       ArmedOK, Armed, Timer
  <2>2. OwnerOK'
    BY <1>14, <1>0 DEF CancelAll, Goto, Keep, CallInv, TypeInv, CallOK, RegOK, ArmedOK,
       OwnerOK, Alive, InCall, Armed, Timer
  <2>3. LateOK'
    BY <1>14, <1>0 DEF CancelAll, Goto, Keep, CallInv, TypeInv, CallOK, RegOK, ArmedOK,
       OwnerOK, LateOK, Alive, InCall, Armed, Timer
  <2>4. BeginOK'
    BY <1>14, <1>0 DEF CancelAll, Goto, Keep, CallInv, TypeInv, CallOK, RegOK, SleepOK, FileOK,
       BeginOK, IoPc, Io
  <2>5. HookOK'
    <3>1. UNCHANGED <<hook, file, ctx, call>> /\ pc[f] = "cancelAll" /\ pc'[f] = "del"
      BY <1>14, <1>0 DEF CancelAll
    <3>2. \A g \in Fibers \ {f} : pc'[g] = pc[g] \/ (pc[g] = "hold" /\ pc'[g] = "woken")
      BY <1>14, <1>0 DEF CancelAll, TypeInv, RegOK
    <3> QED
      BY <3>1, <3>2, HookKept DEF CallInv, HookOK
  <2>6. OnlyOK'
    <3>1. \A g \in Fibers : InCall(g)' /\ pc'[g] # "adopt" => InCall(g) /\ pc[g] # "adopt"
      BY <1>14, <1>0 DEF CancelAll, TypeInv, RegOK, InCall
    <3> QED
      BY <1>14, <3>1, OnlyKept DEF CancelAll, CallInv
  <2> QED
    BY <2>1, <2>2, <2>3, <2>4, <2>5, <2>6 DEF CallInv
<1>15. ASSUME NEW f \in Fibers, Del(f) PROVE CallInv'
  <2>1. ArmedOK'
    BY <1>15, <1>0 DEF Del, Goto, Keep, CallInv, TypeInv, CallOK, RegOK, SleepOK, ArmedOK,
       Armed, Timer
  <2>2. OwnerOK'
    BY <1>15, <1>0 DEF Del, Goto, Keep, CallInv, TypeInv, CallOK, RegOK, ArmedOK, OwnerOK,
       Alive, InCall, Armed, Timer
  <2>3. LateOK'
    BY <1>15, <1>0 DEF Del, Goto, Keep, CallInv, TypeInv, CallOK, RegOK, ArmedOK, OwnerOK,
       LateOK, Alive, InCall, Armed, Timer
  <2>4. BeginOK'
    BY <1>15, <1>0 DEF Del, Goto, Keep, CallInv, TypeInv, CallOK, RegOK, SleepOK, FileOK,
       BeginOK, IoPc, Io
  <2>5. HookOK'
    BY <1>15, <1>0 DEF Del, Goto, Keep, CallInv, TypeInv, CallOK, RegOK, SleepOK, HookOK, NoCtx
  <2>6. OnlyOK'
    <3>1. \A g \in Fibers : InCall(g)' /\ pc'[g] # "adopt" /\ call'[g].kind \in Io =>
              InCall(g) /\ pc[g] # "adopt" /\ call'[g] = call[g]
      BY <1>15, <1>0 DEF Del, Goto, Keep, TypeInv, CallOK, InCall, Io
    <3> QED
      BY <3>1, OnlyKept DEF CallInv
  <2> QED
    BY <2>1, <2>2, <2>3, <2>4, <2>5, <2>6 DEF CallInv
<1>16. ASSUME NEW f \in Fibers, CloseF(f) PROVE CallInv'
  <2>1. ArmedOK'
    BY <1>16, <1>0 DEF CloseF, Return, Goto, Keep, NoCall, CallInv, TypeInv, CallOK, RegOK,
       SleepOK, ArmedOK, Armed, Timer
  <2>2. OwnerOK'
    BY <1>16, <1>0 DEF CloseF, Return, Goto, Keep, NoCall, CallInv, TypeInv, CallOK, RegOK,
       ArmedOK, OwnerOK, Alive, InCall, Armed, Timer
  <2>3. LateOK'
    BY <1>16, <1>0 DEF CloseF, Return, Goto, Keep, NoCall, CallInv, TypeInv, CallOK, RegOK,
       ArmedOK, OwnerOK, LateOK, Alive, InCall, Armed, Timer
  <2>4. BeginOK'
    BY <1>16, <1>0 DEF CloseF, Return, Goto, Keep, NoCall, CallInv, TypeInv, CallOK, RegOK,
       SleepOK, FileOK, BeginOK, IoPc, Io
  <2>5. HookOK'
    BY <1>16, <1>0 DEF CloseF, Return, Goto, Keep, NoCall, CallInv, TypeInv, CallOK, RegOK,
       SleepOK, HookOK, NoCtx
  <2>6. OnlyOK'
    BY <1>16, <1>0 DEF CloseF, Return, Goto, Keep, NoCall, CallInv, TypeInv, CallOK, RegOK,
       SleepOK, OnlyOK, InCall, Io
  <2> QED
    BY <2>1, <2>2, <2>3, <2>4, <2>5, <2>6 DEF CallInv
<1>17. ASSUME NEW f \in Fibers, NEW k \in {"read", "accept"}, NEW fd \in Fds, CallIo(f, k, fd) PROVE CallInv'
  <2> DEFINE ours  == hook /\ ctx[fd].here /\ ~ctx[fd].user
             timed == ours /\ ctx[fd].timed
             l     == IF ours THEN "try" ELSE "plain"
  <2>1. /\ Begin(f, k, fd, ours, timed, l) /\ file[fd] # 0 /\ Only(f, k, fd)
        /\ UNCHANGED <<hook, file, opened, ctx, timers>>
    BY <1>17 DEF CallIo, Known
  <2>2. ours \in BOOLEAN /\ timed \in BOOLEAN /\ l \in {"try", "plain"} /\ (l = "try" <=> ours) /\ (ours => hook)
    BY <1>0
  <2> HIDE DEF ours, timed, l
  <2> QED
    BY <2>1, <2>2, Began DEF Io
<1>18. ASSUME NEW f \in Fibers, NEW fd \in Fds, CallConnect(f, fd) PROVE CallInv'
  <2> DEFINE ours == hook /\ ctx[fd].here /\ ~ctx[fd].user
             l    == IF ours THEN "try" ELSE "plain"
  <2>1. /\ file[fd] # 0 /\ Only(f, "connect", fd) /\ UNCHANGED <<hook, file, opened, ctx, timers>>
        /\ Begin(f, "connect", fd, ours, ours, l) \/ AtOnce(f, "connect", "badf")
    BY <1>18 DEF CallConnect, Known
  <2>2. ours \in BOOLEAN /\ l \in {"try", "plain"} /\ (l = "try" <=> ours) /\ (ours => hook)
    BY <1>0
  <2> HIDE DEF ours, l
  <2>3. CASE Begin(f, "connect", fd, ours, ours, l)
    BY <2>1, <2>2, <2>3, Began, SMTT(30) DEF Io
  <2>4. CASE AtOnce(f, "connect", "badf")
    BY <2>1, <2>4, Instantly
  <2> QED
    BY <2>1, <2>3, <2>4
<1>19. ASSUME NEW f \in Fibers, NEW fd \in Fds, CallSleep(f, fd) PROVE CallInv'
  <2>1. ArmedOK'
    BY <1>19, <1>0 DEF CallSleep, Begin, Goto, CallInv, TypeInv, CallOK, RegOK, SleepOK,
       ArmedOK, Armed, Timer
  <2>2. OwnerOK'
    BY <1>19, <1>0 DEF CallSleep, Begin, Goto, CallInv, TypeInv, CallOK, RegOK, ArmedOK,
       OwnerOK, Alive, InCall, Armed, Timer
  <2>3. LateOK'
    BY <1>19, <1>0 DEF CallSleep, Begin, Goto, CallInv, TypeInv, CallOK, RegOK, ArmedOK,
       OwnerOK, LateOK, Alive, InCall, Armed, Timer
  <2>4. BeginOK'
    BY <1>19, <1>0 DEF CallSleep, Begin, Goto, CallInv, TypeInv, CallOK, RegOK, SleepOK,
       FileOK, BeginOK, IoPc, Io
  <2>5. HookOK'
    BY <1>19, <1>0 DEF CallSleep, Begin, Goto, CallInv, TypeInv, CallOK, RegOK, SleepOK,
       HookOK, NoCtx
  <2>6. OnlyOK'
    BY <1>19, <1>0 DEF CallSleep, Begin, Goto, CallInv, TypeInv, CallOK, RegOK, SleepOK,
       OnlyOK, InCall, Io
  <2> QED
    BY <2>1, <2>2, <2>3, <2>4, <2>5, <2>6 DEF CallInv
<1>20. ASSUME NEW f \in Fibers, NEW fd \in Fds, CallSocket(f, fd) PROVE CallInv'
  <2>1. /\ file[fd] = 0 /\ file' = [file EXCEPT ![fd] = opened[fd] + 1]
        /\ opened' = [opened EXCEPT ![fd] = @ + 1] /\ UNCHANGED <<hook, ctx, timers>>
        /\ \/ hook /\ Begin(f, "socket", fd, FALSE, FALSE, "adopt")
           \/ ~hook /\ AtOnce(f, "socket", "ok")
    BY <1>20 DEF CallSocket, Lowest
  <2>2. \A d \in Fds : opened[d] \in Nat /\ opened[d] <= opened'[d] /\ opened'[d] \in Nat
                       /\ (file'[d] # 0 => file[d] # 0 \/ d = fd)
    <3>1. file \in [Fds -> Nat] /\ opened \in [Fds -> Nat]
      BY <1>0
    <3>2. \A d \in Fds \ {fd} : opened'[d] = opened[d] /\ file'[d] = file[d]
      BY <2>1, <3>1
    <3>3. opened'[fd] = opened[fd] + 1
      BY <2>1, <3>1
    <3> HIDE DEF CallInv
    <3> QED
      BY <3>1, <3>2, <3>3
  <2>3. /\ pc[f] = "user" /\ ~InCall(f) /\ calls'[f] = calls[f] + 1 /\ Moves(f) /\ UNCHANGED <<cancelled, late>>
        /\ \/ hook /\ pc'[f] = "adopt" /\ call'[f].kind = "socket" /\ call'[f].fd = fd
           \/ ~hook /\ pc'[f] = "user"
    BY <1>0, <2>1 DEF Begin, AtOnce, Goto, Moves, InCall
  <2>4. \A g \in Fibers \ {f} : (InCall(g)' <=> InCall(g)) /\ Armed(g)' = Armed(g)
    BY <2>3 DEF Moves, InCall, Armed, Timer
  <2>5. /\ \A t \in timers : t.owner \in Fibers /\ t.call \in Nat /\ t.call <= calls[t.owner]
        /\ calls[f] \in Nat
    BY <1>0 DEF CallInv, OwnerOK
  <2>6. \A t \in timers : (t.owner # f => (Alive(t)' <=> Alive(t))) /\ (t.owner = f => ~Alive(t)')
    BY <2>3, <2>4, <2>5 DEF Alive, Moves
  <2>7. ArmedOK'
    <3>1. \A t \in timers : t.stage = "armed" => t.owner # f
      BY <2>3 DEF CallInv, ArmedOK
    <3> QED
      BY <2>1, <2>3, <2>4, <2>5, <3>1 DEF CallInv, ArmedOK, Moves
  <2>8. OwnerOK'
    BY <2>1, <2>3, <2>5, <2>6 DEF CallInv, OwnerOK, Moves
  <2>9. LateOK'
    BY <2>1, <2>3, <2>4, <2>6 DEF CallInv, LateOK, Moves
  <2>10. BeginOK'
    <3>1. \A g \in Fibers : call[g].file \in Nat /\ call[g].fd \in Fds
      BY <1>0
    <3>2. pc'[f] = "user" \/ (pc'[f] = "adopt" /\ call'[f].kind \in {"accept", "socket"})
      BY <2>3
    <3>3. \A d \in Fds : opened[d] \in Nat /\ opened'[d] \in Nat /\ opened[d] <= opened'[d]
      BY <2>2
    <3>4. BeginOK /\ Moves(f)
      BY <2>3 DEF CallInv
    <3> QED
      BY <3>1, <3>2, <3>3, <3>4, BeginGrows
  <2>11. HookOK'
    BY <2>1, <2>2, <2>3, Opens DEF CallInv
  <2>12. OnlyOK'
    BY <2>3, <2>4, OnlyKept DEF CallInv, Moves, InCall
  <2> QED
    BY <2>7, <2>8, <2>9, <2>10, <2>11, <2>12 DEF CallInv
<1>21. ASSUME NEW f \in Fibers, NEW fd \in Fds, CallClose(f, fd) PROVE CallInv'
  <2>1. /\ file[fd] # 0 /\ UNCHANGED <<hook, file, opened, ctx, timers>>
        /\ \/ hook /\ Begin(f, "close", fd, FALSE, FALSE, "cancelAll")
           \/ Begin(f, "close", fd, FALSE, FALSE, "closef")
    BY <1>21 DEF CallClose, Known
  <2> QED
    BY <2>1, Began DEF Io
<1>22. ASSUME NEW f \in Fibers, NEW fd \in Fds, NEW b \in BOOLEAN, SetTimeout(f, fd, b) PROVE CallInv'
  <2>1. AtOnce(f, "option", "ok") /\ UNCHANGED <<hook, file, opened, timers>>
    BY <1>22 DEF SetTimeout
  <2>2. \A d \in Fds : ctx[d].here => ctx'[d].here
    BY <1>22, <1>0 DEF SetTimeout
  <2> QED
    BY <2>1, <2>2, Instantly
<1>23. ASSUME NEW f \in Fibers, NEW fd \in Fds, NEW b \in BOOLEAN, SetFlags(f, fd, b) PROVE CallInv'
  <2>1. AtOnce(f, "option", "ok") /\ UNCHANGED <<hook, file, opened, timers>>
    BY <1>23 DEF SetFlags
  <2>2. \A d \in Fds : ctx[d].here => ctx'[d].here
    BY <1>23, <1>0 DEF SetFlags
  <2> QED
    BY <2>1, <2>2, Instantly
<1>24. ASSUME NEW f \in Fibers, NEW fd \in Fds, NEW b \in BOOLEAN, SetFionbio(f, fd, b) PROVE CallInv'
  <2>1. AtOnce(f, "option", "ok") /\ UNCHANGED <<hook, file, opened, timers>>
    BY <1>24 DEF SetFionbio
  <2>2. \A d \in Fds : ctx[d].here => ctx'[d].here
    BY <1>24, <1>0 DEF SetFionbio
  <2> QED
    BY <2>1, <2>2, Instantly
<1>25. ASSUME NEW t \in timers, Collect(t) PROVE CallInv'
  <2>1. ArmedOK'
    BY <1>25, <1>0 DEF Collect, CallInv, TypeInv, CallOK, RegOK, SleepOK, ArmedOK, Armed, Timer
  <2>2. OwnerOK'
    <3>1. \A u \in timers' : \E v \in timers : u.owner = v.owner /\ u.kind = v.kind /\ u.call = v.call /\ u.fd = v.fd
      BY <1>25, <1>0 DEF Collect
    <3>2. UNCHANGED <<pc, call, calls>>
      BY <1>25 DEF Collect
    <3> QED
      BY <3>1, <3>2 DEF CallInv, OwnerOK, Alive, InCall
  <2>3. LateOK'
    BY <1>25, <1>0 DEF Collect, CallInv, TypeInv, CallOK, RegOK, ArmedOK, OwnerOK, LateOK,
       Alive, InCall, Armed, Timer
  <2>4. BeginOK'
    BY <1>25, <1>0 DEF Collect, CallInv, TypeInv, CallOK, RegOK, SleepOK, FileOK, BeginOK,
       IoPc, Io
  <2>5. HookOK'
    BY <1>25, <1>0 DEF Collect, CallInv, TypeInv, CallOK, RegOK, SleepOK, HookOK, NoCtx
  <2>6. OnlyOK'
    BY <1>25, <1>0 DEF Collect, CallInv, TypeInv, CallOK, RegOK, SleepOK, OnlyOK, InCall, Io
  <2> QED
    BY <2>1, <2>2, <2>3, <2>4, <2>5, <2>6 DEF CallInv
<1>26. ASSUME NEW t \in timers, Fire(t) PROVE CallInv'
  <2> DEFINE c == [t EXCEPT !.stage = "cancel"]
  <2>1. /\ c.owner = t.owner /\ c.call = t.call /\ c.kind = t.kind /\ c.fd = t.fd /\ c.stage = "cancel"
        /\ t.owner \in Fibers /\ t.stage = "collected" /\ UNCHANGED <<hook, file, opened, ctx, call, calls, late>>
        /\ \A u \in timers' : u \in timers \/ u = c
    BY <1>26, <1>0 DEF Fire
  <2>2. \/ UNCHANGED pc
        \/ /\ pc[t.owner] = "hold" /\ pc'[t.owner] = "woken"
           /\ \A g \in Fibers \ {t.owner} : pc'[g] = pc[g]
    BY <1>26, <1>0 DEF Fire, Goto, TypeInv, SleepOK
  <2>3. \A g \in Fibers : cancelled'[g] => cancelled[g] \/ (g = t.owner /\ Alive(t))
    <3>1. CASE cancelled' = cancelled
      BY <3>1
    <3>2. CASE Alive(t) /\ cancelled' = [cancelled EXCEPT ![t.owner] = TRUE]
      BY <1>0, <3>2
    <3> QED
      BY <1>26, <3>1, <3>2 DEF Fire
  <2> HIDE DEF c
  <2>4. /\ \A g \in Fibers : (InCall(g)' <=> InCall(g)) /\ Armed(g)' = Armed(g)
                             /\ (pc'[g] # "adopt" <=> pc[g] # "adopt")
        /\ \A u \in timers' : u.owner \in Fibers
        /\ Alive(t)' <=> Alive(t)
        /\ Alive(c)' <=> Alive(t)
        /\ \A u \in timers : Alive(u)' <=> Alive(u)
    BY <1>0, <2>1, <2>2 DEF InCall, Armed, Timer, Alive
  <2>5. ArmedOK'
    <3> SUFFICES ASSUME NEW u \in timers', u.stage = "armed"
                 PROVE  u = Armed(u.owner)' /\ pc'[u.owner] \in {"add", "hold", "woken"}
      BY DEF ArmedOK
    <3>1. u \in timers /\ u.owner \in Fibers
      BY <2>1, <2>4
    <3>2. u = Armed(u.owner) /\ pc[u.owner] \in {"add", "hold", "woken"}
      BY <3>1 DEF CallInv, ArmedOK
    <3> QED
      BY <2>2, <2>4, <3>1, <3>2
  <2>6. OwnerOK'
    <3> SUFFICES ASSUME NEW u \in timers'
                 PROVE  /\ u.call <= calls'[u.owner]
                        /\ Alive(u)' /\ pc'[u.owner] # "adopt" =>
                              u.kind = call'[u.owner].kind /\ u.fd = call'[u.owner].fd
      BY DEF OwnerOK
    <3>1. CASE u \in timers
      BY <2>1, <2>4, <3>1 DEF CallInv, OwnerOK
    <3>2. CASE u = c
      BY <2>1, <2>4, <3>2 DEF CallInv, OwnerOK
    <3> QED
      BY <2>1, <3>1, <3>2
  <2>7. LateOK'
    <3>1. \A g \in Fibers : (late'[g] => InCall(g)') /\ (cancelled'[g] => late'[g])
      BY <2>1, <2>3, <2>4 DEF CallInv, LateOK
    <3>2. ASSUME NEW u \in timers', u.stage # "armed", Alive(u)' PROVE late'[u.owner]
      <4>1. CASE u \in timers
        BY <2>1, <2>4, <3>2, <4>1 DEF CallInv, LateOK
      <4>2. CASE u = c
        BY <2>1, <2>4, <3>2, <4>2 DEF CallInv, LateOK
      <4> QED
        BY <2>1, <4>1, <4>2
    <3> QED
      BY <3>1, <3>2 DEF LateOK
  <2>8. BeginOK'
    BY <2>1, <2>2 DEF CallInv, BeginOK, IoPc
  <2>9. HookOK'
    BY <2>1, <2>2, HookKept DEF CallInv, HookOK
  <2>10. OnlyOK'
    BY <2>1, <2>4, OnlyKept DEF CallInv
  <2> QED
    BY <2>5, <2>6, <2>7, <2>8, <2>9, <2>10 DEF CallInv
<1>27. ASSUME NEW t \in timers, CancelEvent(t) PROVE CallInv'
  <2> DEFINE e == <<t.fd, EventOf(t.kind)>>
  <2>1. t.fd \in Fds /\ EventOf(t.kind) \in Events
    BY <1>0 DEF EventOf, Events
  <2>2. (IF Live(e) THEN {e} ELSE {}) \in SUBSET (Fds \X Events)
    BY <2>1
  <2>3. Trigger(IF Live(e) THEN {e} ELSE {})
    BY <1>27 DEF CancelEvent
  <2> QED
    BY <1>27, <2>2, <2>3, Awoken DEF CancelEvent
<1>28. ASSUME NEW e \in Fds \X Events, Ready(e) PROVE CallInv'
  BY <1>28, Awoken DEF Ready
<1>29. ASSUME NEW fd \in Fds, Arrive(fd) \/ Establish(fd) PROVE CallInv'
  <2>1. ArmedOK'
    BY <1>29, <1>0 DEF Arrive, Establish, CallInv, TypeInv, CallOK, RegOK, SleepOK, ArmedOK,
       Armed, Timer
  <2>2. OwnerOK'
    BY <1>29, <1>0 DEF Arrive, Establish, CallInv, TypeInv, CallOK, RegOK, ArmedOK, OwnerOK,
       Alive, InCall, Armed, Timer
  <2>3. LateOK'
    BY <1>29, <1>0 DEF Arrive, Establish, CallInv, TypeInv, CallOK, RegOK, ArmedOK, OwnerOK,
       LateOK, Alive, InCall, Armed, Timer
  <2>4. BeginOK'
    BY <1>29, <1>0 DEF Arrive, Establish, CallInv, TypeInv, CallOK, RegOK, SleepOK, FileOK,
       BeginOK, IoPc, Io
  <2>5. HookOK'
    BY <1>29, <1>0 DEF Arrive, Establish, CallInv, TypeInv, CallOK, RegOK, SleepOK, HookOK,
       NoCtx
  <2>6. OnlyOK'
    BY <1>29, OnlyKept DEF Arrive, Establish, CallInv, InCall
  <2> QED
    BY <2>1, <2>2, <2>3, <2>4, <2>5, <2>6 DEF CallInv
<1>30. ASSUME UNCHANGED restVars PROVE CallInv'
  <2>1. ArmedOK'
    BY <1>30, <1>0 DEF restVars, CallInv, TypeInv, CallOK, RegOK, SleepOK, ArmedOK, Armed, Timer
  <2>2. OwnerOK'
    BY <1>30, <1>0 DEF restVars, CallInv, TypeInv, CallOK, RegOK, ArmedOK, OwnerOK, Alive, InCall,
       Armed, Timer
  <2>3. LateOK'
    BY <1>30, <1>0 DEF restVars, CallInv, TypeInv, CallOK, RegOK, ArmedOK, OwnerOK, LateOK, Alive,
       InCall, Armed, Timer
  <2>4. BeginOK'
    BY <1>30, <1>0 DEF restVars, CallInv, TypeInv, CallOK, RegOK, SleepOK, FileOK, BeginOK, IoPc,
       Io
  <2>5. HookOK'
    BY <1>30, <1>0 DEF restVars, CallInv, TypeInv, CallOK, RegOK, SleepOK, HookOK, NoCtx
  <2>6. OnlyOK'
    BY <1>30, OnlyKept DEF restVars, CallInv, InCall
  <2> QED
    BY <2>1, <2>2, <2>3, <2>4, <2>5, <2>6 DEF CallInv
<1> QED
  BY <1>1, <1>2, <1>3, <1>4, <1>5, <1>6, <1>7, <1>8, <1>9, <1>10, <1>11, <1>12, <1>13, <1>14,
     <1>15, <1>16, <1>17, <1>18, <1>19, <1>20, <1>21, <1>22, <1>23, <1>24, <1>25, <1>26, <1>27,
     <1>28, <1>29, <1>30, Endings
  DEF Next, UserStep, CallStep, TimerStep, Halted


-----------------------------------------------------------------------------
(* One thread: nothing comes between the steps of a fiber                  *)

FewTimers == IsFiniteSet(timers)

LEMMA FewTimersStep ==
    ASSUME FewTimers, TypesOK, [Next]_vars
    PROVE  FewTimers'
<1> USE DEF poolVars, kernelVars, fiberVars
<1>1. ASSUME NEW x, timers' \subseteq timers \cup {x} PROVE FewTimers'
  BY <1>1, FS_AddElement, FS_Subset DEF FewTimers
<1>2. ASSUME timers' \subseteq timers PROVE FewTimers'
  BY <1>2, FS_Subset DEF FewTimers
<1>3. ASSUME NEW f \in Fibers, CallStep(f) PROVE FewTimers'
  <2>1. CASE AddTimer(f)
    BY <2>1, <1>1 DEF AddTimer
  <2>2. CASE ~AddTimer(f)
    <3>1. timers' \subseteq timers
      BY <1>3, <2>2 DEF CallStep, Obtain, Adopt, Again, Dial, Dialled, Refuse, AddEvent, AddEventFails,
         AddEventAborts, restVars, Resume, Check, CancelAll, Del, CloseF
    <3> QED
      BY <3>1, <1>2
  <2> QED
    BY <2>1, <2>2
<1>4. ASSUME NEW f \in Fibers, UserStep(f) PROVE FewTimers'
  <2>1. CASE \E fd \in Fds : CallSleep(f, fd)
    BY <2>1, <1>1 DEF CallSleep
  <2>2. CASE ~\E fd \in Fds : CallSleep(f, fd)
    <3>1. timers' = timers
      BY <1>4, <2>2 DEF UserStep, Start, Finish, CallIo, CallConnect, CallSocket, CallClose,
         SetTimeout, SetFlags, SetFionbio
    <3> QED
      BY <3>1, <1>2
  <2> QED
    BY <2>1, <2>2
<1>5. ASSUME NEW f \in Fibers, TimerStep(f) PROVE FewTimers'
  <2>1. PICK t \in timers : Collect(t) \/ Fire(t) \/ CancelEvent(t)
    BY <1>5 DEF TimerStep
  <2>2. CASE Collect(t)
    BY <2>2, <1>1 DEF Collect
  <2>3. CASE Fire(t)
    BY <2>3, <1>1 DEF Fire
  <2>4. CASE CancelEvent(t)
    BY <2>4, <1>2 DEF CancelEvent
  <2> QED
    BY <2>1, <2>2, <2>3, <2>4
<1>6. CASE UNCHANGED timers
  BY <1>6 DEF FewTimers
<1> QED
  BY <1>3, <1>4, <1>5, <1>6 DEF Next, Ready, Arrive, Establish, Halted, vars

\* The thread is in no callback, and in no other fiber.
Quiet(f) ==
    /\ \A g \in Fibers \ {f} : pc[g] \notin OnThread
    /\ \A t \in timers : t.stage # "cancel"

LEMMA Exclusive ==
    ASSUME OneBusy, NEW f \in Fibers, pc[f] \in OnThread
    PROVE  Quiet(f)
  BY DEF OneBusy, Quiet

\* The only thread is free.
LEMMA IdleThread ==
    ASSUME threads = 1, FewTimers, ThreadFree
    PROVE  /\ \A f \in Fibers : pc[f] \notin OnThread
           /\ \A t \in timers : t.stage # "cancel"
<1> DEFINE A == {f \in Fibers : pc[f] \in OnThread}
           B == {t \in timers : t.stage = "cancel"}
<1>1. IsFiniteSet(A) /\ IsFiniteSet(B)
  BY HookAssumption, FS_Subset DEF FewTimers
<1>2. Cardinality(A) \in Nat /\ Cardinality(B) \in Nat /\ Cardinality(A) + Cardinality(B) < 1
  BY <1>1, FS_CardinalityType DEF ThreadFree, Busy
<1>3. Cardinality(A) = 0 /\ Cardinality(B) = 0
  BY <1>2
<1>4. A = {} /\ B = {}
  BY <1>1, <1>3, FS_EmptySet
<1> QED
  BY <1>4

\* A descriptor has no registration of an earlier file.
LEMMA AlwaysWatched == ASSUME FreshRegs PROVE \A fd \in Fds : Watched(fd)
  BY DEF FreshRegs, Watched, Events

\* A fiber moves while the thread is in no other one: what has to hold of it.
LEMMA BusyMoves ==
    ASSUME NEW f \in Fibers, Quiet(f), \A g \in Fibers \ {f} : pc'[g] = pc[g] \/ pc'[g] = "woken",
           \A t \in timers' : t \in timers \/ t.stage = "armed"
    PROVE  OneBusy'
  BY DEF Quiet, OneBusy, OnThread

LEMMA TimedMoves ==
    ASSUME Timed, NEW f \in Fibers, Quiet(f), \A g \in Fibers \ {f} : pc'[g] = pc[g] \/ pc'[g] = "woken",
           \A g \in Fibers \ {f} : call'[g] = call[g] /\ calls'[g] = calls[g] /\ cancelled'[g] = cancelled[g],
           \A t \in timers : t.owner # f => t \in timers',
           pc'[f] \in {"try", "timer", "add", "check", "hold"} => ~cancelled'[f],
           pc'[f] \in {"add", "hold"} /\ call'[f].timed =>
              \E t \in timers' : t.owner = f /\ t.call = calls'[f] /\ t.stage # "cancel"
    PROVE  Timed'
<1>1. \A g \in Fibers : pc[g] = "hold" => ~cancelled[g]
  BY DEF Timed, Quiet
<1> QED
  BY <1>1 DEF Timed

LEMMA HeldMoves ==
    ASSUME HeldRegs, NEW f \in Fibers, \A g \in Fibers \ {f} : pc'[g] = pc[g] \/ pc'[g] = "woken",
           \A g \in Fibers \ {f} : call'[g] = call[g] /\ calls'[g] = calls[g],
           \A t \in timers : t.owner # f => t \in timers',
           \A e \in Fds \X Events : reg[e].who \in Fibers \ {f} =>
              pc'[reg[e].who] = "woken" \/ reg'[e].who = reg[e].who,
           \A g \in Fibers : call[g].fd \in Fds /\ EventOf(call[g].kind) \in Events,
           pc'[f] = "hold" =>
              \/ /\ call'[f].kind = "sleep"
                 /\ \E t \in timers' : t.owner = f /\ t.kind = "sleep" /\ t.call = calls'[f]
              \/ call'[f].kind \in Io /\ reg'[<<call'[f].fd, EventOf(call'[f].kind)>>].who = f
    PROVE  HeldRegs'
<1> SUFFICES ASSUME NEW g \in Fibers, pc'[g] = "hold", g # f
             PROVE  \/ /\ call[g].kind = "sleep"
                       /\ \E t \in timers' : t.owner = g /\ t.kind = "sleep" /\ t.call = calls[g]
                    \/ call[g].kind \in Io /\ reg'[<<call[g].fd, EventOf(call[g].kind)>>].who = g
  BY DEF HeldRegs
<1>1. pc[g] = "hold"
  OBVIOUS
<1>2. <<call[g].fd, EventOf(call[g].kind)>> \in Fds \X Events
  OBVIOUS
<1> QED
  BY <1>1, <1>2 DEF HeldRegs

\* The steps in which neither registrations nor files change, and after which the
\* fiber is not on hold.
LEMMA AloneKept ==
    ASSUME TypeInv, Alone, NEW f \in Fibers, Quiet(f), Moves(f), UNCHANGED <<reg, file, up>>,
           \A t \in timers' : t \in timers \/ t.stage = "armed",
           \A t \in timers : t.owner # f => t \in timers',
           pc[f] # "hold", pc'[f] # "hold",
           pc[f] \in {"del", "closef"} => pc'[f] \in {"del", "closef"} /\ call'[f] = call[f],
           pc'[f] \in {"del", "closef"} => \A e \in Fds \X Events : e[1] = call'[f].fd => reg[e] = NoReg,
           pc'[f] \in {"try", "timer", "add", "check"} => ~cancelled'[f],
           pc'[f] = "add" /\ call'[f].timed =>
              \E t \in timers' : t.owner = f /\ t.call = calls'[f] /\ t.stage # "cancel",
           pc'[f] \in {"woken", "check"} /\ call'[f].kind = "connect" /\ ~call'[f].shared
           /\ file[call'[f].fd] = call'[f].file =>
              up[call'[f].fd] \in {"up", "refused"}
    PROVE  Alone'
<1> USE DEF Alone
<1>1. OneBusy'
  BY BusyMoves DEF Moves
<1>2. FreshRegs'
  BY DEF FreshRegs, Moves
<1>3. HeldRegs'
  <2>1. \A g \in Fibers : call[g].fd \in Fds /\ EventOf(call[g].kind) \in Events
    BY TypeParts DEF TypeInv, TypesOK, FiberTypeOK, CallRecords, EventOf, Events
  <2> QED
    BY <2>1, HeldMoves DEF Moves
<1>4. Timed'
  BY TimedMoves DEF Moves
<1>5. Connected'
  <2> SUFFICES ASSUME NEW g \in Fibers, pc'[g] \in {"woken", "check"}, call'[g].kind = "connect",
                      ~cancelled'[g], ~call'[g].shared, file[call'[g].fd] = call'[g].file
               PROVE  \/ up[call'[g].fd] \in {"up", "refused"}
                      \/ \E h \in Fibers : pc'[h] \in {"del", "closef"} /\ call'[h].fd = call'[g].fd
    BY DEF Connected
  <2>1. CASE g = f
    BY <2>1
  <2>2. CASE g # f
    <3>1. /\ pc'[g] = pc[g] /\ call'[g] = call[g] /\ cancelled'[g] = cancelled[g]
          /\ \A h \in Fibers \ {f} : pc'[h] = pc[h] /\ call'[h] = call[h]
      BY <2>2 DEF Moves
    <3>2. \/ up[call[g].fd] \in {"up", "refused"}
          \/ \E h \in Fibers : pc[h] \in {"del", "closef"} /\ call[h].fd = call[g].fd
      BY <3>1 DEF Connected
    <3> QED
      BY <3>1, <3>2
  <2> QED
    BY <2>1, <2>2
<1> QED
  BY <1>1, <1>2, <1>3, <1>4, <1>5

\* Nobody registers while the hook is off, and close() forgets the descriptor last.
LEMMA NoneLeft ==
    ASSUME TypeInv, CallInv, Alone, NEW f \in Fibers, NEW fd \in Fds, Known(fd), pc[f] = "user",
           ~hook \/ ~ctx[fd].here
    PROVE  \A e \in Fds \X Events : e[1] = fd => reg[e] = NoReg
<1>1. CASE ~hook
  <2> SUFFICES ASSUME NEW e \in Fds \X Events, reg[e] # NoReg PROVE FALSE
    OBVIOUS
  <2>1. pc[reg[e].who] = "hold" /\ reg[e].who \in Fibers
    BY DEF Alone, FreshRegs, TypeInv, RegOK
  <2> QED
    BY <1>1, <2>1 DEF CallInv, HookOK
<1>2. CASE hook /\ ~ctx[fd].here
  <2>1. PICK g \in Fibers : pc[g] \in {"adopt", "closef"} /\ call[g].fd = fd
    BY <1>2 DEF CallInv, HookOK, Known
  <2>2. pc[g] = "closef" /\ g # f
    BY <2>1 DEF Known
  <2> QED
    BY <2>1, <2>2 DEF Alone, OneBusy, OnThread
<1> QED
  BY <1>1, <1>2

LEMMA AloneReturns ==
    ASSUME TypeInv, TypesOK', Alone, NEW f \in Fibers, NEW r, Quiet(f), Return(f, r), pc[f] # "hold",
           pc[f] \notin {"del", "closef"}, UNCHANGED <<reg, file, up>>, timers' \subseteq timers,
           \A t \in timers : t.owner # f => t \in timers'
    PROVE  Alone'
<1>1. pc'[f] = "user" /\ Moves(f)
  BY TypeParts DEF TypeInv, TypesOK, FiberTypeOK, Return, Goto, Moves
<1> QED
  BY <1>1, AloneKept

LEMMA AloneInstant ==
    ASSUME TypeInv, TypesOK', Alone, NEW f \in Fibers, NEW k, NEW r, AtOnce(f, k, r),
           UNCHANGED <<reg, file, up, timers>>
    PROVE  Alone'
<1>1. pc[f] = "user" /\ UNCHANGED <<pc, call, cancelled, late>> /\ Moves(f)
  BY TypeParts DEF TypeInv, TypesOK, FiberTypeOK, AtOnce, Moves
<1>2. Quiet(f)
  BY <1>1, Exclusive DEF Alone, OnThread
<1> QED
  BY <1>1, <1>2, AloneKept

LEMMA AloneBegins ==
    ASSUME TypeInv, TypesOK', CallInv, Alone, NEW f \in Fibers, NEW k, NEW fd \in Fds,
           NEW ours, NEW timed, NEW l \in {"try", "plain", "cancelAll", "closef"},
           Begin(f, k, fd, ours, timed, l), UNCHANGED <<reg, file, up, timers>>,
           l = "closef" => \A e \in Fds \X Events : e[1] = fd => reg[e] = NoReg
    PROVE  Alone'
<1>1. pc[f] = "user" /\ pc'[f] = l /\ call'[f].fd = fd /\ UNCHANGED <<cancelled, late>> /\ Moves(f)
  BY TypeParts DEF TypeInv, TypesOK, FiberTypeOK, Begin, Goto, Moves
<1>2. Quiet(f)
  BY <1>1, Exclusive DEF Alone, OnThread
<1>3. ~cancelled[f]
  BY <1>1 DEF CallInv, LateOK, InCall
<1> QED
  BY <1>1, <1>2, <1>3, AloneKept

LEMMA AloneKeeps ==
    ASSUME TypeInv, TypesOK', CallInv, Alone, NEW f \in Fibers, NEW l \in {"user", "done", "try", "timer", "add", "check", "kernel"},
           Keep(f, l), Quiet(f), UNCHANGED <<reg, file, up>>,
           \A t \in timers' : t \in timers \/ t.stage = "armed",
           \A t \in timers : t.owner # f => t \in timers',
           pc[f] \notin {"hold", "del", "closef"},
           l \in {"try", "timer", "add", "check"} => ~cancelled[f],
           l = "add" /\ call[f].timed =>
              \E t \in timers' : t.owner = f /\ t.call = calls[f] /\ t.stage # "cancel",
           l = "check" /\ call[f].kind = "connect" /\ ~call[f].shared /\ file[call[f].fd] = call[f].file =>
              up[call[f].fd] \in {"up", "refused"}
    PROVE  Alone'
<1>1. pc'[f] = l /\ UNCHANGED <<call, calls, cancelled, late>> /\ Moves(f)
  BY TypeParts DEF TypeInv, TypesOK, FiberTypeOK, Keep, Goto, Moves
<1> QED
  BY <1>1, AloneKept

LEMMA AloneCalls ==
    ASSUME TypeInv, TypesOK', CallInv, Alone, threads = 1, FewTimers, NEW f \in Fibers,
           \/ Start(f) \/ Finish(f)
           \/ \E fd \in Fds :
               \/ \E k \in {"read", "accept"} : CallIo(f, k, fd)
               \/ CallConnect(f, fd) \/ CallClose(f, fd)
               \/ \E b \in BOOLEAN : SetTimeout(f, fd, b) \/ SetFlags(f, fd, b) \/ SetFionbio(f, fd, b)
    PROVE  Alone'
<1> USE DEF poolVars, kernelVars, fiberVars
<1>1. ASSUME Start(f) PROVE Alone'
  <2>1. Keep(f, "user") /\ pc[f] = "new" /\ UNCHANGED <<reg, file, up, timers>>
    BY <1>1 DEF Start
  <2>2. Quiet(f)
    BY <1>1, IdleThread DEF Start, Quiet
  <2> QED
    BY <2>1, <2>2, AloneKeeps
<1>2. ASSUME Finish(f) PROVE Alone'
  <2>1. Keep(f, "done") /\ pc[f] = "user" /\ UNCHANGED <<reg, file, up, timers>>
    BY <1>2 DEF Finish
  <2>2. Quiet(f)
    BY <2>1, Exclusive DEF Alone, OnThread
  <2> QED
    BY <2>1, <2>2, AloneKeeps
<1>3. ASSUME NEW fd \in Fds, NEW k \in {"read", "accept"}, CallIo(f, k, fd) PROVE Alone'
  <2> DEFINE ours == hook /\ ctx[fd].here /\ ~ctx[fd].user
  <2>1. /\ Begin(f, k, fd, ours, ours /\ ctx[fd].timed, IF ours THEN "try" ELSE "plain")
        /\ UNCHANGED <<reg, file, up, timers>>
    BY <1>3 DEF CallIo
  <2>2. (IF ours THEN "try" ELSE "plain") \in {"try", "plain", "cancelAll", "closef"}
        /\ (IF ours THEN "try" ELSE "plain") # "closef"
    OBVIOUS
  <2> HIDE DEF ours
  <2> QED
    BY <2>1, <2>2, AloneBegins
<1>4. ASSUME NEW fd \in Fds, CallConnect(f, fd) PROVE Alone'
  <2> DEFINE ours == hook /\ ctx[fd].here /\ ~ctx[fd].user
             l == IF ours THEN "try" ELSE "plain"
  <2>1. /\ Begin(f, "connect", fd, ours, ours, l) \/ AtOnce(f, "connect", "badf")
        /\ UNCHANGED <<reg, file, up, timers>>
    BY <1>4 DEF CallConnect
  <2>2. l \in {"try", "plain", "cancelAll", "closef"} /\ l # "closef"
    OBVIOUS
  <2> HIDE DEF ours, l
  <2>3. CASE Begin(f, "connect", fd, ours, ours, l)
    BY <2>1, <2>2, <2>3, AloneBegins
  <2>4. CASE AtOnce(f, "connect", "badf")
    BY <2>1, <2>4, AloneInstant
  <2> QED
    BY <2>1, <2>3, <2>4
<1>5. ASSUME NEW fd \in Fds, CallClose(f, fd) PROVE Alone'
  <2>1. UNCHANGED <<reg, file, up, timers>> /\ Known(fd)
    BY <1>5 DEF CallClose
  <2>2. CASE Begin(f, "close", fd, FALSE, FALSE, "cancelAll")
    BY <2>1, <2>2, AloneBegins
  <2>3. CASE (~hook \/ ~ctx[fd].here) /\ Begin(f, "close", fd, FALSE, FALSE, "closef")
    <3>1. pc[f] = "user"
      BY <2>3 DEF Begin
    <3>2. \A e \in Fds \X Events : e[1] = fd => reg[e] = NoReg
      BY <2>1, <2>3, <3>1, NoneLeft
    <3> QED
      BY <2>1, <2>3, <3>2, AloneBegins
  <2> QED
    BY <1>5, <2>2, <2>3 DEF CallClose
<1>6. ASSUME NEW fd \in Fds, NEW b \in BOOLEAN, SetTimeout(f, fd, b) \/ SetFlags(f, fd, b) \/ SetFionbio(f, fd, b)
      PROVE  Alone'
  <2>1. AtOnce(f, "option", "ok") /\ UNCHANGED <<reg, file, up, timers>>
    BY <1>6 DEF SetTimeout, SetFlags, SetFionbio
  <2> QED
    BY <2>1, AloneInstant
<1> QED
  BY <1>1, <1>2, <1>3, <1>4, <1>5, <1>6

LEMMA AloneTries ==
    ASSUME TypeInv, TypesOK', CallInv, Alone, threads = 1, FewTimers, NEW f \in Fibers,
           \/ Adopt(f) \/ Again(f) \/ Dialled(f) \/ Refuse(f) \/ Check(f) \/ Del(f)
           \/ AddTimer(f) \/ AddEventFails(f) \/ Resume(f)
    PROVE  Alone'
<1> USE DEF poolVars, kernelVars, fiberVars
<1>0. TypesOK
  BY TypeParts DEF TypeInv
<1>1. pc[f] \in OnThread => Quiet(f) /\ pc[f] # "hold"
  BY Exclusive DEF Alone, OnThread
<1>2. ASSUME Adopt(f) \/ Dialled(f) \/ Refuse(f) \/ Check(f) PROVE Alone'
  <2>1. PICK r : Return(f, r)
    BY <1>2 DEF Adopt, Dialled, Refuse, Check
  <2>2. pc[f] \in {"adopt", "kernel", "try", "plain", "check"} /\ UNCHANGED <<reg, file, up, timers>>
    BY <1>2 DEF Adopt, Dialled, Refuse, Check
  <2> QED
    BY <1>1, <2>1, <2>2, AloneReturns DEF OnThread
<1>3. ASSUME Again(f) PROVE Alone'
  <2>1. pc[f] \in {"try", "plain"} /\ UNCHANGED <<reg, file, up, timers>>
    BY <1>3 DEF Again
  <2>2. CASE Return(f, "again")
    BY <1>1, <2>1, <2>2, AloneReturns DEF OnThread
  <2>3. CASE pc[f] = "try" /\ Keep(f, IF call[f].timed THEN "timer" ELSE "add")
    <3>1. ~cancelled[f]
      BY <2>3 DEF Alone, Timed
    <3>2. CASE call[f].timed
      BY <1>1, <2>1, <2>3, <3>1, <3>2, AloneKeeps DEF OnThread
    <3>3. CASE ~call[f].timed
      BY <1>1, <2>1, <2>3, <3>1, <3>3, AloneKeeps DEF OnThread
    <3> QED
      BY <3>2, <3>3
  <2> QED
    BY <1>3, <2>2, <2>3 DEF Again
<1>4. ASSUME Del(f) PROVE Alone'
  <2>1. /\ pc[f] = "del" /\ pc'[f] = "closef" /\ UNCHANGED <<reg, file, up, timers, call, calls, cancelled, late>>
        /\ Moves(f)
    BY <1>4, <1>0 DEF Del, Keep, Goto, Moves, TypesOK, FiberTypeOK
  <2>2. \A e \in Fds \X Events : e[1] = call[f].fd => reg[e] = NoReg
    BY <2>1 DEF Alone, FreshRegs
  <2> QED
    BY <1>1, <2>1, <2>2, AloneKept DEF OnThread
<1>5. ASSUME AddTimer(f) PROVE Alone'
  <2>1. pc[f] = "timer" /\ Keep(f, "add") /\ timers' = timers \cup {Armed(f)} /\ UNCHANGED <<reg, file, up>>
    BY <1>5 DEF AddTimer
  <2>2. Armed(f).owner = f /\ Armed(f).call = calls[f] /\ Armed(f).stage = "armed"
    BY DEF Armed, Timer
  <2>3. ~cancelled[f]
    BY <2>1 DEF Alone, Timed
  <2> QED
    BY <1>1, <2>1, <2>2, <2>3, AloneKeeps DEF OnThread
<1>6. ASSUME AddEventFails(f) PROVE Alone'
  <2>1. /\ pc[f] = "add" /\ timers' = timers \ {Armed(f)} /\ UNCHANGED <<reg, file, up>>
        /\ (Keep(f, "check") /\ call[f].kind = "connect") \/ Return(f, "error")
        /\ file[call[f].fd] = 0
    <3>1. Watched(call[f].fd)
      BY <1>0, AlwaysWatched DEF Alone, TypesOK, FiberTypeOK, CallRecords
    <3> QED
      BY <1>6, <3>1 DEF AddEventFails
  <2>2. Armed(f).owner = f
    BY DEF Armed, Timer
  <2>3. CASE Return(f, "error")
    BY <1>1, <2>1, <2>2, <2>3, AloneReturns DEF OnThread
  <2>4. CASE Keep(f, "check") /\ call[f].kind = "connect"
    <3>1. ~cancelled[f] /\ call[f].file # 0
      BY <2>1, <2>4 DEF Alone, Timed, CallInv, BeginOK, IoPc, Io
    <3> QED
      BY <1>1, <2>1, <2>2, <2>4, <3>1, AloneKeeps DEF OnThread
  <2> QED
    BY <2>1, <2>3, <2>4
<1>7. ASSUME Resume(f) PROVE Alone'
  <2>1. pc[f] = "woken" /\ timers' = timers \ {Armed(f)} /\ UNCHANGED <<reg, file, up>> /\ Quiet(f)
    BY <1>7, IdleThread DEF Resume, Quiet
  <2>2. Armed(f).owner = f
    BY DEF Armed, Timer
  <2>3. ASSUME NEW r, Return(f, r) PROVE Alone'
    BY <2>1, <2>2, <2>3, AloneReturns
  <2>4. CASE Keep(f, "try") /\ ~cancelled[f]
    BY <2>1, <2>2, <2>4, AloneKeeps
  <2>5. CASE call[f].kind = "connect" /\ ~cancelled[f] /\ Keep(f, "check")
    <3>1. ~call[f].shared /\ file[call[f].fd] = call[f].file => up[call[f].fd] \in {"up", "refused"}
      BY <2>1, <2>5 DEF Alone, Connected, Quiet, OnThread
    <3> QED
      BY <2>1, <2>2, <2>5, <3>1, AloneKeeps
  <2> QED
    BY <1>7, <2>3, <2>4, <2>5 DEF Resume
<1> QED
  BY <1>2, <1>3, <1>4, <1>5, <1>6, <1>7

\* The steps that open or close a file, dial, or go to sleep.
LEMMA AloneMoved ==
    ASSUME TypeInv, CallInv, Alone, NEW f \in Fibers, pc[f] \in OnThread, Moves(f), UNCHANGED reg,
           \A t \in timers' : t \in timers \/ t.stage = "armed", timers \subseteq timers',
           pc'[f] \in {"user", "kernel", "timer", "adopt", "hold"},
           pc'[f] \in {"timer", "hold"} => ~cancelled'[f],
           pc'[f] = "hold" => /\ call'[f].kind = "sleep"
                              /\ \E t \in timers' : t.owner = f /\ t.kind = "sleep" /\ t.call = calls'[f]
                                                    /\ t.stage # "cancel",
           \A e \in Fds \X Events : reg[e] # NoReg => file'[e[1]] = file[e[1]],
           \A g \in Fibers \ {f} :
              pc[g] = "woken" /\ call[g].kind = "connect" /\ file'[call[g].fd] = call[g].file =>
                 /\ file[call[g].fd] = call[g].file
                 /\ up[call[g].fd] \in {"up", "refused"} => up'[call[g].fd] \in {"up", "refused"}
                 /\ pc[f] \in {"del", "closef"} => call[f].fd # call[g].fd
    PROVE  Alone'
<1> USE DEF Alone
<1>0. Quiet(f)
  BY Exclusive
<1>1. OneBusy'
  BY <1>0, BusyMoves DEF Moves
<1>2. FreshRegs'
  BY DEF FreshRegs, Moves
<1>3. HeldRegs'
  <2>1. \A g \in Fibers : call[g].fd \in Fds /\ EventOf(call[g].kind) \in Events
    BY TypeParts DEF TypeInv, TypesOK, FiberTypeOK, CallRecords, EventOf, Events
  <2> QED
    BY <2>1, HeldMoves DEF Moves
<1>4. Timed'
  BY <1>0, TimedMoves DEF Moves
<1>5. Connected'
  <2> SUFFICES ASSUME NEW g \in Fibers, pc'[g] \in {"woken", "check"}, call'[g].kind = "connect",
                      ~cancelled'[g], ~call'[g].shared, file'[call'[g].fd] = call'[g].file
               PROVE  up'[call'[g].fd] \in {"up", "refused"}
    BY DEF Connected
  <2>1. g # f /\ pc'[g] = pc[g] /\ call'[g] = call[g] /\ cancelled'[g] = cancelled[g]
    BY DEF Moves
  <2>2. pc[g] = "woken"
    BY <1>0, <2>1 DEF Quiet, OnThread
  <2>3. \/ up[call[g].fd] \in {"up", "refused"}
        \/ \E h \in Fibers : pc[h] \in {"del", "closef"} /\ call[h].fd = call[g].fd
    BY <2>1, <2>2 DEF Connected
  <2>4. \A h \in Fibers : pc[h] \in {"del", "closef"} => h = f
    BY <1>0 DEF Quiet, OnThread
  <2> QED
    BY <2>1, <2>2, <2>3, <2>4
<1> QED
  BY <1>1, <1>2, <1>3, <1>4, <1>5

\* A call of another fiber that waits is a call on a file that was opened before.
LEMMA WaitsOn ==
    ASSUME TypesOK, CallInv, NEW g \in Fibers, pc[g] = "woken", call[g].kind = "connect"
    PROVE  call[g].file # 0 /\ call[g].file <= opened[call[g].fd] /\ call[g].file \in Nat
           /\ call[g].fd \in Fds
  BY DEF CallInv, BeginOK, IoPc, Io, TypesOK, FiberTypeOK, CallRecords

LEMMA AloneFiles ==
    ASSUME TypeInv, TypesOK', CallInv, Alone, threads = 1, NEW f \in Fibers,
           Dial(f) \/ Obtain(f) \/ CloseF(f) \/ \E fd \in Fds : CallSocket(f, fd) \/ CallSleep(f, fd)
    PROVE  Alone'
<1> USE HookAssumption DEF poolVars, kernelVars, fiberVars
<1>0. TypesOK
  BY TypeParts DEF TypeInv
<1>t. pc \in [Fibers -> Pcs] /\ call \in [Fibers -> CallRecords] /\ calls \in [Fibers -> 0 .. MaxCalls]
      /\ cancelled \in [Fibers -> BOOLEAN] /\ late \in [Fibers -> BOOLEAN]
      /\ file \in [Fds -> 0 .. MaxOpen] /\ opened \in [Fds -> 0 .. MaxOpen]
      /\ up \in [Fds -> {"idle", "progress", "up", "refused"}]
  BY <1>0 DEF TypesOK, FiberTypeOK, KernelTypeOK
<1>1. ASSUME Dial(f) PROVE Alone'
  <2> DEFINE fd == call[f].fd
  <2>1. /\ pc[f] \in {"try", "plain"} /\ UNCHANGED <<reg, file, timers>> /\ up[fd] = "idle"
        /\ up' = [up EXCEPT ![fd] = "progress"] /\ fd \in Fds
        /\ Keep(f, "kernel") \/ Return(f, "again") \/ (pc[f] = "try" /\ Keep(f, "timer"))
    BY <1>1, <1>t DEF Dial, CallRecords
  <2>2. /\ pc'[f] \in {"user", "kernel", "timer"} /\ Moves(f)
        /\ pc'[f] = "timer" => pc[f] = "try" /\ cancelled'[f] = cancelled[f]
    BY <2>1, <1>t DEF Keep, Return, Goto, Moves
  <2>3. pc'[f] = "timer" => ~cancelled'[f]
    BY <2>2 DEF Alone, Timed
  <2>4. \A d \in Fds : up[d] \in {"up", "refused"} => up'[d] \in {"up", "refused"}
    BY <2>1, <1>t
  <2>5. \A g \in Fibers : call[g].fd \in Fds
    BY <1>t DEF CallRecords
  <2> HIDE DEF fd
  <2> QED
    BY <2>1, <2>2, <2>3, <2>4, <2>5, AloneMoved DEF OnThread
<1>2. ASSUME Obtain(f) PROVE Alone'
  <2>1. pc[f] \in {"try", "plain"} /\ UNCHANGED <<reg, timers>>
    BY <1>2 DEF Obtain
  <2>2. CASE Return(f, "data") /\ UNCHANGED <<file, up>>
    <3>1. Quiet(f)
      BY <2>1, Exclusive DEF Alone, OnThread
    <3> QED
      BY <2>1, <2>2, <3>1, AloneReturns
  <2>3. CASE ~(Return(f, "data") /\ UNCHANGED <<file, up>>)
    <3>1. PICK new \in Fds :
             /\ file[new] = 0 /\ file' = [file EXCEPT ![new] = opened[new] + 1]
             /\ up' = [up EXCEPT ![new] = "up"]
             /\ call' = [call EXCEPT ![f].fd = new] /\ Goto(f, "adopt")
             /\ UNCHANGED <<calls, cancelled, late>>
      BY <1>2, <2>3 DEF Obtain, Lowest
    <3>2. pc'[f] = "adopt" /\ Moves(f)
      BY <3>1, <1>t DEF Goto, Moves
    <3>3. \A e \in Fds \X Events : reg[e] # NoReg => file'[e[1]] = file[e[1]]
      BY <3>1, <1>t DEF Alone, FreshRegs
    <3>4. ASSUME NEW g \in Fibers, pc[g] = "woken", call[g].kind = "connect", file'[call[g].fd] = call[g].file
          PROVE  file[call[g].fd] = call[g].file /\ up'[call[g].fd] = up[call[g].fd]
      BY <3>1, <3>4, <1>0, <1>t, WaitsOn
    <3> QED
      BY <2>1, <3>2, <3>3, <3>4, AloneMoved DEF OnThread
  <2> QED
    BY <2>2, <2>3
<1>3. ASSUME CloseF(f) PROVE Alone'
  <2> DEFINE fd == call[f].fd
  <2>1. /\ pc[f] = "closef" /\ UNCHANGED <<reg, timers>> /\ fd \in Fds
        /\ file' = [file EXCEPT ![fd] = 0] /\ up' = [up EXCEPT ![fd] = "idle"] /\ Return(f, "ok")
    BY <1>3, <1>t DEF CloseF, CallRecords
  <2>2. pc'[f] = "user" /\ Moves(f)
    BY <2>1, <1>t DEF Return, Goto, Moves
  <2>3. \A e \in Fds \X Events : reg[e] # NoReg => file'[e[1]] = file[e[1]]
    BY <2>1, <1>t DEF Alone, FreshRegs
  <2>4. ASSUME NEW g \in Fibers, pc[g] = "woken", call[g].kind = "connect", file'[call[g].fd] = call[g].file
        PROVE  /\ file[call[g].fd] = call[g].file /\ up'[call[g].fd] = up[call[g].fd] /\ fd # call[g].fd
    BY <2>1, <2>4, <1>0, <1>t, WaitsOn
  <2> HIDE DEF fd
  <2>5. \A g \in Fibers : pc[g] = "woken" /\ call[g].kind = "connect" /\ file'[call[g].fd] = call[g].file
           => call[f].fd # call[g].fd
    BY <2>4 DEF fd
  <2> QED
    BY <2>1, <2>2, <2>3, <2>4, <2>5, AloneMoved DEF OnThread
<1>4. ASSUME NEW fd \in Fds, CallSocket(f, fd) PROVE Alone'
  <2>1. /\ file[fd] = 0 /\ file' = [file EXCEPT ![fd] = opened[fd] + 1]
        /\ up' = [up EXCEPT ![fd] = "idle"] /\ UNCHANGED <<reg, timers>>
        /\ Begin(f, "socket", fd, FALSE, FALSE, "adopt") \/ AtOnce(f, "socket", "ok")
    BY <1>4 DEF CallSocket, Lowest
  <2>2. pc[f] = "user" /\ pc'[f] \in {"adopt", "user"} /\ Moves(f)
    BY <2>1, <1>t DEF Begin, AtOnce, Goto, Moves
  <2>3. \A e \in Fds \X Events : reg[e] # NoReg => file'[e[1]] = file[e[1]]
    BY <2>1, <1>t DEF Alone, FreshRegs
  <2>4. ASSUME NEW g \in Fibers, pc[g] = "woken", call[g].kind = "connect", file'[call[g].fd] = call[g].file
        PROVE  file[call[g].fd] = call[g].file /\ up'[call[g].fd] = up[call[g].fd]
    BY <2>1, <2>4, <1>0, <1>t, WaitsOn
  <2> QED
    BY <2>1, <2>2, <2>3, <2>4, AloneMoved DEF OnThread
<1>5. ASSUME NEW fd \in Fds, CallSleep(f, fd) PROVE Alone'
  <2> DEFINE n == [owner |-> f, call |-> calls[f] + 1, kind |-> "sleep", fd |-> fd, stage |-> "armed"]
  <2>1. Begin(f, "sleep", fd, FALSE, TRUE, "hold") /\ timers' = timers \cup {n} /\ UNCHANGED <<reg, file, up>>
    BY <1>5 DEF CallSleep
  <2>2. n.owner = f /\ n.call = calls[f] + 1 /\ n.kind = "sleep" /\ n.stage = "armed" /\ n \in timers'
    BY <2>1
  <2> HIDE DEF n
  <2>3. /\ pc[f] = "user" /\ pc'[f] = "hold" /\ call'[f].kind = "sleep" /\ calls'[f] = calls[f] + 1
        /\ cancelled'[f] = cancelled[f] /\ Moves(f)
    BY <2>1, <1>t DEF Begin, Goto, Moves
  <2>4. ~cancelled'[f]
    BY <2>3 DEF CallInv, LateOK, InCall
  <2> QED
    BY <2>1, <2>2, <2>3, <2>4, AloneMoved DEF OnThread
<1> QED
  BY <1>1, <1>2, <1>3, <1>4, <1>5

LEMMA AloneRegisters ==
    ASSUME TypeInv, TypesOK', CallInv, Alone, NEW f \in Fibers, AddEvent(f)
    PROVE  Alone'
<1> USE DEF Alone
<1> DEFINE fd == call[f].fd
           e == <<fd, EventOf(call[f].kind)>>
           n == [who |-> f, file |-> file[fd]]
<1>0. TypesOK
  BY TypeParts DEF TypeInv
<1>1. /\ pc[f] = "add" /\ reg[e] = NoReg /\ file[fd] # 0 /\ fd \in Fds /\ e \in Fds \X Events
      /\ reg' = [reg EXCEPT ![e] = n] /\ UNCHANGED <<file, up, timers>> /\ Keep(f, "hold")
  BY <1>0 DEF AddEvent, TypesOK, FiberTypeOK, CallRecords, EventOf, Events, kernelVars
<1>2. n.who = f /\ n.file = file[fd] /\ e[1] = fd
  OBVIOUS
<1>3. reg' = [r \in Fds \X Events |-> IF r = e THEN n ELSE reg[r]]
  BY <1>0, <1>1 DEF TypesOK, RegTypeOK
<1>4. call[f].kind \in Io /\ EventOf(call[f].kind) = e[2]
  BY <1>1 DEF TypeInv, CallOK
<1> HIDE DEF n
<1>5. Quiet(f) /\ ~cancelled[f]
  BY <1>1, Exclusive DEF OnThread, Timed
<1>6. pc'[f] = "hold" /\ UNCHANGED <<call, calls, cancelled, late>> /\ Moves(f)
  BY <1>0, <1>1 DEF Keep, Goto, Moves, TypesOK, FiberTypeOK
<1>7. reg[e].who \notin Fibers
  BY <1>1, HookAssumption DEF NoReg
<1>8. OneBusy'
  BY <1>1, <1>5, <1>6, BusyMoves DEF Moves
<1>9. FreshRegs'
  <2> SUFFICES ASSUME NEW r \in Fds \X Events, reg'[r] # NoReg
               PROVE  /\ reg'[r].who \in Fibers /\ reg'[r].file = file[r[1]] /\ file[r[1]] # 0
                      /\ \A g \in Fibers : pc'[g] \in {"del", "closef"} => call[g].fd # r[1]
    BY <1>1, <1>6 DEF FreshRegs
  <2>1. CASE r = e
    BY <1>1, <1>2, <1>3, <1>5, <1>6, <2>1 DEF Quiet, OnThread, Moves
  <2>2. CASE r # e
    BY <1>1, <1>3, <1>6, <2>2 DEF FreshRegs, Moves
  <2> QED
    BY <2>1, <2>2
<1>10. HeldRegs'
  <2>1. \A r \in Fds \X Events : reg[r].who \in Fibers => reg'[r].who = reg[r].who
    BY <1>3, <1>7
  <2>2. \A g \in Fibers : call[g].fd \in Fds /\ EventOf(call[g].kind) \in Events
    BY <1>0 DEF TypesOK, FiberTypeOK, CallRecords, EventOf, Events
  <2>3. reg'[e].who = f
    BY <1>1, <1>2, <1>3
  <2> QED
    BY <1>1, <1>4, <1>6, <2>1, <2>2, <2>3, HeldMoves DEF Moves
<1>11. Timed'
  <2>1. call[f].timed => \E t \in timers : t.owner = f /\ t.call = calls[f] /\ t.stage # "cancel"
    BY <1>1, <1>5 DEF Timed
  <2> QED
    BY <1>1, <1>5, <1>6, <2>1, TimedMoves DEF Moves
<1>12. Connected'
  BY <1>1, <1>5, <1>6 DEF Connected, Moves, Quiet, OnThread
<1> QED
  BY <1>8, <1>9, <1>10, <1>11, <1>12

LEMMA AloneCancelAll ==
    ASSUME TypeInv, TypesOK', CallInv, Alone, NEW f \in Fibers, CancelAll(f)
    PROVE  Alone'
<1> USE DEF Alone
<1> DEFINE fd == call[f].fd
           S == {e \in Fds \X Events : e[1] = fd /\ reg[e] # NoReg}
<1>0. TypesOK
  BY TypeParts DEF TypeInv
<1>1. /\ pc[f] = "cancelAll" /\ fd \in Fds /\ call[f].kind = "close"
      /\ UNCHANGED <<file, up, timers, call, calls, cancelled, late>>
      /\ \A e \in Fds \X Events : reg'[e] = IF e[1] = fd THEN NoReg ELSE reg[e]
      /\ pc' = [g \in Fibers |-> IF g = f THEN "del" ELSE IF \E e \in S : reg[e].who = g THEN "woken" ELSE pc[g]]
  <2>1. Watched(fd) /\ fd \in Fds
    BY <1>0, AlwaysWatched DEF TypesOK, FiberTypeOK, CallRecords
  <2>2. reg \in [Fds \X Events -> [who : Fibers \cup {NoFiber}, file : 0 .. MaxOpen]]
    BY <1>0 DEF TypesOK, RegTypeOK
  <2>3. pc[f] = "cancelAll" /\ call[f].kind = "close"
    BY DEF CancelAll, TypeInv, CallOK, ClosePc
  <2> QED
    BY <2>1, <2>2, <2>3 DEF CancelAll, kernelVars
<1>2. Quiet(f) /\ pc'[f] = "del"
  BY <1>1, Exclusive DEF OnThread
<1>3. \A g \in Fibers \ {f} : \/ pc'[g] = pc[g]
                              \/ /\ pc'[g] = "woken" /\ pc[g] = "hold" /\ call[g].fd = fd /\ call[g].kind \in Io
  <2> SUFFICES ASSUME NEW g \in Fibers \ {f}, NEW e \in S, reg[e].who = g
               PROVE  pc[g] = "hold" /\ call[g].fd = fd /\ call[g].kind \in Io
    BY <1>1
  <2> QED
    BY DEF TypeInv, RegOK
<1>4. OneBusy'
  BY <1>1, <1>2, <1>3, BusyMoves
<1>5. FreshRegs'
  <2> SUFFICES ASSUME NEW r \in Fds \X Events, reg'[r] # NoReg
               PROVE  /\ reg'[r].who \in Fibers /\ reg'[r].file = file[r[1]] /\ file[r[1]] # 0
                      /\ \A g \in Fibers : pc'[g] \in {"del", "closef"} => call[g].fd # r[1]
    BY <1>1 DEF FreshRegs
  <2>1. r[1] # fd /\ reg'[r] = reg[r]
    BY <1>1
  <2>2. \A g \in Fibers \ {f} : pc'[g] \notin {"del", "closef"}
    BY <1>2, <1>3 DEF Quiet, OnThread
  <2> QED
    BY <2>1, <2>2 DEF FreshRegs
<1>6. HeldRegs'
  <2>1. ASSUME NEW r \in Fds \X Events, reg[r].who \in Fibers \ {f}
        PROVE  pc'[reg[r].who] = "woken" \/ reg'[r].who = reg[r].who
    <3>1. CASE r[1] = fd
      <4>1. r \in S
        BY <2>1, <3>1, HookAssumption DEF NoReg
      <4> QED
        BY <1>1, <2>1, <4>1
    <3>2. CASE r[1] # fd
      BY <1>1, <3>2
    <3> QED
      BY <3>1, <3>2
  <2>2. \A g \in Fibers : call[g].fd \in Fds /\ EventOf(call[g].kind) \in Events
    BY <1>0 DEF TypesOK, FiberTypeOK, CallRecords, EventOf, Events
  <2> QED
    BY <1>1, <1>2, <1>3, <2>1, <2>2, HeldMoves
<1>7. Timed'
  BY <1>1, <1>2, <1>3, TimedMoves
<1>8. Connected'
  <2> SUFFICES ASSUME NEW g \in Fibers, pc'[g] \in {"woken", "check"}, call[g].kind = "connect",
                      ~cancelled[g], ~call[g].shared, file[call[g].fd] = call[g].file
               PROVE  up[call[g].fd] \in {"up", "refused"} \/ call[g].fd = fd
    BY <1>1, <1>2 DEF Connected
  <2>1. g # f
    BY <1>2
  <2>2. CASE pc'[g] = pc[g]
    BY <1>1, <1>2, <2>1, <2>2 DEF Connected, Quiet, OnThread
  <2> QED
    BY <1>3, <2>1, <2>2
<1> QED
  BY <1>4, <1>5, <1>6, <1>7, <1>8

LEMMA AloneTimers ==
    ASSUME TypeInv, TypesOK', CallInv, Alone, threads = 1, FewTimers, NEW t \in timers,
           Collect(t) \/ Fire(t)
    PROVE  Alone'
<1> USE DEF Alone
<1> DEFINE c == [t EXCEPT !.stage = "collected"]
           k == [t EXCEPT !.stage = "cancel"]
<1>0. TypesOK
  BY TypeParts DEF TypeInv
<1>1. /\ \A g \in Fibers : pc[g] \notin OnThread
      /\ \A u \in timers : u.stage # "cancel"
      /\ UNCHANGED <<reg, file, up, call, calls>>
  BY IdleThread DEF Collect, Fire, kernelVars
<1>2. /\ c.owner = t.owner /\ c.call = t.call /\ c.kind = t.kind /\ c.fd = t.fd /\ c.stage = "collected"
      /\ k.owner = t.owner /\ k.call = t.call /\ k.kind = t.kind /\ k.fd = t.fd /\ k.stage = "cancel"
      /\ t.owner \in Fibers
  BY <1>0 DEF TypesOK, TimerTypeOK, TimerRecords
<1> HIDE DEF c, k
<1>3. ASSUME Collect(t) PROVE Alone'
  <2>1. timers' = (timers \ {t}) \cup {c} /\ UNCHANGED <<pc, cancelled>>
    BY <1>3 DEF Collect, c
  <2>2. OneBusy'
    BY <1>1, <1>2, <2>1 DEF OneBusy
  <2>3. FreshRegs'
    BY <1>1, <2>1 DEF FreshRegs
  <2>4. HeldRegs'
    BY <1>1, <1>2, <2>1 DEF HeldRegs
  <2>5. Timed'
    BY <1>1, <1>2, <2>1 DEF Timed
  <2>6. Connected'
    BY <1>1, <2>1 DEF Connected
  <2> QED
    BY <2>2, <2>3, <2>4, <2>5, <2>6
<1>4. ASSUME t.kind # "sleep", Alive(t), ~cancelled[t.owner],
             cancelled' = [cancelled EXCEPT ![t.owner] = TRUE], timers' = (timers \ {t}) \cup {k}, UNCHANGED pc
      PROVE  Alone'
  <2>1. /\ cancelled'[t.owner] /\ \A g \in Fibers \ {t.owner} : cancelled'[g] = cancelled[g]
    BY <1>0, <1>2, <1>4 DEF TypesOK, FiberTypeOK
  <2>2. OneBusy'
    <3>1. Alive(k)'
      BY <1>1, <1>2, <1>4 DEF Alive, InCall
    <3> QED
      BY <1>1, <1>2, <1>4, <2>1, <3>1 DEF OneBusy
  <2>3. FreshRegs'
    BY <1>1, <1>4 DEF FreshRegs
  <2>4. HeldRegs'
    BY <1>1, <1>2, <1>4 DEF HeldRegs
  <2>5. Timed'
    <3>1. \A g \in Fibers : pc[g] = "hold" => ~cancelled[g]
      BY <1>1 DEF Timed
    <3>2. \A u \in timers : u.owner # t.owner => u \in timers'
      BY <1>4
    <3>3. k \in timers'
      BY <1>4
    <3>4. \A g \in Fibers : pc[g] \notin {"try", "timer", "add", "check"}
      BY <1>1 DEF OnThread
    <3> QED
      BY <1>1, <1>2, <1>4, <2>1, <3>1, <3>2, <3>3, <3>4 DEF Timed
  <2>6. Connected'
    BY <1>1, <1>4, <2>1 DEF Connected
  <2> QED
    BY <2>2, <2>3, <2>4, <2>5, <2>6
<1>5. ASSUME t.kind # "sleep", ~Alive(t) \/ cancelled[t.owner], timers' = timers \ {t}, UNCHANGED <<cancelled, pc>>
      PROVE  Alone'
  <2>1. OneBusy'
    BY <1>1, <1>5 DEF OneBusy
  <2>2. FreshRegs'
    BY <1>1, <1>5 DEF FreshRegs
  <2>3. HeldRegs'
    BY <1>1, <1>5 DEF HeldRegs
  <2>4. Timed'
    <3>1. \A g \in Fibers : pc[g] = "hold" => ~cancelled[g]
      BY <1>1 DEF Timed
    <3>2. \A g \in Fibers : pc[g] = "hold" => ~(t.owner = g /\ t.call = calls[g])
      BY <1>2, <1>5, <3>1 DEF Alive, InCall
    <3>3. \A g \in Fibers : pc[g] \notin {"try", "timer", "add", "check"}
      BY <1>1 DEF OnThread
    <3> QED
      BY <1>1, <1>2, <1>5, <3>1, <3>2, <3>3 DEF Timed
  <2>5. Connected'
    BY <1>1, <1>5 DEF Connected
  <2> QED
    BY <2>1, <2>2, <2>3, <2>4, <2>5
<1>6. ASSUME t.kind = "sleep", timers' = timers \ {t}, Goto(t.owner, "woken"), UNCHANGED cancelled
      PROVE  Alone'
  <2>1. /\ pc[t.owner] = "hold" /\ call[t.owner].kind = "sleep" /\ pc'[t.owner] = "woken"
        /\ \A g \in Fibers \ {t.owner} : pc'[g] = pc[g]
    BY <1>0, <1>2, <1>6 DEF Goto, TypesOK, FiberTypeOK, TypeInv, SleepOK
  <2>2. OneBusy'
    BY <1>1, <1>6, <2>1 DEF OneBusy, OnThread
  <2>3. FreshRegs'
    BY <1>1, <2>1 DEF FreshRegs
  <2>4. HeldRegs'
    BY <1>1, <1>2, <1>6, <2>1 DEF HeldRegs
  <2>5. Timed'
    <3>1. \A g \in Fibers : pc[g] = "hold" => ~cancelled[g]
      BY <1>1 DEF Timed
    <3>2. \A g \in Fibers : pc'[g] \notin {"try", "timer", "add", "check"}
      BY <1>1, <2>1 DEF OnThread
    <3> QED
      BY <1>1, <1>2, <1>6, <2>1, <3>1, <3>2 DEF Timed
  <2>6. Connected'
    BY <1>1, <1>6, <2>1 DEF Connected, OnThread
  <2> QED
    BY <2>2, <2>3, <2>4, <2>5, <2>6
<1> QED
  BY <1>3, <1>4, <1>5, <1>6 DEF Fire, k

\* triggerEvent() of some of what is registered.
LEMMA AloneTriggers ==
    ASSUME TypeInv, TypesOK', Alone, NEW S \in SUBSET (Fds \X Events), Trigger(S),
           UNCHANGED <<file, up, call, calls, cancelled>>,
           OneBusy', Timed',
           \A e \in S : e[2] = "WRITE" /\ reg[e] # NoReg =>
              \/ up[e[1]] \in {"up", "refused"} \/ cancelled[reg[e].who]
              \/ call[reg[e].who].shared \/ call[reg[e].who].file # file[e[1]],
           \A u \in timers : u.kind = "sleep" => u \in timers'
    PROVE  Alone'
<1> USE DEF Alone
<1>0. TypesOK
  BY TypeParts DEF TypeInv
<1>1. /\ \A e \in Fds \X Events : reg'[e] = IF e \in S THEN NoReg ELSE reg[e]
      /\ \A g \in Fibers : pc'[g] = IF \E e \in S : reg[e].who = g THEN "woken" ELSE pc[g]
  BY <1>0 DEF Trigger, TypesOK, RegTypeOK
<1>2. FreshRegs'
  BY <1>1 DEF FreshRegs
<1>3. HeldRegs'
  <2> SUFFICES ASSUME NEW g \in Fibers, pc'[g] = "hold"
               PROVE  \/ /\ call[g].kind = "sleep"
                         /\ \E t \in timers' : t.owner = g /\ t.kind = "sleep" /\ t.call = calls[g]
                      \/ call[g].kind \in Io /\ reg'[<<call[g].fd, EventOf(call[g].kind)>>].who = g
    BY DEF HeldRegs
  <2>1. pc[g] = "hold" /\ \A e \in S : reg[e].who # g
    BY <1>1
  <2>2. <<call[g].fd, EventOf(call[g].kind)>> \in Fds \X Events
    BY <1>0 DEF TypesOK, FiberTypeOK, CallRecords, EventOf, Events
  <2> QED
    BY <1>1, <2>1, <2>2 DEF HeldRegs
<1>4. Connected'
  <2> SUFFICES ASSUME NEW g \in Fibers, pc'[g] \in {"woken", "check"}, call[g].kind = "connect",
                      ~cancelled[g], ~call[g].shared, file[call[g].fd] = call[g].file
               PROVE  \/ up[call[g].fd] \in {"up", "refused"}
                      \/ \E h \in Fibers : pc'[h] \in {"del", "closef"} /\ call[h].fd = call[g].fd
    BY DEF Connected
  <2>1. CASE \E e \in S : reg[e].who = g
    <3>1. PICK e \in S : reg[e].who = g
      BY <2>1
    <3>2. e[1] = call[g].fd /\ e[2] = "WRITE" /\ reg[e] # NoReg
      BY <3>1, HookAssumption DEF TypeInv, RegOK, EventOf, NoReg
    <3> QED
      BY <3>1, <3>2
  <2>2. CASE ~\E e \in S : reg[e].who = g
    <3>1. pc'[g] = pc[g]
      BY <1>1, <2>2
    <3>2. CASE up[call[g].fd] \in {"up", "refused"}
      BY <3>2
    <3>3. CASE \E h \in Fibers : pc[h] \in {"del", "closef"} /\ call[h].fd = call[g].fd
      <4>1. PICK h \in Fibers : pc[h] \in {"del", "closef"} /\ call[h].fd = call[g].fd
        BY <3>3
      <4>2. pc'[h] = pc[h]
        <5>1. ASSUME NEW e \in S, reg[e].who = h PROVE FALSE
          BY <4>1, <5>1 DEF TypeInv, RegOK
        <5> QED
          BY <1>1, <5>1
      <4> QED
        BY <4>1, <4>2
    <3> QED
      BY <3>1, <3>2, <3>3 DEF Connected
  <2> QED
    BY <2>1, <2>2
<1> QED
  BY <1>2, <1>3, <1>4

\* The callback that has said ETIMEDOUT wakes its own fiber.
LEMMA AloneCancels ==
    ASSUME TypeInv, TypesOK', CallInv, Alone, NEW t \in timers, CancelEvent(t)
    PROVE  Alone'
<1> USE DEF Alone
<1> DEFINE f == t.owner
           e == <<t.fd, EventOf(t.kind)>>
<1>0. TypesOK
  BY TypeParts DEF TypeInv
<1>1. /\ t.stage = "cancel" /\ f \in Fibers /\ e \in Fds \X Events /\ e[1] = t.fd /\ e[2] = EventOf(t.kind)
      /\ Trigger(IF Live(e) THEN {e} ELSE {}) /\ timers' = timers \ {t}
      /\ UNCHANGED <<file, up, call, calls, cancelled>>
  BY <1>0 DEF CancelEvent, kernelVars, TypesOK, TimerTypeOK, TimerRecords, EventOf, Events
<1>2. /\ \A g \in Fibers : pc[g] \notin OnThread
      /\ \A u \in timers : u.stage = "cancel" => t = u
      /\ Alive(t) /\ cancelled[f] /\ t.kind # "sleep"
  BY <1>1 DEF OneBusy
<1>3. pc[f] \in {"hold", "woken"}
  BY <1>0, <1>1, <1>2 DEF Alive, InCall, TypesOK, FiberTypeOK, Pcs
<1>4. t.kind = call[f].kind /\ t.fd = call[f].fd /\ call[f].kind \in Io
  BY <1>1, <1>2, <1>3 DEF CallInv, OwnerOK, TypeInv, CallOK
<1>5. pc[f] = "hold" => reg[e].who = f /\ Live(e)
  BY <1>1, <1>3, <1>4, HookAssumption DEF HeldRegs, FreshRegs, Live, NoReg, Io
<1>6. ASSUME NEW g \in Fibers \ {f}, reg[e].who = g
      PROVE  pc[g] = "hold" /\ (call[g].shared \/ call[g].file # file[t.fd])
  <2>1. pc[g] = "hold" /\ call[g].kind \in Io /\ call[g].fd = t.fd /\ EventOf(call[g].kind) = EventOf(t.kind)
    BY <1>1, <1>6 DEF TypeInv, RegOK
  <2>2. /\ call[f].file # call[g].file
        /\ call[f].file < call[g].file => call[g].shared
    BY <1>1, <1>3, <1>4, <1>6, <2>1 DEF CallInv, OnlyOK, InCall
  <2>3. /\ call[f].file \in Nat \ {0} /\ file[call[f].fd] \in Nat
        /\ file[call[f].fd] # 0 => call[f].file <= file[call[f].fd]
    BY <1>1, <1>3, <1>4, Earlier DEF CallInv, InCall
  <2>4. call[g].file \in Nat \ {0}
    BY <2>1, Earlier DEF CallInv, InCall
  <2> QED
    BY <1>4, <2>1, <2>2, <2>3, <2>4
<1>7. \A g \in Fibers : pc'[g] = IF Live(e) /\ reg[e].who = g THEN "woken" ELSE pc[g]
  BY <1>1 DEF Trigger
<1>8. pc'[f] = "woken" /\ \A g \in Fibers \ {f} : pc'[g] = pc[g] \/ pc'[g] = "woken"
  BY <1>1, <1>3, <1>5, <1>7
<1>9. OneBusy'
  <2>1. \A g \in Fibers : pc'[g] \notin OnThread
    BY <1>1, <1>2, <1>8 DEF OnThread
  <2>2. \A u \in timers' : u.stage # "cancel"
    BY <1>1, <1>2
  <2> QED
    BY <2>1, <2>2 DEF OneBusy
<1>10. Timed'
  <2>1. \A g \in Fibers \ {f} : pc[g] = "hold" => ~cancelled[g]
    BY <1>2 DEF Timed
  <2>2. \A g \in Fibers : pc'[g] \notin {"try", "timer", "add", "check"}
    BY <1>1, <1>2, <1>8 DEF OnThread
  <2>3. \A u \in timers : u.stage # "cancel" => u \in timers'
    BY <1>1
  <2> QED
    BY <1>1, <1>8, <2>1, <2>2, <2>3 DEF Timed
<1>11. reg[e] # NoReg =>
          cancelled[reg[e].who] \/ call[reg[e].who].shared \/ call[reg[e].who].file # file[e[1]]
  BY <1>1, <1>2, <1>6 DEF FreshRegs
<1> HIDE DEF e, f
<1>12. (IF Live(e) THEN {e} ELSE {}) \in SUBSET (Fds \X Events)
       /\ \A d \in IF Live(e) THEN {e} ELSE {} : d = e
  BY <1>1
<1>13. \A u \in timers : u.kind = "sleep" => u \in timers'
  BY <1>1, <1>2
<1> QED
  BY <1>1, <1>9, <1>10, <1>11, <1>12, <1>13, AloneTriggers

\* What epoll reports, and what the network does.
LEMMA AloneEvents ==
    ASSUME TypeInv, TypesOK', CallInv, Alone, threads = 1, FewTimers,
           \/ \E e \in Fds \X Events : Ready(e)
           \/ \E fd \in Fds : Arrive(fd) \/ Establish(fd)
           \/ UNCHANGED restVars
    PROVE  Alone'
<1> USE DEF Alone
<1>0. TypesOK
  BY TypeParts DEF TypeInv
<1>1. ASSUME NEW e \in Fds \X Events, Ready(e) PROVE Alone'
  <2>1. /\ Trigger({e}) /\ UNCHANGED <<file, up, timers, call, calls, cancelled>>
        /\ \A g \in Fibers : pc[g] \notin OnThread
        /\ \A t \in timers : t.stage # "cancel"
        /\ e[2] = "WRITE" => up[e[1]] \in {"up", "refused"}
    BY <1>1, IdleThread DEF Ready, kernelVars
  <2>2. \A g \in Fibers : pc'[g] = "woken" \/ pc'[g] = pc[g]
    BY <2>1 DEF Trigger
  <2>3. OneBusy'
    BY <2>1, <2>2 DEF OneBusy, OnThread
  <2>4. Timed'
    <3>1. \A g \in Fibers : pc'[g] \notin {"try", "timer", "add", "check"}
      BY <2>1, <2>2 DEF OnThread
    <3> QED
      BY <2>1, <2>2, <3>1 DEF Timed
  <2>5. {e} \in SUBSET (Fds \X Events)
    OBVIOUS
  <2> QED
    BY <2>1, <2>3, <2>4, <2>5, AloneTriggers
<1>2. ASSUME UNCHANGED <<file, reg, timers, pc, call, calls, cancelled>>,
             \A fd \in Fds : up[fd] \in {"up", "refused"} => up'[fd] \in {"up", "refused"}
      PROVE  Alone'
  <2>1. OneBusy'
    BY <1>2 DEF OneBusy, Alive, InCall
  <2>2. FreshRegs' /\ HeldRegs' /\ Timed'
    BY <1>2 DEF FreshRegs, HeldRegs, Timed
  <2>3. \A g \in Fibers : call[g].fd \in Fds
    BY <1>0 DEF TypesOK, FiberTypeOK, CallRecords
  <2>4. Connected'
    BY <1>2, <2>3 DEF Connected
  <2> QED
    BY <2>1, <2>2, <2>4
<1>3. ASSUME NEW fd \in Fds, Arrive(fd) PROVE Alone'
  BY <1>2, <1>3 DEF Arrive, fiberVars
<1>4. ASSUME NEW fd \in Fds, Establish(fd) PROVE Alone'
  <2>1. \A d \in Fds : up[d] \in {"up", "refused"} => up'[d] \in {"up", "refused"}
    BY <1>0, <1>4 DEF Establish, TypesOK, KernelTypeOK
  <2> QED
    BY <1>2, <1>4, <2>1 DEF Establish, fiberVars
<1>5. ASSUME UNCHANGED restVars PROVE Alone'
  BY <1>2, <1>5 DEF restVars, kernelVars, fiberVars
<1> QED
  BY <1>1, <1>3, <1>4, <1>5

LEMMA AloneStep ==
    ASSUME TypeInv, TypesOK', CallInv, Alone, threads = 1, FewTimers, [Next]_vars
    PROVE  Alone'
<1>1. ASSUME NEW f \in Fibers, UserStep(f) PROVE Alone'
  <2>1. Fionbio \subseteq BOOLEAN
    BY HookAssumption
  <2>2. CASE \E fd \in Fds : CallSocket(f, fd) \/ CallSleep(f, fd)
    BY <2>2, AloneFiles
  <2>3. CASE ~\E fd \in Fds : CallSocket(f, fd) \/ CallSleep(f, fd)
    BY <1>1, <2>1, <2>3, AloneCalls DEF UserStep
  <2> QED
    BY <2>2, <2>3
<1>2. ASSUME NEW f \in Fibers, CallStep(f) PROVE Alone'
  <2>1. CASE AddEventAborts(f)
    BY <2>1, AloneEvents, Endings
  <2> QED
    BY <1>2, <2>1, AloneTries, AloneFiles, AloneRegisters, AloneCancelAll DEF CallStep
<1>3. ASSUME NEW f \in Fibers, TimerStep(f) PROVE Alone'
  BY <1>3, AloneTimers, AloneCancels DEF TimerStep
<1> QED
  BY <1>1, <1>2, <1>3, AloneEvents, Endings DEF Next, Halted

LEMMA AloneInit == Init => Alone /\ FewTimers
<1> SUFFICES ASSUME Init PROVE Alone /\ FewTimers
  OBVIOUS
<1>1. OneBusy /\ FreshRegs /\ HeldRegs /\ Timed /\ Connected
  BY DEF Init, OneBusy, FreshRegs, HeldRegs, Timed, Connected, OnThread
<1> QED
  BY <1>1, FS_EmptySet DEF Init, Alone, FewTimers

\* While a fiber is in a call the last result is gone; only the step that ends the
\* call says how it ended.
ResultOK == \A f \in Fibers : InCall(f) => result[f] = "none"

LEMMA ResultStep ==
    ASSUME TypeInv, TypesOK', ResultOK, [Next]_vars
    PROVE  /\ ResultOK' /\ threads' = threads
           /\ \A f \in Fibers : InCall(f) => result'[f] = result[f] \/ CallStep(f)
<1> USE DEF poolVars, kernelVars, fiberVars, InCall
<1>0. TypesOK
  BY TypeParts DEF TypeInv
<1>t. pc \in [Fibers -> Pcs] /\ result \in [Fibers -> Results] /\ call \in [Fibers -> CallRecords]
      /\ reg \in [Fds \X Events -> [who : Fibers \cup {NoFiber}, file : 0 .. MaxOpen]]
  BY <1>0 DEF TypesOK, FiberTypeOK, RegTypeOK
<1> DEFINE Goal == /\ ResultOK' /\ threads' = threads
                   /\ \A f \in Fibers : InCall(f) => result'[f] = result[f] \/ CallStep(f)
<1>1. ASSUME NEW f \in Fibers, threads' = threads,
             \A g \in Fibers \ {f} : pc'[g] = pc[g] /\ result'[g] = result[g],
             InCall(f)' => result'[f] = "none",
             CallStep(f) \/ pc[f] = "user" \/ UNCHANGED result
      PROVE  Goal
  BY <1>1 DEF ResultOK
<1>2. ASSUME threads' = threads, UNCHANGED result, \A g \in Fibers : InCall(g)' => InCall(g)
      PROVE  Goal
  BY <1>2 DEF ResultOK
<1>3. ASSUME NEW f \in Fibers, UserStep(f) PROVE Goal
  <2>1. CASE Start(f) \/ Finish(f)
    BY <1>1, <1>t, <2>1 DEF Start, Finish, Keep, Goto, ResultOK
  <2>2. ASSUME NEW fd \in Fds, NEW k \in {"read", "accept"}, CallIo(f, k, fd) PROVE Goal
    BY <1>1, <1>t, <2>2 DEF CallIo, Begin, Goto
  <2>3. ASSUME NEW fd \in Fds, CallConnect(f, fd) PROVE Goal
    BY <1>1, <1>t, <2>3 DEF CallConnect, Begin, AtOnce, Goto
  <2>4. ASSUME NEW fd \in Fds, CallSleep(f, fd) PROVE Goal
    BY <1>1, <1>t, <2>4 DEF CallSleep, Begin, Goto
  <2>5. ASSUME NEW fd \in Fds, CallSocket(f, fd) PROVE Goal
    BY <1>1, <1>t, <2>5 DEF CallSocket, Begin, AtOnce, Goto
  <2>6. ASSUME NEW fd \in Fds, CallClose(f, fd) PROVE Goal
    BY <1>1, <1>t, <2>6 DEF CallClose, Begin, Goto
  <2>7. ASSUME NEW fd \in Fds, NEW b, SetTimeout(f, fd, b) \/ SetFlags(f, fd, b) \/ SetFionbio(f, fd, b) PROVE Goal
    BY <1>1, <1>t, <2>7 DEF SetTimeout, SetFlags, SetFionbio, AtOnce
  <2> QED
    BY <1>3, <2>1, <2>2, <2>3, <2>4, <2>5, <2>6, <2>7 DEF UserStep
<1>8. ASSUME UNCHANGED restVars PROVE Goal
  BY <1>2, <1>8 DEF restVars
<1>4. ASSUME NEW f \in Fibers, CallStep(f) PROVE Goal
  <2>1. ASSUME NEW r, Return(f, r), threads' = threads PROVE Goal
    BY <1>1, <1>4, <1>t, <2>1 DEF Return, Goto
  <2>2. ASSUME NEW l, Keep(f, l), threads' = threads, InCall(f) PROVE Goal
    BY <1>1, <1>4, <1>t, <2>2 DEF Keep, Goto, ResultOK
  <2>3. CASE Adopt(f) \/ Dialled(f) \/ Refuse(f) \/ Check(f) \/ CloseF(f)
    BY <2>1, <2>3 DEF Adopt, Dialled, Refuse, Check, CloseF
  <2>4. CASE Again(f) \/ Dial(f) \/ AddTimer(f) \/ AddEvent(f) \/ AddEventFails(f) \/ Resume(f) \/ Del(f)
    BY <2>1, <2>2, <2>4 DEF Again, Dial, AddTimer, AddEvent, AddEventFails, Resume, Del
  <2>5. CASE Obtain(f)
    <3>1. CASE Return(f, "data")
      BY <2>1, <2>5, <3>1 DEF Obtain
    <3>2. CASE Goto(f, "adopt") /\ UNCHANGED result
      <4>1. threads' = threads /\ InCall(f)
        BY <2>5 DEF Obtain
      <4> QED
        BY <1>1, <1>4, <1>t, <3>2, <4>1 DEF Goto, ResultOK
    <3> QED
      BY <2>5, <3>1, <3>2 DEF Obtain
  <2>6. CASE CancelAll(f)
    <3>1. \A g \in Fibers : pc'[g] = pc[g] \/ (InCall(g) /\ InCall(g)')
      <4>1. \A e \in Fds \X Events : reg[e].who \in Fibers => pc[reg[e].who] = "hold"
        BY DEF TypeInv, RegOK
      <4> QED
        BY <1>t, <2>6, <4>1 DEF CancelAll
    <3> QED
      BY <1>2, <2>6, <3>1 DEF CancelAll
  <2> QED
    BY <1>4, <1>8, <2>3, <2>4, <2>5, <2>6, Endings DEF CallStep
<1>5. ASSUME NEW S \in SUBSET (Fds \X Events), Trigger(S), UNCHANGED <<threads, result>> PROVE Goal
  <2>1. \A e \in Fds \X Events : reg[e].who \in Fibers => pc[reg[e].who] = "hold"
    BY DEF TypeInv, RegOK
  <2>2. \A g \in Fibers : InCall(g)' => InCall(g)
    BY <1>t, <1>5, <2>1 DEF Trigger
  <2> QED
    BY <1>2, <1>5, <2>2
<1>6. ASSUME NEW t \in timers, Collect(t) \/ Fire(t) \/ CancelEvent(t) PROVE Goal
  <2>1. CASE Collect(t)
    BY <1>2, <2>1 DEF Collect
  <2>2. CASE Fire(t)
    <3>1. t.owner \in Fibers /\ (t.kind = "sleep" => pc[t.owner] = "hold")
      BY <1>0 DEF TypesOK, TimerTypeOK, TimerRecords, TypeInv, SleepOK
    <3>2. \A g \in Fibers : InCall(g)' => InCall(g)
      BY <1>t, <2>2, <3>1 DEF Fire, Goto
    <3> QED
      BY <1>2, <2>2, <3>2 DEF Fire
  <2>3. CASE CancelEvent(t)
    <3> DEFINE e == <<t.fd, EventOf(t.kind)>>
    <3>1. e \in Fds \X Events
      BY <1>0 DEF TypesOK, TimerTypeOK, TimerRecords, EventOf, Events
    <3>2. Trigger(IF Live(e) THEN {e} ELSE {}) /\ UNCHANGED <<threads, result>>
      BY <2>3 DEF CancelEvent
    <3> HIDE DEF e
    <3>3. (IF Live(e) THEN {e} ELSE {}) \in SUBSET (Fds \X Events)
      BY <3>1
    <3> QED
      BY <1>5, <3>2, <3>3
  <2> QED
    BY <1>6, <2>1, <2>2, <2>3
<1>7. ASSUME NEW e \in Fds \X Events, Ready(e) PROVE Goal
  <2>1. {e} \in SUBSET (Fds \X Events) /\ Trigger({e}) /\ UNCHANGED <<threads, result>>
    BY <1>7 DEF Ready
  <2> QED
    BY <1>5, <2>1
<1>9. CASE \E fd \in Fds : Arrive(fd) \/ Establish(fd)
  BY <1>2, <1>9 DEF Arrive, Establish
<1> QED
  BY <1>3, <1>4, <1>6, <1>7, <1>8, <1>9, Endings DEF Next, TimerStep, Halted

\* What holds of the hook, and of the hook with one thread.
HookInv == TypeInv /\ CallInv /\ ResultOK /\ FewTimers /\ (threads = 1 => Alone)

LEMMA HookInvInit == Init => HookInv
<1>1. Init => ResultOK
  BY DEF Init, ResultOK, InCall
<1> QED
  BY <1>1, TypeInit, CallInvInit, AloneInit DEF HookInv

LEMMA HookInvStep ==
    ASSUME HookInv, [Next]_vars
    PROVE  HookInv'
<1>1. TypeInv /\ TypesOK /\ TypeInv' /\ TypesOK'
  BY TypeInvStep, TypesStep, TypeParts DEF HookInv, TypeInv
<1>2. CallInv' /\ ResultOK' /\ FewTimers' /\ threads' = threads
  BY <1>1, CallInvStep, ResultStep, FewTimersStep DEF HookInv
<1>3. threads = 1 => Alone'
  BY <1>1, AloneStep DEF HookInv
<1> QED
  BY <1>1, <1>2, <1>3 DEF HookInv

LEMMA HookInvHolds == Spec => []HookInv
  BY HookInvInit, HookInvStep, PTL DEF Spec

\* do_io(), connect_with_timeout() and the sleeps never leave a fiber behind that nothing
\* can wake (hook.cpp:117, :141): with one thread, whoever has yielded has its sleep timer
\* or is registered for the file that is open now, whatever close() did meanwhile.
THEOREM NoWaiterLost == Spec => []NoLostWaiter
<1>1. ASSUME HookInv PROVE NoLostWaiter
  <2> SUFFICES ASSUME threads = 1, NEW f \in Fibers, pc[f] = "hold"
               PROVE  \/ \E t \in timers : t.owner = f /\ t.kind = "sleep" /\ t.call = calls[f]
                      \/ \E e \in DOMAIN reg : reg[e].who = f /\ Live(e)
    BY DEF NoLostWaiter
  <2> USE <1>1 DEF HookInv, Alone
  <2>1. TypesOK
    BY TypeParts DEF TypeInv
  <2>2. CASE call[f].kind \in Io /\ reg[<<call[f].fd, EventOf(call[f].kind)>>].who = f
    <3> DEFINE e == <<call[f].fd, EventOf(call[f].kind)>>
    <3>1. e \in Fds \X Events /\ DOMAIN reg = Fds \X Events
      BY <2>1 DEF TypesOK, FiberTypeOK, CallRecords, RegTypeOK, EventOf, Events
    <3>2. reg[e] # NoReg
      BY <2>2, HookAssumption DEF NoReg
    <3>3. Live(e)
      BY <3>1, <3>2 DEF FreshRegs, Live
    <3> QED
      BY <2>2, <3>1, <3>3
  <2> QED
    BY <2>2 DEF HeldRegs
<1> QED
  BY <1>1, HookInvHolds, PTL

\* A timeout is kept (hook.cpp:95, :206): with one thread, a fiber on hold in a call with a
\* timeout has a timer that will still wake it, however the event, the timer's
\* callback and close() follow each other.
THEOREM TimeoutsKept == Spec => []TimeoutKeptAlone
<1>1. ASSUME HookInv PROVE TimeoutKeptAlone
  <2> SUFFICES ASSUME threads = 1, NEW f \in Fibers, pc[f] = "hold", call[f].timed
               PROVE  \E t \in timers :
                         /\ t.owner = f /\ t.call = calls[f]
                         /\ \/ t.kind = "sleep"
                            \/ t.stage # "cancel" /\ ~cancelled[f]
                            \/ t.stage = "cancel" /\ reg[<<t.fd, EventOf(t.kind)>>].who = f
    BY DEF TimeoutKeptAlone, TimeoutKept
  <2> USE <1>1 DEF HookInv, Alone
  <2>1. CASE ~cancelled[f]
    BY <2>1 DEF Timed
  <2>2. CASE cancelled[f]
    <3>1. PICK t \in timers : t.owner = f /\ t.stage = "cancel"
      BY <2>2 DEF Timed
    <3>2. Alive(t) /\ t.kind # "sleep" /\ t.call = calls[f]
      BY <3>1 DEF OneBusy, Alive
    <3>3. t.kind = call[f].kind /\ t.fd = call[f].fd
      BY <3>1, <3>2 DEF CallInv, OwnerOK
    <3>4. reg[<<t.fd, EventOf(t.kind)>>].who = f
      BY <3>2, <3>3 DEF HeldRegs
    <3> QED
      BY <3>1, <3>2, <3>4
  <2> QED
    BY <2>1, <2>2
<1> QED
  BY <1>1, HookInvHolds, PTL

\* connect_with_timeout() says 0 only of a connection that is there (hook.cpp:206): the
\* event that lets it look at SO_ERROR, as long as its descriptor is the same file, is
\* that of its own connection, with one thread and no call of another fiber that an
\* earlier file of the number has left on it.
THEOREM ConnectsTruly == Spec => ConnectTrue
<1> DEFINE P == \A f \in Fibers :
                   /\ threads = 1 /\ pc[f] \in {"check", "kernel"} /\ result'[f] = "connected"
                   /\ ~call[f].shared /\ file[call[f].fd] = call[f].file
                   => up[call[f].fd] = "up"
<1>1. ASSUME HookInv, [Next]_vars PROVE P
  <2> SUFFICES ASSUME NEW f \in Fibers, threads = 1, pc[f] \in {"check", "kernel"},
                      result'[f] = "connected", ~call[f].shared, file[call[f].fd] = call[f].file
               PROVE  up[call[f].fd] = "up"
    OBVIOUS
  <2> USE <1>1 DEF HookInv, Alone
  <2>0. TypesOK /\ TypesOK' /\ TypeInv
    BY TypeParts, TypesStep DEF TypeInv
  <2>1. result[f] = "none" /\ InCall(f)
    BY DEF ResultOK, InCall
  <2>2. CallStep(f)
    BY <2>0, <2>1, ResultStep
  <2>3. Dialled(f) \/ Check(f)
    <3>1. ~UNCHANGED restVars
      BY <2>1 DEF restVars, fiberVars
    <3> QED
      BY <2>2, <3>1 DEF CallStep, Obtain, Adopt, Again, Dial, Refuse, AddTimer, AddEvent, AddEventAborts,
         AddEventFails, Resume, CancelAll, Del, CloseF
  <2>4. CASE Dialled(f)
    BY <2>0, <2>4 DEF Dialled, Return, TypesOK, FiberTypeOK
  <2>5. CASE Check(f)
    <3>1. /\ pc[f] = "check" /\ call[f].kind = "connect" /\ ~cancelled[f] /\ call[f].file # 0
      BY <2>5 DEF Check, CallInv, BeginOK, Timed, Io
    <3>2. up[call[f].fd] \in {"up", "refused"}
      BY <3>1 DEF Connected, OneBusy, OnThread
    <3>3. up[call[f].fd] # "refused"
      BY <2>0, <2>5, <3>1 DEF Check, Return, TypesOK, FiberTypeOK
    <3> QED
      BY <3>2, <3>3
  <2> QED
    BY <2>3, <2>4, <2>5
<1>2. HookInv /\ [Next]_vars => [P]_vars
  BY <1>1
<1> QED
  BY <1>2, HookInvHolds, PTL DEF Spec, ConnectTrue

-----------------------------------------------------------------------------
(* The calls look blocking                                                 *)

\* What BlockingCall sees of a fiber.
View(f) ==
    IF ~InCall(f) THEN [phase |-> "out"]
    ELSE [phase |-> IF pc[f] = "adopt" /\ call[f].kind = "accept" THEN "got" ELSE "in",
          promised |-> call[f].ours, late |-> late[f], shared |-> call[f].shared,
          fd |-> call[f].fd, file |-> call[f].file]
Views == [f \in Fibers |-> View(f)]

\* The steps of BlockingCall, said of the views.
LEMMA CallViews ==
    ASSUME NEW f \in Fibers, NEW fd \in Fds, NEW b \in BOOLEAN, NEW s \in BOOLEAN,
           s => \E g \in Fibers \ {f} : View(g).phase = "in" /\ View(g).fd = fd,
           View(f) = [phase |-> "out"],
           Views' = [Views EXCEPT ![f] = [phase |-> "in", promised |-> b, late |-> FALSE, shared |-> s,
                                          fd |-> fd, file |-> file[fd]]],
           result' = [result EXCEPT ![f] = "none"], Calls!World({})
    PROVE  Calls!Step
<1>1. Calls!Call(f)
  <2>1. s => \E g \in Fibers \ {f} : Calls!On(g, fd)
    BY DEF Calls!On, View
  <2> QED
    BY <2>1 DEF Calls!Call, Calls!Idle, Views, View
<1> QED
  BY <1>1 DEF Calls!Step

LEMMA InstantViews ==
    ASSUME NEW f \in Fibers, NEW r \in Results \ {"none", "data"}, View(f) = [phase |-> "out"], Views' = Views,
           result' = [result EXCEPT ![f] = r], Calls!World({})
    PROVE  Calls!Step
<1>1. Calls!Instant(f)
  BY DEF Calls!Instant, Calls!Idle, Calls!Results, Results, Views, View
<1> QED
  BY <1>1 DEF Calls!Step

LEMMA ExpireViews ==
    ASSUME NEW f \in Fibers, View(f).phase = "in", Views' = [Views EXCEPT ![f].late = TRUE],
           UNCHANGED result, Calls!World({})
    PROVE  Calls!Step
<1>1. Calls!Expire(f)
  BY DEF Calls!Expire, Views, View
<1> QED
  BY <1>1 DEF Calls!Step

LEMMA TakeViews ==
    ASSUME NEW f \in Fibers, NEW fd \in Fds, View(f).phase = "in", View(f).fd = fd, avail[fd] > 0,
           avail'[fd] = avail[fd] - 1, Calls!World({fd}),
           \/ /\ Views' = [Views EXCEPT ![f] = [phase |-> "out"]]
              /\ result' = [result EXCEPT ![f] = "data"]
           \/ /\ \E new \in Fds : Views' = [Views EXCEPT ![f].phase = "got", ![f].fd = new]
              /\ UNCHANGED result
    PROVE  Calls!Step
<1>1. Calls!Take(f)
  BY DEF Calls!Take, Calls!Idle, Views, View
<1> QED
  BY <1>1 DEF Calls!Step

LEMMA GiveViews ==
    ASSUME NEW f \in Fibers, View(f).phase = "got", Views' = [Views EXCEPT ![f] = [phase |-> "out"]],
           result' = [result EXCEPT ![f] = "data"], Calls!World({})
    PROVE  Calls!Step
<1>1. Calls!Give(f)
  BY DEF Calls!Give, Calls!Idle, Views, View
<1> QED
  BY <1>1 DEF Calls!Step

LEMMA ReturnViews ==
    ASSUME NEW f \in Fibers, NEW r \in Results \ {"none", "data"}, View(f).phase = "in",
           Views' = [Views EXCEPT ![f] = [phase |-> "out"]],
           result' = [result EXCEPT ![f] = r], Calls!World({}),
           \/ r = "timeout" /\ View(f).late
           \/ r \in {"badf", "error"} /\ file[View(f).fd] # View(f).file
           \/ r = "error" /\ View(f).fd \in Fds /\ (~Watched(View(f).fd) \/ View(f).shared)
           \/ r \in {"connected", "refused", "ok", "full"}
           \/ ~View(f).promised
    PROVE  Calls!Step
<1>1. Calls!Return(f, r)
  BY DEF Calls!Return, Calls!Justified, Calls!Idle, Views, View
<1>2. r \in Calls!Results \ {"data"}
  BY DEF Calls!Results, Results
<1> QED
  BY <1>1, <1>2 DEF Calls!Step

LEMMA StutterViews ==
    ASSUME Views' = Views, UNCHANGED result, Calls!World({})
    PROVE  Calls!Step
  BY DEF Calls!Step, Views, View

\* How a step that concerns one fiber changes the views.
LEMMA ViewsOne ==
    ASSUME NEW f \in Fibers, \A g \in Fibers \ {f} : View(g)' = View(g)
    PROVE  Views' = [Views EXCEPT ![f] = View(f)']
<1> HIDE DEF View
<1>1. Views' = [g \in Fibers |-> View(g)']
  BY DEF Views
<1>2. [Views EXCEPT ![f] = View(f)'] = [g \in Fibers |-> IF g = f THEN View(f)' ELSE View(g)]
  BY DEF Views
<1> QED
  BY <1>1, <1>2

LEMMA ViewsSame == ASSUME \A g \in Fibers : View(g)' = View(g) PROVE Views' = Views
<1>1. Views' = [g \in Fibers |-> View(g)']
  BY DEF Views
<1> QED
  BY <1>1 DEF Views

LEMMA OtherViews ==
    ASSUME NEW f \in Fibers, NEW g \in Fibers \ {f}, pc'[g] = pc[g], call'[g] = call[g], late'[g] = late[g]
    PROVE  View(g)' = View(g)
  BY DEF View, InCall

LEMMA WorldSame ==
    ASSUME TypesOK, TypesOK', UNCHANGED avail
    PROVE  Calls!World({})
  BY HookAssumption DEF Calls!World, TypesOK, KernelTypeOK

\* A call that ends, and why.
LEMMA EndsOK ==
    ASSUME TypesOK, TypesOK', NEW f \in Fibers, NEW r \in Results \ {"none", "data"}, Return(f, r), InCall(f),
           ~(pc[f] = "adopt" /\ call[f].kind = "accept"), Calls!World({}),
           \/ r = "timeout" /\ late[f]
           \/ r \in {"badf", "error"} /\ file[call[f].fd] # call[f].file
           \/ r = "error" /\ (~Watched(call[f].fd) \/ call[f].shared)
           \/ r \in {"connected", "refused", "ok", "full"}
           \/ ~call[f].ours
    PROVE  Calls!Step
<1>1. /\ pc'[f] = "user" /\ result' = [result EXCEPT ![f] = r]
      /\ \A g \in Fibers \ {f} : pc'[g] = pc[g] /\ call'[g] = call[g] /\ late'[g] = late[g]
  BY DEF Return, Goto, TypesOK, FiberTypeOK
<1>2. View(f)' = [phase |-> "out"]
  BY <1>1 DEF View, InCall
<1>3. Views' = [Views EXCEPT ![f] = View(f)']
  BY <1>1, OtherViews, ViewsOne
<1>4. View(f).phase = "in" /\ View(f).late = late[f] /\ View(f).promised = call[f].ours
      /\ View(f).fd = call[f].fd /\ View(f).file = call[f].file /\ View(f).shared = call[f].shared
  BY DEF View
<1>5. call[f].fd \in Fds
  <2>1. call \in [Fibers -> CallRecords]
    BY DEF TypesOK, FiberTypeOK
  <2> QED
    BY <2>1 DEF CallRecords
<1> QED
  BY <1>1, <1>2, <1>3, <1>4, <1>5, ReturnViews

LEMMA BeginsOK ==
    ASSUME TypesOK, TypesOK', LateOK, NEW f \in Fibers, NEW k, NEW fd \in Fds, NEW ours \in BOOLEAN, NEW timed,
           NEW l \in {"try", "plain", "hold", "adopt", "cancelAll", "closef"},
           Begin(f, k, fd, ours, timed, l), k # "accept" \/ l # "adopt", Calls!World({})
    PROVE  Calls!Step
<1>1. /\ pc[f] = "user" /\ pc'[f] = l /\ result' = [result EXCEPT ![f] = "none"] /\ late' = late
      /\ call'[f] = [kind |-> k, fd |-> fd, file |-> file[fd], timed |-> timed, ours |-> ours,
                     shared |-> \E g \in Fibers \ {f} : Waits(g, k, fd)]
      /\ \A g \in Fibers \ {f} : pc'[g] = pc[g] /\ call'[g] = call[g] /\ late'[g] = late[g]
  BY DEF Begin, Goto, TypesOK, FiberTypeOK
<1>2. ~late[f]
  BY <1>1 DEF LateOK, InCall
<1>3. late'[f] = FALSE
  BY <1>1, <1>2 DEF TypesOK, FiberTypeOK
<1>7. PICK s \in BOOLEAN : s = \E g \in Fibers \ {f} : Waits(g, k, fd)
  OBVIOUS
<1>4. View(f)' = [phase |-> "in", promised |-> ours, late |-> FALSE, shared |-> s, fd |-> fd, file |-> file[fd]]
  <2>1. /\ call'[f].kind = k /\ call'[f].fd = fd /\ call'[f].file = file[fd] /\ call'[f].ours = ours
        /\ call'[f].shared = s
        /\ InCall(f)' /\ ~(pc'[f] = "adopt" /\ call'[f].kind = "accept")
    BY <1>1, <1>7 DEF InCall
  <2> QED
    BY <1>3, <2>1 DEF View
<1>5. Views' = [Views EXCEPT ![f] = View(f)']
  BY <1>1, OtherViews, ViewsOne
<1>6. View(f) = [phase |-> "out"]
  BY <1>1 DEF View, InCall
<1>8. s => \E g \in Fibers \ {f} : View(g).phase = "in" /\ View(g).fd = fd
  BY <1>7 DEF Waits, View
<1>9. PICK v : v = [phase |-> "in", promised |-> ours, late |-> FALSE, shared |-> s, fd |-> fd, file |-> file[fd]]
  OBVIOUS
<1>10. Views' = [Views EXCEPT ![f] = v] /\ result' = [result EXCEPT ![f] = "none"]
  BY <1>1, <1>4, <1>5, <1>9
<1> HIDE DEF Views, View
<1> QED
  BY <1>6, <1>8, <1>9, <1>10, CallViews

LEMMA InstantOK ==
    ASSUME NEW f \in Fibers, NEW k, NEW r \in Results \ {"none", "data"}, AtOnce(f, k, r), Calls!World({})
    PROVE  Calls!Step
<1>1. pc[f] = "user" /\ result' = [result EXCEPT ![f] = r] /\ UNCHANGED <<pc, call, late>>
  BY DEF AtOnce
<1>2. View(f) = [phase |-> "out"] /\ \A g \in Fibers : View(g)' = View(g)
  BY <1>1 DEF View, InCall
<1> QED
  BY <1>1, <1>2, ViewsSame, InstantViews

\* A step within a call, or outside of calls.
LEMMA WithinOK ==
    ASSUME TypesOK, TypesOK', UNCHANGED <<avail, file, call, late, result>>,
           \A g \in Fibers : /\ pc'[g] = "adopt" <=> pc[g] = "adopt"
                             /\ InCall(g)' <=> InCall(g)
    PROVE  Calls!Step
<1>1. \A g \in Fibers : View(g)' = View(g)
  BY DEF View
<1> QED
  BY <1>1, ViewsSame, WorldSame, StutterViews

LEMMA KeepsOK ==
    ASSUME TypesOK, TypesOK', NEW f \in Fibers, NEW l \in Pcs \ {"new", "user", "done", "adopt"}, Keep(f, l), InCall(f),
           pc[f] # "adopt", UNCHANGED <<avail, file>>
    PROVE  Calls!Step
<1>1. pc'[f] = l /\ UNCHANGED <<call, late, result>> /\ \A g \in Fibers \ {f} : pc'[g] = pc[g]
  BY DEF Keep, Goto, TypesOK, FiberTypeOK
<1> QED
  BY <1>1, WithinOK DEF InCall

LEMMA UserCalls ==
    ASSUME TypeInv, TypesOK', CallInv, NEW f \in Fibers, UserStep(f)
    PROVE  Calls!Step
<1> USE DEF poolVars, kernelVars, fiberVars
<1>0. TypesOK /\ LateOK
  BY TypeParts DEF TypeInv, CallInv
<1>1. CASE Start(f) \/ Finish(f)
  <2>1. /\ UNCHANGED <<avail, file, call, late, result>>
        /\ \A g \in Fibers : /\ pc'[g] = "adopt" <=> pc[g] = "adopt"
                             /\ InCall(g)' <=> InCall(g)
    BY <1>0, <1>1 DEF Start, Finish, Keep, Goto, InCall, TypesOK, FiberTypeOK
  <2> QED
    BY <1>0, <2>1, WithinOK
<1>2. ASSUME NEW fd \in Fds, NEW k \in {"read", "accept"}, CallIo(f, k, fd) PROVE Calls!Step
  <2> DEFINE ours == hook /\ ctx[fd].here /\ ~ctx[fd].user
             l == IF ours THEN "try" ELSE "plain"
  <2>1. Begin(f, k, fd, ours, ours /\ ctx[fd].timed, l) /\ UNCHANGED <<avail, file>>
    BY <1>2 DEF CallIo
  <2>2. l \in {"try", "plain"} /\ ours \in BOOLEAN
    OBVIOUS
  <2> HIDE DEF ours, l
  <2> QED
    BY <1>0, <2>1, <2>2, BeginsOK, WorldSame
<1>3. ASSUME NEW fd \in Fds, CallConnect(f, fd) PROVE Calls!Step
  <2> DEFINE ours == hook /\ ctx[fd].here /\ ~ctx[fd].user
             l == IF ours THEN "try" ELSE "plain"
  <2>1. /\ Begin(f, "connect", fd, ours, ours, l) \/ AtOnce(f, "connect", "badf")
        /\ UNCHANGED <<avail, file>>
    BY <1>3 DEF CallConnect
  <2>2. l \in {"try", "plain"} /\ ours \in BOOLEAN
    OBVIOUS
  <2> HIDE DEF ours, l
  <2>3. CASE Begin(f, "connect", fd, ours, ours, l)
    BY <1>0, <2>1, <2>2, <2>3, BeginsOK, WorldSame
  <2>4. CASE AtOnce(f, "connect", "badf")
    BY <1>0, <2>1, <2>4, InstantOK, WorldSame DEF Results
  <2> QED
    BY <2>1, <2>3, <2>4
<1>4. ASSUME NEW fd \in Fds, CallSleep(f, fd) PROVE Calls!Step
  BY <1>0, <1>4, BeginsOK, WorldSame DEF CallSleep
<1>5. ASSUME NEW fd \in Fds, CallSocket(f, fd) PROVE Calls!Step
  <2>1. UNCHANGED avail /\ (Begin(f, "socket", fd, FALSE, FALSE, "adopt") \/ AtOnce(f, "socket", "ok"))
    BY <1>5 DEF CallSocket
  <2>2. CASE Begin(f, "socket", fd, FALSE, FALSE, "adopt")
    BY <1>0, <2>1, <2>2, BeginsOK, WorldSame
  <2>3. CASE AtOnce(f, "socket", "ok")
    BY <1>0, <2>1, <2>3, InstantOK, WorldSame DEF Results
  <2> QED
    BY <2>1, <2>2, <2>3
<1>6. ASSUME NEW fd \in Fds, CallClose(f, fd) PROVE Calls!Step
  <2>1. UNCHANGED <<avail, file>> /\ (\/ Begin(f, "close", fd, FALSE, FALSE, "cancelAll")
                                      \/ Begin(f, "close", fd, FALSE, FALSE, "closef"))
    BY <1>6 DEF CallClose
  <2> QED
    BY <1>0, <2>1, BeginsOK, WorldSame
<1>7. ASSUME NEW fd \in Fds, NEW b, SetTimeout(f, fd, b) \/ SetFlags(f, fd, b) \/ SetFionbio(f, fd, b)
      PROVE  Calls!Step
  <2>1. AtOnce(f, "option", "ok") /\ UNCHANGED avail
    BY <1>7 DEF SetTimeout, SetFlags, SetFionbio
  <2> QED
    BY <1>0, <2>1, InstantOK, WorldSame DEF Results
<1> QED
  BY <1>1, <1>2, <1>3, <1>4, <1>5, <1>6, <1>7 DEF UserStep

\* What a call obtains.
LEMMA ObtainCalls ==
    ASSUME TypeInv, TypesOK', NEW f \in Fibers, Obtain(f)
    PROVE  Calls!Step
<1> DEFINE fd == call[f].fd
<1>0. TypesOK
  BY TypeParts DEF TypeInv
<1>t. /\ file \in [Fds -> 0 .. MaxOpen] /\ opened \in [Fds -> 0 .. MaxOpen] /\ avail \in [Fds -> 0 .. MaxData]
      /\ file' \in [Fds -> 0 .. MaxOpen] /\ avail' \in [Fds -> 0 .. MaxData]
      /\ fd \in Fds /\ call \in [Fibers -> CallRecords] /\ pc \in [Fibers -> Pcs]
      /\ late \in [Fibers -> BOOLEAN] /\ late' \in [Fibers -> BOOLEAN]
  BY <1>0 DEF TypesOK, FiberTypeOK, KernelTypeOK, CallRecords
<1>1. pc[f] \in {"try", "plain"} /\ InCall(f) /\ avail[fd] > 0 /\ file[fd] # 0
  BY DEF Obtain, InCall
<1>2. View(f).phase = "in" /\ View(f).fd = fd
  BY <1>1 DEF View
<1>3. CASE call[f].kind = "read" /\ avail' = [avail EXCEPT ![fd] = @ - 1] /\ Return(f, "data") /\ UNCHANGED file
  <2>1. /\ pc'[f] = "user" /\ result' = [result EXCEPT ![f] = "data"]
        /\ \A g \in Fibers \ {f} : pc'[g] = pc[g] /\ call'[g] = call[g] /\ late'[g] = late[g]
    BY <1>3, <1>t DEF Return, Goto
  <2>2. View(f)' = [phase |-> "out"]
    BY <2>1 DEF View, InCall
  <2>3. Views' = [Views EXCEPT ![f] = View(f)']
    BY <2>1, OtherViews, ViewsOne
  <2>4. avail'[fd] = avail[fd] - 1 /\ Calls!World({fd})
    BY <1>3, <1>t, HookAssumption DEF Calls!World
  <2> HIDE DEF fd
  <2> QED
    BY <1>t, <1>1, <1>2, <2>1, <2>2, <2>3, <2>4, TakeViews
<1>4. ASSUME call[f].kind = "accept", NEW new \in Fds, file[new] = 0, file' = [file EXCEPT ![new] = opened[new] + 1],
             avail' = [avail EXCEPT ![fd] = @ - 1, ![new] = 0], call' = [call EXCEPT ![f].fd = new],
             Goto(f, "adopt"), UNCHANGED <<late, result>>
      PROVE  Calls!Step
  <2>1. /\ pc'[f] = "adopt" /\ call'[f].fd = new /\ call'[f].kind = "accept" /\ call'[f].ours = call[f].ours
        /\ call'[f].file = call[f].file /\ call'[f].shared = call[f].shared
        /\ \A g \in Fibers \ {f} : pc'[g] = pc[g] /\ call'[g] = call[g] /\ late'[g] = late[g]
    BY <1>4, <1>t DEF Goto, CallRecords
  <2>2. View(f)' = [phase |-> "got", promised |-> call[f].ours, late |-> late[f], shared |-> call[f].shared,
                    fd |-> new, file |-> call[f].file]
    BY <1>4, <2>1 DEF View, InCall
  <2>3. View(f) = [phase |-> "in", promised |-> call[f].ours, late |-> late[f], shared |-> call[f].shared,
                   fd |-> fd, file |-> call[f].file]
    BY <1>1 DEF View
  <2>4. Views' = [Views EXCEPT ![f] = View(f)']
    BY <2>1, OtherViews, ViewsOne
  <2>5. Views' = [Views EXCEPT ![f].phase = "got", ![f].fd = new]
    <3> DEFINE A(v) == [v EXCEPT !.phase = "got", !.fd = new]
    <3> HIDE DEF fd
    <3>1. PICK v : v = View(f)
      OBVIOUS
    <3>2. A(v) = [phase |-> "got", promised |-> call[f].ours, late |-> late[f], shared |-> call[f].shared,
                  fd |-> new, file |-> call[f].file]
      <4> DEFINE u == [v EXCEPT !.phase = "got"]
      <4>1. u = [phase |-> "got", promised |-> call[f].ours, late |-> late[f], shared |-> call[f].shared,
                 fd |-> fd, file |-> call[f].file]
        BY <2>3, <3>1
      <4>2. A(v) = [u EXCEPT !.fd = new]
        OBVIOUS
      <4> HIDE DEF u
      <4>3. [u EXCEPT !.fd = new]
            = [phase |-> "got", promised |-> call[f].ours, late |-> late[f], shared |-> call[f].shared,
               fd |-> new, file |-> call[f].file]
        BY <4>1
      <4> QED
        BY <4>2, <4>3
    <3>3. [Views EXCEPT ![f].phase = "got", ![f].fd = new] = [Views EXCEPT ![f] = A(v)]
      BY <3>1 DEF Views
    <3> QED
      BY <2>2, <2>4, <3>2, <3>3
  <2>6. fd # new /\ opened[new] + 1 # 0
    BY <1>1, <1>4, <1>t, HookAssumption
  <2>7. avail'[fd] = avail[fd] - 1 /\ Calls!World({fd})
    BY <1>4, <1>t, <2>6, HookAssumption DEF Calls!World
  <2> HIDE DEF fd
  <2> QED
    BY <1>t, <1>1, <1>2, <1>4, <2>5, <2>7, TakeViews
<1> QED
  BY <1>3, <1>4 DEF Obtain, Lowest

LEMMA AdoptCalls ==
    ASSUME TypeInv, TypesOK', NEW f \in Fibers, Adopt(f)
    PROVE  Calls!Step
<1>0. TypesOK
  BY TypeParts DEF TypeInv
<1>1. pc[f] = "adopt" /\ InCall(f) /\ Calls!World({})
  BY <1>0, WorldSame DEF Adopt, InCall
<1>2. CASE call[f].kind = "accept"
  <2>1. Return(f, "data")
    BY <1>2 DEF Adopt
  <2>2. /\ pc'[f] = "user" /\ result' = [result EXCEPT ![f] = "data"]
        /\ \A g \in Fibers \ {f} : pc'[g] = pc[g] /\ call'[g] = call[g] /\ late'[g] = late[g]
    BY <1>0, <2>1 DEF Return, Goto, TypesOK, FiberTypeOK
  <2>3. View(f)' = [phase |-> "out"]
    BY <2>2 DEF View, InCall
  <2>4. Views' = [Views EXCEPT ![f] = View(f)']
    BY <2>2, OtherViews, ViewsOne
  <2>5. View(f).phase = "got"
    BY <1>1, <1>2 DEF View
  <2> QED
    BY <1>1, <2>2, <2>3, <2>4, <2>5, GiveViews
<1>3. CASE call[f].kind # "accept"
  <2>1. Return(f, "ok")
    BY <1>3 DEF Adopt
  <2> QED
    BY <1>0, <1>1, <1>3, <2>1, EndsOK DEF Results
<1> QED
  BY <1>2, <1>3

\* While a connect() that shares its number with nobody is about to dial, nobody
\* else dials its file.
DialOK ==
    \A f \in Fibers :
        /\ pc[f] = "try" /\ call[f].kind = "connect" /\ call[f].ours /\ ~call[f].shared
        /\ file[call[f].fd] = call[f].file
        => up[call[f].fd] = "idle"

\* The library's other steps.
LEMMA LibraryCalls ==
    ASSUME TypeInv, TypesOK', CallInv, DialOK, NEW f \in Fibers, CallStep(f), ~AddEventAborts(f)
    PROVE  Calls!Step
<1> USE DEF kernelVars
<1>0. TypesOK
  BY TypeParts DEF TypeInv
<1>t. /\ call \in [Fibers -> CallRecords] /\ pc \in [Fibers -> Pcs]
      /\ file \in [Fds -> 0 .. MaxOpen] /\ avail \in [Fds -> 0 .. MaxData]
      /\ file' \in [Fds -> 0 .. MaxOpen] /\ avail' \in [Fds -> 0 .. MaxData]
  BY <1>0 DEF TypesOK, FiberTypeOK, KernelTypeOK
<1>1. pc[f] \in {"try", "plain", "add", "check"} /\ call[f].kind \in Io => call[f].file # 0
  BY DEF CallInv, BeginOK, IoPc
<1>2. pc[f] \in {"try", "plain", "add"} => call[f].kind \in Io
  BY DEF TypeInv, CallOK
<1>3. CASE Again(f)
  <2>1. pc[f] \in {"try", "plain"} /\ UNCHANGED <<avail, file>>
    BY <1>3 DEF Again
  <2>2. CASE pc[f] = "plain" /\ Return(f, "again")
    <3>1. ~call[f].ours
      BY <2>2 DEF CallInv, BeginOK
    <3> QED
      BY <1>0, <2>1, <2>2, <3>1, EndsOK, WorldSame DEF InCall, Results
  <2>3. CASE Keep(f, IF call[f].timed THEN "timer" ELSE "add")
    BY <1>0, <2>1, <2>3, KeepsOK DEF InCall, Pcs, OnThread
  <2> QED
    BY <1>3, <2>2, <2>3 DEF Again
<1>4. CASE Dial(f)
  <2>1. pc[f] \in {"try", "plain"} /\ UNCHANGED <<avail, file>>
    BY <1>4 DEF Dial
  <2>2. CASE pc[f] = "plain" /\ Return(f, "again")
    <3>1. ~call[f].ours
      BY <2>2 DEF CallInv, BeginOK
    <3> QED
      BY <1>0, <2>1, <2>2, <3>1, EndsOK, WorldSame DEF InCall, Results
  <2>3. CASE Keep(f, "kernel") \/ Keep(f, "timer")
    BY <1>0, <2>1, <2>3, KeepsOK DEF InCall, Pcs, OnThread
  <2> QED
    BY <1>4, <2>2, <2>3 DEF Dial
<1>5. CASE Dialled(f)
  <2>1. pc[f] = "kernel" /\ UNCHANGED <<avail, file>> /\ (Return(f, "connected") \/ Return(f, "refused"))
    BY <1>5 DEF Dialled
  <2> QED
    BY <1>0, <2>1, EndsOK, WorldSame DEF InCall, Results
<1>6. CASE Refuse(f)
  <2>1. pc[f] \in {"try", "plain"} /\ UNCHANGED <<avail, file>>
    BY <1>6 DEF Refuse
  <2>2. CASE file[call[f].fd] = 0 /\ Return(f, "badf")
    BY <1>0, <1>1, <1>2, <2>1, <2>2, EndsOK, WorldSame DEF InCall, Results
  <2>3. CASE call[f].kind = "connect" /\ up[call[f].fd] # "idle" /\ Return(f, "error")
    <3>1. file[call[f].fd] # call[f].file \/ ~call[f].ours \/ call[f].shared
      BY <2>1, <2>3 DEF DialOK, CallInv, BeginOK
    <3> QED
      BY <1>0, <2>1, <2>3, <3>1, EndsOK, WorldSame DEF InCall, Results
  <2>4. CASE Return(f, "full")
    BY <1>0, <2>1, <2>4, EndsOK, WorldSame DEF InCall, Results
  <2> QED
    BY <1>6, <2>2, <2>3, <2>4 DEF Refuse
<1>7. CASE AddTimer(f) \/ AddEvent(f) \/ Del(f)
  <2>1. /\ pc[f] \in {"timer", "add", "del"} /\ UNCHANGED <<avail, file>>
        /\ Keep(f, "add") \/ Keep(f, "hold") \/ Keep(f, "closef")
    BY <1>7 DEF AddTimer, AddEvent, Del
  <2> QED
    BY <1>0, <2>1, KeepsOK DEF InCall, Pcs, OnThread
<1>8. CASE AddEventFails(f)
  <2>1. pc[f] = "add" /\ UNCHANGED <<avail, file>> /\ (file[call[f].fd] = 0 \/ ~Watched(call[f].fd))
    BY <1>8 DEF AddEventFails
  <2>2. CASE Return(f, "error")
    BY <1>0, <1>1, <1>2, <2>1, <2>2, EndsOK, WorldSame DEF InCall, Results
  <2>3. CASE Keep(f, "check")
    BY <1>0, <2>1, <2>3, KeepsOK DEF InCall, Pcs, OnThread
  <2> QED
    BY <1>8, <2>2, <2>3 DEF AddEventFails
<1>9. CASE Resume(f)
  <2>1. pc[f] = "woken" /\ UNCHANGED <<avail, file>>
    BY <1>9 DEF Resume
  <2>2. CASE Return(f, "ok")
    BY <1>0, <2>1, <2>2, EndsOK, WorldSame DEF InCall, Results
  <2>3. CASE cancelled[f] /\ Return(f, "timeout")
    <3>1. late[f]
      BY <2>3 DEF CallInv, LateOK
    <3> QED
      BY <1>0, <2>1, <2>3, <3>1, EndsOK, WorldSame DEF InCall, Results
  <2>4. CASE Keep(f, "try") \/ Keep(f, "check")
    BY <1>0, <2>1, <2>4, KeepsOK DEF InCall, Pcs, OnThread
  <2> QED
    BY <1>9, <2>2, <2>3, <2>4 DEF Resume
<1>10. CASE Check(f)
  <2>1. pc[f] = "check" /\ UNCHANGED <<avail, file>> /\ call[f].kind = "connect"
    BY <1>10 DEF Check, CallInv, BeginOK
  <2>2. \/ file[call[f].fd] = 0 /\ Return(f, "badf")
        \/ Return(f, "refused") \/ Return(f, "connected")
    BY <1>10 DEF Check
  <2> QED
    BY <1>0, <1>1, <2>1, <2>2, EndsOK, WorldSame DEF InCall, Results, Io
<1>11. CASE CancelAll(f)
  <2>1. /\ UNCHANGED <<avail, file, call, late, result>> /\ pc[f] = "cancelAll" /\ pc'[f] = "del"
        /\ \A g \in Fibers \ {f} : pc'[g] = pc[g] \/ (pc'[g] = "woken" /\ pc[g] = "hold")
    BY <1>11, <1>t DEF CancelAll, TypeInv, RegOK
  <2>2. \A g \in Fibers : /\ pc'[g] = "adopt" <=> pc[g] = "adopt"
                          /\ InCall(g)' <=> InCall(g)
    BY <2>1 DEF InCall
  <2> QED
    BY <1>0, <2>1, <2>2, WithinOK
<1>12. CASE CloseF(f)
  <2>1. /\ pc[f] = "closef" /\ call[f].fd \in Fds /\ file[call[f].fd] # 0 /\ Return(f, "ok")
        /\ file' = [file EXCEPT ![call[f].fd] = 0] /\ avail' = [avail EXCEPT ![call[f].fd] = 0]
    BY <1>12, <1>t DEF CloseF, TypeInv, CallOK, ClosePc, CallRecords
  <2>2. Calls!World({})
    BY <1>t, <2>1, HookAssumption DEF Calls!World
  <2> QED
    BY <1>0, <2>1, <2>2, EndsOK DEF InCall, Results
<1> QED
  BY <1>3, <1>4, <1>5, <1>6, <1>7, <1>8, <1>9, <1>10, <1>11, <1>12, ObtainCalls, AdoptCalls DEF CallStep

\* Timers, events and the network.
LEMMA OtherCalls ==
    ASSUME TypeInv, TypesOK', CallInv,
           \/ \E t \in timers : Collect(t) \/ Fire(t) \/ CancelEvent(t)
           \/ \E e \in Fds \X Events : Ready(e)
           \/ \E fd \in Fds : Arrive(fd) \/ Establish(fd)
    PROVE  Calls!Step
<1> USE DEF kernelVars, fiberVars
<1>0. TypesOK
  BY TypeParts DEF TypeInv
<1>1. ASSUME UNCHANGED <<avail, file, call, late, result>>,
             \A g \in Fibers : pc'[g] = pc[g] \/ (pc'[g] = "woken" /\ pc[g] = "hold")
      PROVE  Calls!Step
  <2>1. \A g \in Fibers : /\ pc'[g] = "adopt" <=> pc[g] = "adopt"
                          /\ InCall(g)' <=> InCall(g)
    BY <1>1 DEF InCall
  <2> QED
    BY <1>0, <1>1, <2>1, WithinOK
<1>2. ASSUME NEW S \in SUBSET (Fds \X Events), Trigger(S)
      PROVE  \A g \in Fibers : pc'[g] = pc[g] \/ (pc'[g] = "woken" /\ pc[g] = "hold")
  BY <1>2 DEF Trigger, TypeInv, RegOK
<1>3. ASSUME NEW t \in timers, Collect(t) PROVE Calls!Step
  <2> DEFINE f == t.owner
  <2>0. PICK yes : yes = TRUE
    OBVIOUS
  <2>1. f \in Fibers /\ InCall(f) /\ pc[f] # "adopt"
    BY <1>0, <1>3 DEF Collect, TypesOK, TimerTypeOK, TimerRecords, CallInv, ArmedOK, InCall
  <2>2. late' = [late EXCEPT ![f] = TRUE] /\ UNCHANGED <<avail, file, pc, call, result>>
    BY <1>3 DEF Collect
  <2>3. \A g \in Fibers \ {f} : late'[g] = late[g]
    BY <1>0, <2>2 DEF TypesOK, FiberTypeOK
  <2>4. late'[f] = TRUE
    BY <1>0, <2>1, <2>2 DEF TypesOK, FiberTypeOK
  <2>5. View(f).phase = "in"
    BY <2>1 DEF View
  <2>6. View(f)' = [View(f) EXCEPT !.late = yes]
    <3>1. PICK v : v = View(f)
      OBVIOUS
    <3>2. v = [phase |-> "in", promised |-> call[f].ours, late |-> late[f], shared |-> call[f].shared,
               fd |-> call[f].fd, file |-> call[f].file]
      BY <2>1, <3>1 DEF View
    <3>3. View(f)' = [phase |-> "in", promised |-> call[f].ours, late |-> yes, shared |-> call[f].shared,
                      fd |-> call[f].fd, file |-> call[f].file]
      BY <2>0, <2>1, <2>2, <2>4 DEF View, InCall
    <3>4. [v EXCEPT !.late = yes] = [phase |-> "in", promised |-> call[f].ours, late |-> yes, shared |-> call[f].shared,
                                     fd |-> call[f].fd, file |-> call[f].file]
      BY <3>2
    <3> QED
      BY <3>1, <3>3, <3>4
  <2>7. Views' = [Views EXCEPT ![f] = View(f)']
    BY <2>1, <2>2, <2>3, OtherViews, ViewsOne
  <2>8. [Views EXCEPT ![f].late = yes] = [Views EXCEPT ![f] = [View(f) EXCEPT !.late = yes]]
    BY <2>1 DEF Views
  <2>9. Views' = [Views EXCEPT ![f].late = TRUE]
    <3>1. Views' = [Views EXCEPT ![f].late = yes]
      BY <2>6, <2>7, <2>8
    <3> QED
      BY <2>0, <3>1, Zenon
  <2> HIDE DEF f
  <2> QED
    BY <1>0, <2>1, <2>2, <2>5, <2>9, ExpireViews, WorldSame
<1>4. ASSUME NEW t \in timers, Fire(t) PROVE Calls!Step
  <2>1. UNCHANGED <<avail, file, call, late, result>>
    BY <1>4 DEF Fire
  <2>2. \A g \in Fibers : pc'[g] = pc[g] \/ (pc'[g] = "woken" /\ pc[g] = "hold")
    BY <1>0, <1>4 DEF Fire, Goto, TypesOK, FiberTypeOK, TypeInv, SleepOK
  <2> QED
    BY <1>1, <2>1, <2>2
<1>5. ASSUME NEW t \in timers, CancelEvent(t) PROVE Calls!Step
  <2> DEFINE e == <<t.fd, EventOf(t.kind)>>
  <2>1. e \in Fds \X Events
    BY <1>0 DEF TypesOK, TimerTypeOK, TimerRecords, EventOf, Events
  <2>2. Trigger(IF Live(e) THEN {e} ELSE {}) /\ UNCHANGED <<avail, file, call, late, result>>
    BY <1>5 DEF CancelEvent
  <2> HIDE DEF e
  <2>3. (IF Live(e) THEN {e} ELSE {}) \in SUBSET (Fds \X Events)
    BY <2>1
  <2> QED
    BY <1>1, <1>2, <2>2, <2>3
<1>6. ASSUME NEW e \in Fds \X Events, Ready(e) PROVE Calls!Step
  <2>1. {e} \in SUBSET (Fds \X Events) /\ Trigger({e}) /\ UNCHANGED <<avail, file, call, late, result>>
    BY <1>6 DEF Ready
  <2> QED
    BY <1>1, <1>2, <2>1
<1>7. ASSUME NEW fd \in Fds, Arrive(fd) PROVE Calls!Step
  <2>1. UNCHANGED <<file, pc, call, late, result>> /\ avail' = [avail EXCEPT ![fd] = @ + 1]
    BY <1>7 DEF Arrive
  <2>2. Calls!World({})
    BY <1>0, <2>1, HookAssumption DEF Calls!World, TypesOK, KernelTypeOK
  <2>3. \A g \in Fibers : View(g)' = View(g)
    BY <2>1 DEF View, InCall
  <2> QED
    BY <2>1, <2>2, <2>3, ViewsSame, StutterViews
<1>8. ASSUME NEW fd \in Fds, Establish(fd) PROVE Calls!Step
  BY <1>1, <1>8 DEF Establish
<1> QED
  BY <1>3, <1>4, <1>5, <1>6, <1>7, <1>8

-----------------------------------------------------------------------------
(* What close() leaves behind                                              *)

\* A call that waits was promised something, and nobody but a fiber registers, for
\* a file that is open.
WaitOK ==
    /\ \A f \in Fibers : pc[f] \in IoPc /\ call[f].kind \in Io => call[f].ours
    /\ \A e \in Fds \X Events : reg[e] # NoReg => reg[e].who \in Fibers /\ reg[e].file # 0

\* A fiber that moves on in a call, and the registrations that stay or go.
LEMMA WaitKept ==
    ASSUME TypesOK, TypesOK', WaitOK, NEW f \in Fibers,
           \A g \in Fibers \ {f} : call'[g] = call[g] /\ (pc'[g] \in IoPc => pc[g] \in IoPc),
           pc'[f] \in IoPc /\ call'[f].kind \in Io => call'[f].ours,
           \A e \in Fds \X Events : reg'[e] \in {reg[e], NoReg}
    PROVE  WaitOK'
BY DEF WaitOK

LEMMA WaitStep == ASSUME TypeInv, TypesOK', CallInv, WaitOK, [Next]_vars PROVE WaitOK'
<1> USE DEF kernelVars, fiberVars
<1>0. /\ TypesOK /\ pc \in [Fibers -> Pcs] /\ call \in [Fibers -> CallRecords]
  BY TypeParts DEF TypeInv, TypesOK, FiberTypeOK, CallRecords
<1>1. ASSUME UNCHANGED <<call, reg>>, \A g \in Fibers : pc'[g] \in IoPc => pc[g] \in IoPc
      PROVE  WaitOK'
  BY <1>1 DEF WaitOK
<1>2. ASSUME NEW f \in Fibers, UserStep(f) PROVE WaitOK'
  <2>1. UNCHANGED reg /\ \A g \in Fibers \ {f} : call'[g] = call[g] /\ pc'[g] = pc[g]
    BY <1>0, <1>2 DEF UserStep, Start, Finish, CallIo, CallConnect, CallSleep, CallSocket, CallClose,
       SetTimeout, SetFlags, SetFionbio, Keep, Goto, Begin, AtOnce
  <2>2. pc'[f] \in IoPc /\ call'[f].kind \in Io => call'[f].ours
    <3>1. CASE Start(f) \/ Finish(f)
      BY <1>0, <3>1 DEF Start, Finish, Keep, Goto, IoPc
    <3>2. ASSUME NEW fd \in Fds, NEW k, NEW ours, NEW timed, NEW l,
                 Begin(f, k, fd, ours, timed, l), l \in IoPc /\ k \in Io => ours
          PROVE  pc'[f] \in IoPc /\ call'[f].kind \in Io => call'[f].ours
      BY <1>0, <3>2 DEF Begin, Goto
    <3>3. ASSUME NEW k, NEW r, AtOnce(f, k, r)
          PROVE  pc'[f] \in IoPc /\ call'[f].kind \in Io => call'[f].ours
      BY <3>3 DEF AtOnce, IoPc
    <3>4. ASSUME NEW fd \in Fds, NEW k \in {"read", "accept"}, CallIo(f, k, fd)
          PROVE  pc'[f] \in IoPc /\ call'[f].kind \in Io => call'[f].ours
      <4> DEFINE ours == hook /\ ctx[fd].here /\ ~ctx[fd].user
                 l == IF ours THEN "try" ELSE "plain"
      <4>1. Begin(f, k, fd, ours, ours /\ ctx[fd].timed, l) /\ (l \in IoPc => ours)
        BY <3>4 DEF CallIo, IoPc
      <4> HIDE DEF ours, l
      <4> QED
        BY <4>1, <3>2
    <3>5. ASSUME NEW fd \in Fds, CallConnect(f, fd)
          PROVE  pc'[f] \in IoPc /\ call'[f].kind \in Io => call'[f].ours
      <4> DEFINE ours == hook /\ ctx[fd].here /\ ~ctx[fd].user
                 l == IF ours THEN "try" ELSE "plain"
      <4>1. /\ Begin(f, "connect", fd, ours, ours, l) \/ AtOnce(f, "connect", "badf")
            /\ l \in IoPc => ours
        BY <3>5 DEF CallConnect, IoPc
      <4> HIDE DEF ours, l
      <4> QED
        BY <4>1, <3>2, <3>3
    <3>6. ASSUME NEW fd \in Fds, CallSleep(f, fd) \/ CallSocket(f, fd) \/ CallClose(f, fd)
          PROVE  pc'[f] \in IoPc /\ call'[f].kind \in Io => call'[f].ours
      BY <3>2, <3>3, <3>6 DEF CallSleep, CallSocket, CallClose, Io
    <3>7. ASSUME NEW fd \in Fds, NEW b, SetTimeout(f, fd, b) \/ SetFlags(f, fd, b) \/ SetFionbio(f, fd, b)
          PROVE  pc'[f] \in IoPc /\ call'[f].kind \in Io => call'[f].ours
      BY <3>3, <3>7 DEF SetTimeout, SetFlags, SetFionbio
    <3> QED
      BY <1>2, <3>1, <3>4, <3>5, <3>6, <3>7 DEF UserStep
  <2> QED
    BY <1>0, <2>1, <2>2, WaitKept
<1>3. ASSUME NEW f \in Fibers, NEW l \in Pcs, NEW r, Keep(f, l) \/ Return(f, r), pc[f] \in IoPc \/ l \notin IoPc,
             UNCHANGED reg
      PROVE  WaitOK'
  <2>1. \A g \in Fibers \ {f} : call'[g] = call[g] /\ pc'[g] = pc[g]
    BY <1>0, <1>3 DEF Keep, Return, Goto
  <2>2. pc'[f] \in IoPc /\ call'[f].kind \in Io => call'[f].ours
    BY <1>0, <1>3 DEF Keep, Return, Goto, WaitOK, IoPc
  <2> QED
    BY <1>0, <1>3, <2>1, <2>2, WaitKept
<1>4. ASSUME NEW f \in Fibers, NEW r, Return(f, r), UNCHANGED reg PROVE WaitOK'
  BY <1>3, <1>4 DEF Pcs, IoPc
<1>5. ASSUME NEW f \in Fibers, Obtain(f) PROVE WaitOK'
  <2>0. UNCHANGED reg
    BY <1>5 DEF Obtain
  <2>1. CASE Return(f, "data")
    BY <1>4, <2>0, <2>1
  <2>2. ASSUME NEW new, call' = [call EXCEPT ![f].fd = new], Goto(f, "adopt") PROVE WaitOK'
    <3>1. /\ \A g \in Fibers \ {f} : call'[g] = call[g] /\ pc'[g] = pc[g]
          /\ pc'[f] = "adopt" /\ UNCHANGED reg
      BY <1>0, <1>5, <2>2 DEF Goto, Obtain
    <3> QED
      BY <1>0, <3>1, WaitKept DEF IoPc
  <2> QED
    BY <1>5, <2>1, <2>2 DEF Obtain
<1>6. ASSUME NEW f \in Fibers, Adopt(f) \/ Dialled(f) \/ Refuse(f) \/ CloseF(f) PROVE WaitOK'
  BY <1>4, <1>6 DEF Adopt, Dialled, Refuse, CloseF
<1>7. ASSUME NEW f \in Fibers, NEW l \in {"try", "timer", "add", "kernel", "check", "closef"}, Keep(f, l),
             pc[f] \in {"try", "timer", "add", "woken"} \/ l \in {"kernel", "check", "closef"}, UNCHANGED reg
      PROVE  WaitOK'
  BY <1>3, <1>7 DEF Pcs, OnThread, IoPc
<1>8. ASSUME NEW f \in Fibers, Again(f) PROVE WaitOK'
  <2>1. UNCHANGED reg /\ pc[f] \in {"try", "plain"}
    BY <1>8 DEF Again
  <2>2. CASE pc[f] = "plain"
    BY <1>4, <1>8, <2>1, <2>2 DEF Again
  <2>3. CASE pc[f] = "try"
    BY <1>7, <1>8, <2>1, <2>3 DEF Again
  <2> QED
    BY <2>1, <2>2, <2>3
<1>9. ASSUME NEW f \in Fibers, Dial(f) PROVE WaitOK'
  BY <1>4, <1>7, <1>9 DEF Dial
<1>10. ASSUME NEW f \in Fibers, AddTimer(f) \/ Del(f) PROVE WaitOK'
  BY <1>7, <1>10 DEF AddTimer, Del
<1>11. ASSUME NEW f \in Fibers, AddEvent(f) PROVE WaitOK'
  <2> DEFINE e == <<call[f].fd, EventOf(call[f].kind)>>
  <2>1. /\ reg' = [reg EXCEPT ![e] = [who |-> f, file |-> file[call[f].fd]]] /\ file[call[f].fd] # 0
        /\ pc[f] = "add" /\ pc' = [pc EXCEPT ![f] = "hold"] /\ call' = call
    BY <1>11 DEF AddEvent, Keep, Goto
  <2>2. /\ reg \in [Fds \X Events -> [who : Fibers \cup {NoFiber}, file : 0 .. MaxOpen]]
        /\ NoFiber \notin Fibers
    BY <1>0, HookAssumption DEF TypesOK, RegTypeOK
  <2>3. \A d \in Fds \X Events : reg'[d] # NoReg => reg'[d].who \in Fibers /\ reg'[d].file # 0
    <3> SUFFICES ASSUME NEW d \in Fds \X Events, reg'[d] # NoReg
                 PROVE  reg'[d].who \in Fibers /\ reg'[d].file # 0
      OBVIOUS
    <3> HIDE DEF e
    <3>1. CASE d = e
      <4>1. reg'[d] = [who |-> f, file |-> file[call[f].fd]]
        BY <2>1, <2>2, <3>1
      <4> QED
        BY <2>1, <4>1
    <3>2. CASE d # e
      BY <2>1, <2>2, <3>2 DEF WaitOK
    <3> QED
      BY <3>1, <3>2
  <2>4. \A g \in Fibers : pc'[g] \in IoPc => pc[g] \in IoPc
    BY <1>0, <2>1 DEF IoPc
  <2> QED
    BY <2>1, <2>3, <2>4 DEF WaitOK
<1>12. ASSUME NEW f \in Fibers, AddEventFails(f) \/ Resume(f) \/ Check(f) PROVE WaitOK'
  BY <1>4, <1>7, <1>12 DEF AddEventFails, Resume, Check
<1>13. ASSUME UNCHANGED call, \A g \in Fibers : pc'[g] \in IoPc => pc[g] \in IoPc,
              \A e \in Fds \X Events : reg'[e] \in {reg[e], NoReg}
       PROVE  WaitOK'
  BY <1>13 DEF WaitOK
<1>14. reg \in [Fds \X Events -> [who : Fibers \cup {NoFiber}, file : 0 .. MaxOpen]]
  BY <1>0 DEF TypesOK, RegTypeOK
<1>15. ASSUME NEW f \in Fibers, CancelAll(f) PROVE WaitOK'
  <2>1. /\ UNCHANGED call
        /\ \A e \in Fds \X Events : reg'[e] \in {reg[e], NoReg}
    BY <1>14, <1>15 DEF CancelAll
  <2>2. \A g \in Fibers : pc'[g] \in IoPc => pc[g] \in IoPc
    BY <1>14, <1>15 DEF CancelAll, TypeInv, RegOK, IoPc
  <2> QED
    BY <1>13, <2>1, <2>2
<1>16. ASSUME NEW S \in SUBSET (Fds \X Events), Trigger(S), UNCHANGED call PROVE WaitOK'
  <2>1. \A e \in Fds \X Events : reg'[e] \in {reg[e], NoReg}
    BY <1>14, <1>16 DEF Trigger
  <2>2. \A g \in Fibers : pc'[g] \in IoPc => pc[g] \in IoPc
    BY <1>16 DEF Trigger, TypeInv, RegOK, IoPc
  <2> QED
    BY <1>13, <1>16, <2>1, <2>2
<1>17. ASSUME NEW t \in timers, Collect(t) \/ Fire(t) \/ CancelEvent(t) PROVE WaitOK'
  <2>1. CASE Collect(t)
    BY <1>1, <2>1 DEF Collect
  <2>2. CASE Fire(t)
    <3>1. UNCHANGED <<call, reg>> /\ (pc' = pc \/ (t.kind = "sleep" /\ pc' = [pc EXCEPT ![t.owner] = "woken"]))
      BY <2>2 DEF Fire, Goto
    <3>2. t.kind = "sleep" => pc[t.owner] = "hold"
      BY DEF TypeInv, SleepOK
    <3> QED
      BY <1>0, <1>1, <3>1, <3>2 DEF IoPc
  <2>3. CASE CancelEvent(t)
    <3> DEFINE e == <<t.fd, EventOf(t.kind)>>
    <3>1. e \in Fds \X Events
      BY <1>0 DEF TypesOK, TimerTypeOK, TimerRecords, EventOf, Events
    <3>2. Trigger(IF Live(e) THEN {e} ELSE {}) /\ UNCHANGED call
      BY <2>3 DEF CancelEvent
    <3> HIDE DEF e
    <3>3. (IF Live(e) THEN {e} ELSE {}) \in SUBSET (Fds \X Events)
      BY <3>1
    <3> QED
      BY <1>16, <3>2, <3>3
  <2> QED
    BY <1>17, <2>1, <2>2, <2>3
<1>18. ASSUME NEW e \in Fds \X Events, Ready(e) PROVE WaitOK'
  <2>1. {e} \in SUBSET (Fds \X Events)
    OBVIOUS
  <2> QED
    BY <1>16, <1>18, <2>1 DEF Ready
<1>19. ASSUME NEW fd \in Fds, Arrive(fd) \/ Establish(fd) PROVE WaitOK'
  BY <1>1, <1>19 DEF Arrive, Establish
<1>20. CASE UNCHANGED restVars
  BY <1>1, <1>20 DEF restVars
<1> HIDE DEF kernelVars, fiberVars
<1>21. ASSUME NEW f \in Fibers, CallStep(f) PROVE WaitOK'
  BY <1>5, <1>6, <1>8, <1>9, <1>10, <1>11, <1>12, <1>15, <1>20, <1>21, Endings DEF CallStep
<1> QED
  BY <1>2, <1>17, <1>18, <1>19, <1>20, <1>21, Endings DEF Next, TimerStep, Halted

\* Who dials: a fiber that has begun to connect() and has not dialled yet.
LEMMA DialBegins ==
    ASSUME TypeInv, [Next]_vars, NEW f \in Fibers, pc'[f] = "try", call'[f].kind = "connect"
    PROVE  (pc[f] = "try" /\ call'[f] = call[f]) \/ \E fd \in Fds : CallConnect(f, fd)
<1> DEFINE Goal == (pc[f] = "try" /\ call'[f] = call[f]) \/ \E fd \in Fds : CallConnect(f, fd)
<1>0. /\ TypesOK /\ pc \in [Fibers -> Pcs] /\ call \in [Fibers -> CallRecords]
  BY TypeParts DEF TypeInv, TypesOK, FiberTypeOK, CallRecords
<1>1. ASSUME call' = call, pc'[f] = pc[f] \/ pc'[f] # "try" PROVE Goal
  BY <1>1
<1>2. ASSUME NEW g \in Fibers, UserStep(g) PROVE Goal
  <2>1. CASE g # f
    <3>1. pc'[f] = pc[f] /\ call'[f] = call[f]
      BY <1>0, <1>2, <2>1 DEF UserStep, Start, Finish, CallIo, CallConnect, CallSleep, CallSocket, CallClose,
         SetTimeout, SetFlags, SetFionbio, Keep, Goto, Begin, AtOnce
    <3> QED
      BY <3>1
  <2>2. ASSUME NEW k \in Kinds, NEW fd, NEW ours, NEW timed, NEW l, Begin(f, k, fd, ours, timed, l)
        PROVE  k = "connect" /\ l = "try"
    BY <1>0, <2>2 DEF Begin, Goto
  <2>3. ASSUME NEW k, NEW r, AtOnce(f, k, r) PROVE FALSE
    BY <2>3 DEF AtOnce
  <2>4. CASE g = f
    <3>1. ~Start(f) /\ ~Finish(f)
      BY <1>0 DEF Start, Finish, Keep, Goto
    <3>2. ~\E fd \in Fds, k \in {"read", "accept"} : CallIo(f, k, fd)
      BY <2>2 DEF CallIo, Kinds
    <3>3. ~\E fd \in Fds : CallSleep(f, fd) \/ CallSocket(f, fd) \/ CallClose(f, fd)
      BY <2>2, <2>3 DEF CallSleep, CallSocket, CallClose, Kinds
    <3>4. ~\E fd \in Fds : \E b : SetTimeout(f, fd, b) \/ SetFlags(f, fd, b) \/ SetFionbio(f, fd, b)
      BY <2>3 DEF SetTimeout, SetFlags, SetFionbio
    <3> QED
      BY <1>2, <2>4, <3>1, <3>2, <3>3, <3>4 DEF UserStep
  <2> QED
    BY <2>1, <2>4
<1>3. ASSUME NEW g \in Fibers, CallStep(g) PROVE Goal
  <2>1. ASSUME NEW r, Return(g, r) PROVE Goal
    BY <1>0, <2>1 DEF Return, Goto
  <2>2. ASSUME NEW l, Keep(g, l), l # "try" \/ call[g].kind # "connect" PROVE Goal
    BY <1>0, <2>2 DEF Keep, Goto
  <2>3. CASE Obtain(g)
    BY <1>0, <2>1, <2>3 DEF Obtain, Goto
  <2>4. CASE Adopt(g) \/ Again(g) \/ Dial(g) \/ Dialled(g) \/ Refuse(g)
    BY <2>1, <2>2, <2>4 DEF Adopt, Again, Dial, Dialled, Refuse
  <2>5. CASE AddTimer(g) \/ AddEvent(g) \/ AddEventFails(g) \/ Resume(g) \/ Check(g) \/ Del(g) \/ CloseF(g)
    BY <2>1, <2>2, <2>5 DEF AddTimer, AddEvent, AddEventFails, Resume, Check, Del, CloseF
  <2>6. CASE CancelAll(g)
    BY <1>1, <2>6 DEF CancelAll
  <2>7. CASE AddEventAborts(g)
    BY <1>1, <2>7 DEF AddEventAborts, restVars, fiberVars
  <2> QED
    BY <1>3, <2>3, <2>4, <2>5, <2>6, <2>7 DEF CallStep
<1>4. ASSUME NEW t \in timers, Collect(t) \/ Fire(t) \/ CancelEvent(t) PROVE Goal
  <2>1. t.owner \in Fibers
    BY <1>0 DEF TypesOK, TimerTypeOK, TimerRecords
  <2> QED
    BY <1>0, <1>1, <1>4, <2>1 DEF Collect, Fire, CancelEvent, Trigger, Goto
<1>5. CASE (\E e \in Fds \X Events : Ready(e)) \/ (\E fd \in Fds : Arrive(fd) \/ Establish(fd)) \/ UNCHANGED vars
  BY <1>1, <1>5 DEF Ready, Trigger, Arrive, Establish, fiberVars, vars
<1> QED
  BY <1>2, <1>3, <1>4, <1>5 DEF Next, TimerStep, Halted

\* What becomes of the connection of a number, and of its file.
LEMMA DialMoves ==
    ASSUME TypeInv, [Next]_vars, NEW fd \in Fds, file[fd] # 0, file'[fd] # 0
    PROVE  /\ file'[fd] = file[fd]
           /\ \/ up'[fd] = up[fd] \/ up[fd] = "progress"
              \/ \E g \in Fibers : Dial(g) /\ call[g].fd = fd
<1> DEFINE Goal == /\ file'[fd] = file[fd]
                   /\ \/ up'[fd] = up[fd] \/ up[fd] = "progress"
                      \/ \E g \in Fibers : Dial(g) /\ call[g].fd = fd
<1> USE DEF kernelVars
<1>0. /\ TypesOK /\ file \in [Fds -> 0 .. MaxOpen] /\ up \in [Fds -> {"idle", "progress", "up", "refused"}]
  BY TypeParts DEF TypeInv, TypesOK, KernelTypeOK
<1>1. ASSUME NEW f \in Fibers, UserStep(f) PROVE Goal
  <2>1. CASE \E d \in Fds : CallSocket(f, d)
    BY <1>0, <2>1 DEF CallSocket, Lowest
  <2>2. CASE ~\E d \in Fds : CallSocket(f, d)
    BY <1>1, <2>2 DEF UserStep, Start, Finish, CallIo, CallConnect, CallSleep, CallClose,
       SetTimeout, SetFlags, SetFionbio
  <2> QED
    BY <2>1, <2>2
<1>2. ASSUME NEW f \in Fibers, CallStep(f) PROVE Goal
  <2>1. CASE Obtain(f)
    BY <1>0, <2>1 DEF Obtain, Lowest
  <2>2. CASE Dial(f)
    BY <1>0, <2>2 DEF Dial
  <2>3. CASE CloseF(f)
    BY <1>0, <2>3 DEF CloseF
  <2>4. CASE ~Obtain(f) /\ ~Dial(f) /\ ~CloseF(f)
    BY <1>2, <2>4 DEF CallStep, Adopt, Again, Dialled, Refuse, AddTimer, AddEvent, AddEventAborts, restVars,
       AddEventFails, Resume, Check, CancelAll, Del
  <2> QED
    BY <2>1, <2>2, <2>3, <2>4
<1>3. ASSUME NEW f \in Fibers, TimerStep(f) PROVE Goal
  BY <1>3 DEF TimerStep, Collect, Fire, CancelEvent
<1>4. ASSUME NEW d \in Fds, Establish(d) PROVE Goal
  BY <1>0, <1>4 DEF Establish
<1> QED
  BY <1>1, <1>2, <1>3, <1>4 DEF Next, Ready, Arrive, Halted, vars

\* A number that is opened again is another file.
LEMMA DialOpens ==
    ASSUME TypeInv, [Next]_vars, NEW fd \in Fds, file[fd] = 0
    PROVE  file'[fd] \in {0, opened[fd] + 1}
<1> USE DEF kernelVars
<1>0. /\ TypesOK /\ file \in [Fds -> 0 .. MaxOpen]
  BY TypeParts DEF TypeInv, TypesOK, KernelTypeOK
<1>1. ASSUME NEW f \in Fibers, UserStep(f) PROVE file'[fd] \in {0, opened[fd] + 1}
  BY <1>0, <1>1 DEF UserStep, Start, Finish, CallIo, CallConnect, CallSleep, CallSocket, CallClose,
     SetTimeout, SetFlags, SetFionbio
<1>2. ASSUME NEW f \in Fibers, CallStep(f) PROVE file'[fd] \in {0, opened[fd] + 1}
  BY <1>0, <1>2 DEF CallStep, Obtain, Adopt, Again, Dial, Dialled, Refuse, AddTimer, AddEvent,
     AddEventAborts, restVars, AddEventFails, Resume, Check, CancelAll, Del, CloseF
<1>3. ASSUME NEW f \in Fibers, TimerStep(f) PROVE file'[fd] \in {0, opened[fd] + 1}
  BY <1>3 DEF TimerStep, Collect, Fire, CancelEvent
<1> QED
  BY <1>1, <1>2, <1>3 DEF Next, Ready, Arrive, Establish, Halted, vars

LEMMA DialStep == ASSUME TypeInv, TypesOK', CallInv, DialOK, [Next]_vars PROVE DialOK'
<1> SUFFICES ASSUME NEW f \in Fibers, pc'[f] = "try", call'[f].kind = "connect", call'[f].ours,
                    ~call'[f].shared, file'[call'[f].fd] = call'[f].file
             PROVE  up'[call'[f].fd] = "idle"
  BY DEF DialOK
<1>0. TypesOK /\ call \in [Fibers -> CallRecords] /\ pc \in [Fibers -> Pcs]
  BY TypeParts DEF TypeInv, TypesOK, FiberTypeOK
<1>1. CASE pc[f] = "try" /\ call'[f] = call[f]
  <2> DEFINE fd == call[f].fd
  <2>1. fd \in Fds /\ file'[fd] = call[f].file /\ call[f].kind = "connect" /\ InCall(f)
    BY <1>0, <1>1 DEF CallRecords, InCall
  <2>2. call[f].file # 0 /\ call[f].file <= opened[fd]
    BY <1>1, <2>1 DEF CallInv, BeginOK, IoPc, Io
  <2>3. file[fd] # 0
    <3>1. CASE file[fd] = 0
      <4>1. file'[fd] \in {0, opened[fd] + 1}
        BY <2>1, <3>1, DialOpens
      <4>2. opened[fd] \in Nat /\ call[f].file \in Nat
        <5>1. opened[fd] \in 0 .. MaxOpen /\ call[f].file \in 0 .. MaxOpen
          BY <1>0, <2>1 DEF TypesOK, KernelTypeOK, CallRecords
        <5>2. MaxOpen \in Nat
          BY HookAssumption
        <5> QED
          BY <5>1, <5>2
      <4> QED
        BY <2>1, <2>2, <4>1, <4>2
    <3> QED
      BY <3>1
  <2>4. /\ file'[fd] = file[fd]
        /\ \/ up'[fd] = up[fd] \/ up[fd] = "progress"
           \/ \E g \in Fibers : Dial(g) /\ call[g].fd = fd
    BY <2>1, <2>2, <2>3, DialMoves
  <2>5. up[fd] = "idle"
    BY <1>1, <2>1, <2>4 DEF DialOK
  <2>6. ASSUME NEW g \in Fibers, Dial(g), call[g].fd = fd PROVE FALSE
    <3>1. pc[g] \in {"try", "plain"} /\ call[g].kind = "connect" /\ InCall(g)
      BY <2>6 DEF Dial, InCall
    <3>2. g # f
      <4>1. pc'[g] # "try"
        BY <1>0, <2>6 DEF Dial, Keep, Return, Goto
      <4> QED
        BY <4>1
    <3>3. call[g].file # call[f].file /\ (call[g].file < call[f].file => call[f].shared)
      BY <1>1, <2>1, <2>6, <3>1, <3>2 DEF CallInv, OnlyOK, Io
    <3>4. call[g].file \in Nat /\ file[fd] \in Nat /\ call[g].file <= file[fd]
      BY <2>3, <2>6, <3>1, Earlier DEF CallInv, Io
    <3> QED
      BY <1>1, <2>1, <2>4, <3>3, <3>4
  <2> QED
    BY <1>1, <2>4, <2>5, <2>6
<1>2. ASSUME NEW fd \in Fds, CallConnect(f, fd) PROVE up'[call'[f].fd] = "idle"
  <2>1. UNCHANGED up /\ up[fd] = "idle" /\ pc[f] = "user"
    BY <1>2 DEF CallConnect, kernelVars, Begin, AtOnce
  <2>2. call'[f].fd = fd
    <3>1. ~AtOnce(f, "connect", "badf")
      BY <2>1 DEF AtOnce
    <3> QED
      BY <1>0, <1>2, <3>1 DEF CallConnect, Begin
  <2> QED
    BY <2>1, <2>2
<1> QED
  BY <1>1, <1>2, DialBegins

\* A number is left with a waiter only when its file is closed under a call.
LEMMA LeftStep ==
    ASSUME TypeInv, TypesOK', CallInv, WaitOK, WaitOK', [Next]_vars,
           NEW fd \in Fds, Watched(fd), ~Watched(fd)'
    PROVE  /\ file[fd] # 0 /\ file'[fd] = 0
           /\ \E f \in Fibers : View(f).phase = "in" /\ View(f).promised /\ View(f).fd = fd
<1> USE DEF kernelVars, fiberVars
<1>0. /\ file \in [Fds -> 0 .. MaxOpen] /\ call \in [Fibers -> CallRecords]
      /\ reg \in [Fds \X Events -> [who : Fibers \cup {NoFiber}, file : 0 .. MaxOpen]]
  BY TypeParts DEF TypeInv, TypesOK, FiberTypeOK, KernelTypeOK, RegTypeOK, CallRecords
<1>1. PICK n \in Events : reg'[<<fd, n>>] # NoReg /\ reg'[<<fd, n>>].file # file'[fd]
  BY DEF Watched
<1> DEFINE e == <<fd, n>>
<1>2. e \in Fds \X Events
  OBVIOUS
<1>3. ASSUME UNCHANGED file, reg'[e] \in {reg[e], NoReg} \/ reg'[e].file = file[fd] PROVE FALSE
  BY <1>1, <1>3 DEF Watched
<1>4. ASSUME NEW S, Trigger(S), UNCHANGED file PROVE FALSE
  <2>1. reg'[e] \in {reg[e], NoReg}
    BY <1>0, <1>2, <1>4 DEF Trigger
  <2> QED
    BY <1>3, <1>4, <2>1
<1>5. ASSUME UNCHANGED reg, file'[fd] # 0, file[fd] = 0 PROVE FALSE
  BY <1>1, <1>2, <1>5 DEF Watched, WaitOK
<1>6. ASSUME NEW f \in Fibers, UserStep(f) PROVE FALSE
  <2>1. UNCHANGED <<reg, file>> \/ \E d \in Fds : CallSocket(f, d)
    BY <1>6 DEF UserStep, Start, Finish, CallIo, CallConnect, CallSleep, CallClose, SetTimeout, SetFlags, SetFionbio
  <2>2. ASSUME NEW d \in Fds, CallSocket(f, d) PROVE FALSE
    <3>1. UNCHANGED reg /\ (file'[fd] = file[fd] \/ (file[fd] = 0 /\ fd = d))
      BY <1>0, <2>2 DEF CallSocket, Lowest
    <3>2. CASE file'[fd] = file[fd]
      BY <1>1, <3>1, <3>2 DEF Watched
    <3>3. CASE file'[fd] # file[fd]
      BY <1>1, <1>2, <3>1, <3>3 DEF Watched, WaitOK
    <3> QED
      BY <3>2, <3>3
  <2> QED
    BY <1>3, <2>1, <2>2
<1>7. ASSUME NEW f \in Fibers, Obtain(f) PROVE FALSE
  <2>1. UNCHANGED reg /\ (file'[fd] = file[fd] \/ file[fd] = 0)
    BY <1>0, <1>7 DEF Obtain, Lowest
  <2>2. CASE file'[fd] = file[fd]
    BY <1>1, <2>1, <2>2 DEF Watched
  <2>3. CASE file'[fd] # file[fd]
    BY <1>1, <1>2, <2>1, <2>3 DEF Watched, WaitOK
  <2> QED
    BY <2>2, <2>3
<1>8. ASSUME NEW f \in Fibers, Adopt(f) \/ Again(f) \/ Dial(f) \/ Dialled(f) \/ Refuse(f) \/ AddTimer(f)
                               \/ AddEventFails(f) \/ Resume(f) \/ Check(f) \/ Del(f)
      PROVE  FALSE
  <2>1. UNCHANGED <<reg, file>>
    BY <1>8 DEF Adopt, Again, Dial, Dialled, Refuse, AddTimer, AddEventFails, Resume, Check, Del
  <2> QED
    BY <1>3, <2>1
<1>9. ASSUME NEW f \in Fibers, AddEvent(f) PROVE FALSE
  <2> DEFINE d == <<call[f].fd, EventOf(call[f].kind)>>
  <2>1. reg' = [reg EXCEPT ![d] = [who |-> f, file |-> file[call[f].fd]]] /\ UNCHANGED file
    BY <1>9 DEF AddEvent
  <2>2. e # d => reg'[e] = reg[e]
    BY <1>0, <1>2, <2>1
  <2>3. e = d => reg'[e] = [who |-> f, file |-> file[call[f].fd]] /\ call[f].fd = fd
    BY <1>0, <1>2, <2>1
  <2>4. e = d => reg'[e].file = file[fd]
    BY <2>3
  <2> QED
    BY <1>3, <2>1, <2>2, <2>4
<1>10. ASSUME NEW f \in Fibers, CancelAll(f) PROVE FALSE
  <2>1. UNCHANGED file /\ reg'[e] \in {reg[e], NoReg}
    BY <1>0, <1>2, <1>10 DEF CancelAll
  <2> QED
    BY <1>3, <2>1
<1>11. ASSUME NEW t \in timers, Collect(t) \/ Fire(t) \/ CancelEvent(t) PROVE FALSE
  <2>1. CASE Collect(t) \/ Fire(t)
    BY <1>3, <2>1 DEF Collect, Fire
  <2>2. CASE CancelEvent(t)
    BY <1>4, <2>2 DEF CancelEvent
  <2> QED
    BY <1>11, <2>1, <2>2
<1>12. ASSUME NEW d \in Fds \X Events, Ready(d) PROVE FALSE
  BY <1>4, <1>12 DEF Ready
<1>13. ASSUME NEW d \in Fds, Arrive(d) \/ Establish(d) PROVE FALSE
  BY <1>3, <1>13 DEF Arrive, Establish
<1>14. ASSUME UNCHANGED restVars PROVE FALSE
  BY <1>3, <1>14 DEF restVars
<1> HIDE DEF kernelVars, fiberVars, e
<1>15. PICK f \in Fibers : CloseF(f)
  <2>1. PICK g \in Fibers : CallStep(g)
    BY <1>6, <1>11, <1>12, <1>13, <1>14, Endings DEF Next, TimerStep, Halted
  <2>2. CloseF(g)
    BY <1>7, <1>8, <1>9, <1>10, <1>14, <2>1, Endings DEF CallStep
  <2> QED
    BY <2>2
<1>16. /\ file' = [file EXCEPT ![call[f].fd] = 0] /\ UNCHANGED reg
  BY <1>15 DEF CloseF, kernelVars, fiberVars
<1> USE DEF e
<1>17. reg[e] # NoReg /\ reg[e].file = file[fd] /\ reg[e].who \in Fibers /\ file[fd] # 0 /\ file'[fd] # file[fd]
  BY <1>1, <1>2, <1>16 DEF Watched, WaitOK
<1>18. file'[fd] = 0
  BY <1>0, <1>16, <1>17
<1>19. PICK g \in Fibers : g = reg[e].who
  BY <1>17
<1>20. pc[g] = "hold" /\ call[g].kind \in Io /\ call[g].fd = fd
  BY <1>2, <1>19 DEF TypeInv, RegOK
<1>21. call[g].ours /\ InCall(g)
  BY <1>20 DEF WaitOK, IoPc, InCall
<1>22. View(g).phase = "in" /\ View(g).promised /\ View(g).fd = fd
  BY <1>20, <1>21 DEF View
<1> QED
  BY <1>17, <1>18, <1>22

-----------------------------------------------------------------------------
(* The refinement                                                          *)

LEMMA CallsInit == Init => Calls!Init /\ WaitOK /\ DialOK
<1> SUFFICES ASSUME Init PROVE Calls!Init /\ WaitOK /\ DialOK
  OBVIOUS
<1>1. \A fd \in Fds : Watched(fd)
  BY DEF Init, Watched, Events
<1> QED
  BY <1>1, HookAssumption DEF Init, Calls!Init, Calls!Idle, InCall, WaitOK, DialOK, IoPc

\* Only an assertion ends the process.
LEMMA GoesOn ==
    ASSUME [Next]_vars, ~\E f \in Fibers : AddEventAborts(f)
    PROVE  UNCHANGED failed
<1> USE DEF poolVars
<1>1. ASSUME NEW f \in Fibers, UserStep(f) PROVE UNCHANGED failed
  BY <1>1 DEF UserStep, Start, Finish, CallIo, CallConnect, CallSleep, CallSocket, CallClose,
     SetTimeout, SetFlags, SetFionbio
<1>2. ASSUME NEW f \in Fibers, CallStep(f) PROVE UNCHANGED failed
  BY <1>2 DEF CallStep, Obtain, Adopt, Again, Dial, Dialled, Refuse, AddTimer, AddEvent, AddEventFails,
     Resume, Check, CancelAll, Del, CloseF
<1>3. ASSUME NEW f \in Fibers, TimerStep(f) PROVE UNCHANGED failed
  BY <1>3 DEF TimerStep, Collect, Fire, CancelEvent
<1> QED
  BY <1>1, <1>2, <1>3 DEF Next, Ready, Arrive, Establish, Halted, vars

\* The event an assertion finds registered is that of another call of the number,
\* which began with another file of it.
LEMMA AbortMeets ==
    ASSUME TypeInv, TypesOK, CallInv, WaitOK, NEW f \in Fibers, AddEventAborts(f)
    PROVE  Calls!Stop
<1> DEFINE fd == call[f].fd
           e == <<fd, EventOf(call[f].kind)>>
<1>1. pc[f] = "add" /\ reg[e] # NoReg /\ failed' = TRUE /\ UNCHANGED restVars
  BY DEF AddEventAborts
<1>2. fd \in Fds /\ e \in Fds \X Events
  BY DEF TypesOK, FiberTypeOK, CallRecords, EventOf, Events
<1>3. call[f].kind \in Io
  BY <1>1 DEF TypeInv, CallOK
<1>4. PICK g \in Fibers : g = reg[e].who
  BY <1>1, <1>2 DEF WaitOK
<1>5. pc[g] = "hold" /\ call[g].kind \in Io /\ call[g].fd = fd /\ EventOf(call[g].kind) = EventOf(call[f].kind)
  BY <1>2, <1>4 DEF TypeInv, RegOK
<1>6. call[f].file # call[g].file
  BY <1>1, <1>3, <1>5 DEF CallInv, OnlyOK, InCall
<1>7. call[f].ours /\ call[g].ours
  BY <1>1, <1>3, <1>5 DEF WaitOK, IoPc
<1>8. /\ View(f).phase = "in" /\ View(f).fd = fd /\ View(f).promised /\ View(f).file = call[f].file
      /\ View(g).phase = "in" /\ View(g).fd = fd /\ View(g).promised /\ View(g).file = call[g].file
  BY <1>1, <1>5, <1>7 DEF View, InCall
<1>9. \A h \in Fibers : View(h)' = View(h)
  BY <1>1 DEF restVars, fiberVars, View, InCall
<1>10. Views' = Views /\ UNCHANGED <<result, avail, file>>
  BY <1>1, <1>9, ViewsSame DEF restVars, fiberVars, kernelVars
<1>11. \A d \in Fds : Watched(d)' = Watched(d)
  BY <1>1 DEF restVars, kernelVars, Watched
<1> QED
  BY <1>1, <1>2, <1>6, <1>8, <1>10, <1>11 DEF Calls!Stop, Calls!On, Views, View

LEMMA CallsStep ==
    ASSUME TypeInv, TypesOK', CallInv, WaitOK, WaitOK', DialOK, [Next]_vars
    PROVE  [Calls!Next]_(Calls!vars)
<1>0. TypesOK
  BY TypeParts DEF TypeInv
<1>1. CASE UNCHANGED vars
  BY <1>1 DEF vars, poolVars, kernelVars, fiberVars, Calls!vars, InCall, Watched
<1>2. ASSUME NEW f \in Fibers, AddEventAborts(f), ~failed PROVE Calls!Next
  BY <1>0, <1>2, AbortMeets DEF Calls!Next
<1>3. ASSUME Next, ~UNCHANGED vars, ~\E f \in Fibers : AddEventAborts(f) PROVE Calls!Next
  <2>1. Calls!Step
    BY <1>3, UserCalls, LibraryCalls, OtherCalls DEF Next, TimerStep, Halted
  <2>2. Calls!LeaveBehind
    BY LeftStep DEF Calls!LeaveBehind, View
  <2>3. ~failed /\ UNCHANGED failed
    BY <1>3, GoesOn DEF Next, Halted
  <2> QED
    BY <2>1, <2>2, <2>3 DEF Calls!Next
<1>4. ASSUME Next, ~UNCHANGED vars PROVE ~failed
  BY <1>4 DEF Next, Halted
<1> QED
  BY <1>1, <1>2, <1>3, <1>4

\* do_io(), connect_with_timeout() and accept() implement the call that blocks
\* (BlockingCall), for any number of threads, fibers and descriptors: every call the
\* hook has taken ends for a reason, and only with what it took.  What close() may
\* leave behind on a number (hook.cpp:351, 356) is left there only under a call that
\* was waiting, and the assertion of addEvent() (iomanager.cpp:122) ends the process
\* only where two calls on one number began with different files of it.
THEOREM BlockingCalls == Spec => LooksBlocking
<1>1. HookInv /\ WaitOK /\ DialOK /\ [Next]_vars => [Calls!Next]_(Calls!vars) /\ WaitOK' /\ DialOK'
  <2> SUFFICES ASSUME HookInv, WaitOK, DialOK, [Next]_vars
               PROVE  [Calls!Next]_(Calls!vars) /\ WaitOK' /\ DialOK'
    OBVIOUS
  <2>1. TypeInv /\ TypesOK /\ TypesOK' /\ CallInv
    BY TypesStep, TypeParts DEF HookInv, TypeInv
  <2>2. WaitOK'
    BY <2>1, WaitStep
  <2>3. DialOK'
    BY <2>1, DialStep
  <2> QED
    BY <2>1, <2>2, <2>3, CallsStep
<1> QED
  BY <1>1, CallsInit, HookInvHolds, PTL DEF Spec, Calls!Spec, LooksBlocking

\* With one thread close() leaves nothing behind: no call ends with an error that
\* nobody caused.
THEOREM NothingLeft == ThreadCounts = {1} => (Spec => [](\A fd \in Fds : Watched(fd)))
<1> SUFFICES ASSUME ThreadCounts = {1} PROVE Spec => [](\A fd \in Fds : Watched(fd))
  OBVIOUS
<1>1. HookInv => \A fd \in Fds : Watched(fd)
  <2> SUFFICES ASSUME HookInv PROVE \A fd \in Fds : Watched(fd)
    OBVIOUS
  <2>1. threads = 1
    BY DEF HookInv, TypeInv, HookTypeOK
  <2> QED
    BY <2>1, AlwaysWatched DEF HookInv, Alone
<1> QED
  BY <1>1, HookInvHolds, PTL
=============================================================================
