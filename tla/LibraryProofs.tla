---------------------------- MODULE LibraryProofs ----------------------------
(***************************************************************************)
(* Proofs about what a server program is made of.                          *)
(* The TCP server: stop() leaves no accept loop behind when the accept     *)
(* worker has one thread, for any number of sockets and clients.  What it  *)
(* rests on: the task of stop() is not interrupted between cancelAll() and *)
(* close(), so that nobody registers in between.                           *)
(* The daemons: they never give a server up among themselves, for any      *)
(* number of launches and crashes.  A daemon goes only when its server     *)
(* ended with status 0 or 9.  With servers to run, status 0 means that it  *)
(* found the address taken, and then the daemon of the server that has it  *)
(* is there to wait for it.                                                *)
(* The configuration: while loads do not overlap, loggers are as the last  *)
(* file read says, for any definitions and any sequence of edits.          *)
(* All of it: the components beside each other, as they are checked,       *)
(* behave like each of them alone, so that every theorem about one of them *)
(* holds there; the types of all of them are an example.                   *)
(***************************************************************************)
EXTENDS MCLibrary, HookProofs, ByteArrayProofs, HttpProofs

-----------------------------------------------------------------------------
(* The TCP server: the inductive invariant                                 *)

\* The shape of the variables the argument is about.
Shape ==
    /\ listening \subseteq socks /\ stopped \in BOOLEAN
    /\ loop \in [Loops -> [sock : Socks, at : {"off", "queued", "test", "accept", "add", "hold", "woken", "ended"}]]
    /\ stopTask \in [sock : Socks, at : {"off", "queued", "next", "close", "ended"}]
    /\ socks \subseteq Socks

\* Before start() there is no loop, before stop() no task of it.
NotBegun ==
    /\ (isStop /\ ~stopped) => \A l \in Loops : loop[l].at = "off"
    /\ (stopTask.at # "off") => stopped

\* One thread: the task of stop() and a loop do not run at the same time.
OneRuns == TaskRuns => (Running = {})

\* A loop that waits is on an open socket, and not on the one about to be closed.
WaitsOnOpen ==
    \A l \in Loops : (loop[l].at = "hold") =>
        /\ loop[l].sock \in listening
        /\ (stopTask.at = "close") => (loop[l].sock # stopTask.sock)

\* When the task has ended nothing is open.
AllClosed == (stopTask.at = "ended") => (listening = {})

TcpInv == Shape /\ NotBegun /\ OneRuns /\ WaitsOnOpen /\ AllClosed

\* The server begins without sockets and loops.
LEMMA TcpInitInv == TcpInit => TcpInv
<1> SUFFICES ASSUME TcpInit PROVE TcpInv
  OBVIOUS
<1>1. NoLoop \in [sock : Socks, at : {"off"}] /\ NoTask \in [sock : Socks, at : {"off"}]
  BY TcpAssumption DEF NoLoop, NoTask
<1> QED
  BY <1>1 DEF TcpInit, TcpInv, Shape, NotBegun, OneRuns, WaitsOnOpen, AllClosed, TaskRuns

-----------------------------------------------------------------------------
(* The steps                                                               *)

\* bind() happens before there are loops.
LEMMA BindStep ==
    ASSUME TcpInv, NEW addrs \in SUBSET Socks, TcpBind(addrs)
    PROVE  TcpInv'
<1>1. /\ isStop /\ ~stopped /\ listening' = socks' /\ socks' \subseteq Socks
      /\ UNCHANGED <<isStop, loop, stopTask, stopped>>
  BY DEF TcpBind, TcpInv, Shape
<1>2. (\A l \in Loops : loop[l].at = "off") /\ stopTask.at = "off"
  BY <1>1 DEF TcpInv, NotBegun
<1>3. Shape' /\ NotBegun'
  BY <1>1, <1>2 DEF TcpInv, Shape, NotBegun
<1>4. OneRuns' /\ WaitsOnOpen' /\ AllClosed'
  BY <1>1, <1>2 DEF OneRuns, WaitsOnOpen, AllClosed, TaskRuns
<1> QED
  BY <1>3, <1>4 DEF TcpInv

\* start() adds loops that have not been given a thread yet.
LEMMA StartStep ==
    ASSUME TcpInv, TcpStart
    PROVE  TcpInv'
<1>1. UNCHANGED <<socks, listening, stopTask, stopped>>
  BY DEF TcpStart
<1>2. CASE UNCHANGED <<isStop, loop>>
  BY <1>1, <1>2 DEF TcpInv, Shape, NotBegun, OneRuns, WaitsOnOpen, AllClosed, TaskRuns, Running
<1>3. ASSUME isStop' = FALSE, NEW fresh \in SUBSET Loops, NEW s \in [fresh -> socks],
             loop' = [l \in Loops |-> IF l \in fresh THEN [sock |-> s[l], at |-> "queued"] ELSE loop[l]]
      PROVE  TcpInv'
  <2>1. \A l \in Loops : loop'[l] = loop[l] \/ (loop'[l].at = "queued" /\ loop'[l].sock \in Socks
                                                /\ loop'[l] = [sock |-> loop'[l].sock, at |-> "queued"])
    BY <1>3 DEF TcpInv, Shape
  <2>2. Shape' /\ NotBegun'
    BY <1>1, <1>3, <2>1 DEF TcpInv, Shape, NotBegun
  <2>3. OneRuns' /\ WaitsOnOpen' /\ AllClosed'
    BY <1>1, <2>1 DEF TcpInv, OneRuns, WaitsOnOpen, AllClosed, TaskRuns, Running
  <2> QED
    BY <2>2, <2>3 DEF TcpInv
<1> QED
  BY <1>2, <1>3 DEF TcpStart

\* stop() notes that the server stops and queues its task.
LEMMA StopCallStep ==
    ASSUME TcpInv, TcpStop
    PROVE  TcpInv'
<1>1. /\ isStop' = TRUE /\ stopped' = TRUE /\ stopTask' = [stopTask EXCEPT !.at = "queued"]
      /\ UNCHANGED <<socks, listening, loop>>
  BY DEF TcpStop
<1>2. stopTask' \in [sock : Socks, at : {"queued"}] /\ stopTask'.at = "queued"
  BY <1>1 DEF TcpInv, Shape
<1> QED
  BY <1>1, <1>2 DEF TcpInv, Shape, NotBegun, OneRuns, WaitsOnOpen, AllClosed, TaskRuns

\* A loop runs only while the task of stop() does not, so that what it registers
\* for is open and not about to be closed.
LEMMA LoopsStep ==
    ASSUME OneThread, TcpInv, NEW l \in Loops, LoopStep(l)
    PROVE  TcpInv'
<1>1. PICK at \in {"test", "ended", "accept", "add", "hold", "woken"} :
          /\ loop' = [loop EXCEPT ![l].at = at]
          /\ (loop[l].at \in {"queued", "woken"}) => ~TaskRuns
          /\ (at = "hold") => (loop[l].sock \in listening /\ loop[l].at = "add")
          /\ (at \in {"test", "accept", "add"}) => (loop[l].at # "hold")
  BY DEF LoopStep, LoopRuns, LoopTest, Accept, Register, EventReady, Move, MayRun
<1>2. loop[l].at \notin {"off", "ended"} /\ UNCHANGED <<isStop, socks, listening, stopTask, stopped>>
  BY DEF LoopStep, LoopRuns, LoopTest, Accept, Register, EventReady
<1>3. /\ loop'[l].at = at /\ loop'[l].sock = loop[l].sock
      /\ \A m \in Loops : m # l => loop'[m] = loop[m]
      /\ loop' \in [Loops -> [sock : Socks, at : {"off", "queued", "test", "accept", "add", "hold", "woken", "ended"}]]
  BY <1>1 DEF TcpInv, Shape
<1>4. Shape' /\ NotBegun' /\ AllClosed'
  BY <1>2, <1>3 DEF TcpInv, Shape, NotBegun, AllClosed
<1>5. (loop[l].at \in {"test", "accept", "add"}) => ~TaskRuns
  BY DEF TcpInv, OneRuns, Running
<1>6. (at \in {"test", "accept", "add", "hold"}) => ~TaskRuns
  BY <1>1, <1>2, <1>5 DEF TcpInv, Shape
<1>7. OneRuns'
  BY <1>2, <1>3, <1>6 DEF TcpInv, OneRuns, Running, TaskRuns
<1>8. WaitsOnOpen'
  BY <1>1, <1>2, <1>3, <1>6 DEF TcpInv, WaitsOnOpen, TaskRuns
<1> QED
  BY <1>4, <1>7, <1>8 DEF TcpInv

\* The task of stop() wakes who waits on a socket, then closes it.
LEMMA StopTaskStep ==
    ASSUME OneThread, TcpInv, StopStep
    PROVE  TcpInv'
<1>1. CASE StopTaskRuns
  <2>1. /\ stopTask.at = "queued" /\ stopTask' = [stopTask EXCEPT !.at = "next"] /\ Running = {}
        /\ UNCHANGED <<isStop, socks, listening, loop, stopped>>
    BY <1>1 DEF StopTaskRuns, MayRun
  <2> QED
    BY <2>1 DEF TcpInv, Shape, NotBegun, OneRuns, WaitsOnOpen, AllClosed, TaskRuns, Running
<1>2. ASSUME NEW s \in Socks, CancelAccept(s) PROVE TcpInv'
  <2>1. /\ stopTask.at = "next" /\ stopTask' = [sock |-> s, at |-> "close"]
        /\ UNCHANGED <<isStop, socks, listening, stopped>>
        /\ loop' = [l \in Loops |-> IF loop[l].sock = s /\ loop[l].at = "hold"
                                    THEN [loop[l] EXCEPT !.at = "woken"] ELSE loop[l]]
    BY <1>2 DEF CancelAccept
  <2>2. \A l \in Loops :
            /\ loop'[l] \in [sock : Socks, at : {"off", "queued", "test", "accept", "add", "hold", "woken", "ended"}]
            /\ loop'[l] = loop[l] \/ (loop'[l].at = "woken" /\ loop[l].at = "hold")
            /\ (loop'[l].at = "hold") => (loop'[l] = loop[l] /\ loop[l].sock # s)
    BY <2>1 DEF TcpInv, Shape
  <2>3. Shape'
    BY <2>1, <2>2 DEF TcpInv, Shape
  <2>4. NotBegun' /\ AllClosed'
    BY <2>1 DEF TcpInv, NotBegun, AllClosed
  <2>5. OneRuns'
    BY <2>1, <2>2 DEF TcpInv, OneRuns, TaskRuns, Running
  <2>6. WaitsOnOpen'
    BY <2>1, <2>2 DEF TcpInv, WaitsOnOpen
  <2> QED
    BY <2>3, <2>4, <2>5, <2>6 DEF TcpInv
<1>3. CASE CloseSock
  <2>1. /\ stopTask.at = "close" /\ stopTask' = [stopTask EXCEPT !.at = "next"]
        /\ listening' = listening \ {stopTask.sock} /\ UNCHANGED <<isStop, socks, loop, stopped>>
    BY <1>3 DEF CloseSock
  <2> QED
    BY <2>1 DEF TcpInv, Shape, NotBegun, OneRuns, WaitsOnOpen, AllClosed, TaskRuns, Running
<1>4. CASE ClearSocks
  <2>1. /\ stopTask.at = "next" /\ socks \cap listening = {} /\ socks' = {}
        /\ stopTask' = [stopTask EXCEPT !.at = "ended"] /\ UNCHANGED <<isStop, listening, loop, stopped>>
    BY <1>4 DEF ClearSocks
  <2>2. listening = {}
    BY <2>1 DEF TcpInv, Shape
  <2> QED
    BY <2>1, <2>2 DEF TcpInv, Shape, NotBegun, OneRuns, WaitsOnOpen, AllClosed, TaskRuns, Running
<1> QED
  BY <1>1, <1>2, <1>3, <1>4 DEF StopStep

-----------------------------------------------------------------------------
(* The theorem                                                             *)

\* With one accept thread no accept loop is left waiting on a closed socket, and
\* none is left waiting at all when the task of stop() has ended.
THEOREM StopLeavesNoLoop == OneThread /\ TcpSpec => []NoLoopLeft
<1> SUFFICES ASSUME OneThread PROVE TcpSpec => []NoLoopLeft
  OBVIOUS
<1>1. TcpInv /\ [TcpNext]_tcpVars => TcpInv'
  <2> SUFFICES ASSUME TcpInv, [TcpNext]_tcpVars PROVE TcpInv'
    OBVIOUS
  <2>1. CASE UNCHANGED tcpVars
    BY <2>1 DEF tcpVars, TcpInv, Shape, NotBegun, OneRuns, WaitsOnOpen, AllClosed, TaskRuns, Running
  <2>2. ASSUME NEW s \in Socks, ClientConnects(s) PROVE TcpInv'
    BY <2>2 DEF ClientConnects, TcpInv, Shape, NotBegun, OneRuns, WaitsOnOpen, AllClosed, TaskRuns, Running
  <2> QED
    BY <2>1, <2>2, BindStep, StartStep, StopCallStep, LoopsStep, StopTaskStep DEF TcpNext
<1>2. TcpInv => NoLoopLeft
  BY DEF TcpInv, WaitsOnOpen, AllClosed, NoLoopLeft
<1> QED
  BY <1>1, <1>2, TcpInitInv, PTL DEF TcpSpec

\* The clients of a queue are among those that connected.
TcpTypes == TcpTypeOK /\ \A s \in Socks : backlog[s] <= clients

\* What a step does to the queues and the count keeps both types.
LEMMA QueueTypes ==
    ASSUME TcpTypes, clients' \in clients .. MaxClients, NEW s \in Socks, NEW n \in 0 .. clients',
           backlog' = [backlog EXCEPT ![s] = n]
    PROVE  /\ backlog' \in [Socks -> 0 .. MaxClients] /\ clients' \in 0 .. MaxClients
           /\ \A r \in Socks : backlog'[r] <= clients'
BY TcpAssumption DEF TcpTypes, TcpTypeOK

\* So do the steps that leave the queues alone.
LEMMA SameQueues ==
    ASSUME TcpTypes, UNCHANGED <<backlog, clients>>,
           isStop' \in BOOLEAN, stopped' \in BOOLEAN, socks' \subseteq Socks, listening' \subseteq Socks,
           loop' \in [Loops -> [sock : Socks, at : {"off", "queued", "test", "accept", "add", "hold", "woken", "ended"}]],
           stopTask' \in [sock : Socks, at : {"off", "queued", "next", "close", "ended"}]
    PROVE  TcpTypes'
BY DEF TcpTypes, TcpTypeOK

\* The types of the TCP server, whatever the number of threads.
THEOREM TcpTypeCorrect == TcpSpec => []TcpTypeOK
<1> USE DEF Move
<1>1. TcpInit => TcpTypes
  <2> SUFFICES ASSUME TcpInit PROVE TcpTypes
    OBVIOUS
  <2>1. NoLoop \in [sock : Socks, at : {"off"}] /\ NoTask \in [sock : Socks, at : {"off"}]
    BY TcpAssumption DEF NoLoop, NoTask
  <2>2. clients \in 0 .. MaxClients /\ \A s \in Socks : backlog[s] = 0 /\ backlog[s] <= clients
    BY TcpAssumption DEF TcpInit
  <2>3. backlog \in [Socks -> 0 .. MaxClients]
    BY TcpAssumption DEF TcpInit
  <2> QED
    BY <2>1, <2>2, <2>3 DEF TcpInit, TcpTypes, TcpTypeOK
<1>2. TcpTypes /\ [TcpNext]_tcpVars => TcpTypes'
  <2> SUFFICES ASSUME TcpTypes, [TcpNext]_tcpVars PROVE TcpTypes'
    OBVIOUS
  <2> USE DEF TcpTypes, TcpTypeOK
  <2>1. CASE UNCHANGED tcpVars
    BY <2>1 DEF tcpVars
  <2>2. ASSUME NEW addrs \in SUBSET Socks, TcpBind(addrs) PROVE TcpTypes'
    BY <2>2 DEF TcpBind
  <2>3. CASE TcpStart
    <3>1. CASE UNCHANGED <<isStop, loop>>
      BY <2>3, <3>1 DEF TcpStart
    <3>2. ASSUME NEW fresh \in SUBSET Loops, NEW s \in [fresh -> socks], isStop' = FALSE,
                 loop' = [l \in Loops |-> IF l \in fresh THEN [sock |-> s[l], at |-> "queued"] ELSE loop[l]]
          PROVE  TcpTypes'
      <4>1. \A l \in fresh : s[l] \in Socks
        BY <3>2
      <4>2. loop' \in [Loops -> [sock : Socks, at : {"off", "queued", "test", "accept", "add", "hold", "woken", "ended"}]]
        BY <3>2, <4>1
      <4>3. UNCHANGED <<socks, listening, backlog, stopTask, stopped, clients>>
        BY <2>3 DEF TcpStart
      <4> QED
        BY <3>2, <4>2, <4>3, SameQueues
    <3> HIDE DEF TcpTypes, TcpTypeOK
    <3> QED
      BY <2>3, <3>1, <3>2 DEF TcpStart
  <2>4. CASE TcpStop
    BY <2>4 DEF TcpStop
  <2>5. ASSUME NEW l \in Loops, LoopStep(l) PROVE TcpTypes'
    <3>1. CASE LoopRuns(l) \/ LoopTest(l) \/ Register(l) \/ EventReady(l)
      BY <3>1 DEF LoopRuns, LoopTest, Register, EventReady
    <3>2. CASE Accept(l)
      <4>1. CASE UNCHANGED backlog
        BY <3>2, <4>1 DEF Accept
      <4>2. CASE ~UNCHANGED backlog
        <5>1. PICK s \in Socks : s = loop[l].sock
          OBVIOUS
        <5>2. /\ backlog[s] > 0 /\ backlog' = [backlog EXCEPT ![s] = backlog[s] - 1]
              /\ loop' = [loop EXCEPT ![l].at = "test"]
              /\ UNCHANGED <<isStop, socks, listening, stopTask, stopped, clients>>
          BY <3>2, <4>2, <5>1 DEF Accept
        <5>3. backlog[s] - 1 \in 0 .. clients' /\ clients' \in clients .. MaxClients
          BY <5>2, TcpAssumption
        <5>4. /\ backlog' \in [Socks -> 0 .. MaxClients] /\ clients' \in 0 .. MaxClients
              /\ \A r \in Socks : backlog'[r] <= clients'
          BY <5>2, <5>3, QueueTypes
        <5> QED
          BY <5>2, <5>4
      <4> QED
        BY <4>1, <4>2
    <3> QED
      BY <2>5, <3>1, <3>2 DEF LoopStep
  <2>6. CASE StopStep
    <3>1. CASE StopTaskRuns \/ ClearSocks
      BY <3>1 DEF StopTaskRuns, ClearSocks
    <3>2. ASSUME NEW s \in Socks, CancelAccept(s) PROVE TcpTypes'
      <4>1. /\ stopTask' = [sock |-> s, at |-> "close"]
            /\ UNCHANGED <<isStop, socks, listening, backlog, stopped, clients>>
            /\ loop' = [l \in Loops |-> IF loop[l].sock = s /\ loop[l].at = "hold"
                                        THEN [loop[l] EXCEPT !.at = "woken"] ELSE loop[l]]
        BY <3>2 DEF CancelAccept
      <4>2. loop' \in [Loops -> [sock : Socks, at : {"off", "queued", "test", "accept", "add", "hold", "woken", "ended"}]]
        BY <4>1
      <4> QED
        BY <4>1, <4>2, SameQueues
    <3>3. CASE CloseSock
      <4>1. PICK s \in Socks : s = stopTask.sock
        OBVIOUS
      <4>2. backlog' = [backlog EXCEPT ![s] = 0] /\ UNCHANGED clients
        BY <3>3, <4>1 DEF CloseSock
      <4>3. 0 \in 0 .. clients' /\ clients' \in clients .. MaxClients
        BY <4>2, TcpAssumption
      <4>4. /\ backlog' \in [Socks -> 0 .. MaxClients] /\ clients' \in 0 .. MaxClients
            /\ \A r \in Socks : backlog'[r] <= clients'
        BY <4>2, <4>3, QueueTypes
      <4> QED
        BY <3>3, <4>4 DEF CloseSock
    <3> QED
      BY <2>6, <3>1, <3>2, <3>3 DEF StopStep
  <2>7. ASSUME NEW s \in Socks, ClientConnects(s) PROVE TcpTypes'
    <3>1. /\ clients' = clients + 1 /\ clients < MaxClients /\ backlog' = [backlog EXCEPT ![s] = backlog[s] + 1]
          /\ UNCHANGED <<isStop, socks, listening, loop, stopTask, stopped>>
      BY <2>7 DEF ClientConnects
    <3>2. backlog[s] + 1 \in 0 .. clients' /\ clients' \in clients .. MaxClients
      BY <3>1, TcpAssumption
    <3>3. /\ backlog' \in [Socks -> 0 .. MaxClients] /\ clients' \in 0 .. MaxClients
          /\ \A r \in Socks : backlog'[r] <= clients'
      BY <3>1, <3>2, QueueTypes
    <3> QED
      BY <3>1, <3>3
  <2> QED
    BY <2>1, <2>2, <2>3, <2>4, <2>5, <2>6, <2>7 DEF TcpNext
<1>3. TcpTypes => TcpTypeOK
  BY DEF TcpTypes
<1> QED
  BY <1>1, <1>2, <1>3, PTL DEF TcpSpec

-----------------------------------------------------------------------------
(* The daemons                                                             *)

\* Every launch has "d".
AllDaemons == Foreground = {}

\* A daemon waits for its server, and only one with servers comes to serve.
HasParent ==
    \A l \in Launches :
        /\ (child[l] # "none" /\ l \notin Foreground) => (launch[l] = "wait")
        /\ (child[l] = "serve") => serves[l]

DmnInv == DmnTypeOK /\ HasParent

\* All launches are to come, no server has been up.
LEMMA DmnInitInv == DmnInit => DmnInv /\ GuardLeft
<1> SUFFICES ASSUME DmnInit PROVE DmnInv /\ GuardLeft
  OBVIOUS
<1>1. crashes \in 0 .. MaxCrashes
  BY DmnAssumption DEF DmnInit
<1>2. DmnTypeOK
  BY <1>1 DEF DmnInit, DmnTypeOK
<1>3. HasParent /\ GuardLeft
  BY DEF DmnInit, HasParent, GuardLeft
<1> QED
  BY <1>2, <1>3 DEF DmnInv

\* One lemma for the part of the invariant that does not speak of guards.
LEMMA DmnInvStep ==
    ASSUME DmnInv, [DmnNext]_dmnVars
    PROVE  DmnInv'
<1> USE DmnAssumption DEF DmnInv, DmnTypeOK, HasParent, Up, Status
<1>1. ASSUME NEW l \in Launches, DmnLaunch(l) PROVE DmnInv'
  BY <1>1 DEF DmnLaunch
<1>2. ASSUME NEW l \in Launches, DmnFork(l) PROVE DmnInv'
  BY <1>2 DEF DmnFork
<1>3. ASSUME NEW l \in Launches, DmnMain(l) PROVE DmnInv'
  BY <1>3 DEF DmnMain, Exit
<1>4. ASSUME NEW l \in Launches, DmnBind(l) PROVE DmnInv'
  BY <1>4 DEF DmnBind, Exit
<1>5. ASSUME NEW l \in Launches, DmnFinish(l) PROVE DmnInv'
  BY <1>5 DEF DmnFinish, Exit
<1>6. ASSUME NEW l \in Launches, DmnCrash(l) PROVE DmnInv'
  BY <1>6 DEF DmnCrash, Exit
<1>7. ASSUME NEW l \in Launches, DmnKill(l) PROVE DmnInv'
  BY <1>7 DEF DmnKill, Exit
<1>8. ASSUME NEW l \in Launches, DmnWait(l) PROVE DmnInv'
  BY <1>8 DEF DmnWait
<1>9. ASSUME NEW l \in Launches, DmnSleepOver(l) PROVE DmnInv'
  BY <1>9 DEF DmnSleepOver
<1>10. CASE UNCHANGED dmnVars
  BY <1>10 DEF dmnVars
<1> QED
  BY <1>1, <1>2, <1>3, <1>4, <1>5, <1>6, <1>7, <1>8, <1>9, <1>10 DEF DmnNext

\* A server that finds the address taken leaves the daemon that has it.
LEMMA BindGuards ==
    ASSUME AllDaemons, DmnInv, GuardLeft, NEW l \in Launches, DmnBind(l)
    PROVE  GuardLeft'
<1> USE DEF DmnInv, DmnTypeOK, HasParent, AllDaemons, DmnBind, Exit, GuardLeft, Guards, Up
<1>1. CASE AddressTaken
  <2>1. PICK g \in Launches : child[g] = "serve"
    BY <1>1 DEF AddressTaken
  <2>2. g # l /\ Guards(g)
    BY <2>1
  <2>3. Guards(g)'
    BY <1>1, <2>2
  <2> QED
    BY <2>3
<1>2. CASE ~AddressTaken
  <2>1. Guards(l)'
    BY <1>2
  <2> QED
    BY <2>1
<1> QED
  BY <1>1, <1>2

\* The other steps keep a daemon that guards, or are excused.
LEMMA GuardStep ==
    ASSUME AllDaemons, DmnInv, GuardLeft, [DmnNext]_dmnVars
    PROVE  GuardLeft'
<1>0. CASE \E l \in Launches : DmnBind(l)
  BY <1>0, BindGuards
<1>1. CASE UNCHANGED dmnVars
  BY <1>1 DEF dmnVars, GuardLeft, Guards
<1>2. ASSUME NEW l \in Launches, ~DmnBind(l),
             \/ DmnLaunch(l) \/ DmnFork(l) \/ DmnMain(l) \/ DmnFinish(l)
             \/ DmnCrash(l) \/ DmnKill(l) \/ DmnWait(l) \/ DmnSleepOver(l)
      PROVE  GuardLeft'
  <2>1. SUFFICES ASSUME wasUp', ~excused' PROVE \E g \in Launches \ Foreground : Guards(g)'
    BY DEF GuardLeft
  <2>2. wasUp /\ ~excused /\ ~DmnKill(l)
    <3>1. /\ wasUp' = wasUp
          /\ excused' = excused \/ excused' = TRUE
          /\ DmnKill(l) => (excused' = TRUE)
      BY <1>2 DEF DmnLaunch, DmnFork, DmnMain, DmnFinish, DmnCrash, DmnKill, DmnWait, DmnSleepOver
    <3> QED
      BY <2>1, <3>1
  <2>3. PICK g \in Launches : Guards(g)
    BY <2>2 DEF GuardLeft
  <2> USE DEF DmnInv, DmnTypeOK, HasParent, AllDaemons, Exit, Guards, Up, Status
  <2>4. CASE DmnLaunch(l)
    BY <2>3, <2>4 DEF DmnLaunch
  <2>5. CASE DmnFork(l)
    BY <2>1, <2>3, <2>5 DEF DmnFork
  <2>6. CASE DmnMain(l)
    BY <2>1, <2>3, <2>6 DEF DmnMain
  <2>7. CASE DmnFinish(l)
    BY <2>3, <2>7 DEF DmnFinish
  <2>8. CASE DmnCrash(l)
    BY <2>3, <2>8 DEF DmnCrash
  <2>9. CASE DmnWait(l)
    BY <2>3, <2>9 DEF DmnWait, StartsAgain
  <2>10. CASE DmnSleepOver(l)
    BY <2>3, <2>10 DEF DmnSleepOver
  <2> QED
    BY <1>2, <2>2, <2>4, <2>5, <2>6, <2>7, <2>8, <2>9, <2>10
<1> QED
  BY <1>0, <1>1, <1>2 DEF DmnNext

\* When every launch is a daemon, a server that has been up always has a
\* daemon that will start it again, unless it was killed or fork() or the
\* pid file failed: restarts, and launches that find the address taken and
\* end with status 0 (daemon.cpp:72-88), never end all of them.
THEOREM GuardStays == AllDaemons /\ DmnSpec => []GuardLeft
<1> SUFFICES ASSUME AllDaemons PROVE DmnSpec => []GuardLeft
  OBVIOUS
<1>1. DmnInit => DmnInv /\ GuardLeft
  BY DmnInitInv
<1>2. DmnInv /\ GuardLeft /\ [DmnNext]_dmnVars => (DmnInv /\ GuardLeft)'
  BY DmnInvStep, GuardStep
<1> QED
  BY <1>1, <1>2, PTL DEF DmnSpec

\* The types of the daemons, those in the foreground included.
THEOREM DmnTypeCorrect == DmnSpec => []DmnTypeOK
<1>1. DmnInit => DmnInv
  BY DmnInitInv
<1>2. DmnInv => DmnTypeOK
  BY DEF DmnInv
<1> QED
  BY <1>1, <1>2, DmnInvStep, PTL DEF DmnSpec

-----------------------------------------------------------------------------
(* The configuration                                                       *)

\* Loads do not overlap: at most one thread is in LoadFromConfDir().
OneLoads == \A v, w \in Loaders : loader[v].at # "out" /\ loader[w].at # "out" => v = w

\* Between two applications of a file the loggers are what m_val says ...
Applied ==
    (\A w \in Loaders : loader[w].at \notin {"each", "add"})
    => \A n \in Defined(value) : logger[n] = value[n]

\* ... and m_val is what the file says, if st_mtime says that it was read.
ValueFresh ==
    (\A w \in Loaders : loader[w].at \in {"out", "check"}) /\ seen = mtime /\ ~hidden /\ conf # Broken
    => conf = value

\* While the listener goes through the definitions, the loggers it has looked at
\* are as the new value says, the others as the old one.
Applying(w) ==
    LET now == loader[w]  def == now.new[First(w)] IN
    now.at \in {"each", "add"} =>
        /\ now.todo \subseteq Defined(now.new)
        /\ seen = mtime /\ ~hidden => conf = now.new
        /\ \A n \in Defined(now.new) \ now.todo : logger[n] = now.new[n]
        /\ \A n \in now.todo \cap Defined(value) :
               now.at = "each" \/ n # First(w) => logger[n] = value[n]
        /\ now.at = "add" =>
               /\ now.todo # {} /\ now.added \in 0 .. Len(def.outs)
               /\ logger[First(w)] = [level |-> def.level, outs |-> SubSeq(def.outs, 1, now.added)]

\* st_mtime is never in the future.
StOK == \A w \in Loaders : loader[w].st <= second

ConfInv == ConfTypeOK /\ StOK /\ OneLoads /\ Applied /\ ValueFresh /\ \A w \in Loaders : Applying(w)

\* std::set is gone through in its order.
LEMMA FirstIs ==
    ASSUME ConfTypeOK, NEW w \in Loaders, loader[w].todo # {}
    PROVE  First(w) \in loader[w].todo
<1>1. loader[w].todo \in SUBSET Nat
  BY ConfAssumption DEF ConfTypeOK
<1>2. \E n \in loader[w].todo : \A k \in loader[w].todo : n <= k
  BY <1>1, LeastNat
<1> QED
  BY <1>2 DEF First

\* Nothing has been loaded.
LEMMA ConfInitInv == ConfInit => ConfInv
<1> SUFFICES ASSUME ConfInit PROVE ConfInv
  OBVIOUS
<1>1. ConfTypeOK
  <2>1. NewLogger \in [level : Levels, outs : Seq(Appenders)]
    <3>1. \A l \in Levels, o \in Appenders :
              [level |-> l, outs |-> <<o>>] \in [level : Levels, outs : Seq(Appenders)]
      OBVIOUS
    <3> QED
      BY <3>1, ConfAssumption, Zenon DEF NewLogger
  <2>2. [n \in LoggerNames |-> Undefined] \in Logs
    BY DEF Logs
  <2>3. Unused \in [at : {"out", "check", "parse", "each", "add", "store"}, st : 0 .. MaxTime,
                    new : Logs, todo : SUBSET LoggerNames, added : Nat]
    BY <2>2, ConfAssumption DEF Unused
  <2>4. logger \in [LoggerNames -> [level : Levels, outs : Seq(Appenders)]]
    BY <2>1 DEF ConfInit
  <2>5. loader \in [Loaders -> [at : {"out", "check", "parse", "each", "add", "store"}, st : 0 .. MaxTime,
                                 new : Logs, todo : SUBSET LoggerNames, added : Nat]]
    BY <2>3 DEF ConfInit
  <2>6. conf \in Logs /\ value \in Logs /\ mtime = 1 /\ second = 1 /\ edits = 0 /\ hidden = FALSE /\ seen = 0
    BY <2>2 DEF ConfInit
  <2>7. second \in 1 .. MaxTime /\ mtime \in 1 .. second /\ seen \in 0 .. second /\ edits \in 0 .. MaxEdits
    BY <2>6, ConfAssumption
  <2> QED
    BY <2>4, <2>5, <2>6, <2>7, Zenon DEF ConfTypeOK
<1>2. Defined(value) = {}
  BY DEF ConfInit, Defined
<1>3. \A w \in Loaders : loader[w].at = "out"
  BY DEF ConfInit, Unused
<1>4. seen # mtime
  BY DEF ConfInit
<1> QED
  <2>1. OneLoads /\ Applied /\ ValueFresh
    BY <1>2, <1>3, <1>4 DEF OneLoads, Applied, ValueFresh
  <2>2. \A w \in Loaders : Applying(w)
    BY <1>3 DEF Applying
  <2>3. StOK
    <3>1. Unused.st = 0
      BY DEF Unused
    <3>2. second = 1 /\ \A w \in Loaders : loader[w] = Unused
      BY DEF ConfInit
    <3>3. ASSUME NEW w \in Loaders PROVE loader[w].st <= second
      <4>1. loader[w].st = 0
        BY <3>1, <3>2, Zenon
      <4>2. second = 1
        BY <3>2
      <4> QED
        BY <4>1, <4>2
    <3> QED
      BY <3>3 DEF StOK
  <2> QED
    BY <1>1, <2>1, <2>2, <2>3 DEF ConfInv

\* The types of a step that changes one thread's record.
LoaderType == [at : {"out", "check", "parse", "each", "add", "store"}, st : 0 .. MaxTime,
               new : Logs, todo : SUBSET LoggerNames, added : Nat]

LEMMA UnusedType == Unused \in LoaderType /\ Unused.at = "out"
<1>1. [n \in LoggerNames |-> Undefined] \in Logs
  BY DEF Logs
<1> QED
  BY <1>1, ConfAssumption DEF Unused, LoaderType

\* What a step of thread w leaves of the other ones, while only w loads.
LEMMA OthersOut ==
    ASSUME ConfInv, NEW w \in Loaders, loader[w].at # "out"
    PROVE  \A v \in Loaders \ {w} : loader[v].at = "out"
BY DEF ConfInv, OneLoads

\* One step of thread w, which alone loads: what has to be shown of it.
LEMMA OneStep ==
    ASSUME ConfInv, NEW w \in Loaders, NEW r \in LoaderType, loader' = [loader EXCEPT ![w] = r],
           \A v \in Loaders \ {w} : loader[v].at = "out",
           UNCHANGED <<conf, mtime, second, edits, hidden>>,
           seen' \in 0 .. second, value' \in Logs,
           logger' \in [LoggerNames -> [level : Levels, outs : Seq(Appenders)]],
           r.at \notin {"each", "add"} => \A n \in Defined(value') : logger'[n] = value'[n],
           r.at \in {"out", "check"} /\ seen' = mtime /\ ~hidden /\ conf # Broken => conf = value',
           r.st <= second, Applying(w)'
    PROVE  ConfInv'
<1>1. loader[w] \in LoaderType /\ loader \in [Loaders -> LoaderType]
  BY DEF ConfInv, ConfTypeOK, LoaderType
<1>2. loader'[w] = r /\ \A v \in Loaders \ {w} : loader'[v] = loader[v]
  BY <1>1
<1>3. ConfTypeOK'
  <2>1. loader' \in [Loaders -> LoaderType]
    BY <1>1
  <2> QED
    BY <2>1 DEF ConfInv, ConfTypeOK, LoaderType
<1>4. OneLoads'
  BY <1>2 DEF OneLoads
<1>5. Applied'
  BY <1>2 DEF Applied, Defined
<1>6. ValueFresh'
  BY <1>2 DEF ValueFresh
<1>7. \A v \in Loaders : Applying(v)'
  <2> SUFFICES ASSUME NEW v \in Loaders, v # w PROVE Applying(v)'
    OBVIOUS
  <2>1. loader'[v].at = "out"
    BY <1>2
  <2> QED
    BY <2>1 DEF Applying
<1>8. StOK'
  BY <1>2 DEF ConfInv, StOK
<1> QED
  BY <1>3, <1>4, <1>5, <1>6, <1>7, <1>8 DEF ConfInv

\* An edit tells itself by st_mtime, or is recorded as hidden.
LEMMA EditStep ==
    ASSUME ConfInv, Edit \/ Tick
    PROVE  ConfInv'
<1>1. CASE Edit
  <2>1. /\ mtime' = second /\ hidden' = (seen = second) /\ conf' \in Logs \cup {Broken}
        /\ UNCHANGED <<second, seen, value, logger, loader>> /\ edits' = edits + 1 /\ edits < MaxEdits
    BY <1>1 DEF Edit
  <2>2. seen' = mtime' => hidden'
    BY <2>1
  <2>3. ConfTypeOK'
    BY <2>1, ConfAssumption DEF ConfInv, ConfTypeOK
  <2>4. OneLoads' /\ Applied'
    BY <2>1 DEF ConfInv, OneLoads, Applied, Defined
  <2>5. ValueFresh'
    BY <2>2 DEF ValueFresh
  <2>6. ASSUME NEW w \in Loaders PROVE Applying(w)'
    <3>1. First(w)' = First(w)
      BY <2>1 DEF First
    <3>2. Applying(w)
      BY DEF ConfInv
    <3> QED
      BY <2>1, <2>2, <3>1, <3>2 DEF Applying, Defined
  <2>7. StOK'
    BY <2>1 DEF ConfInv, StOK
  <2> QED
    BY <2>3, <2>4, <2>5, <2>6, <2>7 DEF ConfInv
<1>2. CASE Tick
  <2>1. UNCHANGED <<conf, mtime, edits, hidden, seen, value, logger, loader>> /\ second < MaxTime /\ second' = second + 1
    BY <1>2 DEF Tick
  <2>2. ConfTypeOK'
    BY <2>1, ConfAssumption DEF ConfInv, ConfTypeOK
  <2>3. OneLoads' /\ Applied' /\ ValueFresh'
    BY <2>1 DEF ConfInv, OneLoads, Applied, Defined, ValueFresh
  <2>4. ASSUME NEW w \in Loaders PROVE Applying(w)'
    <3>1. First(w)' = First(w)
      BY <2>1 DEF First
    <3>2. Applying(w)
      BY DEF ConfInv
    <3> QED
      BY <2>1, <3>1, <3>2 DEF Applying, Defined
  <2>5. StOK'
    BY <2>1, <2>2 DEF ConfInv, StOK, ConfTypeOK
  <2> QED
    BY <2>2, <2>3, <2>4, <2>5 DEF ConfInv
<1> QED
  BY <1>1, <1>2

\* lstat() and the test of s_file2modifytime change no logger.
LEMMA CheckStep ==
    ASSUME ~Overlap, ConfInv, NEW w \in Loaders, NEW force \in BOOLEAN, LoadStat(w) \/ LoadCheck(w, force)
    PROVE  ConfInv'
<1>0. loader \in [Loaders -> LoaderType]
  BY DEF ConfInv, ConfTypeOK, LoaderType
<1>1. CASE LoadStat(w)
  <2> DEFINE r == [loader[w] EXCEPT !.at = "check", !.st = mtime]
  <2>1. /\ loader' = [loader EXCEPT ![w] = r] /\ \A v \in Loaders : loader[v].at = "out"
        /\ UNCHANGED <<conf, mtime, second, edits, hidden, seen, value, logger>>
    BY <1>0, <1>1 DEF LoadStat
  <2>2. r \in LoaderType /\ r.at = "check" /\ r.st <= second
    <3>1. mtime \in 0 .. MaxTime /\ mtime <= second
      BY ConfAssumption DEF ConfInv, ConfTypeOK
    <3> QED
      BY <1>0, <3>1 DEF LoaderType
  <2>3. loader'[w].at = "check"
    BY <1>0, <2>1, <2>2
  <2>4. Applying(w)'
    BY <2>3 DEF Applying
  <2> HIDE DEF r
  <2>5. (\A n \in Defined(value') : logger'[n] = value'[n]) /\ (seen' = mtime /\ ~hidden /\ conf # Broken => conf = value')
    BY <2>1 DEF ConfInv, Applied, ValueFresh
  <2>6. /\ seen' \in 0 .. second /\ value' \in Logs
        /\ logger' \in [LoggerNames -> [level : Levels, outs : Seq(Appenders)]]
    BY <2>1 DEF ConfInv, ConfTypeOK
  <2> QED
    BY <2>1, <2>2, <2>4, <2>5, <2>6, OneStep
<1>2. CASE LoadCheck(w, force)
  <2> DEFINE r == [loader[w] EXCEPT !.at = IF ~force /\ seen = loader[w].st THEN "out" ELSE "parse"]
  <2>1. /\ loader' = [loader EXCEPT ![w] = r] /\ loader[w].at = "check" /\ seen' = loader[w].st
        /\ UNCHANGED <<conf, mtime, second, edits, hidden, value, logger>>
    BY <1>0, <1>2 DEF LoadCheck
  <2>2. /\ r \in LoaderType /\ r.at \in {"out", "parse"} /\ (r.at = "out" => seen' = seen)
        /\ r.st = loader[w].st
    BY <1>0, <2>1 DEF LoaderType
  <2>3. loader'[w].at \in {"out", "parse"}
    BY <1>0, <2>1, <2>2
  <2>4. Applying(w)'
    BY <2>3 DEF Applying
  <2> HIDE DEF r
  <2>5. \A v \in Loaders \ {w} : loader[v].at = "out"
    BY <2>1, OthersOut
  <2>6. /\ \A n \in Defined(value') : logger'[n] = value'[n]
        /\ r.at = "out" /\ seen' = mtime /\ ~hidden /\ conf # Broken => conf = value'
    BY <2>1, <2>2, <2>5 DEF ConfInv, Applied, ValueFresh
  <2>7. /\ seen' \in 0 .. second /\ value' \in Logs /\ r.st <= second
        /\ logger' \in [LoggerNames -> [level : Levels, outs : Seq(Appenders)]]
    BY <1>0, <2>1, <2>2 DEF ConfInv, ConfTypeOK, StOK, LoaderType
  <2> QED
    BY <2>1, <2>2, <2>4, <2>5, <2>6, <2>7, OneStep
<1> QED
  BY <1>1, <1>2

\* The file is read: the listener will look at every definition.
LEMMA ParseStep ==
    ASSUME ConfInv, NEW w \in Loaders, LoadParse(w)
    PROVE  ConfInv'
<1>0. loader \in [Loaders -> LoaderType] /\ loader[w] \in LoaderType
  BY DEF ConfInv, ConfTypeOK, LoaderType
<1>1. /\ loader[w].at = "parse"
      /\ UNCHANGED <<conf, mtime, second, edits, hidden, seen, value, logger>>
  BY DEF LoadParse
<1>2. \A v \in Loaders \ {w} : loader[v].at = "out"
  BY <1>1, OthersOut
<1>3. \A n \in Defined(value) : logger[n] = value[n]
  BY <1>1, <1>2 DEF ConfInv, Applied
<1>4. /\ seen' \in 0 .. second /\ value' \in Logs
      /\ logger' \in [LoggerNames -> [level : Levels, outs : Seq(Appenders)]]
      /\ \A n \in Defined(value') : logger'[n] = value'[n]
  BY <1>1, <1>3 DEF ConfInv, ConfTypeOK
<1>5. CASE conf = Broken \/ conf = value
  <2>1. loader' = [loader EXCEPT ![w] = Unused]
    BY <1>5 DEF LoadParse
  <2>2. Unused \in LoaderType /\ Unused.at = "out" /\ Unused.st = 0
    BY UnusedType DEF Unused
  <2>3. loader'[w] = Unused
    BY <1>0, <2>1
  <2>4. Applying(w)'
    BY <2>2, <2>3 DEF Applying
  <2>5. Unused.st <= second
    BY <2>2 DEF ConfInv, ConfTypeOK
  <2> QED
    BY <1>1, <1>2, <1>4, <1>5, <2>1, <2>2, <2>4, <2>5, OneStep
<1>6. CASE ~(conf = Broken \/ conf = value)
  <2> DEFINE r == [loader[w] EXCEPT !.at = "each", !.new = conf, !.todo = Defined(conf)]
  <2>1. loader' = [loader EXCEPT ![w] = r]
    BY <1>0, <1>6 DEF LoadParse
  <2>2. /\ r \in LoaderType /\ r.at = "each" /\ r.new = conf /\ r.todo = Defined(conf)
        /\ r.st = loader[w].st
    <3>1. conf \in Logs /\ Defined(conf) \in SUBSET LoggerNames
      BY <1>6 DEF ConfInv, ConfTypeOK, Defined
    <3> QED
      BY <1>0, <3>1 DEF LoaderType
  <2> HIDE DEF r
  <2>3. loader'[w] = r
    BY <1>0, <2>1
  <2>4. Applying(w)'
    <3>1. \A n \in Defined(value') : logger'[n] = value'[n]
      BY <1>4
    <3> QED
      BY <1>1, <2>2, <2>3, <3>1 DEF Applying
  <2>5. r.st <= second
    BY <2>2 DEF ConfInv, StOK
  <2> QED
    BY <1>1, <1>2, <1>4, <2>1, <2>2, <2>4, <2>5, OneStep
<1> QED
  BY <1>5, <1>6

\* The listener is done with the first logger, which is as the new value says.
LEMMA NextLogger ==
    ASSUME ConfInv, NEW w \in Loaders, loader[w].at \in {"each", "add"}, loader[w].todo # {},
           loader' = LookedAt(w, "each"), logger[First(w)] = loader[w].new[First(w)],
           UNCHANGED <<conf, mtime, second, edits, hidden, seen, value, logger>>
    PROVE  ConfInv'
<1>0. loader \in [Loaders -> LoaderType] /\ loader[w] \in LoaderType
  BY DEF ConfInv, ConfTypeOK, LoaderType
<1> DEFINE n == First(w)
           r == [loader[w] EXCEPT !.at = "each", !.added = 0, !.todo = loader[w].todo \ {n}]
<1>1. loader' = [loader EXCEPT ![w] = r]
  BY <1>0 DEF LookedAt
<1>2. /\ r \in LoaderType /\ r.at = "each" /\ r.new = loader[w].new /\ r.st = loader[w].st
      /\ r.todo = loader[w].todo \ {n}
  BY <1>0 DEF LoaderType
<1> HIDE DEF r
<1>3. loader'[w] = r
  BY <1>0, <1>1
<1>4. n \in loader[w].todo
  BY FirstIs DEF ConfInv
<1>5. Applying(w)'
  <2>1. /\ loader[w].todo \subseteq Defined(loader[w].new)
        /\ seen = mtime /\ ~hidden => conf = loader[w].new
    BY DEF ConfInv, Applying
  <2>2. \A k \in Defined(loader[w].new) \ loader[w].todo : logger[k] = loader[w].new[k]
    BY DEF ConfInv, Applying
  <2>3. \A k \in loader[w].todo \cap Defined(value) : k # n => logger[k] = value[k]
    BY DEF ConfInv, Applying
  <2> HIDE DEF n
  <2>4. \A k \in Defined(loader[w].new) \ r.todo : logger[k] = loader[w].new[k]
    <3>1. logger[n] = loader[w].new[n]
      BY DEF n
    <3> QED
      BY <1>2, <2>2, <3>1
  <2>5. \A k \in r.todo \cap Defined(value) : logger[k] = value[k]
    BY <1>2, <2>3
  <2>6. r.todo \subseteq Defined(r.new)
    BY <1>2, <2>1
  <2> QED
    BY <1>2, <1>3, <2>1, <2>4, <2>5, <2>6 DEF Applying, Defined
<1>6. \A v \in Loaders \ {w} : loader[v].at = "out"
  BY OthersOut
<1>7. /\ seen' \in 0 .. second /\ value' \in Logs
      /\ logger' \in [LoggerNames -> [level : Levels, outs : Seq(Appenders)]]
  BY DEF ConfInv, ConfTypeOK
<1>8. r.st <= second
  BY <1>2 DEF ConfInv, StOK
<1> QED
  BY <1>1, <1>2, <1>5, <1>6, <1>7, <1>8, OneStep

\* The listener has added some appenders of the first logger.
LEMMA SomeAdded ==
    ASSUME ConfInv, NEW w \in Loaders, loader[w].at \in {"each", "add"}, loader[w].todo # {},
           NEW k \in Nat, k <= Len(loader[w].new[First(w)].outs),
           loader' = [loader EXCEPT ![w].at = "add", ![w].added = k],
           logger' = [logger EXCEPT ![First(w)] =
                         [level |-> loader[w].new[First(w)].level,
                          outs |-> SubSeq(loader[w].new[First(w)].outs, 1, k)]],
           UNCHANGED <<conf, mtime, second, edits, hidden, seen, value>>
    PROVE  ConfInv'
<1>0. loader \in [Loaders -> LoaderType] /\ loader[w] \in LoaderType
  BY DEF ConfInv, ConfTypeOK, LoaderType
<1> DEFINE n == First(w)
           r == [loader[w] EXCEPT !.at = "add", !.added = k]
           now == [level |-> loader[w].new[n].level, outs |-> SubSeq(loader[w].new[n].outs, 1, k)]
<1>1. loader' = [loader EXCEPT ![w] = r]
  BY <1>0
<1>2. /\ r \in LoaderType /\ r.at = "add" /\ r.new = loader[w].new /\ r.st = loader[w].st
      /\ r.todo = loader[w].todo /\ r.added = k
  BY <1>0 DEF LoaderType
<1> HIDE DEF r
<1>3. loader'[w] = r
  BY <1>0, <1>1
<1>4. n \in loader[w].todo /\ First(w)' = n
  <2>1. n \in loader[w].todo
    BY FirstIs DEF ConfInv
  <2>2. loader'[w].todo = loader[w].todo
    BY <1>2, <1>3
  <2> QED
    BY <2>1, <2>2 DEF First
<1>5. loader[w].todo \subseteq Defined(loader[w].new) /\ (seen = mtime /\ ~hidden => conf = loader[w].new)
  BY DEF ConfInv, Applying
<1>6. n \in LoggerNames /\ loader[w].new[n] \in Definitions
  BY <1>0, <1>4, <1>5 DEF Defined, LoaderType, Logs
<1>7. now \in [level : Levels, outs : Seq(Appenders)]
  <2>1. loader[w].new[n].level \in Levels /\ loader[w].new[n].outs \in Seq(Appenders)
    BY <1>6, ConfAssumption
  <2>2. SubSeq(loader[w].new[n].outs, 1, k) \in Seq(Appenders)
    BY <2>1
  <2> QED
    BY <2>1, <2>2
<1> HIDE DEF now
<1>8. logger' = [logger EXCEPT ![n] = now]
  BY DEF now
<1>9. /\ logger \in [LoggerNames -> [level : Levels, outs : Seq(Appenders)]]
      /\ logger' \in [LoggerNames -> [level : Levels, outs : Seq(Appenders)]]
  <2> DEFINE State == [level : Levels, outs : Seq(Appenders)]
  <2>1. logger \in [LoggerNames -> State] /\ now \in State
    BY <1>7 DEF ConfInv, ConfTypeOK
  <2> HIDE DEF State
  <2>2. logger' \in [LoggerNames -> State]
    BY <1>8, <2>1
  <2> QED
    BY <2>1, <2>2 DEF State
<1>10. logger'[n] = now /\ \A m \in LoggerNames \ {n} : logger'[m] = logger[m]
  BY <1>6, <1>8, <1>9
<1>11. Applying(w)'
  <2>1. \A m \in Defined(loader[w].new) \ loader[w].todo : logger[m] = loader[w].new[m]
    BY DEF ConfInv, Applying
  <2>2. \A m \in loader[w].todo \cap Defined(value) : m # n => logger[m] = value[m]
    BY DEF ConfInv, Applying
  <2> HIDE DEF n
  <2>3. \A m \in Defined(r.new) \ r.todo : logger'[m] = r.new[m]
    BY <1>2, <1>4, <1>10, <2>1 DEF Defined
  <2>4. \A m \in r.todo \cap Defined(value) : m # n => logger'[m] = value[m]
    BY <1>2, <1>10, <2>2 DEF Defined
  <2>5. r.todo # {} /\ r.added \in 0 .. Len(r.new[n].outs)
    <3>1. k <= Len(loader[w].new[n].outs) /\ Len(loader[w].new[n].outs) \in Nat
      BY <1>6, ConfAssumption DEF n
    <3> QED
      BY <1>2, <1>4, <3>1
  <2>6. logger'[n] = [level |-> r.new[n].level, outs |-> SubSeq(r.new[n].outs, 1, r.added)]
    BY <1>2, <1>10 DEF now
  <2>7. r.todo \subseteq Defined(r.new) /\ (seen = mtime /\ ~hidden => conf = r.new)
    BY <1>2, <1>5
  <2>8. loader'[w] = r /\ First(w)' = n /\ r.at = "add"
    BY <1>2, <1>3, <1>4
  <2>9. Defined(loader[w].new)' = Defined(r.new) /\ Defined(value)' = Defined(value)
    BY <2>8 DEF Defined
  <2>10. /\ loader'[w].todo \subseteq Defined(loader[w].new)'
         /\ seen' = mtime' /\ ~hidden' => conf' = loader'[w].new
    BY <2>7, <2>8, <2>9
  <2>11. \A m \in Defined(loader[w].new)' \ loader'[w].todo : logger'[m] = loader'[w].new[m]
    BY <2>3, <2>8, <2>9
  <2>12. \A m \in loader'[w].todo \cap Defined(value)' :
             loader'[w].at = "each" \/ m # First(w)' => logger'[m] = value'[m]
    BY <2>4, <2>8, <2>9
  <2>13. /\ loader'[w].todo # {} /\ loader'[w].added \in 0 .. Len(loader'[w].new[First(w)'].outs)
         /\ logger'[First(w)']
            = [level |-> loader'[w].new[First(w)'].level,
               outs |-> SubSeq(loader'[w].new[First(w)'].outs, 1, loader'[w].added)]
    BY <2>5, <2>6, <2>8, Zenon
  <2> QED
    BY <2>10, <2>11, <2>12, <2>13, Zenon DEF Applying
<1>12. \A v \in Loaders \ {w} : loader[v].at = "out"
  BY OthersOut
<1>13. seen' \in 0 .. second /\ value' \in Logs
  BY DEF ConfInv, ConfTypeOK
<1>14. r.st <= second
  BY <1>2 DEF ConfInv, StOK
<1> QED
  BY <1>1, <1>2, <1>9, <1>11, <1>12, <1>13, <1>14, OneStep

\* The listener looks at the next definition.
LEMMA ResetStep ==
    ASSUME ConfInv, NEW w \in Loaders, ResetLogger(w)
    PROVE  ConfInv'
<1>0. loader \in [Loaders -> LoaderType] /\ loader[w] \in LoaderType
  BY DEF ConfInv, ConfTypeOK, LoaderType
<1> DEFINE n == First(w)
<1>1. /\ loader[w].at = "each" /\ loader[w].todo # {}
      /\ UNCHANGED <<conf, mtime, second, edits, hidden, seen, value>>
  BY DEF ResetLogger
<1>2. n \in loader[w].todo
  BY <1>1, FirstIs DEF ConfInv
<1>3. n \in Defined(loader[w].new)
  BY <1>1, <1>2 DEF ConfInv, Applying
<1>4. CASE value[n] = loader[w].new[n]
  <2>1. loader' = LookedAt(w, "each") /\ UNCHANGED logger
    BY <1>4 DEF ResetLogger
  <2>2. n \in Defined(value)
    BY <1>3, <1>4 DEF Defined
  <2>3. logger[n] = value[n]
    BY <1>1, <1>2, <2>2 DEF ConfInv, Applying
  <2> QED
    BY <1>1, <1>4, <2>1, <2>3, NextLogger
<1>5. CASE value[n] # loader[w].new[n]
  <2>1. /\ logger' = [logger EXCEPT ![n] = [level |-> loader[w].new[n].level, outs |-> <<>>]]
        /\ loader' = LookedAt(w, "add")
    BY <1>5 DEF ResetLogger
  <2>2. loader' = [loader EXCEPT ![w].at = "add", ![w].added = 0]
    BY <1>0, <2>1 DEF LookedAt, LoaderType
  <2>3. loader[w].new[n] \in Definitions
    BY <1>0, <1>3 DEF Defined, LoaderType, Logs
  <2>4. SubSeq(loader[w].new[n].outs, 1, 0) = <<>> /\ 0 <= Len(loader[w].new[n].outs)
    BY <2>3, ConfAssumption
  <2> QED
    BY <1>1, <2>1, <2>2, <2>4, SomeAdded
<1> QED
  BY <1>4, <1>5

\* It adds one appender, or goes on to the next definition.
LEMMA AddStep ==
    ASSUME ConfInv, NEW w \in Loaders, AddAppender(w)
    PROVE  ConfInv'
<1>0. loader \in [Loaders -> LoaderType] /\ loader[w] \in LoaderType
  BY DEF ConfInv, ConfTypeOK, LoaderType
<1> DEFINE n == First(w)
           def == loader[w].new[n]
           k == loader[w].added
<1>1. loader[w].at = "add" /\ UNCHANGED <<conf, mtime, second, edits, hidden, seen, value>>
  BY DEF AddAppender
<1>2. /\ loader[w].todo # {} /\ k \in 0 .. Len(def.outs)
      /\ logger[n] = [level |-> def.level, outs |-> SubSeq(def.outs, 1, k)]
      /\ loader[w].todo \subseteq Defined(loader[w].new)
  BY <1>1 DEF ConfInv, Applying
<1>3. n \in loader[w].todo
  BY <1>2, FirstIs DEF ConfInv
<1>4. n \in LoggerNames /\ def \in Definitions
  BY <1>0, <1>2, <1>3 DEF Defined, LoaderType, Logs
<1>5. /\ def.outs \in Seq(Appenders) /\ Len(def.outs) \in Nat
      /\ def = [level |-> def.level, outs |-> def.outs]
  BY <1>4, ConfAssumption
<1>6. CASE k = Len(def.outs)
  <2>1. loader' = LookedAt(w, "each") /\ UNCHANGED logger
    BY <1>6 DEF AddAppender
  <2>2. SubSeq(def.outs, 1, k) = def.outs
    BY <1>5, <1>6, SubSeqFull
  <2>3. logger[n] = def
    BY <1>2, <1>5, <2>2, Zenon
  <2> QED
    BY <1>1, <1>2, <2>1, <2>3, NextLogger
<1>7. CASE k # Len(def.outs)
  <2>1. /\ logger' = [logger EXCEPT ![n].outs = Append(@, def.outs[k + 1])]
        /\ loader' = [loader EXCEPT ![w].added = k + 1]
    BY <1>7 DEF AddAppender
  <2>2. Append(SubSeq(def.outs, 1, k), def.outs[k + 1]) = SubSeq(def.outs, 1, k + 1)
    BY <1>2, <1>5, <1>7
  <2>3. logger' = [logger EXCEPT ![n] = [level |-> def.level, outs |-> SubSeq(def.outs, 1, k + 1)]]
    <3>1. PICK s : s = SubSeq(def.outs, 1, k)
      OBVIOUS
    <3>2. PICK a : a = def.outs[k + 1]
      OBVIOUS
    <3>3. PICK l : l = def.level
      OBVIOUS
    <3>4. PICK t : t = SubSeq(def.outs, 1, k + 1)
      OBVIOUS
    <3>5. /\ logger[n] = [level |-> l, outs |-> s] /\ t = Append(s, a)
          /\ logger' = [logger EXCEPT ![n].outs = Append(@, a)]
      BY <1>2, <2>1, <2>2, <3>1, <3>2, <3>3, <3>4, Zenon
    <3> HIDE DEF n
    <3>6. PICK old : old = logger[n]
      OBVIOUS
    <3>7. [old EXCEPT !.outs = Append(old.outs, a)] = [level |-> l, outs |-> t]
      <4>1. old = [level |-> l, outs |-> s]
        BY <3>5, <3>6, Zenon
      <4>2. old.outs = s /\ Append(old.outs, a) = t
        BY <3>5, <4>1
      <4>3. \A q : [[level |-> l, outs |-> s] EXCEPT !.outs = q] = [level |-> l, outs |-> q]
        OBVIOUS
      <4> QED
        BY <4>1, <4>2, <4>3, Zenon
    <3>8. logger' = [logger EXCEPT ![n] = [old EXCEPT !.outs = Append(old.outs, a)]]
      BY <3>5, <3>6, Zenon
    <3> QED
      BY <3>3, <3>4, <3>7, <3>8, Zenon
  <2>4. loader' = [loader EXCEPT ![w].at = "add", ![w].added = k + 1]
    BY <1>0, <1>1, <2>1 DEF LoaderType
  <2>5. k + 1 \in Nat /\ k + 1 <= Len(def.outs)
    BY <1>2, <1>5, <1>7
  <2> HIDE DEF k
  <2> QED
    BY <1>1, <1>2, <2>3, <2>4, <2>5, SomeAdded
<1> QED
  BY <1>6, <1>7

\* m_val is stored when every logger is as it says.
LEMMA StoreStep ==
    ASSUME ConfInv, NEW w \in Loaders, StoreValue(w)
    PROVE  ConfInv'
<1>0. loader \in [Loaders -> LoaderType] /\ loader[w] \in LoaderType
  BY DEF ConfInv, ConfTypeOK, LoaderType
<1>1. /\ loader[w].at = "each" /\ loader[w].todo = {} /\ value' = loader[w].new
      /\ loader' = [loader EXCEPT ![w] = Unused]
      /\ UNCHANGED <<conf, mtime, second, edits, hidden, seen, logger>>
  BY DEF StoreValue
<1>2. /\ seen = mtime /\ ~hidden => conf = loader[w].new
      /\ \A n \in Defined(loader[w].new) : logger[n] = loader[w].new[n]
  BY <1>1 DEF ConfInv, Applying
<1>3. Unused \in LoaderType /\ Unused.at = "out" /\ Unused.st = 0
  BY UnusedType DEF Unused
<1>4. loader'[w] = Unused
  BY <1>0, <1>1
<1>5. Applying(w)'
  BY <1>3, <1>4 DEF Applying
<1>6. Unused.st <= second
  BY <1>3 DEF ConfInv, ConfTypeOK
<1>7. /\ seen' \in 0 .. second /\ value' \in Logs
      /\ logger' \in [LoggerNames -> [level : Levels, outs : Seq(Appenders)]]
  BY <1>0, <1>1 DEF ConfInv, ConfTypeOK, LoaderType
<1>8. \A v \in Loaders \ {w} : loader[v].at = "out"
  BY <1>1, OthersOut
<1>9. \A n \in Defined(value') : logger'[n] = value'[n]
  BY <1>1, <1>2 DEF Defined
<1> QED
  BY <1>1, <1>2, <1>3, <1>5, <1>6, <1>7, <1>8, <1>9, OneStep

LEMMA ConfNextInv == ~Overlap /\ ConfInv /\ [ConfNext]_confVars => ConfInv'
<1> SUFFICES ASSUME ~Overlap, ConfInv, [ConfNext]_confVars PROVE ConfInv'
  OBVIOUS
<1>1. CASE Edit \/ Tick
  BY <1>1, EditStep
<1>2. ASSUME NEW w \in Loaders, NEW force \in BOOLEAN, LoadStat(w) \/ LoadCheck(w, force)
      PROVE  ConfInv'
  BY <1>2, CheckStep
<1>3. ASSUME NEW w \in Loaders, LoadParse(w) \/ ResetLogger(w) \/ AddAppender(w) \/ StoreValue(w)
      PROVE  ConfInv'
  BY <1>3, ParseStep, ResetStep, AddStep, StoreStep
<1>4. CASE UNCHANGED confVars
  <2>1. /\ UNCHANGED <<conf, mtime, second, edits, hidden, seen, value, logger, loader>>
    BY <1>4 DEF confVars
  <2>2. ConfTypeOK' /\ StOK' /\ OneLoads' /\ Applied' /\ ValueFresh'
    BY <2>1 DEF ConfInv, ConfTypeOK, StOK, OneLoads, Applied, ValueFresh, Defined
  <2>3. ASSUME NEW w \in Loaders PROVE Applying(w)'
    <3>1. First(w)' = First(w)
      BY <2>1 DEF First
    <3>2. Applying(w)
      BY DEF ConfInv
    <3> QED
      BY <2>1, <3>1, <3>2 DEF Applying, Defined
  <2> QED
    BY <2>2, <2>3 DEF ConfInv
<1> QED
  BY <1>1, <1>2, <1>3, <1>4 DEF ConfNext

\* LoggersFollow (config.cpp LoadFromConfDir, config.h setValue, logger.cpp
\* LogIniter): while loads do not overlap, every logger that the file defines has
\* the level and the appenders it says, once the file has been read, whatever
\* versions of it were applied before.
THEOREM LoadersApply == ~Overlap => (ConfSpec => []LoggersFollow)
<1> SUFFICES ASSUME ~Overlap PROVE ConfSpec => []LoggersFollow
  OBVIOUS
<1>1. ConfInit => ConfInv
  BY ConfInitInv
<1>2. ConfInv /\ [ConfNext]_confVars => ConfInv'
  BY ConfNextInv
<1>3. ConfInv => LoggersFollow
  BY DEF ConfInv, Applied, ValueFresh, LoggersFollow
<1> QED
  BY <1>1, <1>2, <1>3, PTL DEF ConfSpec

\* What a thread still has to look at is defined, and of the appenders of the
\* definition it is at it has added some or all.
Looking(w) ==
    LET now == loader[w] IN
    /\ now.todo \subseteq Defined(now.new)
    /\ now.at = "add" => now.todo # {} /\ now.added \in 0 .. Len(now.new[First(w)].outs)
ConfTypes == ConfTypeOK /\ StOK /\ \A w \in Loaders : Looking(w)

\* Nothing it has to look at depends on the other threads.
LEMMA LookingSame ==
    ASSUME NEW w \in Loaders, Looking(w), loader'[w] = loader[w]
    PROVE  Looking(w)'
<1>1. First(w)' = First(w)
  BY DEF First
<1>2. Defined(loader[w].new)' = Defined(loader[w].new)
  BY DEF Defined
<1> QED
  BY <1>1, <1>2, Zenon DEF Looking

\* A step of a thread that puts its record right.
LEMMA SetLoader ==
    ASSUME ConfTypes, NEW w \in Loaders, NEW r \in LoaderType, loader' = [loader EXCEPT ![w] = r],
           r.st <= second, r.at = "add" => Looking(w)', r.todo \subseteq Defined(r.new),
           UNCHANGED <<conf, mtime, second, edits, hidden>>, seen' \in 0 .. second, value' \in Logs,
           logger' \in [LoggerNames -> [level : Levels, outs : Seq(Appenders)]]
    PROVE  ConfTypes'
<1>1. loader \in [Loaders -> LoaderType]
  BY DEF ConfTypes, ConfTypeOK, LoaderType
<1>2. loader' \in [Loaders -> LoaderType] /\ loader'[w] = r /\ \A v \in Loaders \ {w} : loader'[v] = loader[v]
  BY <1>1
<1>3. ConfTypeOK'
  BY <1>2 DEF ConfTypes, ConfTypeOK, LoaderType
<1>4. StOK'
  BY <1>2 DEF ConfTypes, StOK
<1>5. Looking(w)'
  <2>1. CASE r.at = "add"
    BY <2>1
  <2>2. CASE r.at # "add"
    BY <1>2, <2>2 DEF Looking, Defined
  <2> QED
    BY <2>1, <2>2
<1>6. ASSUME NEW v \in Loaders, v # w PROVE Looking(v)'
  BY <1>2, <1>6, LookingSame DEF ConfTypes
<1> QED
  BY <1>3, <1>4, <1>5, <1>6 DEF ConfTypes

\* LoadFromConfDir() and the beginning of setValue().
LEMMA LoadTypes ==
    ASSUME ConfTypes, NEW w \in Loaders, NEW force \in BOOLEAN,
           LoadStat(w) \/ LoadCheck(w, force) \/ LoadParse(w) \/ StoreValue(w)
    PROVE  ConfTypes'
<1>0. /\ loader \in [Loaders -> LoaderType] /\ loader[w] \in LoaderType
      /\ loader[w].todo \subseteq Defined(loader[w].new) /\ loader[w].st <= second
  BY DEF ConfTypes, ConfTypeOK, LoaderType, Looking, StOK
<1>1. /\ mtime \in 0 .. MaxTime /\ mtime <= second /\ seen \in 0 .. second /\ value \in Logs
      /\ logger \in [LoggerNames -> [level : Levels, outs : Seq(Appenders)]]
      /\ conf \in Logs \cup {Broken} /\ 0 <= second
  BY ConfAssumption DEF ConfTypes, ConfTypeOK
<1>2. CASE LoadStat(w)
  <2> DEFINE r == [loader[w] EXCEPT !.at = "check", !.st = mtime]
  <2>1. /\ loader' = [loader EXCEPT ![w] = r]
        /\ UNCHANGED <<conf, mtime, second, edits, hidden, seen, value, logger>>
    BY <1>0, <1>2 DEF LoadStat
  <2>2. /\ r \in LoaderType /\ r.at = "check" /\ r.st <= second
        /\ r.todo = loader[w].todo /\ r.new = loader[w].new
    BY <1>0, <1>1 DEF LoaderType
  <2> HIDE DEF r
  <2> QED
    BY <1>0, <1>1, <2>1, <2>2, SetLoader
<1>3. CASE LoadCheck(w, force)
  <2> DEFINE r == [loader[w] EXCEPT !.at = IF ~force /\ seen = loader[w].st THEN "out" ELSE "parse"]
  <2>1. /\ loader' = [loader EXCEPT ![w] = r] /\ seen' = loader[w].st
        /\ UNCHANGED <<conf, mtime, second, edits, hidden, value, logger>>
    BY <1>0, <1>3 DEF LoadCheck
  <2>2. /\ r \in LoaderType /\ r.at # "add" /\ r.st = loader[w].st
        /\ r.todo = loader[w].todo /\ r.new = loader[w].new
    BY <1>0 DEF LoaderType
  <2>3. seen' \in 0 .. second
    BY <1>0, <1>1, <2>1 DEF LoaderType, ConfTypes, ConfTypeOK
  <2> HIDE DEF r
  <2> QED
    BY <1>0, <1>1, <2>1, <2>2, <2>3, SetLoader
<1>4. Unused \in LoaderType /\ Unused.at # "add" /\ Unused.st <= second /\ Unused.todo \subseteq Defined(Unused.new)
  <2>1. Unused.st = 0 /\ Unused.todo = {}
    BY DEF Unused
  <2> QED
    BY <1>1, <2>1, UnusedType
<1>5. CASE LoadParse(w)
  <2>1. UNCHANGED <<conf, mtime, second, edits, hidden, seen, value, logger>>
    BY <1>5 DEF LoadParse
  <2>2. CASE loader' = [loader EXCEPT ![w] = Unused]
    BY <1>1, <1>4, <2>1, <2>2, SetLoader
  <2>3. CASE conf # Broken /\ loader' = [loader EXCEPT ![w].at = "each", ![w].new = conf, ![w].todo = Defined(conf)]
    <3> DEFINE r == [loader[w] EXCEPT !.at = "each", !.new = conf, !.todo = Defined(conf)]
    <3>1. loader' = [loader EXCEPT ![w] = r]
      BY <1>0, <2>3
    <3>2. /\ r \in LoaderType /\ r.at = "each" /\ r.new = conf /\ r.todo = Defined(conf)
          /\ r.st = loader[w].st
      <4>1. conf \in Logs /\ Defined(conf) \in SUBSET LoggerNames
        BY <1>1, <2>3 DEF Defined
      <4> QED
        BY <1>0, <4>1 DEF LoaderType
    <3> HIDE DEF r
    <3> QED
      BY <1>0, <1>1, <2>1, <3>1, <3>2, SetLoader
  <2> QED
    BY <1>5, <2>2, <2>3 DEF LoadParse
<1>6. CASE StoreValue(w)
  <2>1. /\ loader' = [loader EXCEPT ![w] = Unused] /\ value' = loader[w].new
        /\ UNCHANGED <<conf, mtime, second, edits, hidden, seen, logger>>
    BY <1>6 DEF StoreValue
  <2>2. value' \in Logs
    BY <1>0, <2>1 DEF LoaderType
  <2> QED
    BY <1>1, <1>4, <2>1, <2>2, SetLoader
<1> QED
  BY <1>2, <1>3, <1>5, <1>6

\* A record that is at a definition: the same thread goes on with the same one.
LEMMA AddsTypes ==
    ASSUME ConfTypes, NEW w \in Loaders, loader[w].todo # {},
           NEW k \in Nat, k <= Len(loader[w].new[First(w)].outs),
           loader' = [loader EXCEPT ![w].at = "add", ![w].added = k],
           UNCHANGED <<conf, mtime, second, edits, hidden, seen, value>>,
           logger' \in [LoggerNames -> [level : Levels, outs : Seq(Appenders)]]
    PROVE  ConfTypes'
<1>0. /\ loader \in [Loaders -> LoaderType] /\ loader[w] \in LoaderType
      /\ loader[w].todo \subseteq Defined(loader[w].new) /\ loader[w].st <= second
      /\ seen' \in 0 .. second /\ value' \in Logs
  BY DEF ConfTypes, ConfTypeOK, LoaderType, Looking, StOK
<1> DEFINE r == [loader[w] EXCEPT !.at = "add", !.added = k]
<1>1. loader' = [loader EXCEPT ![w] = r]
  BY <1>0
<1>2. /\ r \in LoaderType /\ r.at = "add" /\ r.new = loader[w].new /\ r.st = loader[w].st
      /\ r.todo = loader[w].todo /\ r.added = k
  BY <1>0 DEF LoaderType
<1> HIDE DEF r
<1>3. loader'[w] = r
  BY <1>0, <1>1
<1>4. First(w)' = First(w)
  BY <1>2, <1>3 DEF First
<1>5. First(w) \in LoggerNames /\ loader[w].new[First(w)] \in Definitions
  BY <1>0, FirstIs DEF ConfTypes, Defined, LoaderType, Logs
<1>6. k \in 0 .. Len(loader[w].new[First(w)].outs)
  BY <1>5, ConfAssumption
<1>7. Looking(w)'
  <2>1. Defined(r.new) = Defined(loader[w].new)' /\ r.todo \subseteq Defined(r.new)
    BY <1>0, <1>2, <1>3 DEF Defined
  <2>2. loader'[w].todo # {} /\ loader'[w].added \in 0 .. Len(loader'[w].new[First(w)'].outs)
    BY <1>2, <1>3, <1>4, <1>6
  <2> QED
    BY <1>3, <2>1, <2>2 DEF Looking
<1> QED
  BY <1>0, <1>1, <1>2, <1>7, SetLoader

\* The listener goes on to the next definition.
LEMMA NextTypes ==
    ASSUME ConfTypes, NEW w \in Loaders, loader' = LookedAt(w, "each"),
           UNCHANGED <<conf, mtime, second, edits, hidden, seen, value, logger>>
    PROVE  ConfTypes'
<1>0. /\ loader \in [Loaders -> LoaderType] /\ loader[w] \in LoaderType
      /\ loader[w].todo \subseteq Defined(loader[w].new) /\ loader[w].st <= second
      /\ seen' \in 0 .. second /\ value' \in Logs
      /\ logger' \in [LoggerNames -> [level : Levels, outs : Seq(Appenders)]]
  BY DEF ConfTypes, ConfTypeOK, LoaderType, Looking, StOK
<1> DEFINE r == [loader[w] EXCEPT !.at = "each", !.added = 0, !.todo = loader[w].todo \ {First(w)}]
<1>1. loader' = [loader EXCEPT ![w] = r]
  BY <1>0 DEF LookedAt
<1>2. /\ r \in LoaderType /\ r.at = "each" /\ r.new = loader[w].new /\ r.st = loader[w].st
      /\ r.todo \subseteq loader[w].todo
  BY <1>0 DEF LoaderType
<1> HIDE DEF r
<1> QED
  BY <1>0, <1>1, <1>2, SetLoader

\* The listener at one definition.
LEMMA ListenTypes ==
    ASSUME ConfTypes, NEW w \in Loaders, ResetLogger(w) \/ AddAppender(w)
    PROVE  ConfTypes'
<1>0. /\ loader \in [Loaders -> LoaderType] /\ loader[w] \in LoaderType /\ Looking(w)
      /\ logger \in [LoggerNames -> [level : Levels, outs : Seq(Appenders)]]
  BY DEF ConfTypes, ConfTypeOK, LoaderType
<1> DEFINE n == First(w)
           def == loader[w].new[n]
           State == [level : Levels, outs : Seq(Appenders)]
<1>1. /\ loader[w].todo # {} /\ UNCHANGED <<conf, mtime, second, edits, hidden, seen, value>>
      /\ loader[w].at = "add" => loader[w].added \in 0 .. Len(def.outs)
  BY <1>0 DEF ResetLogger, AddAppender, Looking
<1>2. n \in LoggerNames /\ def \in Definitions
  BY <1>0, <1>1, FirstIs DEF ConfTypes, Defined, LoaderType, Logs, Looking
<1>3. def.level \in Levels /\ def.outs \in Seq(Appenders) /\ Len(def.outs) \in Nat
  BY <1>2, ConfAssumption
<1>4. CASE loader' = LookedAt(w, "each") /\ UNCHANGED logger
  BY <1>1, <1>4, NextTypes
<1>5. CASE ResetLogger(w) /\ value[n] # def
  <2>1. /\ logger' = [logger EXCEPT ![n] = [level |-> def.level, outs |-> <<>>]]
        /\ loader' = LookedAt(w, "add")
    BY <1>5 DEF ResetLogger
  <2>2. loader' = [loader EXCEPT ![w].at = "add", ![w].added = 0]
    BY <1>0, <2>1 DEF LookedAt, LoaderType
  <2>3. [level |-> def.level, outs |-> <<>>] \in State
    BY <1>3
  <2> HIDE DEF State
  <2>4. logger' \in [LoggerNames -> State]
    BY <1>0, <2>1, <2>3 DEF State
  <2>5. 0 \in Nat /\ 0 <= Len(def.outs)
    BY <1>3
  <2> QED
    BY <1>1, <2>2, <2>4, <2>5, AddsTypes DEF State
<1>6. CASE AddAppender(w) /\ loader[w].added # Len(def.outs)
  <2> DEFINE k == loader[w].added
  <2>1. /\ logger' = [logger EXCEPT ![n].outs = Append(@, def.outs[k + 1])]
        /\ loader' = [loader EXCEPT ![w].added = k + 1] /\ loader[w].at = "add"
    BY <1>6 DEF AddAppender
  <2>2. k \in 0 .. Len(def.outs) /\ k + 1 \in 1 .. Len(def.outs)
    BY <1>1, <1>3, <1>6, <2>1
  <2>3. def.outs[k + 1] \in Appenders
    BY <1>3, <2>2
  <2>4. loader' = [loader EXCEPT ![w].at = "add", ![w].added = k + 1]
    BY <1>0, <2>1 DEF LoaderType
  <2>5. \A old \in State, a \in Appenders : [old EXCEPT !.outs = Append(old.outs, a)] \in State
    OBVIOUS
  <2>6. logger' \in [LoggerNames -> State]
    <3>1. PICK a \in Appenders : a = def.outs[k + 1]
      BY <2>3
    <3>2. PICK old \in State : old = logger[n]
      BY <1>0, <1>2
    <3>3. logger' = [logger EXCEPT ![n] = [old EXCEPT !.outs = Append(old.outs, a)]]
      BY <2>1, <3>1, <3>2, Zenon
    <3> HIDE DEF State, n
    <3> QED
      BY <1>0, <2>5, <3>3 DEF State
  <2> HIDE DEF k, State
  <2>7. k + 1 \in Nat /\ k + 1 <= Len(def.outs)
    BY <1>3, <2>2
  <2> QED
    BY <1>1, <2>4, <2>6, <2>7, AddsTypes DEF State
<1> QED
  BY <1>4, <1>5, <1>6 DEF ResetLogger, AddAppender

\* The types of the configuration and its loggers, loads that overlap included.
THEOREM ConfTypeCorrect == ConfSpec => []ConfTypeOK
<1>1. ConfInit => ConfTypes
  <2> SUFFICES ASSUME ConfInit PROVE ConfTypes
    OBVIOUS
  <2>1. ConfTypeOK /\ StOK
    BY ConfInitInv DEF ConfInv
  <2>2. ASSUME NEW w \in Loaders PROVE Looking(w)
    <3>1. loader[w] = Unused /\ Unused.at = "out" /\ Unused.todo = {}
      BY DEF ConfInit, Unused
    <3> QED
      BY <3>1 DEF Looking
  <2> QED
    BY <2>1, <2>2 DEF ConfTypes
<1>2. ConfTypes /\ [ConfNext]_confVars => ConfTypes'
  <2> SUFFICES ASSUME ConfTypes, [ConfNext]_confVars PROVE ConfTypes'
    OBVIOUS
  <2>1. CASE Edit \/ Tick \/ UNCHANGED confVars
    <3>1. ConfTypeOK' /\ StOK' /\ UNCHANGED loader
      <4>1. CASE Edit
        BY <4>1, ConfAssumption DEF Edit, ConfTypes, ConfTypeOK, StOK
      <4>2. CASE Tick
        <5>1. /\ UNCHANGED <<conf, mtime, edits, hidden, seen, value, logger, loader>>
              /\ second \in Nat /\ second < MaxTime /\ second' = second + 1
          BY <4>2 DEF Tick, ConfTypes, ConfTypeOK
        <5>2. ConfTypeOK'
          BY <5>1, ConfAssumption DEF ConfTypes, ConfTypeOK
        <5>3. ASSUME NEW w \in Loaders PROVE loader'[w].st <= second'
          <6>1. loader[w].st \in Nat /\ loader[w].st <= second
            BY ConfAssumption DEF ConfTypes, ConfTypeOK, StOK
          <6> QED
            BY <5>1, <6>1
        <5> QED
          BY <5>1, <5>2, <5>3 DEF StOK
      <4>3. CASE UNCHANGED confVars
        BY <4>3 DEF confVars, ConfTypes, ConfTypeOK, StOK
      <4> QED
        BY <2>1, <4>1, <4>2, <4>3
    <3> QED
      BY <3>1, LookingSame DEF ConfTypes
  <2>2. ASSUME NEW w \in Loaders, NEW force \in BOOLEAN,
               LoadStat(w) \/ LoadCheck(w, force) \/ LoadParse(w) \/ StoreValue(w)
        PROVE  ConfTypes'
    BY <2>2, LoadTypes
  <2>3. ASSUME NEW w \in Loaders, ResetLogger(w) \/ AddAppender(w) PROVE ConfTypes'
    BY <2>3, ListenTypes
  <2> QED
    BY <2>1, <2>2, <2>3 DEF ConfNext
<1>3. ConfTypes => ConfTypeOK
  BY DEF ConfTypes
<1> QED
  BY <1>1, <1>2, <1>3, PTL DEF ConfSpec

-----------------------------------------------------------------------------
(* All of them beside each other                                           *)

\* A step of one component leaves the others as they are.
LEMMA LibSteps ==
    ASSUME LibNext
    PROVE  /\ [Next]_vars /\ [BufNext]_bufVars /\ [PoolNext]_httpPoolVars /\ [HttpNext]_httpVars
           /\ [TcpNext]_tcpVars /\ [ConfNext]_confVars /\ [DmnNext]_dmnVars
           /\ UNCHANGED component
BY DEF LibNext

\* And so does a step of something else.
LEMMA LibStutters ==
    ASSUME UNCHANGED libVars
    PROVE  /\ UNCHANGED vars /\ UNCHANGED bufVars /\ UNCHANGED httpPoolVars /\ UNCHANGED httpVars
           /\ UNCHANGED tcpVars /\ UNCHANGED confVars /\ UNCHANGED dmnVars /\ UNCHANGED component
BY DEF libVars

\* What is checked beside each other are behaviours of every component: what is
\* proved of one of them holds there.
THEOREM LibraryComposes ==
    LibSpec => Spec /\ BufSpec /\ PoolSpec /\ HttpSpec /\ TcpSpec /\ ConfSpec /\ DmnSpec
<1>1. LibInit => Init /\ BufInit /\ PoolInit /\ HttpInit /\ TcpInit /\ ConfInit /\ DmnInit
  BY DEF LibInit
<1>2. [LibNext]_libVars =>
          /\ [Next]_vars /\ [BufNext]_bufVars /\ [PoolNext]_httpPoolVars /\ [HttpNext]_httpVars
          /\ [TcpNext]_tcpVars /\ [ConfNext]_confVars /\ [DmnNext]_dmnVars
  BY LibSteps, LibStutters
<1> QED
  BY <1>1, <1>2, PTL DEF LibSpec, Spec, BufSpec, PoolSpec, HttpSpec, TcpSpec, ConfSpec, DmnSpec

\* The types of all components.
THEOREM LibTypeCorrect == LibSpec => []LibTypeOK
<1>1. /\ HookTypeOK /\ BufTypeOK /\ PoolTypeOK /\ HttpTypeOK /\ TcpTypeOK /\ ConfTypeOK /\ DmnTypeOK
      /\ component \in Parts
      => LibTypeOK
  BY DEF LibTypeOK, Parts
<1>2. LibInit => component \in Parts
  BY DEF LibInit
<1>3. component \in Parts /\ [LibNext]_libVars => (component \in Parts)'
  BY LibSteps, LibStutters
<1> QED
  BY <1>1, <1>2, <1>3, LibraryComposes, HookTypeCorrect, BufTypeCorrect, PoolTypeCorrect, HttpTypeCorrect,
     TcpTypeCorrect, ConfTypeCorrect, DmnTypeCorrect, PTL DEF LibSpec
=============================================================================
