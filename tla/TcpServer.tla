----------------------------- MODULE TcpServer ------------------------------
(***************************************************************************)
(* TcpServer (tcpserver.cpp): bind() collects listening sockets, start()   *)
(* schedules an accept loop for each on the accept worker, stop() sets     *)
(* m_isStop and schedules a task there that wakes and closes the sockets.  *)
(* A loop waits in the hook's accept() (module Hook) until a client        *)
(* connects, or cancelAll() wakes it and it tries again.                   *)
(* Names have the prefix Tcp: the module is checked beside others.         *)
(***************************************************************************)
EXTENDS Integers, FiniteSets

CONSTANTS Socks, BadSocks,  \* addresses, and those that cannot be bound
          Loops,            \* names for the accept loops
          OneThread,        \* the accept worker has one thread
          Restart,          \* start() may be called again after stop()
          MaxClients        \* bound: clients that connect

ASSUME TcpAssumption ==
    /\ Socks # {} /\ BadSocks \subseteq Socks /\ IsFiniteSet(Socks) /\ IsFiniteSet(Loops)
    /\ Cardinality(Loops) >= Cardinality(Socks \ BadSocks)
    /\ OneThread \in BOOLEAN /\ Restart \in BOOLEAN /\ MaxClients \in Nat

VARIABLES isStop,   \* m_isStop
          socks,    \* m_socks
          listening,\* listening sockets that are open
          backlog,  \* clients that wait in a socket's queue
          loop,     \* each accept loop: [sock, at]
          stopTask, \* the task of stop(): [at, sock]
          stopped,  \* history: stop() has been called
          clients   \* bound: clients that connected

tcpVars == <<isStop, socks, listening, backlog, loop, stopTask, stopped, clients>>

NoLoop == [sock |-> CHOOSE s \in Socks : TRUE, at |-> "off"]
NoTask == [sock |-> CHOOSE s \in Socks : TRUE, at |-> "off"]

TcpTypeOK ==
    /\ isStop \in BOOLEAN /\ stopped \in BOOLEAN
    /\ socks \subseteq Socks /\ listening \subseteq Socks
    /\ backlog \in [Socks -> 0 .. MaxClients]
    /\ loop \in [Loops -> [sock : Socks, at : {"off", "queued", "test", "accept", "add", "hold", "woken", "ended"}]]
    /\ stopTask \in [sock : Socks, at : {"off", "queued", "next", "close", "ended"}]
    /\ clients \in 0 .. MaxClients

TcpInit ==
    /\ isStop = TRUE /\ socks = {} /\ listening = {} /\ stopped = FALSE
    /\ backlog = [s \in Socks |-> 0]
    /\ loop = [l \in Loops |-> NoLoop] /\ stopTask = NoTask
    /\ clients = 0

\* A fiber of the accept worker is between two yields: with one thread no other runs.
Running == {l \in Loops : loop[l].at \in {"test", "accept", "add"}}
TaskRuns == stopTask.at \in {"next", "close"}
MayRun == OneThread => Running = {} /\ ~TaskRuns
Move(l, at) == loop' = [loop EXCEPT ![l].at = at]

\* bind(addrs): if one address fails none is kept, those bound before included.
TcpBind(addrs) ==
    /\ ~stopped /\ isStop /\ addrs # {} /\ addrs \cap socks = {}
    /\ socks' = IF addrs \cap BadSocks = {} THEN socks \cup addrs ELSE {}
    /\ listening' = socks'
    /\ UNCHANGED <<isStop, backlog, loop, stopTask, stopped, clients>>

\* start() does nothing when the server runs; else a loop for every socket.
TcpStart ==
    /\ stopped => Restart
    /\ IF ~isStop THEN UNCHANGED <<isStop, loop>>
       ELSE /\ isStop' = FALSE
            /\ \E fresh \in SUBSET {l \in Loops : loop[l].at = "off"} :
                \E s \in [fresh -> socks] :
                    /\ Cardinality(fresh) = Cardinality(socks)
                    /\ \A l, m \in fresh : l # m => s[l] # s[m]
                    /\ loop' = [l \in Loops |-> IF l \in fresh THEN [sock |-> s[l], at |-> "queued"] ELSE loop[l]]
    /\ UNCHANGED <<socks, listening, backlog, stopTask, stopped, clients>>

TcpStop ==
    /\ ~stopped
    /\ isStop' = TRUE /\ stopped' = TRUE
    /\ stopTask' = [stopTask EXCEPT !.at = "queued"]
    /\ UNCHANGED <<socks, listening, backlog, loop, clients>>

\* The loop is given a thread.
LoopRuns(l) ==
    /\ loop[l].at \in {"queued", "woken"} /\ MayRun
    /\ Move(l, IF loop[l].at = "queued" THEN "test" ELSE "accept")
    /\ UNCHANGED <<isStop, socks, listening, backlog, stopTask, stopped, clients>>

LoopTest(l) ==
    /\ loop[l].at = "test"
    /\ Move(l, IF isStop THEN "ended" ELSE "accept")
    /\ UNCHANGED <<isStop, socks, listening, backlog, stopTask, stopped, clients>>

\* accept(): a client, for which handleClient() is scheduled, an error, or EAGAIN.
Accept(l) ==
    LET s == loop[l].sock IN
    /\ loop[l].at = "accept"
    /\ \/ /\ s \in listening /\ backlog[s] > 0
          /\ backlog' = [backlog EXCEPT ![s] = @ - 1]
          /\ Move(l, "test")
       \/ s \notin listening /\ Move(l, "test") /\ UNCHANGED backlog
       \/ s \in listening /\ backlog[s] = 0 /\ Move(l, "add") /\ UNCHANGED backlog
    /\ UNCHANGED <<isStop, socks, listening, stopTask, stopped, clients>>

\* The hook registers the event and yields, or fails if the socket is closed.
Register(l) ==
    /\ loop[l].at = "add"
    /\ Move(l, IF loop[l].sock \in listening THEN "hold" ELSE "test")
    /\ UNCHANGED <<isStop, socks, listening, backlog, stopTask, stopped, clients>>

EventReady(l) ==
    /\ loop[l].at = "hold" /\ backlog[loop[l].sock] > 0 /\ loop[l].sock \in listening
    /\ Move(l, "woken")
    /\ UNCHANGED <<isStop, socks, listening, backlog, stopTask, stopped, clients>>

\* The task of stop(): for each socket cancelAll(), then close(); then clear().
StopTaskRuns ==
    /\ stopTask.at = "queued" /\ MayRun
    /\ stopTask' = [stopTask EXCEPT !.at = "next"]
    /\ UNCHANGED <<isStop, socks, listening, backlog, loop, stopped, clients>>

\* Mutant of CancelAccept: the loop is not woken.
CancelAcceptNoWake(s) ==
    /\ stopTask.at = "next" /\ s \in socks \cap listening
    /\ stopTask' = [sock |-> s, at |-> "close"]
    /\ UNCHANGED <<isStop, socks, listening, backlog, loop, stopped, clients>>

CancelAccept(s) ==
    /\ stopTask.at = "next" /\ s \in socks \cap listening
    /\ stopTask' = [sock |-> s, at |-> "close"]
    /\ loop' = [l \in Loops |-> IF loop[l].sock = s /\ loop[l].at = "hold"
                                THEN [loop[l] EXCEPT !.at = "woken"] ELSE loop[l]]
    /\ UNCHANGED <<isStop, socks, listening, backlog, stopped, clients>>

CloseSock ==
    /\ stopTask.at = "close"
    /\ listening' = listening \ {stopTask.sock}
    /\ backlog' = [backlog EXCEPT ![stopTask.sock] = 0]
    /\ stopTask' = [stopTask EXCEPT !.at = "next"]
    /\ UNCHANGED <<isStop, socks, loop, stopped, clients>>

ClearSocks ==
    /\ stopTask.at = "next" /\ socks \cap listening = {}
    /\ socks' = {}
    /\ stopTask' = [stopTask EXCEPT !.at = "ended"]
    /\ UNCHANGED <<isStop, listening, backlog, loop, stopped, clients>>

ClientConnects(s) ==
    /\ s \in listening /\ clients < MaxClients
    /\ clients' = clients + 1
    /\ backlog' = [backlog EXCEPT ![s] = @ + 1]
    /\ UNCHANGED <<isStop, socks, listening, loop, stopTask, stopped>>

LoopStep(l) == LoopRuns(l) \/ LoopTest(l) \/ Accept(l) \/ Register(l) \/ EventReady(l)
StopStep == StopTaskRuns \/ (\E s \in Socks : CancelAccept(s)) \/ CloseSock \/ ClearSocks

TcpNext ==
    \/ (\E addrs \in SUBSET Socks : TcpBind(addrs)) \/ TcpStart \/ TcpStop
    \/ (\E l \in Loops : LoopStep(l)) \/ StopStep
    \/ \E s \in Socks : ClientConnects(s)

TcpSpec == TcpInit /\ [][TcpNext]_tcpVars

-----------------------------------------------------------------------------
(* Properties                                                              *)

\* After stop() no accept loop is left behind: when its task is done a loop
\* has ended or has a step to take, and nothing waits on a socket that is closed.
NoLoopLeft ==
    /\ \A l \in Loops : loop[l].at = "hold" => loop[l].sock \in listening
    /\ stopTask.at = "ended" => \A l \in Loops : loop[l].at # "hold"
=============================================================================
