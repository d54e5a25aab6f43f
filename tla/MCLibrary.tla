----------------------------- MODULE MCLibrary ------------------------------
(* Small instances, for TLC, of the parts that lie above the event loop:   *)
(* the hook, the byte array, the HTTP client's pool, the receiver of HTTP  *)
(* messages, the TCP server, the loading of the configuration and the      *)
(* daemon.  A behaviour is one of one `component`; the others stay as they *)
(* are.  The hook has two parts, the second for numbers that are reopened. *)
EXTENDS MCHook, ByteArray, ConnectionPool, HttpReceive, TcpServer, ConfigLoad, Daemon

\* A fiber that reads, accepts and connects, one that owns the descriptors, and
\* a second reader, which takes part where numbers are reopened.
CONSTANT next

Roles == client :> {"read", "accept", "connect"} @@ next :> {"read"}
         @@ owner :> {"socket", "close", "option", "sleep"}

\* What is written: across a block's end, filling one, and more than one.
SomeStrings == {<<2>>, <<1, 3>>, <<3, 0, 1>>}

\* Plain bodies, one of them larger than the buffer and one empty, and chunks.
Plain(n) == [chunked |-> FALSE, sizes |-> <<n>>]
SomeMessages == {<<Plain(3), Plain(0), Plain(5)>>,
                 <<[chunked |-> TRUE, sizes |-> <<1, 4, 0>>], Plain(2)>>}

\* Definitions of a logger that differ in the level, in the appenders or in both.
SomeDefinitions == {[level |-> "INFO", outs |-> <<"file", "stdout">>],
                    [level |-> "ERROR", outs |-> <<"file">>]}

VARIABLE component

\* Two fibers read, the third closes and reopens: no other call goes on.
OnlyReads == \A f \in Fibers : call'[f].kind \in {"read", "socket", "close"}

Parts == {"hook", "reopen", "buffer", "pool", "http", "tcp", "config", "daemon"}
libVars == <<vars, bufVars, httpPoolVars, httpVars, tcpVars, confVars, dmnVars, component>>

LibInit ==
    /\ component \in Parts
    /\ Init /\ BufInit /\ PoolInit /\ HttpInit /\ TcpInit /\ ConfInit /\ DmnInit
    /\ component \notin {"hook", "reopen"} => threads = 1
    /\ component # "hook" => hook
    /\ component # "http" => messages = CHOOSE ms \in Messages : TRUE
    /\ component # "config" => conf = Unused.new
    /\ component # "daemon" => serves = [l \in Launches |-> TRUE]

LibNext ==
    /\ UNCHANGED component
    /\ \/ component = "hook" /\ Next /\ pc'[next] = "new"
          /\ UNCHANGED <<bufVars, httpPoolVars, httpVars, tcpVars, confVars, dmnVars>>
       \/ component = "reopen" /\ Next /\ OnlyReads /\ UNCHANGED <<bufVars, httpPoolVars, httpVars, tcpVars, confVars, dmnVars>>
       \/ component = "buffer" /\ BufNext /\ UNCHANGED <<vars, httpPoolVars, httpVars, tcpVars, confVars, dmnVars>>
       \/ component = "pool" /\ PoolNext /\ UNCHANGED <<vars, bufVars, httpVars, tcpVars, confVars, dmnVars>>
       \/ component = "http" /\ HttpNext /\ UNCHANGED <<vars, bufVars, httpPoolVars, tcpVars, confVars, dmnVars>>
       \/ component = "tcp" /\ TcpNext /\ UNCHANGED <<vars, bufVars, httpPoolVars, httpVars, confVars, dmnVars>>
       \/ component = "config" /\ ConfNext /\ UNCHANGED <<vars, bufVars, httpPoolVars, httpVars, tcpVars, dmnVars>>
       \/ component = "daemon" /\ DmnNext /\ UNCHANGED <<vars, bufVars, httpPoolVars, httpVars, tcpVars, confVars>>

\* The types of all of them.
LibTypeOK ==
    CASE component \in {"hook", "reopen"} -> HookTypeOK
      [] component = "buffer" -> BufTypeOK
      [] component = "pool" -> PoolTypeOK
      [] component = "http" -> HttpTypeOK
      [] component = "tcp" -> TcpTypeOK
      [] component = "config" -> ConfTypeOK
      [] component = "daemon" -> DmnTypeOK

LibSpec == LibInit /\ [][LibNext]_libVars
=============================================================================
