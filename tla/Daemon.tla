------------------------------- MODULE Daemon -------------------------------
(***************************************************************************)
(* Launches of the server program.  Application::init() refuses one whose  *)
(* pid file names a living process; with "d" the process becomes a daemon  *)
(* that forks the real server, waits for it and starts it again after a    *)
(* crash (real_daemon() in daemon.cpp), else it is the server itself.      *)
(* The server writes the pid file, binds its address and serves.           *)
(* An ofstream keeps the pid in its buffer: the file is empty until main() *)
(* returns, and a server never returns from it.                            *)
(* Names have the prefix Dmn: the module is checked beside others.         *)
(***************************************************************************)
EXTENDS Integers

CONSTANTS Launches,   \* processes started by the operator
          Foreground, \* those without "d"
          NoLaunch,   \* no process of them
          MaxCrashes  \* bound: how often a server crashes

ASSUME DmnAssumption ==
    Foreground \subseteq Launches /\ NoLaunch \notin Launches /\ MaxCrashes \in Nat

VARIABLES launch,  \* where the started process is: "self" runs main() itself
          serves,  \* it was configured with servers
          child,   \* its server: where it is, or the status it ended with
          pidfile, \* whose server's pid can be read in the file
          crashes, \* bound
          wasUp,   \* history: the server of some daemon has been up
          excused  \* history: SIGKILL, or fork() or the pid file has failed

dmnVars == <<launch, serves, child, pidfile, crashes, wasUp, excused>>

\* The statuses real_daemon() distinguishes: 0, 9 and any other.
Status == {"finished", "killed", "crash"}
Up == {"main", "bind", "serve"}

DmnTypeOK ==
    /\ launch \in [Launches -> {"new", "self", "fork", "wait", "sleep", "gone"}]
    /\ serves \in [Launches -> BOOLEAN]
    /\ child \in [Launches -> {"none"} \cup Up \cup Status]
    /\ pidfile \in Launches \cup {NoLaunch}
    /\ crashes \in 0 .. MaxCrashes /\ wasUp \in BOOLEAN /\ excused \in BOOLEAN

DmnInit ==
    /\ launch = [l \in Launches |-> "new"] /\ serves \in [Launches -> BOOLEAN]
    /\ child = [l \in Launches |-> "none"] /\ pidfile = NoLaunch
    /\ crashes = 0 /\ wasUp = FALSE /\ excused = FALSE

\* kill(pid, 0) succeeds: a process that nobody has waited for still counts.
IsRunningPidfile == pidfile # NoLaunch /\ child[pidfile] # "none"

\* init() and start_daemon(); it may also fail to make the work path.
DmnLaunch(l) ==
    /\ launch[l] = "new"
    /\ \/ launch' = [launch EXCEPT ![l] = "gone"] /\ UNCHANGED child
       \/ /\ ~IsRunningPidfile
          /\ IF l \in Foreground
               THEN launch' = [launch EXCEPT ![l] = "self"] /\ child' = [child EXCEPT ![l] = "main"]
               ELSE launch' = [launch EXCEPT ![l] = "fork"] /\ UNCHANGED child
    /\ UNCHANGED <<serves, pidfile, crashes, wasUp, excused>>

DmnFork(l) ==
    /\ launch[l] = "fork"
    /\ \/ /\ launch' = [launch EXCEPT ![l] = "wait"] /\ child' = [child EXCEPT ![l] = "main"]
          /\ UNCHANGED excused
       \/ launch' = [launch EXCEPT ![l] = "gone"] /\ excused' = TRUE /\ UNCHANGED child
    /\ UNCHANGED <<serves, pidfile, crashes, wasUp>>

\* The server ends; the shell waits for a process in the foreground.
Exit(l, status) ==
    /\ child' = [child EXCEPT ![l] = IF l \in Foreground THEN "none" ELSE status]
    /\ launch' = [launch EXCEPT ![l] = IF l \in Foreground THEN "gone" ELSE @]

\* main(): the file is truncated, the pid stays in the stream's buffer.
\* When it cannot be opened main() returns false, which is status 0.
DmnMain(l) ==
    /\ child[l] = "main"
    /\ \/ /\ pidfile' = NoLaunch /\ child' = [child EXCEPT ![l] = "bind"]
          /\ UNCHANGED <<launch, excused>>
       \/ Exit(l, "finished") /\ excused' = TRUE /\ UNCHANGED pidfile
    /\ UNCHANGED <<serves, crashes, wasUp>>

AddressTaken == \E l \in Launches : child[l] = "serve"

\* run_fiber(): the address is free (no other program has it), or bind() fails
\* and _exit(0) drops the buffer.
DmnBind(l) ==
    /\ child[l] = "bind" /\ serves[l]
    /\ IF AddressTaken
         THEN Exit(l, "finished") /\ UNCHANGED wasUp
         ELSE child' = [child EXCEPT ![l] = "serve"] /\ wasUp' = (wasUp \/ l \notin Foreground)
              /\ UNCHANGED launch
    /\ UNCHANGED <<serves, pidfile, crashes, excused>>

\* Without servers stop() returns, and the stream is written when main() does.
DmnFinish(l) ==
    /\ child[l] = "bind" /\ ~serves[l]
    /\ pidfile' = l /\ Exit(l, "finished")
    /\ UNCHANGED <<serves, crashes, wasUp, excused>>

DmnCrash(l) ==
    /\ child[l] \in Up /\ crashes < MaxCrashes /\ crashes' = crashes + 1
    /\ Exit(l, "crash")
    /\ UNCHANGED <<serves, pidfile, wasUp, excused>>

DmnKill(l) ==
    /\ child[l] \in Up
    /\ Exit(l, "killed") /\ excused' = TRUE
    /\ UNCHANGED <<serves, pidfile, crashes, wasUp>>

\* Mutant of StartsAgain: a crash ends the daemon too.
StartsAgainNever(status) == FALSE

\* Whether the daemon starts its server again.
StartsAgain(status) == status = "crash"

\* waitpid() and what real_daemon() makes of the status.
DmnWait(l) ==
    /\ launch[l] = "wait" /\ child[l] \in Status
    /\ launch' = [launch EXCEPT ![l] = IF StartsAgain(child[l]) THEN "sleep" ELSE "gone"]
    /\ child' = [child EXCEPT ![l] = "none"]
    /\ UNCHANGED <<serves, pidfile, crashes, wasUp, excused>>

DmnSleepOver(l) ==
    /\ launch[l] = "sleep" /\ launch' = [launch EXCEPT ![l] = "fork"]
    /\ UNCHANGED <<serves, child, pidfile, crashes, wasUp, excused>>

DmnNext ==
    \E l \in Launches :
        \/ DmnLaunch(l) \/ DmnFork(l) \/ DmnMain(l) \/ DmnBind(l) \/ DmnFinish(l)
        \/ DmnCrash(l) \/ DmnKill(l) \/ DmnWait(l) \/ DmnSleepOver(l)

DmnSpec == DmnInit /\ [][DmnNext]_dmnVars

\* The daemon l has a server that is up or coming up, or that it starts again.
Guards(l) ==
    /\ serves[l]
    /\ \/ launch[l] \in {"fork", "sleep"}
       \/ launch[l] = "wait" /\ child[l] \in Up \cup {"crash"}

\* Once the server of a daemon has been up there is always one to come back
\* to: whatever launches and restarts overlap, some daemon has a server that
\* serves or is about to bind, or that is to be started again.  A second
\* server ends with status 0 when it finds the address taken, and its daemon
\* with it, so the daemon of the first must still be there (daemon.cpp:72-88,
\* application.cpp:247-252).  Holds when every launch is a daemon.
GuardLeft ==
    wasUp /\ ~excused => \E l \in Launches \ Foreground : Guards(l)
=============================================================================
