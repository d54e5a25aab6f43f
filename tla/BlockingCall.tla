---------------------------- MODULE BlockingCall ----------------------------
(***************************************************************************)
(* What the hook promises to a fiber that calls read(), accept() or        *)
(* connect() on a descriptor nobody made nonblocking (hook.cpp; Readme.md, *)
(* section 7): the call looks like the blocking one.  It ends with what    *)
(* arrived, or with ETIMEDOUT when a timeout was set and has passed, or    *)
(* with an error for which there is a reason; it never says "try again",   *)
(* and only the call that returns data takes them.                         *)
(***************************************************************************)
EXTENDS Naturals

CONSTANTS Fibers, Fds

VARIABLES call,     \* the call a fiber is in, or Idle
          result,   \* how the last call ended
          unread,   \* per descriptor, what has arrived
          file,     \* per descriptor, which open file it is; 0 = none
          left,     \* numbers that were closed under a call and keep its waiter
          ended     \* the process has ended

vars == <<call, result, unread, file, left, ended>>

Idle == [phase |-> "out"]
Results == {"data", "timeout", "badf", "error", "again", "refused", "connected", "ok", "full"}

Init ==
    /\ call = [f \in Fibers |-> Idle]
    /\ result = [f \in Fibers |-> "none"]
    /\ unread = [fd \in Fds |-> 0]
    /\ file \in [Fds -> Nat]
    /\ left = {} /\ ended = FALSE

\* Data arrive and descriptors are opened and closed; except on those in S,
\* what has arrived goes away only with the file.
World(S) ==
    /\ unread' \in [Fds -> Nat] /\ file' \in [Fds -> Nat]
    /\ \A fd \in Fds \ S : unread'[fd] < unread[fd] => file'[fd] # file[fd]

\* A fiber is in a call on a number.
On(g, fd) == call[g].phase = "in" /\ call[g].fd = fd

\* promised: the promise covers the call; late: its timeout has passed;
\* shared: it began while another fiber was in a call on the number.
Call(f) ==
    /\ call[f] = Idle
    /\ \E fd \in Fds, b \in BOOLEAN, s \in BOOLEAN :
        /\ s => \E g \in Fibers \ {f} : On(g, fd)
        /\ call' = [call EXCEPT ![f] = [phase |-> "in", promised |-> b, late |-> FALSE, shared |-> s,
                                        fd |-> fd, file |-> file[fd]]]
    /\ result' = [result EXCEPT ![f] = "none"]
    /\ World({})

\* A call the promise says nothing about may end at once.
Instant(f) ==
    /\ call[f] = Idle
    /\ \E r \in Results \ {"data"} : result' = [result EXCEPT ![f] = r]
    /\ UNCHANGED call
    /\ World({})

Expire(f) ==
    /\ call[f].phase = "in"
    /\ call' = [call EXCEPT ![f].late = TRUE]
    /\ UNCHANGED result
    /\ World({})

\* The call takes what has arrived: read() returns it; for accept() it is a
\* connection with a descriptor of its own, which it has more to do with.
Take(f) ==
    /\ call[f].phase = "in" /\ unread[call[f].fd] > 0
    /\ unread'[call[f].fd] = unread[call[f].fd] - 1
    /\ \/ /\ call' = [call EXCEPT ![f] = Idle]
          /\ result' = [result EXCEPT ![f] = "data"]
       \/ /\ \E new \in Fds : call' = [call EXCEPT ![f].phase = "got", ![f].fd = new]
          /\ UNCHANGED result
    /\ World({call[f].fd})

Give(f) ==
    /\ call[f].phase = "got"
    /\ call' = [call EXCEPT ![f] = Idle]
    /\ result' = [result EXCEPT ![f] = "data"]
    /\ World({})

\* A reason for each other end of a call.
Justified(f, r) ==
    \/ r = "timeout" /\ call[f].late
    \/ r \in {"badf", "error"} /\ file[call[f].fd] # call[f].file
    \/ r = "error" /\ (call[f].fd \in left \/ call[f].shared)
    \/ r \in {"connected", "refused", "ok", "full"}
    \/ ~call[f].promised

Return(f, r) ==
    /\ call[f].phase = "in" /\ Justified(f, r)
    /\ call' = [call EXCEPT ![f] = Idle]
    /\ result' = [result EXCEPT ![f] = r]
    /\ World({})

\* A waiter is left on a number only when its file is closed while a call the
\* promise covers is still on it.
LeaveBehind ==
    /\ left' \subseteq Fds
    /\ \A fd \in left' \ left :
        /\ file[fd] # 0 /\ file'[fd] = 0
        /\ \E f \in Fibers : call[f].phase = "in" /\ call[f].promised /\ call[f].fd = fd

Step ==
    \/ UNCHANGED <<call, result>> /\ World({})
    \/ \E f \in Fibers : Call(f) \/ Instant(f) \/ Expire(f) \/ Take(f) \/ Give(f)
    \/ \E f \in Fibers, r \in Results \ {"data"} : Return(f, r)

\* The process ends only where two calls the promise covers meet on a number, and
\* one of them began with an earlier file of it than the other.
Stop ==
    /\ \E f, g \in Fibers, fd \in Fds :
        /\ On(f, fd) /\ On(g, fd) /\ call[f].promised /\ call[g].promised
        /\ call[f].file # call[g].file
    /\ ended' = TRUE
    /\ UNCHANGED <<call, result, unread, file, left>>

Next == ~ended /\ ((Step /\ LeaveBehind /\ UNCHANGED ended) \/ Stop)

Spec == Init /\ [][Next]_vars
=============================================================================
