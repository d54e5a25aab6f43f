--------------------------- MODULE ConnectionPool ---------------------------
(***************************************************************************)
(* The HTTP client's pool of connections (http_connection.cpp,             *)
(* HttpConnectionPool): several fibers call doRequest() at a time.  Each   *)
(* takes an idle connection or opens one, sends, waits for the response or *)
(* gives up, and the deleter of its smart pointer returns the connection.  *)
(* m_createTime is never set, so neither test of a connection's age comes  *)
(* true.                                                                   *)
(* Names have the prefix Pool: the module is checked beside others.        *)
(***************************************************************************)
EXTENDS Integers, Sequences, FiniteSets

CONSTANTS Users, Conns, NoConn,
          MaxRequest,      \* m_maxRequest
          MaxSize,         \* m_maxSize, which no function of the pool reads
          MaxPoolRequests  \* bound: requests of each user

ASSUME PoolAssumption ==
    /\ NoConn \notin Conns /\ IsFiniteSet(Users) /\ IsFiniteSet(Conns)
    /\ MaxRequest \in Nat \ {0} /\ MaxSize \in Nat /\ MaxPoolRequests \in Nat

VARIABLES idle,    \* m_conns
          total,   \* m_total
          open,    \* Socket::isConnected() of a connection
          peer,    \* the other end has not closed it
          pipe,    \* requests sent on it whose response has not been read
          served,  \* HttpConnection::m_request
          upc,     \* where each user is
          has,     \* the connection it holds
          asked,   \* its requests so far
          answer   \* history: the request its last response belongs to, or NoAnswer

httpPoolVars == <<idle, total, open, peer, pipe, served, upc, has, asked, answer>>

Requests == Users \X (1 .. MaxPoolRequests)
NoAnswer == <<>>

PoolTypeOK ==
    /\ idle \in Seq(Conns) /\ total \in Int
    /\ open \in [Conns -> BOOLEAN] /\ peer \in [Conns -> BOOLEAN]
    /\ pipe \in [Conns -> Seq(Requests)] /\ served \in [Conns -> 0 .. MaxRequest]
    /\ upc \in [Users -> {"out", "connect", "send", "recv", "release", "push"}]
    /\ has \in [Users -> Conns \cup {NoConn}]
    /\ asked \in [Users -> 0 .. MaxPoolRequests]
    /\ answer \in [Users -> Requests \cup {NoAnswer}]

PoolInit ==
    /\ idle = <<>> /\ total = 0
    /\ open = [c \in Conns |-> FALSE] /\ peer = [c \in Conns |-> FALSE]
    /\ pipe = [c \in Conns |-> <<>>] /\ served = [c \in Conns |-> 0]
    /\ upc = [u \in Users |-> "out"] /\ has = [u \in Users |-> NoConn]
    /\ asked = [u \in Users |-> 0] /\ answer = [u \in Users |-> NoAnswer]

Held == {has[u] : u \in Users} \ {NoConn}
Idle == {idle[i] : i \in 1 .. Len(idle)}
Stay(u, l) == upc' = [upc EXCEPT ![u] = l]

\* getConnection() up to the unlock: connections that are not connected any more
\* are dropped from the front and counted off (none is ever idle, see IdleUsable).
GetConnection(u) ==
    LET first == {i \in 1 .. Len(idle) : open[idle[i]] /\ \A j \in 1 .. i - 1 : ~open[idle[j]]}
        gone == IF first = {} THEN Len(idle) ELSE (CHOOSE i \in first : TRUE) - 1
    IN
    /\ upc[u] = "out" /\ asked[u] < MaxPoolRequests
    /\ asked' = [asked EXCEPT ![u] = @ + 1]
    /\ answer' = [answer EXCEPT ![u] = NoAnswer]
    /\ total' = total - gone
    /\ \/ /\ first = {} /\ idle' = <<>>
          /\ Stay(u, "connect") /\ UNCHANGED has
       \/ /\ first # {}
          /\ has' = [has EXCEPT ![u] = idle[gone + 1]]
          /\ idle' = SubSeq(idle, gone + 2, Len(idle))
          /\ Stay(u, "send")
    /\ UNCHANGED <<open, peer, pipe, served>>

\* The rest of getConnection(): a new connection, or none.
Connect(u) ==
    /\ upc[u] = "connect"
    /\ \/ \E c \in Conns \ (Held \cup Idle) :
            /\ has' = [has EXCEPT ![u] = c]
            /\ open' = [open EXCEPT ![c] = TRUE] /\ peer' = [peer EXCEPT ![c] = TRUE]
            /\ pipe' = [pipe EXCEPT ![c] = <<>>] /\ served' = [served EXCEPT ![c] = 0]
            /\ total' = total + 1
            /\ Stay(u, "send")
       \/ Stay(u, "out") /\ UNCHANGED <<has, open, peer, pipe, served, total>>
    /\ UNCHANGED <<idle, asked, answer>>

\* sendRequest(): to a peer that is gone it may fail; the connection stays open.
SendRequest(u) ==
    /\ upc[u] = "send"
    /\ \/ /\ pipe' = [pipe EXCEPT ![has[u]] = Append(@, <<u, asked[u]>>)]
          /\ Stay(u, "recv")
       \/ /\ ~peer[has[u]]
          /\ Stay(u, "release") /\ UNCHANGED pipe
    /\ UNCHANGED <<idle, total, open, peer, served, has, asked, answer>>

\* recvResponse() reads what the peer answers, in the order of the requests.
RecvResponse(u) ==
    /\ upc[u] = "recv" /\ pipe[has[u]] # <<>>
    /\ answer' = [answer EXCEPT ![u] = Head(pipe[has[u]])]
    /\ pipe' = [pipe EXCEPT ![has[u]] = Tail(@)]
    /\ Stay(u, "release")
    /\ UNCHANGED <<idle, total, open, peer, served, has, asked>>

\* Mutant of RecvFails: the connection is not closed.
RecvFailsNoClose(u) ==
    /\ upc[u] = "recv"
    /\ Stay(u, "release")
    /\ UNCHANGED <<idle, total, open, peer, pipe, served, has, asked, answer>>

\* recvResponse() times out, or the peer is gone: close().
RecvFails(u) ==
    /\ upc[u] = "recv"
    /\ open' = [open EXCEPT ![has[u]] = FALSE]
    /\ Stay(u, "release")
    /\ UNCHANGED <<idle, total, peer, pipe, served, has, asked, answer>>

\* Mutant of ReleasePtr: off by one in the number of requests.
ReleasePtrOneMore(u) ==
    LET c == has[u] IN
    /\ upc[u] = "release"
    /\ served' = [served EXCEPT ![c] = @ + 1]
    /\ \/ /\ ~open[c] \/ served'[c] > MaxRequest
          /\ has' = [has EXCEPT ![u] = NoConn]
          /\ total' = total - 1
          /\ Stay(u, "out")
       \/ /\ open[c] /\ served'[c] <= MaxRequest
          /\ Stay(u, "push") /\ UNCHANGED <<has, total>>
    /\ UNCHANGED <<idle, open, peer, pipe, asked, answer>>

\* Mutant of ReleasePtr: a deleted connection is not counted off.
ReleasePtrNoCount(u) ==
    LET c == has[u] IN
    /\ upc[u] = "release"
    /\ served' = [served EXCEPT ![c] = @ + 1]
    /\ \/ /\ ~open[c] \/ served'[c] >= MaxRequest
          /\ has' = [has EXCEPT ![u] = NoConn]
          /\ Stay(u, "out")
       \/ /\ open[c] /\ served'[c] < MaxRequest
          /\ Stay(u, "push") /\ UNCHANGED has
    /\ UNCHANGED <<idle, total, open, peer, pipe, asked, answer>>

\* ReleasePtr(): a connection that is closed or has served enough is deleted.
ReleasePtr(u) ==
    LET c == has[u] IN
    /\ upc[u] = "release"
    /\ served' = [served EXCEPT ![c] = @ + 1]
    /\ \/ /\ ~open[c] \/ served'[c] >= MaxRequest
          /\ has' = [has EXCEPT ![u] = NoConn]
          /\ total' = total - 1
          /\ Stay(u, "out")
       \/ /\ open[c] /\ served'[c] < MaxRequest
          /\ Stay(u, "push") /\ UNCHANGED <<has, total>>
    /\ UNCHANGED <<idle, open, peer, pipe, asked, answer>>

\* Mutant of PushBack: the user keeps the connection.
PushBackKeeps(u) ==
    /\ upc[u] = "push"
    /\ idle' = Append(idle, has[u])
    /\ Stay(u, "out")
    /\ UNCHANGED <<total, open, peer, pipe, served, has, asked, answer>>

\* The same, under the lock.
PushBack(u) ==
    /\ upc[u] = "push"
    /\ idle' = Append(idle, has[u])
    /\ has' = [has EXCEPT ![u] = NoConn]
    /\ Stay(u, "out")
    /\ UNCHANGED <<total, open, peer, pipe, served, asked, answer>>

\* The peer closes: nobody here notices before the connection is used.
PeerCloses(c) ==
    /\ c \in Held \cup Idle /\ peer[c]
    /\ peer' = [peer EXCEPT ![c] = FALSE]
    /\ UNCHANGED <<idle, total, open, pipe, served, upc, has, asked, answer>>

PoolNext ==
    \/ \E u \in Users : \/ GetConnection(u) \/ Connect(u) \/ SendRequest(u) \/ RecvResponse(u)
                        \/ RecvFails(u) \/ ReleasePtr(u) \/ PushBack(u)
    \/ \E c \in Conns : PeerCloses(c)

PoolSpec == PoolInit /\ [][PoolNext]_httpPoolVars

-----------------------------------------------------------------------------
(* Properties                                                              *)

\* A fiber never gets the response to a request of another fiber, or to one of
\* its own that it has given up: a connection is used by one at a time and comes
\* back to the pool only when no response is outstanding on it.
AnswersOwn == \A u \in Users : answer[u] # NoAnswer => answer[u] = <<u, asked[u]>>

\* A connection is in the pool once, or with one user, or nowhere.
OneOwner ==
    /\ \A u, v \in Users : u # v /\ has[u] # NoConn => has[u] # has[v]
    /\ \A i, j \in 1 .. Len(idle) : i # j => idle[i] # idle[j]
    /\ Held \cap Idle = {}

\* What waits in the pool is connected, may serve once more and owes nothing.
IdleUsable == \A c \in Idle : open[c] /\ served[c] < MaxRequest /\ pipe[c] = <<>>

\* m_total counts the connections that exist, those in the pool and those a fiber
\* has taken, although it is changed without the lock (http_connection.cpp:319,
\* 339, 352).
TotalCounts == total = Len(idle) + Cardinality({u \in Users : has[u] # NoConn})

\* m_maxSize is the maximum number of connections (http_connection.h:188).
PoolBounded == total <= MaxSize
=============================================================================
