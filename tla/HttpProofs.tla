----------------------------- MODULE HttpProofs -----------------------------
(***************************************************************************)
(* Proofs about the two sides of HTTP, the client's pool of connections    *)
(* and the receiver of messages.                                           *)
(* The pool: for any number of fibers, connections and requests, the       *)
(* variables keep their types, and OneOwner, IdleUsable and AnswersOwn     *)
(* hold in every state.  The three need one another: an answer is one's    *)
(* own because a connection has one user, and comes to the next one with   *)
(* nothing outstanding on it.                                              *)
(* The receiver: for any messages, sizes and buffer, and every way to cut  *)
(* the stream, MessageExact holds: between two pieces the receiver is at   *)
(* the place where the next one begins, and has what came before it.       *)
(***************************************************************************)
EXTENDS ConnectionPool, HttpReceive, Recursion, FiniteSetTheorems, SequenceTheorems

-----------------------------------------------------------------------------
(* The pool: its inductive invariant                                       *)

\* A user holds a connection from the moment it gets one until it gives it
\* back, and has begun a request by then.
Holding == {"send", "recv", "release", "push"}
HoldsWhere ==
    \A u \in Users : /\ (has[u] # NoConn) <=> (upc[u] \in Holding)
                     /\ (upc[u] # "out") => (asked[u] \in 1 .. MaxPoolRequests)

\* What is outstanding on a connection in use.
Owing(u) ==
    /\ (has[u] # NoConn) => (served[has[u]] < MaxRequest)
    /\ (upc[u] = "send") => (pipe[has[u]] = <<>>)
    /\ (upc[u] = "recv") => (pipe[has[u]] = << <<u, asked[u]>> >>)
    /\ (upc[u] = "release") => (open[has[u]] => pipe[has[u]] = <<>>)
    /\ (upc[u] = "push") => (open[has[u]] /\ pipe[has[u]] = <<>>)
Owes == \A u \in Users : Owing(u)

PoolInv == PoolTypeOK /\ HoldsWhere /\ Owes /\ OneOwner /\ IdleUsable /\ AnswersOwn

\* The empty pool satisfies the invariant.
LEMMA InitInv == PoolInit => PoolInv
<1> SUFFICES ASSUME PoolInit PROVE PoolInv
  OBVIOUS
<1>1. PoolTypeOK
  <2>1. /\ open \in [Conns -> BOOLEAN] /\ peer \in [Conns -> BOOLEAN]
    BY Zenon DEF PoolInit
  <2>2. /\ pipe \in [Conns -> Seq(Requests)] /\ served \in [Conns -> 0 .. MaxRequest]
        /\ asked \in [Users -> 0 .. MaxPoolRequests]
    BY PoolAssumption DEF PoolInit
  <2> QED
    BY <2>1, <2>2 DEF PoolInit, PoolTypeOK
<1> QED
  BY <1>1 DEF PoolInit, PoolInv, HoldsWhere, Holding, Owes, Owing, OneOwner, IdleUsable, AnswersOwn, Held, Idle

-----------------------------------------------------------------------------
(* What the proofs of the steps use                                        *)

\* What a user holds is a connection of its own, fit for one request more.
LEMMA HeldIsConn ==
    ASSUME PoolInv, NEW u \in Users, upc[u] \in Holding
    PROVE  /\ has[u] \in Conns /\ has[u] # NoConn
           /\ has[u] \notin Idle
           /\ asked[u] \in 1 .. MaxPoolRequests
           /\ served[has[u]] \in 0 .. MaxRequest - 1
           /\ \A v \in Users : v # u => has[v] # has[u]
<1>1. has[u] \in Conns /\ has[u] # NoConn
  BY DEF PoolInv, PoolTypeOK, HoldsWhere
<1>2. asked[u] \in 1 .. MaxPoolRequests
  BY DEF PoolInv, HoldsWhere, Holding
<1>3. served[has[u]] \in 0 .. MaxRequest - 1
  BY <1>1, PoolAssumption DEF PoolInv, PoolTypeOK, Owes, Owing
<1>4. has[u] \notin Idle
  BY <1>1 DEF PoolInv, OneOwner, Held
<1>5. \A v \in Users : v # u => has[v] # has[u]
  BY <1>1 DEF PoolInv, OneOwner
<1> QED
  BY <1>1, <1>2, <1>3, <1>4, <1>5

\* What getConnection() finds at the front is usable: nothing is dropped.
LEMMA FrontIsOpen ==
    ASSUME PoolInv, NEW u \in Users, GetConnection(u)
    PROVE  /\ total' = total
           /\ \/ idle = <<>> /\ idle' = idle /\ upc' = [upc EXCEPT ![u] = "connect"] /\ has' = has
              \/ /\ idle # <<>> /\ idle' = Tail(idle)
                 /\ has' = [has EXCEPT ![u] = Head(idle)] /\ upc' = [upc EXCEPT ![u] = "send"]
<1> DEFINE first == {i \in 1 .. Len(idle) : open[idle[i]] /\ \A j \in 1 .. i - 1 : ~open[idle[j]]}
           gone == IF first = {} THEN Len(idle) ELSE (CHOOSE i \in first : TRUE) - 1
<1>0. idle \in Seq(Conns) /\ total \in Int /\ Len(idle) \in Nat
  BY DEF PoolInv, PoolTypeOK
<1>1. \A i \in 1 .. Len(idle) : open[idle[i]]
  BY DEF PoolInv, IdleUsable, Idle
<1>2. CASE idle = <<>>
  <2>1. first = {}
    BY <1>0, <1>2
  <2>2. gone = 0
    BY <2>1, <1>2
  <2> QED
    BY <2>1, <2>2, <1>0, <1>2 DEF GetConnection, Stay
<1>3. CASE idle # <<>>
  <2>0. Len(idle) >= 1
    BY <1>0, <1>3
  <2>1. first = {1}
    <3>1. 1 \in first
      BY <2>0, <1>1, <1>0
    <3>2. ASSUME NEW i \in first PROVE i = 1
      <4>1. i \in 1 .. Len(idle) /\ \A j \in 1 .. i - 1 : ~open[idle[j]]
        OBVIOUS
      <4>2. i # 1 => 1 \in 1 .. i - 1
        BY <4>1, <1>0
      <4> QED
        BY <4>1, <4>2, <1>1, <2>0, <1>0
    <3> QED
      BY <3>1, <3>2
  <2>2. gone = 0
    BY <2>1
  <2>3. SubSeq(idle, 2, Len(idle)) = Tail(idle)
    BY <1>0, <2>0, TailIsSubSeq
  <2>4. /\ has' = [has EXCEPT ![u] = idle[gone + 1]]
        /\ idle' = SubSeq(idle, gone + 2, Len(idle))
        /\ upc' = [upc EXCEPT ![u] = "send"]
        /\ total' = total - gone
    BY <2>1, <1>3 DEF GetConnection, Stay
  <2> HIDE DEF gone
  <2> QED
    BY <2>2, <2>3, <2>4, <1>0, <1>3
<1> QED
  BY <1>2, <1>3

\* The front of the list leaves it.
LEMMA TakenFromFront ==
    ASSUME PoolInv, idle # <<>>
    PROVE  /\ Head(idle) \in Idle /\ Tail(idle) \in Seq(Conns)
           /\ Len(Tail(idle)) = Len(idle) - 1
           /\ \A i \in 1 .. Len(Tail(idle)) : Tail(idle)[i] = idle[i + 1]
           /\ \A i \in 1 .. Len(Tail(idle)) : Tail(idle)[i] # Head(idle) /\ Tail(idle)[i] \in Idle
           /\ \A i, j \in 1 .. Len(Tail(idle)) : i # j => Tail(idle)[i] # Tail(idle)[j]
<1>1. idle \in Seq(Conns) /\ Len(idle) \in Nat /\ Len(idle) >= 1
  BY DEF PoolInv, PoolTypeOK
<1>2. /\ Head(idle) = idle[1] /\ Tail(idle) \in Seq(Conns) /\ Len(Tail(idle)) = Len(idle) - 1
      /\ \A i \in 1 .. Len(Tail(idle)) : Tail(idle)[i] = idle[i + 1]
  BY <1>1, HeadTailProperties
<1>3. \A i \in 1 .. Len(Tail(idle)) : i + 1 \in 1 .. Len(idle) /\ i + 1 # 1
  BY <1>1, <1>2
<1>4. \A i, j \in 1 .. Len(idle) : i # j => idle[i] # idle[j]
  BY DEF PoolInv, OneOwner
<1>5. 1 \in 1 .. Len(idle)
  BY <1>1
<1>6. \A i \in 1 .. Len(Tail(idle)) : Tail(idle)[i] # Head(idle) /\ Tail(idle)[i] \in Idle
  BY <1>2, <1>3, <1>4, <1>5 DEF Idle
<1>7. \A i, j \in 1 .. Len(Tail(idle)) : i # j => Tail(idle)[i] # Tail(idle)[j]
  <2> TAKE i, j \in 1 .. Len(Tail(idle))
  <2>1. i # j => i + 1 # j + 1
    BY <1>1, <1>2
  <2> QED
    BY <2>1, <1>2, <1>3, <1>4
<1> QED
  BY <1>2, <1>5, <1>6, <1>7 DEF Idle

-----------------------------------------------------------------------------
(* One lemma for each action                                               *)

\* A connection taken from the list is the user's alone and owes nothing.
LEMMA GetConnectionStep ==
    ASSUME PoolInv, NEW u \in Users, GetConnection(u)
    PROVE  PoolInv'
<1>1. /\ upc[u] = "out" /\ asked[u] < MaxPoolRequests /\ has[u] = NoConn
      /\ asked' = [asked EXCEPT ![u] = @ + 1] /\ answer' = [answer EXCEPT ![u] = NoAnswer]
      /\ UNCHANGED <<open, peer, pipe, served>>
  BY DEF GetConnection, PoolInv, HoldsWhere, Holding
<1>2. asked[u] + 1 \in 1 .. MaxPoolRequests
  BY <1>1, PoolAssumption DEF PoolInv, PoolTypeOK
<1>3. CASE idle = <<>> /\ idle' = idle /\ total' = total /\ upc' = [upc EXCEPT ![u] = "connect"] /\ has' = has
  <2>1. PoolTypeOK'
    BY <1>1, <1>2, <1>3 DEF PoolInv, PoolTypeOK
  <2>2. HoldsWhere' /\ Owes'
    BY <1>1, <1>2, <1>3 DEF PoolInv, PoolTypeOK, HoldsWhere, Holding, Owes, Owing
  <2>3. OneOwner' /\ IdleUsable'
    BY <1>1, <1>3 DEF PoolInv, OneOwner, IdleUsable, Held, Idle
  <2>4. AnswersOwn'
    BY <1>1 DEF PoolInv, PoolTypeOK, AnswersOwn
  <2> QED
    BY <2>1, <2>2, <2>3, <2>4 DEF PoolInv
<1>4. CASE /\ idle # <<>> /\ idle' = Tail(idle) /\ total' = total
           /\ has' = [has EXCEPT ![u] = Head(idle)] /\ upc' = [upc EXCEPT ![u] = "send"]
  <2>0. Head(idle) \in Conns /\ Head(idle) # NoConn
    BY <1>4, TakenFromFront, PoolAssumption DEF Idle, PoolInv, PoolTypeOK
  <2>1. PoolTypeOK'
    <3>1. idle' \in Seq(Conns) /\ total' \in Int
      BY <1>4, TakenFromFront DEF PoolInv, PoolTypeOK
    <3>2. /\ open' \in [Conns -> BOOLEAN] /\ peer' \in [Conns -> BOOLEAN]
          /\ pipe' \in [Conns -> Seq(Requests)] /\ served' \in [Conns -> 0 .. MaxRequest]
      BY <1>1 DEF PoolInv, PoolTypeOK
    <3>3. upc' \in [Users -> {"out", "connect", "send", "recv", "release", "push"}]
      BY <1>4 DEF PoolInv, PoolTypeOK
    <3>4. has' \in [Users -> Conns \cup {NoConn}]
      BY <1>4, <2>0 DEF PoolInv, PoolTypeOK
    <3>5. asked' \in [Users -> 0 .. MaxPoolRequests] /\ answer' \in [Users -> Requests \cup {NoAnswer}]
      BY <1>1, <1>2 DEF PoolInv, PoolTypeOK
    <3> QED
      BY <3>1, <3>2, <3>3, <3>4, <3>5 DEF PoolTypeOK
  <2>2. HoldsWhere'
    BY <1>1, <1>2, <1>4, <2>0 DEF PoolInv, PoolTypeOK, HoldsWhere, Holding
  <2>3. Owes'
    <3>1. served[Head(idle)] < MaxRequest /\ pipe[Head(idle)] = <<>>
      BY <1>4, TakenFromFront DEF PoolInv, IdleUsable
    <3> QED
      BY <1>1, <1>4, <3>1 DEF PoolInv, PoolTypeOK, Owes, Owing
  <2>4. OneOwner'
    <3>1. \A v \in Users : has[v] # Head(idle)
      BY <1>4, <2>0, TakenFromFront DEF PoolInv, OneOwner, Held
    <3>2. \A v, w \in Users : v # w /\ has'[v] # NoConn => has'[v] # has'[w]
      BY <1>4, <3>1, <2>0 DEF PoolInv, PoolTypeOK, OneOwner
    <3>3. \A i, j \in 1 .. Len(idle') : i # j => idle'[i] # idle'[j]
      BY <1>4, TakenFromFront
    <3>4. Held' \subseteq Held \cup {Head(idle)}
      BY <1>4, <2>0 DEF PoolInv, PoolTypeOK, Held
    <3>5. Idle' \subseteq Idle /\ Head(idle) \notin Idle'
      BY <1>4, TakenFromFront DEF Idle
    <3> QED
      BY <3>2, <3>3, <3>4, <3>5 DEF OneOwner, PoolInv
  <2>5. IdleUsable'
    BY <1>1, <1>4, TakenFromFront DEF PoolInv, IdleUsable, Idle
  <2>6. AnswersOwn'
    BY <1>1 DEF PoolInv, PoolTypeOK, AnswersOwn
  <2> QED
    BY <2>1, <2>2, <2>3, <2>4, <2>5, <2>6 DEF PoolInv
<1> QED
  BY <1>3, <1>4, FrontIsOpen

\* A new connection was nobody's; a failed connect() leaves nothing behind.
LEMMA ConnectStep ==
    ASSUME PoolInv, NEW u \in Users, Connect(u)
    PROVE  PoolInv'
<1>1. /\ upc[u] = "connect" /\ has[u] = NoConn /\ asked[u] \in 1 .. MaxPoolRequests
      /\ UNCHANGED <<idle, asked, answer>>
  BY DEF Connect, PoolInv, HoldsWhere, Holding
<1>2. CASE upc' = [upc EXCEPT ![u] = "out"] /\ UNCHANGED <<has, open, peer, pipe, served, total>>
  <2>1. PoolTypeOK'
    BY <1>1, <1>2 DEF PoolInv, PoolTypeOK
  <2>2. HoldsWhere' /\ Owes'
    BY <1>1, <1>2 DEF PoolInv, PoolTypeOK, HoldsWhere, Holding, Owes, Owing
  <2>3. OneOwner' /\ IdleUsable' /\ AnswersOwn'
    BY <1>1, <1>2 DEF PoolInv, OneOwner, IdleUsable, AnswersOwn, Held, Idle
  <2> QED
    BY <2>1, <2>2, <2>3 DEF PoolInv
<1>3. ASSUME NEW c \in Conns \ (Held \cup Idle),
             has' = [has EXCEPT ![u] = c],
             open' = [open EXCEPT ![c] = TRUE] /\ peer' = [peer EXCEPT ![c] = TRUE],
             pipe' = [pipe EXCEPT ![c] = <<>>] /\ served' = [served EXCEPT ![c] = 0],
             total' = total + 1,
             upc' = [upc EXCEPT ![u] = "send"]
      PROVE  PoolInv'
  <2>0. c # NoConn /\ c \notin Idle /\ \A v \in Users : has[v] # c
    BY PoolAssumption DEF Held
  <2>1. PoolTypeOK'
    <3>1. <<>> \in Seq(Requests) /\ 0 \in 0 .. MaxRequest
      BY PoolAssumption
    <3>2. open' \in [Conns -> BOOLEAN] /\ peer' \in [Conns -> BOOLEAN]
      BY <1>3 DEF PoolInv, PoolTypeOK
    <3> QED
      BY <1>1, <1>3, <3>1, <3>2 DEF PoolInv, PoolTypeOK
  <2>2. HoldsWhere'
    BY <1>1, <1>3, <2>0 DEF PoolInv, PoolTypeOK, HoldsWhere, Holding
  <2>3. Owes'
    <3> SUFFICES ASSUME NEW v \in Users
                 PROVE  /\ (has'[v] # NoConn) => (served'[has'[v]] < MaxRequest)
                        /\ (upc'[v] = "send") => (pipe'[has'[v]] = <<>>)
                        /\ (upc'[v] = "recv") => (pipe'[has'[v]] = << <<v, asked'[v]>> >>)
                        /\ (upc'[v] = "release") => (open'[has'[v]] => pipe'[has'[v]] = <<>>)
                        /\ (upc'[v] = "push") => (open'[has'[v]] /\ pipe'[has'[v]] = <<>>)
      BY Zenon DEF Owes, Owing
    <3>1. CASE v = u
      BY <1>3, <3>1, PoolAssumption DEF PoolInv, PoolTypeOK
    <3>2. CASE v # u
      <4>1. has'[v] = has[v] /\ upc'[v] = upc[v] /\ asked'[v] = asked[v]
        BY <1>1, <1>3, <3>2 DEF PoolInv, PoolTypeOK
      <4>2. has[v] # NoConn => /\ served'[has[v]] = served[has[v]] /\ pipe'[has[v]] = pipe[has[v]]
                               /\ open'[has[v]] = open[has[v]]
        BY <1>3, <2>0 DEF PoolInv, PoolTypeOK
      <4>3. upc[v] \in Holding => has[v] # NoConn
        BY DEF PoolInv, HoldsWhere
      <4> QED
        BY <4>1, <4>2, <4>3 DEF PoolInv, Owes, Owing, Holding
    <3> QED
      BY <3>1, <3>2
  <2>4. OneOwner'
    <3>1. \A v, w \in Users : v # w /\ has'[v] # NoConn => has'[v] # has'[w]
      BY <1>3, <2>0 DEF PoolInv, PoolTypeOK, OneOwner
    <3>2. Held' \subseteq Held \cup {c} /\ Idle' = Idle
      BY <1>1, <1>3 DEF PoolInv, PoolTypeOK, Held, Idle
    <3> QED
      BY <1>1, <3>1, <3>2, <2>0 DEF OneOwner, PoolInv
  <2>5. IdleUsable'
    <3>1. Idle' = Idle /\ Idle \subseteq Conns
      BY <1>1 DEF Idle, PoolInv, PoolTypeOK
    <3> QED
      BY <3>1, <1>3, <2>0 DEF PoolInv, PoolTypeOK, IdleUsable
  <2>6. AnswersOwn'
    BY <1>1 DEF PoolInv, AnswersOwn
  <2> QED
    BY <2>1, <2>2, <2>3, <2>4, <2>5, <2>6 DEF PoolInv
<1> QED
  BY <1>2, <1>3 DEF Connect, Stay

\* A step that changes only the connection of the user that takes it leaves the
\* pool and the other users as they are.
LEMMA OthersKeep ==
    ASSUME PoolInv, NEW u \in Users, upc[u] \in Holding,
           asked' = asked,
           \A c \in Conns : c # has[u] =>
               served'[c] = served[c] /\ pipe'[c] = pipe[c] /\ open'[c] = open[c],
           \A v \in Users : v # u => has'[v] = has[v] /\ upc'[v] = upc[v]
    PROVE  /\ \A v \in Users : v # u => Owing(v)'
           /\ \A c \in Idle : open'[c] /\ served'[c] < MaxRequest /\ pipe'[c] = <<>>
<1>1. has[u] \notin Idle /\ \A v \in Users : v # u => has[v] # has[u]
  BY HeldIsConn
<1>2. ASSUME NEW v \in Users, v # u PROVE Owing(v)'
  <2>1. has'[v] = has[v] /\ upc'[v] = upc[v] /\ asked'[v] = asked[v]
    BY <1>2
  <2>2. has[v] # NoConn => /\ served'[has[v]] = served[has[v]] /\ pipe'[has[v]] = pipe[has[v]]
                           /\ open'[has[v]] = open[has[v]]
    BY <1>1, <1>2 DEF PoolInv, PoolTypeOK
  <2>3. upc[v] \in Holding => has[v] # NoConn
    BY DEF PoolInv, HoldsWhere
  <2>4. Owing(v)
    BY DEF PoolInv, Owes
  <2>5. CASE has[v] = NoConn
    <3>1. upc[v] \notin {"send", "recv", "release", "push"}
      BY <2>3, <2>5 DEF Holding
    <3> QED
      BY <2>1, <2>5, <3>1 DEF Owing
  <2>6. CASE has[v] # NoConn
    BY <2>1, <2>2, <2>4, <2>6 DEF Owing
  <2> QED
    BY <2>5, <2>6
<1>3. Idle \subseteq Conns
  BY DEF Idle, PoolInv, PoolTypeOK
<1> QED
  BY <1>1, <1>2, <1>3 DEF PoolInv, IdleUsable

\* Such a step that moves no connection: the pool and its owners stay.
LEMMA UseStep ==
    ASSUME PoolInv, NEW u \in Users, upc[u] \in Holding,
           UNCHANGED <<idle, has, asked>>,
           \A c \in Conns : c # has[u] =>
               served'[c] = served[c] /\ pipe'[c] = pipe[c] /\ open'[c] = open[c],
           \E l \in Holding : upc' = [upc EXCEPT ![u] = l],
           PoolTypeOK', Owing(u)', AnswersOwn'
    PROVE  PoolInv'
<1>1. \A v \in Users : v # u => has'[v] = has[v] /\ upc'[v] = upc[v]
  BY DEF PoolInv, PoolTypeOK
<1>2. HoldsWhere'
  BY DEF PoolInv, PoolTypeOK, HoldsWhere, Holding
<1>3. Owes'
  <2>1. \A v \in Users : v # u => Owing(v)'
    BY <1>1, OthersKeep
  <2> QED
    BY <2>1, Zenon DEF Owes
<1>4. OneOwner' /\ Idle' = Idle
  BY DEF PoolInv, OneOwner, Held, Idle
<1>5. IdleUsable'
  BY <1>1, <1>4, OthersKeep DEF IdleUsable
<1> QED
  BY <1>2, <1>3, <1>4, <1>5 DEF PoolInv

\* After the request exactly one response is outstanding, or none if it failed.
LEMMA SendRequestStep ==
    ASSUME PoolInv, NEW u \in Users, SendRequest(u)
    PROVE  PoolInv'
<1>1. upc[u] = "send" /\ upc[u] \in Holding /\ UNCHANGED <<idle, total, open, peer, served, has, asked, answer>>
  BY DEF SendRequest, Holding
<1>2. /\ has[u] \in Conns /\ has[u] # NoConn /\ served[has[u]] < MaxRequest
      /\ <<u, asked[u]>> \in Requests /\ pipe[has[u]] = <<>>
  BY <1>1, HeldIsConn, PoolAssumption DEF Requests, PoolInv, Owes, Owing
<1>3. AnswersOwn'
  BY <1>1 DEF PoolInv, AnswersOwn
<1>4. CASE pipe' = [pipe EXCEPT ![has[u]] = Append(@, <<u, asked[u]>>)] /\ upc' = [upc EXCEPT ![u] = "recv"]
  <2>1. pipe'[has[u]] = << <<u, asked[u]>> >> /\ pipe' \in [Conns -> Seq(Requests)]
    BY <1>2, <1>4 DEF PoolInv, PoolTypeOK
  <2>2. PoolTypeOK'
    BY <1>1, <1>4, <2>1 DEF PoolInv, PoolTypeOK
  <2>3. Owing(u)'
    BY <1>1, <1>2, <1>4, <2>1 DEF PoolInv, PoolTypeOK, Owing
  <2>4. \A c \in Conns : c # has[u] => served'[c] = served[c] /\ pipe'[c] = pipe[c] /\ open'[c] = open[c]
    BY <1>1, <1>4 DEF PoolInv, PoolTypeOK
  <2>5. \E l \in Holding : upc' = [upc EXCEPT ![u] = l]
    BY <1>4 DEF Holding
  <2> QED
    BY <1>1, <1>3, <2>2, <2>3, <2>4, <2>5, UseStep
<1>5. CASE upc' = [upc EXCEPT ![u] = "release"] /\ pipe' = pipe
  <2>1. PoolTypeOK'
    BY <1>1, <1>5 DEF PoolInv, PoolTypeOK
  <2>2. Owing(u)'
    BY <1>1, <1>2, <1>5 DEF PoolInv, PoolTypeOK, Owing
  <2>3. \E l \in Holding : upc' = [upc EXCEPT ![u] = l]
    BY <1>5 DEF Holding
  <2> QED
    BY <1>1, <1>3, <1>5, <2>1, <2>2, <2>3, UseStep
<1> QED
  BY <1>4, <1>5 DEF SendRequest, Stay

\* The response read is that of the request sent, and nothing is left over.
LEMMA RecvResponseStep ==
    ASSUME PoolInv, NEW u \in Users, RecvResponse(u)
    PROVE  PoolInv'
<1>1. /\ upc[u] = "recv" /\ upc[u] \in Holding
      /\ UNCHANGED <<idle, total, open, peer, served, has, asked>>
      /\ upc' = [upc EXCEPT ![u] = "release"]
      /\ answer' = [answer EXCEPT ![u] = Head(pipe[has[u]])]
      /\ pipe' = [pipe EXCEPT ![has[u]] = Tail(@)]
  BY DEF RecvResponse, Stay, Holding
<1>2. /\ has[u] \in Conns /\ has[u] # NoConn /\ served[has[u]] < MaxRequest
      /\ <<u, asked[u]>> \in Requests
      /\ pipe[has[u]] = << <<u, asked[u]>> >>
  BY <1>1, HeldIsConn, PoolAssumption DEF Requests, PoolInv, Owes, Owing
<1>3. Head(pipe[has[u]]) = <<u, asked[u]>> /\ Tail(pipe[has[u]]) = <<>>
  BY <1>2
<1>4. AnswersOwn'
  BY <1>1, <1>3 DEF PoolInv, PoolTypeOK, AnswersOwn
<1>5. PoolTypeOK'
  BY <1>1, <1>2, <1>3 DEF PoolInv, PoolTypeOK
<1>6. Owing(u)'
  BY <1>1, <1>2, <1>3 DEF PoolInv, PoolTypeOK, Owing
<1>7. \A c \in Conns : c # has[u] => served'[c] = served[c] /\ pipe'[c] = pipe[c] /\ open'[c] = open[c]
  BY <1>1 DEF PoolInv, PoolTypeOK
<1>8. \E l \in Holding : upc' = [upc EXCEPT ![u] = l]
  BY <1>1 DEF Holding
<1> QED
  BY <1>1, <1>4, <1>5, <1>6, <1>7, <1>8, UseStep

\* A request that is given up closes its connection.
LEMMA RecvFailsStep ==
    ASSUME PoolInv, NEW u \in Users, RecvFails(u)
    PROVE  PoolInv'
<1>1. /\ upc[u] = "recv" /\ upc[u] \in Holding
      /\ UNCHANGED <<idle, total, peer, pipe, served, has, asked, answer>>
      /\ upc' = [upc EXCEPT ![u] = "release"]
      /\ open' = [open EXCEPT ![has[u]] = FALSE]
  BY DEF RecvFails, Stay, Holding
<1>2. has[u] \in Conns /\ has[u] # NoConn /\ served[has[u]] < MaxRequest
  BY <1>1, HeldIsConn, PoolAssumption
<1>3. AnswersOwn'
  BY <1>1 DEF PoolInv, AnswersOwn
<1>4. PoolTypeOK'
  BY <1>1 DEF PoolInv, PoolTypeOK
<1>5. Owing(u)'
  BY <1>1, <1>2 DEF PoolInv, PoolTypeOK, Owing
<1>6. \A c \in Conns : c # has[u] => served'[c] = served[c] /\ pipe'[c] = pipe[c] /\ open'[c] = open[c]
  BY <1>1 DEF PoolInv, PoolTypeOK
<1>7. \E l \in Holding : upc' = [upc EXCEPT ![u] = l]
  BY <1>1 DEF Holding
<1> QED
  BY <1>1, <1>3, <1>4, <1>5, <1>6, <1>7, UseStep

\* ReleasePtr() and what follows it: the connection goes, or stays for PushBack.
LEMMA ReleasePtrStep ==
    ASSUME PoolInv, NEW u \in Users, ReleasePtr(u)
    PROVE  PoolInv'
<1>1. /\ upc[u] = "release" /\ upc[u] \in Holding
      /\ UNCHANGED <<idle, open, peer, pipe, asked, answer>>
      /\ served' = [served EXCEPT ![has[u]] = @ + 1]
  BY DEF ReleasePtr, Holding
<1>2. /\ has[u] \in Conns /\ has[u] # NoConn /\ served[has[u]] \in 0 .. MaxRequest - 1
      /\ has[u] \notin Idle /\ \A v \in Users : v # u => has[v] # has[u]
      /\ open[has[u]] => pipe[has[u]] = <<>>
  BY <1>1, HeldIsConn DEF PoolInv, Owes, Owing
<1>3. served'[has[u]] = served[has[u]] + 1 /\ served' \in [Conns -> 0 .. MaxRequest]
  BY <1>1, <1>2, PoolAssumption DEF PoolInv, PoolTypeOK
<1>4. AnswersOwn'
  BY <1>1 DEF PoolInv, AnswersOwn
<1>5. \A c \in Conns : c # has[u] => served'[c] = served[c] /\ pipe'[c] = pipe[c] /\ open'[c] = open[c]
  BY <1>1 DEF PoolInv, PoolTypeOK
<1>6. CASE has' = [has EXCEPT ![u] = NoConn] /\ total' = total - 1 /\ upc' = [upc EXCEPT ![u] = "out"]
  <2>1. PoolTypeOK'
    BY <1>1, <1>3, <1>6 DEF PoolInv, PoolTypeOK
  <2>2. HoldsWhere'
    BY <1>1, <1>6 DEF PoolInv, PoolTypeOK, HoldsWhere, Holding
  <2>3. \A v \in Users : v # u => has'[v] = has[v] /\ upc'[v] = upc[v]
    BY <1>6 DEF PoolInv, PoolTypeOK
  <2>4. has'[u] = NoConn /\ upc'[u] = "out"
    BY <1>6 DEF PoolInv, PoolTypeOK
  <2>5. Owes'
    <3>1. Owing(u)'
      BY <2>4 DEF Owing
    <3>2. \A v \in Users : v # u => Owing(v)'
      BY <1>1, <1>5, <2>3, OthersKeep
    <3> QED
      BY <3>1, <3>2, Zenon DEF Owes
  <2>6. OneOwner'
    <3>1. Held' \subseteq Held /\ Idle' = Idle
      BY <1>1, <2>3, <2>4 DEF Held, Idle
    <3>2. \A v, w \in Users : v # w /\ has'[v] # NoConn => has'[v] # has'[w]
      BY <2>3, <2>4 DEF PoolInv, OneOwner
    <3> QED
      BY <1>1, <3>1, <3>2 DEF PoolInv, OneOwner
  <2>7. IdleUsable'
    BY <1>1, <1>5, <2>3, OthersKeep DEF IdleUsable, Idle
  <2> QED
    BY <1>4, <2>1, <2>2, <2>5, <2>6, <2>7 DEF PoolInv
<1>7. CASE /\ open[has[u]] /\ served'[has[u]] < MaxRequest
           /\ upc' = [upc EXCEPT ![u] = "push"] /\ UNCHANGED <<has, total>>
  <2>1. PoolTypeOK'
    BY <1>1, <1>3, <1>7 DEF PoolInv, PoolTypeOK
  <2>2. Owing(u)'
    BY <1>1, <1>2, <1>7 DEF PoolInv, PoolTypeOK, Owing
  <2>3. \E l \in Holding : upc' = [upc EXCEPT ![u] = l]
    BY <1>7 DEF Holding
  <2> QED
    BY <1>1, <1>4, <1>5, <1>7, <2>1, <2>2, <2>3, UseStep
<1> QED
  BY <1>6, <1>7 DEF ReleasePtr, Stay

\* What goes back to the pool is open and owes nothing.
LEMMA PushBackStep ==
    ASSUME PoolInv, NEW u \in Users, PushBack(u)
    PROVE  PoolInv'
<1>1. /\ upc[u] = "push" /\ upc[u] \in Holding
      /\ UNCHANGED <<total, open, peer, pipe, served, asked, answer>>
      /\ idle' = Append(idle, has[u])
      /\ has' = [has EXCEPT ![u] = NoConn] /\ upc' = [upc EXCEPT ![u] = "out"]
  BY DEF PushBack, Stay, Holding
<1>2. /\ has[u] \in Conns /\ has[u] # NoConn /\ served[has[u]] < MaxRequest
      /\ has[u] \notin Idle /\ \A v \in Users : v # u => has[v] # has[u]
      /\ open[has[u]] /\ pipe[has[u]] = <<>>
  BY <1>1, HeldIsConn, PoolAssumption DEF PoolInv, Owes, Owing
<1>3. PoolTypeOK'
  BY <1>1, <1>2 DEF PoolInv, PoolTypeOK
<1>4. /\ idle \in Seq(Conns) /\ Len(idle) \in Nat /\ Len(idle') = Len(idle) + 1
      /\ idle'[Len(idle) + 1] = has[u]
      /\ \A i \in 1 .. Len(idle) : idle'[i] = idle[i] /\ idle'[i] # has[u]
  <2>1. idle \in Seq(Conns)
    BY DEF PoolInv, PoolTypeOK
  <2>2. \A i \in 1 .. Len(idle) : idle[i] # has[u]
    BY <1>2 DEF Idle
  <2> QED
    BY <1>1, <1>2, <2>1, <2>2
<1>5. \A v \in Users : v # u => has'[v] = has[v] /\ upc'[v] = upc[v]
  BY <1>1 DEF PoolInv, PoolTypeOK
<1>6. has'[u] = NoConn /\ upc'[u] = "out"
  BY <1>1 DEF PoolInv, PoolTypeOK
<1>7. HoldsWhere'
  BY <1>1 DEF PoolInv, PoolTypeOK, HoldsWhere, Holding
<1>8. Owes'
  <2>1. Owing(u)'
    BY <1>6 DEF Owing
  <2>2. \A v \in Users : v # u => Owing(v)'
    BY <1>1, <1>5, OthersKeep
  <2> QED
    BY <2>1, <2>2, Zenon DEF Owes
<1>9. Idle' = Idle \cup {has[u]}
  BY <1>4 DEF Idle
<1>10. OneOwner'
  <2>1. \A v, w \in Users : v # w /\ has'[v] # NoConn => has'[v] # has'[w]
    BY <1>5, <1>6 DEF PoolInv, OneOwner
  <2>2. \A i, j \in 1 .. Len(idle') : i # j => idle'[i] # idle'[j]
    <3>1. \A i \in 1 .. Len(idle') : i \in 1 .. Len(idle) \/ i = Len(idle) + 1
      BY <1>4
    <3>2. \A i, j \in 1 .. Len(idle) : i # j => idle[i] # idle[j]
      BY DEF PoolInv, OneOwner
    <3> QED
      BY <3>1, <3>2, <1>4
  <2>3. Held' \subseteq Held \ {has[u]}
    BY <1>2, <1>5, <1>6 DEF Held
  <2> QED
    BY <1>9, <2>1, <2>2, <2>3 DEF PoolInv, OneOwner
<1>11. IdleUsable'
  BY <1>1, <1>2, <1>9 DEF PoolInv, IdleUsable
<1>12. AnswersOwn'
  BY <1>1 DEF PoolInv, AnswersOwn
<1> QED
  BY <1>3, <1>7, <1>8, <1>10, <1>11, <1>12 DEF PoolInv

\* A peer that closes changes nothing the pool relies on.
LEMMA PeerClosesStep ==
    ASSUME PoolInv, NEW c \in Conns, PeerCloses(c)
    PROVE  PoolInv'
<1>1. /\ peer' = [peer EXCEPT ![c] = FALSE]
      /\ UNCHANGED <<idle, total, open, pipe, served, upc, has, asked, answer>>
  BY DEF PeerCloses
<1>2. PoolTypeOK'
  BY <1>1 DEF PoolInv, PoolTypeOK
<1>3. HoldsWhere' /\ Owes'
  BY <1>1 DEF PoolInv, HoldsWhere, Owes, Owing
<1>4. OneOwner' /\ IdleUsable' /\ AnswersOwn'
  BY <1>1 DEF PoolInv, OneOwner, IdleUsable, AnswersOwn, Held, Idle
<1> QED
  BY <1>2, <1>3, <1>4 DEF PoolInv

-----------------------------------------------------------------------------
(* Theorems                                                                *)

\* Whatever order the fibers take their steps in, and whenever peers close,
\* the invariant stays.
THEOREM PoolInvariant == PoolSpec => []PoolInv
<1>1. PoolInv /\ [PoolNext]_httpPoolVars => PoolInv'
  <2> SUFFICES ASSUME PoolInv, [PoolNext]_httpPoolVars PROVE PoolInv'
    OBVIOUS
  <2>1. CASE UNCHANGED httpPoolVars
    <3>1. PoolTypeOK' /\ HoldsWhere' /\ Owes'
      BY <2>1 DEF PoolInv, httpPoolVars, PoolTypeOK, HoldsWhere, Owes, Owing
    <3>2. OneOwner' /\ IdleUsable' /\ AnswersOwn'
      BY <2>1 DEF PoolInv, httpPoolVars, OneOwner, IdleUsable, AnswersOwn, Held, Idle
    <3> QED
      BY <3>1, <3>2 DEF PoolInv
  <2>2. ASSUME NEW u \in Users, \/ GetConnection(u) \/ Connect(u) \/ SendRequest(u) \/ RecvResponse(u)
                                 \/ RecvFails(u) \/ ReleasePtr(u) \/ PushBack(u)
        PROVE  PoolInv'
    BY <2>2, GetConnectionStep, ConnectStep, SendRequestStep, RecvResponseStep,
       RecvFailsStep, ReleasePtrStep, PushBackStep
  <2>3. ASSUME NEW c \in Conns, PeerCloses(c) PROVE PoolInv'
    BY <2>3, PeerClosesStep
  <2> QED
    BY <2>1, <2>2, <2>3 DEF PoolNext
<1> QED
  BY <1>1, InitInv, PTL DEF PoolSpec

\* Every variable of the pool keeps its type.
THEOREM PoolTypeCorrect == PoolSpec => []PoolTypeOK
<1>1. PoolInv => PoolTypeOK
  BY DEF PoolInv
<1> QED
  BY <1>1, PoolInvariant, PTL

\* doRequest() never returns the response to another request.
THEOREM ResponseIsOwn == PoolSpec => []AnswersOwn
<1>1. PoolInv => AnswersOwn
  BY DEF PoolInv
<1> QED
  BY <1>1, PoolInvariant, PTL

\* A connection is in the pool once, or with one user, or nowhere.
THEOREM ConnectionHasOneOwner == PoolSpec => []OneOwner
<1>1. PoolInv => OneOwner
  BY DEF PoolInv
<1> QED
  BY <1>1, PoolInvariant, PTL

\* What getConnection() finds in the pool can be used as it is.
THEOREM PoolKeepsUsable == PoolSpec => []IdleUsable
<1>1. PoolInv => IdleUsable
  BY DEF PoolInv
<1> QED
  BY <1>1, PoolInvariant, PTL
-----------------------------------------------------------------------------
(* The number of connections                                               *)

\* Who has a connection, or has decided to make one.
Holders == {u \in Users : has[u] # NoConn}
Takers == {u \in Users : has[u] # NoConn \/ upc[u] = "connect"}

\* A user decides to make a connection only when it sees the pool empty: from
\* then on pool and takers together are at most the users.
CountInv ==
    /\ total = Len(idle) + Cardinality(Holders)
    /\ Len(idle) + Cardinality(Takers) <= Cardinality(Users)

\* Sets of users can be counted, and change by one user at a time.
LEMMA CountUsers ==
    ASSUME NEW S, S \subseteq Users
    PROVE  /\ Cardinality(S) \in Nat /\ Cardinality(Users) \in Nat
           /\ Cardinality(S) <= Cardinality(Users)
           /\ \A u \in Users : u \notin S => Cardinality(S \cup {u}) = Cardinality(S) + 1
           /\ \A u \in S : Cardinality(S \ {u}) = Cardinality(S) - 1
<1>1. IsFiniteSet(Users) /\ IsFiniteSet(S)
  BY PoolAssumption, FS_Subset
<1>2. Cardinality(S) \in Nat /\ Cardinality(Users) \in Nat /\ Cardinality(S) <= Cardinality(Users)
  BY <1>1, FS_CardinalityType, FS_Subset
<1>3. \A u \in Users : u \notin S => Cardinality(S \cup {u}) = Cardinality(S) + 1
  BY <1>1, FS_AddElement
<1>4. \A u \in S : Cardinality(S \ {u}) = Cardinality(S) - 1
  BY <1>1, FS_RemoveElement
<1> QED
  BY <1>2, <1>3, <1>4

\* What a step of a user does to the two sets and the pool, in numbers.
LEMMA CountMove ==
    ASSUME PoolInv, CountInv, NEW u \in Users,
           \/ /\ Holders' = Holders /\ Takers' \in {Takers, Takers \ {u}}
              /\ Len(idle') = Len(idle) /\ total' = total
           \/ /\ Holders' = Holders /\ Takers' \subseteq Users
              /\ Len(idle) = 0 /\ Len(idle') = 0 /\ total' = total
           \/ /\ u \notin Takers /\ u \notin Holders
              /\ Holders' = Holders \cup {u} /\ Takers' = Takers \cup {u}
              /\ Len(idle') = Len(idle) - 1 /\ total' = total
           \/ /\ u \notin Holders /\ Holders' = Holders \cup {u} /\ Takers' = Takers
              /\ Len(idle') = Len(idle) /\ total' = total + 1
           \/ /\ u \in Holders /\ Holders' = Holders \ {u} /\ Takers' = Takers \ {u}
              /\ \/ Len(idle') = Len(idle) /\ total' = total - 1
                 \/ Len(idle') = Len(idle) + 1 /\ total' = total
    PROVE  CountInv'
<1> DEFINE h == Cardinality(Holders)  k == Cardinality(Takers)  n == Cardinality(Users)
           h2 == Cardinality(Holders')  k2 == Cardinality(Takers')
<1>1. Holders \subseteq Users /\ Takers \subseteq Users /\ Holders \subseteq Takers
  BY DEF Holders, Takers
<1>2. h \in Nat /\ k \in Nat /\ n \in Nat /\ Len(idle) \in Nat /\ total \in Int
  BY <1>1, CountUsers DEF PoolInv, PoolTypeOK
<1>3. total = Len(idle) + h /\ Len(idle) + k <= n
  BY DEF CountInv
<1>4. \/ h2 = h /\ k2 \in {k, k - 1} /\ Len(idle') = Len(idle) /\ total' = total
      \/ h2 = h /\ k2 <= n /\ k2 \in Nat /\ Len(idle) = 0 /\ Len(idle') = 0 /\ total' = total
      \/ h2 = h + 1 /\ k2 = k + 1 /\ Len(idle') = Len(idle) - 1 /\ total' = total
      \/ h2 = h + 1 /\ k2 = k /\ Len(idle') = Len(idle) /\ total' = total + 1
      \/ /\ h2 = h - 1 /\ k2 = k - 1
         /\ \/ Len(idle') = Len(idle) /\ total' = total - 1
            \/ Len(idle') = Len(idle) + 1 /\ total' = total
  <2> DEFINE
       MoveA == /\ Holders' = Holders /\ Takers' \in {Takers, Takers \ {u}}
                /\ Len(idle') = Len(idle) /\ total' = total
       MoveB == /\ Holders' = Holders /\ Takers' \subseteq Users
                /\ Len(idle) = 0 /\ Len(idle') = 0 /\ total' = total
       MoveC == /\ u \notin Takers /\ u \notin Holders
                /\ Holders' = Holders \cup {u} /\ Takers' = Takers \cup {u}
                /\ Len(idle') = Len(idle) - 1 /\ total' = total
       MoveD == /\ u \notin Holders /\ Holders' = Holders \cup {u} /\ Takers' = Takers
                /\ Len(idle') = Len(idle) /\ total' = total + 1
       MoveE == /\ u \in Holders /\ Holders' = Holders \ {u} /\ Takers' = Takers \ {u}
                /\ \/ Len(idle') = Len(idle) /\ total' = total - 1
                   \/ Len(idle') = Len(idle) + 1 /\ total' = total
  <2>1. (Takers' \subseteq Users) => k2 <= n /\ k2 \in Nat
    BY CountUsers
  <2>2. (Takers' = Takers \ {u}) => k2 \in {k, k - 1}
    <3>1. u \in Takers => Cardinality(Takers \ {u}) = k - 1
      BY <1>1, CountUsers
    <3>2. u \notin Takers => Takers \ {u} = Takers
      OBVIOUS
    <3> QED
      BY <3>1, <3>2
  <2>3. (u \notin Takers) => Cardinality(Takers \cup {u}) = k + 1
    BY <1>1, CountUsers
  <2>4. (u \notin Holders) => Cardinality(Holders \cup {u}) = h + 1
    BY <1>1, CountUsers
  <2>5. (u \in Holders) => Cardinality(Holders \ {u}) = h - 1 /\ Cardinality(Takers \ {u}) = k - 1
    BY <1>1, CountUsers
  <2>6. CASE MoveA
    <3>1. h2 = h /\ k2 \in {k, k - 1}
      BY <2>2, <2>6
    <3> QED
      BY <2>6, <3>1
  <2>7. CASE MoveB
    <3>1. h2 = h /\ k2 <= n /\ k2 \in Nat
      BY <2>1, <2>7
    <3> QED
      BY <2>7, <3>1
  <2>8. CASE MoveC
    <3>1. h2 = h + 1 /\ k2 = k + 1
      BY <2>3, <2>4, <2>8
    <3> QED
      BY <2>8, <3>1
  <2>9. CASE MoveD
    <3>1. h2 = h + 1 /\ k2 = k
      BY <2>4, <2>9
    <3> QED
      BY <2>9, <3>1
  <2>10. CASE MoveE
    <3>1. h2 = h - 1 /\ k2 = k - 1
      BY <2>5, <2>10
    <3> QED
      BY <2>10, <3>1
  <2>11. MoveA \/ MoveB \/ MoveC \/ MoveD \/ MoveE
    OBVIOUS
  <2> HIDE DEF MoveA, MoveB, MoveC, MoveD, MoveE
  <2> QED
    BY <2>6, <2>7, <2>8, <2>9, <2>10, <2>11, Zenon
<1> HIDE DEF h, k, n, h2, k2
<1>5. total' = Len(idle') + h2 /\ Len(idle') + k2 <= n
  <2>1. CASE h2 = h /\ k2 \in {k, k - 1} /\ Len(idle') = Len(idle) /\ total' = total
    BY <1>2, <1>3, <2>1
  <2>2. CASE h2 = h /\ k2 <= n /\ k2 \in Nat /\ Len(idle) = 0 /\ Len(idle') = 0 /\ total' = total
    BY <1>2, <1>3, <2>2
  <2>3. CASE h2 = h + 1 /\ k2 = k + 1 /\ Len(idle') = Len(idle) - 1 /\ total' = total
    BY <1>2, <1>3, <2>3
  <2>4. CASE h2 = h + 1 /\ k2 = k /\ Len(idle') = Len(idle) /\ total' = total + 1
    BY <1>2, <1>3, <2>4
  <2>5. CASE /\ h2 = h - 1 /\ k2 = k - 1
             /\ \/ Len(idle') = Len(idle) /\ total' = total - 1
                \/ Len(idle') = Len(idle) + 1 /\ total' = total
    BY <1>2, <1>3, <2>5
  <2> QED
    BY <1>4, <2>1, <2>2, <2>3, <2>4, <2>5, Zenon
<1> QED
  BY <1>5 DEF CountInv, h2, k2, n

\* Each step is one of those.
LEMMA CountStep ==
    ASSUME PoolInv, CountInv, [PoolNext]_httpPoolVars
    PROVE  CountInv'
<1>0. idle \in Seq(Conns) /\ Len(idle) \in Nat /\ \A u \in Users : (has[u] # NoConn) <=> (upc[u] \in Holding)
  BY DEF PoolInv, PoolTypeOK, HoldsWhere
<1>1. CASE UNCHANGED <<idle, total, has, upc>>
  BY <1>1 DEF CountInv, Holders, Takers
<1>2. ASSUME NEW u \in Users, GetConnection(u) PROVE CountInv'
  <2>1. upc[u] = "out" /\ has[u] = NoConn /\ u \notin Takers /\ u \notin Holders
    BY <1>0, <1>2 DEF GetConnection, Holding, Takers, Holders
  <2>2. CASE idle = <<>> /\ idle' = idle /\ has' = has
    <3>1. Holders' = Holders /\ Takers' \subseteq Users /\ Len(idle) = 0 /\ Len(idle') = 0 /\ total' = total
      BY <1>2, <2>2, FrontIsOpen DEF Holders, Takers
    <3> QED
      BY <3>1, CountMove
  <2>3. CASE /\ idle # <<>> /\ idle' = Tail(idle)
             /\ has' = [has EXCEPT ![u] = Head(idle)] /\ upc' = [upc EXCEPT ![u] = "send"]
    <3>1. Head(idle) # NoConn
      BY <2>3, TakenFromFront, PoolAssumption DEF Idle, PoolInv, PoolTypeOK
    <3>2. Holders' = Holders \cup {u} /\ Takers' = Takers \cup {u}
      BY <2>1, <2>3, <3>1 DEF PoolInv, PoolTypeOK, Holders, Takers
    <3>3. Len(idle') = Len(idle) - 1 /\ total' = total
      BY <1>2, <2>3, TakenFromFront, FrontIsOpen
    <3> QED
      BY <2>1, <3>2, <3>3, CountMove
  <2> QED
    BY <1>2, <2>2, <2>3, FrontIsOpen
<1>3. ASSUME NEW u \in Users, Connect(u) PROVE CountInv'
  <2>1. upc[u] = "connect" /\ has[u] = NoConn /\ u \in Takers /\ u \notin Holders /\ idle' = idle
    BY <1>0, <1>3 DEF Connect, Holding, Takers, Holders
  <2>2. CASE upc' = [upc EXCEPT ![u] = "out"] /\ UNCHANGED <<has, total>>
    <3>1. Holders' = Holders /\ Takers' = Takers \ {u}
      BY <2>1, <2>2 DEF PoolInv, PoolTypeOK, Holders, Takers
    <3> QED
      BY <2>1, <2>2, <3>1, CountMove
  <2>3. ASSUME NEW c \in Conns, has' = [has EXCEPT ![u] = c], total' = total + 1, upc' = [upc EXCEPT ![u] = "send"]
        PROVE  CountInv'
    <3>1. c # NoConn
      BY PoolAssumption
    <3>2. Holders' = Holders \cup {u} /\ Takers' = Takers
      BY <2>1, <2>3, <3>1 DEF PoolInv, PoolTypeOK, Holders, Takers
    <3> QED
      BY <2>1, <2>3, <3>2, CountMove
  <2> QED
    BY <1>3, <2>2, <2>3 DEF Connect, Stay
<1>4. ASSUME NEW u \in Users, SendRequest(u) \/ RecvResponse(u) \/ RecvFails(u) PROVE CountInv'
  <2>1. PICK l \in Holding : upc' = [upc EXCEPT ![u] = l]
    BY <1>4 DEF SendRequest, RecvResponse, RecvFails, Stay, Holding
  <2>2. upc[u] \in Holding /\ UNCHANGED <<idle, total, has>>
    BY <1>4 DEF SendRequest, RecvResponse, RecvFails, Holding
  <2>3. Holders' = Holders /\ Takers' = Takers
    BY <2>1, <2>2 DEF PoolInv, PoolTypeOK, Holders, Takers, Holding
  <2> QED
    BY <2>2, <2>3, CountMove
<1>5. ASSUME NEW u \in Users, ReleasePtr(u) PROVE CountInv'
  <2>1. upc[u] = "release" /\ u \in Holders /\ idle' = idle
    BY <1>0, <1>5 DEF ReleasePtr, Holding, Holders
  <2>2. CASE has' = [has EXCEPT ![u] = NoConn] /\ total' = total - 1 /\ upc' = [upc EXCEPT ![u] = "out"]
    <3>1. Holders' = Holders \ {u} /\ Takers' = Takers \ {u}
      BY <2>2 DEF PoolInv, PoolTypeOK, Holders, Takers
    <3> QED
      BY <2>1, <2>2, <3>1, CountMove
  <2>3. CASE upc' = [upc EXCEPT ![u] = "push"] /\ UNCHANGED <<has, total>>
    <3>1. Holders' = Holders /\ Takers' = Takers
      BY <2>1, <2>3 DEF PoolInv, PoolTypeOK, Holders, Takers
    <3> QED
      BY <2>1, <2>3, <3>1, CountMove
  <2> QED
    BY <1>5, <2>2, <2>3 DEF ReleasePtr, Stay
<1>6. ASSUME NEW u \in Users, PushBack(u) PROVE CountInv'
  <2>1. /\ upc[u] = "push" /\ u \in Holders /\ idle' = Append(idle, has[u]) /\ has[u] \in Conns /\ total' = total
        /\ has' = [has EXCEPT ![u] = NoConn] /\ upc' = [upc EXCEPT ![u] = "out"]
    BY <1>0, <1>6 DEF PushBack, Stay, Holding, Holders, PoolInv, PoolTypeOK
  <2>2. Holders' = Holders \ {u} /\ Takers' = Takers \ {u} /\ Len(idle') = Len(idle) + 1
    BY <1>0, <2>1 DEF PoolInv, PoolTypeOK, Holders, Takers
  <2> QED
    BY <2>1, <2>2, CountMove
<1>7. ASSUME NEW c \in Conns, PeerCloses(c) PROVE CountInv'
  BY <1>1, <1>7 DEF PeerCloses
<1> QED
  BY <1>1, <1>2, <1>3, <1>4, <1>5, <1>6, <1>7 DEF PoolNext, httpPoolVars

\* m_total is the number of connections there are (http_connection.cpp:319, 339, 352).
\* The one bound they have is the number of fibers that use the pool: whoever opens
\* a connection has seen the pool empty.
THEOREM TotalIsExact == PoolSpec => [](TotalCounts /\ total <= Cardinality(Users))
<1>1. PoolInit => CountInv
  <2> SUFFICES ASSUME PoolInit PROVE CountInv
    OBVIOUS
  <2>1. Holders = {} /\ Takers = {} /\ Len(idle) = 0 /\ total = 0
    BY DEF PoolInit, Holders, Takers
  <2>2. Cardinality({}) = 0 /\ Cardinality(Users) \in Nat
    BY PoolAssumption, FS_EmptySet, FS_CardinalityType
  <2> QED
    BY <2>1, <2>2 DEF CountInv
<1>2. PoolInv /\ CountInv => TotalCounts /\ total <= Cardinality(Users)
  <2> SUFFICES ASSUME PoolInv, CountInv PROVE TotalCounts /\ total <= Cardinality(Users)
    OBVIOUS
  <2>1. Holders \subseteq Takers /\ Takers \subseteq Users /\ IsFiniteSet(Takers)
    BY PoolAssumption, FS_Subset DEF Holders, Takers
  <2>2. /\ Cardinality(Holders) <= Cardinality(Takers) /\ Cardinality(Users) \in Nat
        /\ Cardinality(Holders) \in Nat /\ Cardinality(Takers) \in Nat
    BY <2>1, PoolAssumption, FS_Subset, FS_CardinalityType
  <2>3. Len(idle) \in Nat
    BY DEF PoolInv, PoolTypeOK
  <2> QED
    BY <2>2, <2>3 DEF CountInv, TotalCounts, Holders
<1> QED
  BY <1>1, <1>2, CountStep, PoolInvariant, PTL DEF PoolSpec

-----------------------------------------------------------------------------
(* The receiver: messages, and the places of their bytes                   *)

\* The places of a message's bytes add up.
LEMMA BeforeIs ==
    ASSUME NEW m \in HttpMessage
    PROVE  /\ \A i \in 1 .. Len(m.sizes) + 1 : Before(m, i) \in Nat
           /\ Before(m, 1) = HeadSize
           /\ \A i \in 1 .. Len(m.sizes) : Before(m, i + 1) = Before(m, i) + PieceLength(m, i)
<1> DEFINE N == Len(m.sizes)
           d == [j \in 1 .. N |-> PieceLength(m, j)]
           b == CHOOSE b : b = [j \in 1 .. N + 1 |->
                    IF j = 1 THEN HeadSize ELSE b[j - 1] + PieceLength(m, j - 1)]
<1>1. N \in Nat /\ d \in Terms(N) /\ HeadSize \in Nat
  <2>1. N \in Nat /\ \A j \in 1 .. N : m.sizes[j] \in Nat
    BY DEF HttpMessage
  <2>2. \A j \in 1 .. N : PieceLength(m, j) \in Nat
    BY <2>1, HttpAssumption DEF PieceLength, Crlf
  <2> QED
    BY <2>1, <2>2, HttpAssumption DEF Terms
<1>2. \A f : [j \in 1 .. N + 1 |-> IF j = 1 THEN HeadSize ELSE f[j - 1] + d[j - 1]]
             = [j \in 1 .. N + 1 |-> IF j = 1 THEN HeadSize ELSE f[j - 1] + PieceLength(m, j - 1)]
  <2>1. \A j \in 1 .. N + 1 : j # 1 => d[j - 1] = PieceLength(m, j - 1)
    BY <1>1
  <2> HIDE DEF d
  <2> QED
    BY <2>1
<1>3. \A i : Before(m, i) = b[i]
  BY DEF Before
<1> HIDE DEF d
<1>4. b = [j \in 1 .. N + 1 |-> IF j = 1 THEN HeadSize ELSE b[j - 1] + PieceLength(m, j - 1)]
  <2>1. \E f : Sum(f, HeadSize, d, N)
    BY <1>1, SumsExist
  <2>2. PICK f : Sum(f, HeadSize, d, N)
    BY <2>1
  <2>3. f = [j \in 1 .. N + 1 |-> IF j = 1 THEN HeadSize ELSE f[j - 1] + PieceLength(m, j - 1)]
    BY <1>2, <2>2, Zenon DEF Sum
  <2> QED
    BY <2>3, Zenon
<1> HIDE DEF b
<1>5. b \in [1 .. N + 1 -> Nat]
  <2>1. Sum(b, HeadSize, d, N)
    BY <1>2, <1>4, Zenon DEF Sum
  <2> HIDE DEF N
  <2> QED
    BY <1>1, <2>1, SumsAre
<1>6. b[1] = HeadSize
  BY <1>1, <1>4
<1>7. ASSUME NEW i \in 1 .. N PROVE b[i + 1] = b[i] + PieceLength(m, i)
  <2>1. i + 1 \in 1 .. N + 1 /\ i + 1 # 1 /\ (i + 1) - 1 = i
    BY <1>1
  <2> QED
    BY <1>4, <2>1
<1> QED
  BY <1>3, <1>5, <1>6, <1>7

\* One message begins where the one before it ends.
LEMMA StartIs ==
    ASSUME NEW ms \in Seq(HttpMessage)
    PROVE  /\ \A k \in 1 .. Len(ms) + 1 : StartOf(ms, k) \in Nat
           /\ StartOf(ms, 1) = 0
           /\ \A k \in 1 .. Len(ms) :
                  LengthOf(ms[k]) \in Nat /\ StartOf(ms, k + 1) = StartOf(ms, k) + LengthOf(ms[k])
<1> DEFINE N == Len(ms)
           d == [j \in 1 .. N |-> LengthOf(ms[j])]
           b == CHOOSE b : b = [j \in 1 .. N + 1 |->
                    IF j = 1 THEN 0 ELSE b[j - 1] + LengthOf(ms[j - 1])]
<1>0. \A j \in 1 .. N : LengthOf(ms[j]) \in Nat
  <2> SUFFICES ASSUME NEW j \in 1 .. N PROVE LengthOf(ms[j]) \in Nat
    OBVIOUS
  <2>1. ms[j] \in HttpMessage
    OBVIOUS
  <2>2. Len(ms[j].sizes) + 1 \in 1 .. Len(ms[j].sizes) + 1
    BY <2>1 DEF HttpMessage
  <2> QED
    BY <2>1, <2>2, BeforeIs DEF LengthOf
<1>1. N \in Nat /\ d \in Terms(N)
  BY <1>0 DEF Terms
<1>2. \A f : [j \in 1 .. N + 1 |-> IF j = 1 THEN 0 ELSE f[j - 1] + d[j - 1]]
             = [j \in 1 .. N + 1 |-> IF j = 1 THEN 0 ELSE f[j - 1] + LengthOf(ms[j - 1])]
  <2>1. \A j \in 1 .. N + 1 : j # 1 => d[j - 1] = LengthOf(ms[j - 1])
    BY <1>1
  <2> HIDE DEF d
  <2> QED
    BY <2>1
<1>3. \A i : StartOf(ms, i) = b[i]
  BY DEF StartOf
<1> HIDE DEF d
<1>4. b = [j \in 1 .. N + 1 |-> IF j = 1 THEN 0 ELSE b[j - 1] + LengthOf(ms[j - 1])]
  <2>1. \E f : Sum(f, 0, d, N)
    <3>1. 0 \in Nat
      OBVIOUS
    <3> HIDE DEF N
    <3> QED
      BY <1>1, <3>1, SumsExist
  <2>2. PICK f : Sum(f, 0, d, N)
    BY <2>1
  <2>3. f = [j \in 1 .. N + 1 |-> IF j = 1 THEN 0 ELSE f[j - 1] + LengthOf(ms[j - 1])]
    BY <1>2, <2>2, Zenon DEF Sum
  <2> QED
    BY <2>3, Zenon
<1> HIDE DEF b
<1>5. b \in [1 .. N + 1 -> Nat]
  <2>1. Sum(b, 0, d, N)
    BY <1>2, <1>4, Zenon DEF Sum
  <2>2. 0 \in Nat
    OBVIOUS
  <2> HIDE DEF N
  <2> QED
    BY <1>1, <2>1, <2>2, SumsAre
<1>6. b[1] = 0
  BY <1>1, <1>4
<1>7. ASSUME NEW i \in 1 .. N PROVE b[i + 1] = b[i] + LengthOf(ms[i])
  <2>1. i + 1 \in 1 .. N + 1 /\ i + 1 # 1 /\ (i + 1) - 1 = i
    BY <1>1
  <2> QED
    BY <1>4, <2>1
<1> QED
  BY <1>0, <1>3, <1>5, <1>6, <1>7

LEMMA SpanIs ==
    ASSUME NEW from \in Nat, NEW to \in Nat, from <= to
    PROVE  /\ Span(from, to) \in Seq(Nat) /\ Len(Span(from, to)) = to - from
           /\ \A j \in 1 .. to - from : Span(from, to)[j] = from + j
<1>1. to - from \in Nat /\ \A j \in 1 .. to - from : from + j \in Nat
  OBVIOUS
<1> QED
  BY <1>1 DEF Span

\* One span and the next are one.
LEMMA SpansJoin ==
    ASSUME NEW a \in Nat, NEW b \in Nat, NEW c \in Nat, a <= b, b <= c
    PROVE  Span(a, b) \o Span(b, c) = Span(a, c)
<1>1. PICK s \in Seq(Nat) : s = Span(a, b) /\ Len(s) = b - a /\ \A j \in 1 .. b - a : s[j] = a + j
  BY SpanIs
<1>2. PICK t \in Seq(Nat) : t = Span(b, c) /\ Len(t) = c - b /\ \A j \in 1 .. c - b : t[j] = b + j
  BY SpanIs
<1>0. a <= c
  OBVIOUS
<1>3. PICK u \in Seq(Nat) : u = Span(a, c) /\ Len(u) = c - a /\ \A j \in 1 .. c - a : u[j] = a + j
  BY <1>0, SpanIs
<1>4. PICK v \in Seq(Nat) : v = s \o t
  BY ConcatProperties
<1>5. /\ Len(v) = Len(s) + Len(t)
      /\ \A j \in 1 .. Len(s) + Len(t) : v[j] = IF j <= Len(s) THEN s[j] ELSE t[j - Len(s)]
  BY <1>4, ConcatProperties
<1>6. Len(v) = Len(u)
  BY <1>1, <1>2, <1>3, <1>5
<1>7. ASSUME NEW j \in 1 .. Len(v) PROVE v[j] = u[j]
  <2>1. j \in 1 .. c - a /\ u[j] = a + j
    BY <1>3, <1>6
  <2>2. CASE j <= b - a
    <3>1. j \in 1 .. b - a /\ v[j] = s[j]
      BY <1>1, <1>5, <2>2
    <3> QED
      BY <1>1, <2>1, <3>1
  <2>3. CASE ~(j <= b - a)
    <3>1. j - (b - a) \in 1 .. c - b /\ v[j] = t[j - (b - a)]
      BY <1>1, <1>5, <2>1, <2>3
    <3>2. t[j - (b - a)] = b + (j - (b - a))
      BY <1>2, <3>1
    <3> QED
      BY <2>1, <3>1, <3>2
  <2> QED
    BY <2>2, <2>3
<1>8. v = u
  BY <1>6, <1>7, SeqEqual
<1> QED
  BY <1>1, <1>2, <1>3, <1>4, <1>8

LEMMA Associate ==
    ASSUME NEW u \in Seq(Nat), NEW v \in Seq(Nat), NEW w \in Seq(Nat)
    PROVE  (u \o v) \o w = u \o (v \o w)
<1>1. PICK p \in Seq(Nat) : p = u \o v
  BY ConcatProperties
<1>2. PICK q \in Seq(Nat) : q = v \o w
  BY ConcatProperties
<1>3. PICK r \in Seq(Nat) : r = p \o w
  BY ConcatProperties
<1>4. PICK s \in Seq(Nat) : s = u \o q
  BY ConcatProperties
<1>5. /\ Len(p) = Len(u) + Len(v)
      /\ \A i \in 1 .. Len(u) + Len(v) : p[i] = IF i <= Len(u) THEN u[i] ELSE v[i - Len(u)]
  BY <1>1, ConcatProperties
<1>6. /\ Len(q) = Len(v) + Len(w)
      /\ \A i \in 1 .. Len(v) + Len(w) : q[i] = IF i <= Len(v) THEN v[i] ELSE w[i - Len(v)]
  BY <1>2, ConcatProperties
<1>7. /\ Len(r) = Len(p) + Len(w)
      /\ \A i \in 1 .. Len(p) + Len(w) : r[i] = IF i <= Len(p) THEN p[i] ELSE w[i - Len(p)]
  BY <1>3, ConcatProperties
<1>8. /\ Len(s) = Len(u) + Len(q)
      /\ \A i \in 1 .. Len(u) + Len(q) : s[i] = IF i <= Len(u) THEN u[i] ELSE q[i - Len(u)]
  BY <1>4, ConcatProperties
<1>9. Len(r) = Len(s) /\ \A i \in 1 .. Len(r) : r[i] = s[i]
  <2> DEFINE a == Len(u)  b == Len(v)  c == Len(w)
  <2>1. a \in Nat /\ b \in Nat /\ c \in Nat
    OBVIOUS
  <2>2. Len(p) = a + b /\ Len(q) = b + c /\ Len(r) = (a + b) + c /\ Len(s) = a + (b + c)
    BY <1>5, <1>6, <1>7, <1>8
  <2>3. /\ \A i \in 1 .. a + b : p[i] = IF i <= a THEN u[i] ELSE v[i - a]
        /\ \A i \in 1 .. b + c : q[i] = IF i <= b THEN v[i] ELSE w[i - b]
    BY <1>5, <1>6
  <2>4. /\ \A i \in 1 .. (a + b) + c : r[i] = IF i <= a + b THEN p[i] ELSE w[i - (a + b)]
        /\ \A i \in 1 .. a + (b + c) : s[i] = IF i <= a THEN u[i] ELSE q[i - a]
    BY <1>7, <1>8, <2>2
  <2> HIDE DEF a, b, c
  <2>5. ASSUME NEW i \in 1 .. (a + b) + c PROVE r[i] = s[i]
    <3>0. i \in 1 .. a + (b + c)
      BY <2>1
    <3>1. CASE i <= a
      <4>1. i \in 1 .. a + b /\ i <= a + b
        BY <2>1, <3>1
      <4>2. r[i] = p[i] /\ p[i] = u[i] /\ s[i] = u[i]
        BY <2>3, <2>4, <3>0, <3>1, <4>1
      <4> QED
        BY <4>2
    <3>2. CASE a < i /\ i <= a + b
      <4>1. i \in 1 .. a + b /\ i - a \in 1 .. b + c /\ i - a <= b /\ ~(i <= a)
        BY <2>1, <3>2
      <4>2. r[i] = p[i] /\ p[i] = v[i - a] /\ s[i] = q[i - a] /\ q[i - a] = v[i - a]
        BY <2>3, <2>4, <3>0, <3>2, <4>1
      <4> QED
        BY <4>2
    <3>3. CASE a + b < i
      <4>1. /\ i - a \in 1 .. b + c /\ ~(i - a <= b) /\ ~(i <= a) /\ ~(i <= a + b)
            /\ (i - a) - b = i - (a + b)
        BY <2>1, <3>0, <3>3
      <4>2. r[i] = w[i - (a + b)] /\ s[i] = q[i - a] /\ q[i - a] = w[(i - a) - b]
        BY <2>3, <2>4, <3>0, <4>1
      <4> QED
        BY <4>1, <4>2
    <3> QED
      BY <2>1, <3>1, <3>2, <3>3
  <2> QED
    BY <2>1, <2>2, <2>5
<1>10. r = s
  BY <1>9, SeqEqual
<1> QED
  BY <1>1, <1>2, <1>3, <1>4, <1>10

\* What is appended can be cut off.
LEMMA CutOff ==
    ASSUME NEW s \in Seq(Nat), NEW t \in Seq(Nat)
    PROVE  SubSeq(s \o t, 1, Len(s \o t) - Len(t)) = s
<1>1. PICK v \in Seq(Nat) : v = s \o t
  BY ConcatProperties
<1>2. /\ Len(v) = Len(s) + Len(t)
      /\ \A j \in 1 .. Len(s) + Len(t) : v[j] = IF j <= Len(s) THEN s[j] ELSE t[j - Len(s)]
  BY <1>1, ConcatProperties
<1>3. PICK u \in Seq(Nat) : u = SubSeq(v, 1, Len(s))
  <2>1. SubSeq(v, 1, Len(s)) \in Seq(Nat)
    <3>1. Len(s) \in Nat /\ Len(t) \in Nat /\ Len(s) <= Len(v)
      BY <1>2
    <3>2. 1 \in 1 .. Len(v) + 1 /\ Len(s) \in 0 .. Len(v)
      BY <3>1
    <3> QED
      BY <1>1, <3>2, SubSeqProperties
  <2> QED
    BY <2>1
<1>4. Len(u) = Len(s) /\ \A j \in 1 .. Len(s) : u[j] = v[j]
  BY <1>2, <1>3, SubSeqProperties
<1>5. u = s
  <2>1. \A j \in 1 .. Len(u) : u[j] = s[j]
    BY <1>2, <1>4
  <2> QED
    BY <1>4, <2>1, SeqEqual
<1>6. Len(v) - Len(t) = Len(s)
  BY <1>2
<1> QED
  BY <1>1, <1>3, <1>5, <1>6

\* The body up to a piece is the one up to the piece before, and the piece.
LEMMA PiecesAre ==
    ASSUME NEW m \in HttpMessage, NEW start \in Nat
    PROVE  /\ Pieces(m, start, 0) = <<>>
           /\ \A i \in 0 .. Len(m.sizes) : Pieces(m, start, i) \in Seq(Nat)
           /\ \A i \in 1 .. Len(m.sizes) :
                  Pieces(m, start, i) = Pieces(m, start, i - 1) \o Piece(m, start, i)
<1> DEFINE N == Len(m.sizes)
           p == CHOOSE p : p = [j \in 0 .. N |->
                    IF j = 0 THEN <<>> ELSE p[j - 1] \o Piece(m, start, j)]
<1>1. N \in Nat /\ \A j \in 1 .. N : m.sizes[j] \in Nat
  BY DEF HttpMessage
<1>2. \A j \in 1 .. N : Piece(m, start, j) \in Seq(Nat)
  <2> SUFFICES ASSUME NEW j \in 1 .. N PROVE Piece(m, start, j) \in Seq(Nat)
    OBVIOUS
  <2>1. Before(m, j) \in Nat
    BY <1>1, BeforeIs
  <2>2. PICK at \in Nat : at = start + Before(m, j) + (IF m.chunked THEN SizeBytes ELSE 0)
    BY <2>1, HttpAssumption
  <2>3. Span(at, at + m.sizes[j]) \in Seq(Nat)
    <3>1. PICK to \in Nat : to = at + m.sizes[j] /\ at <= to
      BY <1>1
    <3> QED
      BY <3>1, SpanIs
  <2> QED
    BY <2>2, <2>3 DEF Piece
<1>3. \A i : Pieces(m, start, i) = p[i]
  BY DEF Pieces
<1>4. \E q : q = [j \in 0 .. N |-> IF j = 0 THEN <<>> ELSE q[j - 1] \o Piece(m, start, j)]
  <2> DEFINE step == [n \in Nat |-> [v \in Seq(Nat) |->
                 IF n + 1 \in 1 .. N THEN v \o Piece(m, start, n + 1) ELSE v]]
  <2>1. step \in Steps(Seq(Nat))
    BY <1>2, ConcatProperties DEF Steps
  <2>2. <<>> \in Seq(Nat)
    OBVIOUS
  <2> HIDE DEF step
  <2>3. PICK s : s \in [Nat -> Seq(Nat)] /\ s[0] = <<>> /\ \A n \in Nat : s[n + 1] = step[n][s[n]]
    <3>1. \E s : Iterate(s, <<>>, step, Seq(Nat))
      BY <2>1, <2>2, Iterates, Zenon
    <3> QED
      BY <3>1 DEF Iterate
  <2> DEFINE q == [j \in 0 .. N |-> s[j]]
  <2>4. ASSUME NEW j \in 0 .. N, j # 0 PROVE q[j] = q[j - 1] \o Piece(m, start, j)
    <3>1. j - 1 \in Nat /\ (j - 1) + 1 = j /\ j \in 1 .. N /\ j - 1 \in 0 .. N
      BY <2>4
    <3>2. s[j] = step[j - 1][s[j - 1]]
      BY <2>3, <3>1
    <3>3. s[j - 1] \in Seq(Nat)
      BY <2>3, <3>1
    <3>4. step[j - 1][s[j - 1]] = s[j - 1] \o Piece(m, start, j)
      BY <3>1, <3>3 DEF step
    <3>5. q[j] = s[j] /\ q[j - 1] = s[j - 1]
      BY <3>1
    <3> QED
      BY <3>2, <3>4, <3>5
  <2>5. q[0] = <<>>
    BY <1>1, <2>3
  <2>6. q = [j \in 0 .. N |-> IF j = 0 THEN <<>> ELSE q[j - 1] \o Piece(m, start, j)]
    BY <2>4, <2>5
  <2> HIDE DEF q
  <2> QED
    BY <2>6
<1>5. p = [j \in 0 .. N |-> IF j = 0 THEN <<>> ELSE p[j - 1] \o Piece(m, start, j)]
  BY <1>4, Zenon
<1> HIDE DEF p
<1>6. p[0] = <<>>
  BY <1>1, <1>5
<1>7. \A i \in 1 .. N : p[i] = p[i - 1] \o Piece(m, start, i)
  <2> SUFFICES ASSUME NEW i \in 1 .. N PROVE p[i] = p[i - 1] \o Piece(m, start, i)
    OBVIOUS
  <2>1. i \in 0 .. N /\ i # 0
    BY <1>1
  <2> QED
    BY <1>5, <2>1
<1>8. \A i \in 0 .. N : p[i] \in Seq(Nat)
  <2> DEFINE T == {i \in Nat : i <= N => p[i] \in Seq(Nat)}
  <2>1. 0 \in T
    <3>1. <<>> \in Seq(Nat)
      OBVIOUS
    <3> QED
      BY <1>6, <3>1
  <2>2. ASSUME NEW i \in Nat, i \in T PROVE i + 1 \in T
    <3> SUFFICES ASSUME i + 1 <= N PROVE p[i + 1] \in Seq(Nat)
      OBVIOUS
    <3>1. i + 1 \in 1 .. N /\ (i + 1) - 1 = i
      BY <1>1
    <3>2. p[i + 1] = p[i] \o Piece(m, start, i + 1)
      BY <1>7, <3>1
    <3>3. p[i] \in Seq(Nat) /\ Piece(m, start, i + 1) \in Seq(Nat)
      BY <1>1, <1>2, <2>2, <3>1
    <3> QED
      BY <3>2, <3>3, ConcatProperties
  <2> HIDE DEF T
  <2>3. Nat \subseteq T
    BY <2>1, <2>2, InductOne
  <2> QED
    BY <1>1, <2>3 DEF T
<1> QED
  BY <1>3, <1>6, <1>7, <1>8

-----------------------------------------------------------------------------
(* What has been received                                                  *)

MessageEnd == MessageStart + LengthOf(Message)
\* Where the data of a chunk begins.
DataAt(i) == MessageStart + Before(Message, i) + SizeBytes

\* What the receiver has of the message, at each place it can be.
Received ==
    /\ hpc = "head" => used = read /\ read \in MessageStart .. MessageStart + HeadSize - 1
    /\ hpc = "plain" =>
           /\ ~Message.chunked /\ used >= MessageStart + HeadSize /\ need = MessageEnd - used
           /\ used = read \/ used = MessageStart + HeadSize
           /\ body = Span(MessageStart + HeadSize, used)
    /\ hpc \in {"size", "chunk"} => Message.chunked /\ part \in 1 .. Len(Message.sizes)
    /\ hpc = "size" =>
           /\ used = MessageStart + Before(Message, part)
           /\ body = Pieces(Message, MessageStart, part - 1)
    /\ hpc = "chunk" =>
           /\ used = read /\ read >= DataAt(part)
           /\ need > 0 /\ need = (MessageStart + Before(Message, part + 1)) - read
           /\ body = Pieces(Message, MessageStart, part - 1) \o Span(DataAt(part), read)

HttpInv == HttpTypeOK /\ arrived <= MessageEnd /\ Received /\ MessageExact

\* The messages, and the place of the one that is received.
LEMMA MessageIs ==
    ASSUME HttpTypeOK
    PROVE  /\ messages \in Seq(HttpMessage) /\ Len(messages) \in Nat
           /\ Message \in HttpMessage /\ Framed(Message)
           /\ Len(Message.sizes) \in Nat \ {0} /\ \A i \in 1 .. Len(Message.sizes) : Message.sizes[i] \in Nat
           /\ MessageStart \in Nat /\ LengthOf(Message) \in Nat /\ MessageEnd \in Nat
           /\ StartOf(messages, current + 1) = MessageEnd
<1>1. /\ messages \in Seq(HttpMessage) /\ current \in 1 .. Len(messages)
      /\ \A k \in 1 .. Len(messages) : Framed(messages[k])
  BY HttpAssumption DEF HttpTypeOK
<1>2. Message \in HttpMessage /\ Framed(Message) /\ Len(messages) \in Nat
  BY <1>1 DEF Message
<1>3. Len(Message.sizes) \in Nat \ {0} /\ \A i \in 1 .. Len(Message.sizes) : Message.sizes[i] \in Nat
  BY <1>2 DEF HttpMessage, Framed
<1>4. /\ MessageStart \in Nat /\ LengthOf(Message) \in Nat
      /\ StartOf(messages, current + 1) = MessageStart + LengthOf(Message)
  <2>1. current \in 1 .. Len(messages) + 1
    BY <1>1
  <2> QED
    BY <1>1, <2>1, StartIs DEF Message, MessageStart
<1> QED
  BY <1>1, <1>2, <1>3, <1>4 DEF MessageEnd

LEMMA SameMessage ==
    ASSUME UNCHANGED <<messages, current>>
    PROVE  Message' = Message /\ MessageStart' = MessageStart /\ MessageEnd' = MessageEnd
<1>1. Message' = Message
  BY DEF Message
<1>2. MessageStart' = MessageStart
  BY DEF MessageStart
<1> QED
  BY <1>1, <1>2 DEF MessageEnd

LEMMA HttpInitInv == HttpInit => HttpInv
<1> SUFFICES ASSUME HttpInit PROVE HttpInv
  OBVIOUS
<1>1. HttpTypeOK
  <2>1. messages \in Seq(HttpMessage) /\ messages # <<>>
    BY HttpAssumption DEF HttpInit
  <2>2. 1 \in 1 .. Len(messages)
    BY <2>1
  <2>3. <<>> \in Seq(Nat)
    OBVIOUS
  <2> QED
    BY <2>2, <2>3 DEF HttpInit, HttpTypeOK
<1>2. MessageStart = 0 /\ MessageEnd \in Nat
  <2>1. MessageStart = StartOf(messages, 1)
    BY DEF HttpInit, MessageStart
  <2> QED
    BY <1>1, <2>1, MessageIs, StartIs
<1>3. Received
  BY <1>2, HttpAssumption DEF HttpInit, Received
<1> QED
  BY <1>1, <1>2, <1>3 DEF HttpInit, HttpInv, MessageExact

\* Nothing arrives that belongs to a later message.
LEMMA ArrivesInv ==
    ASSUME ~Pipelined, HttpInv, Arrives
    PROVE  HttpInv'
<1>1. /\ arrived < MessageEnd /\ arrived' = arrived + 1
      /\ UNCHANGED <<messages, current, read, used, hpc, need, part, body>>
  BY MessageIs DEF Arrives, HttpInv
<1>2. Message' = Message /\ MessageStart' = MessageStart /\ MessageEnd' = MessageEnd
  BY <1>1, SameMessage
<1>3. HttpTypeOK'
  BY <1>1 DEF HttpInv, HttpTypeOK
<1>4. arrived' <= MessageEnd'
  BY <1>1, <1>2, MessageIs DEF HttpInv, HttpTypeOK
<1>5. Received' /\ MessageExact'
  BY <1>1, <1>2 DEF HttpInv, Received, MessageExact, DataAt
<1> QED
  BY <1>3, <1>4, <1>5 DEF HttpInv

LEMMA FailsInv ==
    ASSUME HttpInv, ReadFails
    PROVE  HttpInv'
<1>1. hpc' = "closed" /\ UNCHANGED <<messages, current, arrived, read, used, need, part, body>>
  BY DEF ReadFails
<1>2. MessageEnd' = MessageEnd
  BY <1>1, SameMessage
<1>3. HttpTypeOK'
  BY <1>1 DEF HttpInv, HttpTypeOK
<1> QED
  BY <1>1, <1>2, <1>3 DEF HttpInv, Received, MessageExact

\* A step within a message: what has to be shown of it.
LEMMA StepWithin ==
    ASSUME HttpInv, UNCHANGED <<messages, current, arrived>>,
           read' \in Nat, read' <= arrived, used' \in 0 .. read', need' \in Nat, part' \in Nat,
           body' \in Seq(Nat), hpc' \in {"head", "plain", "size", "chunk", "done", "closed", "torn"},
           Received', MessageExact'
    PROVE  HttpInv'
<1>1. MessageEnd' = MessageEnd
  BY SameMessage
<1>2. HttpTypeOK'
  BY DEF HttpInv, HttpTypeOK
<1> QED
  BY <1>1, <1>2 DEF HttpInv

\* The header: used stays with read, or stops where the header ends.
LEMMA HeadInv ==
    ASSUME HttpInv, NEW n \in Int, ReadHead(n)
    PROVE  HttpInv'
<1> DEFINE end == MessageStart + HeadSize
           b == <<>>
<1>1. /\ hpc = "head" /\ n >= 1 /\ n <= arrived - read /\ read' = read + n /\ part' = 1 /\ body' = b
      /\ need' = IF Message.chunked THEN 0 ELSE Message.sizes[1]
      /\ UNCHANGED <<messages, current, arrived>>
  BY DEF ReadHead, Take
<1>2. \/ hpc' = "torn" /\ used' = read'
      \/ read' < end /\ hpc' = "head" /\ used' = read'
      \/ read' >= end /\ used' = end /\ hpc' = IF Message.chunked THEN "size" ELSE "plain"
  BY DEF ReadHead
<1>3. Message' = Message /\ MessageStart' = MessageStart /\ MessageEnd' = MessageEnd
  BY <1>1, SameMessage
<1>4. /\ HttpTypeOK /\ MessageStart \in Nat /\ Message \in HttpMessage /\ Framed(Message)
      /\ Len(Message.sizes) \in Nat \ {0} /\ Message.sizes[1] \in Nat
      /\ arrived <= MessageEnd
  BY MessageIs DEF HttpInv
<1>5. /\ read' \in Nat /\ read' <= arrived /\ used' \in 0 .. read' /\ need' \in Nat /\ part' \in Nat
      /\ hpc' \in {"head", "plain", "size", "chunk", "done", "closed", "torn"}
      /\ read' >= MessageStart
  BY <1>1, <1>2, <1>4, HttpAssumption DEF HttpTypeOK, HttpInv, Received
<1>6. b \in Seq(Nat) /\ b = Pieces(Message, MessageStart, 0) /\ b = Span(end, end)
  <2>1. b \in Seq(Nat) /\ Len(b) = 0
    OBVIOUS
  <2>2. b = Pieces(Message, MessageStart, 0)
    BY <1>4, PiecesAre
  <2>3. end \in Nat /\ end <= end /\ end - end = 0
    BY <1>4, HttpAssumption
  <2> HIDE DEF end, b
  <2>4. Span(end, end) \in Seq(Nat) /\ Len(Span(end, end)) = 0
    BY <2>3, SpanIs
  <2>5. b = Span(end, end)
    <3>1. PICK u \in Seq(Nat) : u = Span(end, end) /\ Len(u) = 0
      BY <2>4
    <3>2. b = u
      BY <2>1, <3>1, SeqEqual
    <3> QED
      BY <3>1, <3>2
  <2> QED
    BY <2>1, <2>2, <2>5
<1> HIDE DEF b
<1>7. Before(Message, 1) = HeadSize
  BY <1>4, BeforeIs
<1>8. ~Message.chunked => MessageEnd = end + Message.sizes[1]
  <2> SUFFICES ASSUME ~Message.chunked PROVE MessageEnd = end + Message.sizes[1]
    OBVIOUS
  <2>1. Len(Message.sizes) = 1
    BY <1>4 DEF Framed
  <2>2. Before(Message, 2) = Before(Message, 1) + PieceLength(Message, 1)
    BY <1>4, <2>1, BeforeIs
  <2>3. PieceLength(Message, 1) = Message.sizes[1]
    BY <1>4 DEF PieceLength
  <2>4. LengthOf(Message) = Before(Message, 2)
    BY <2>1 DEF LengthOf
  <2> QED
    BY <1>4, <1>7, <2>2, <2>3, <2>4, HttpAssumption DEF MessageEnd
<1>9. Received'
  <2>1. CASE hpc' = "torn" /\ used' = read'
    BY <2>1 DEF Received
  <2>2. CASE read' < end /\ hpc' = "head" /\ used' = read'
    <3>1. read' \in MessageStart .. MessageStart + HeadSize - 1
      BY <1>4, <1>5, <2>2, HttpAssumption
    <3> QED
      BY <1>3, <2>2, <3>1 DEF Received
  <2>3. CASE read' >= end /\ used' = end /\ hpc' = "size" /\ Message.chunked
    <3>1. part' \in 1 .. Len(Message.sizes) /\ part' - 1 = 0 /\ part' = 1
      BY <1>1, <1>4
    <3> QED
      BY <1>1, <1>3, <1>6, <1>7, <2>3, <3>1 DEF Received
  <2>4. CASE read' >= end /\ used' = end /\ hpc' = "plain" /\ ~Message.chunked
    <3>1. need' = Message.sizes[1]
      BY <1>1, <2>4
    <3>2. need' = MessageEnd - end /\ used' >= end
      BY <1>4, <1>8, <2>4, <3>1, HttpAssumption
    <3> QED
      BY <1>1, <1>3, <1>6, <2>4, <3>2 DEF Received
  <2> QED
    BY <1>2, <2>1, <2>2, <2>3, <2>4
<1>10. MessageExact'
  <2>1. hpc' # "done"
    BY <1>2
  <2> QED
    BY <2>1 DEF MessageExact
<1> QED
  BY <1>1, <1>5, <1>6, <1>9, <1>10, StepWithin

\* A plain body is whole when the bytes up to the message's end are there.
LEMMA PlainWhole ==
    ASSUME HttpTypeOK, ~Message.chunked
    PROVE  /\ MessageStart + HeadSize \in Nat /\ MessageStart + HeadSize <= MessageEnd
           /\ Pieces(Message, MessageStart, Len(Message.sizes)) = Span(MessageStart + HeadSize, MessageEnd)
<1> DEFINE size == Message.sizes[1]
           at == MessageStart + HeadSize
<1>1. /\ MessageStart \in Nat /\ Message \in HttpMessage /\ Len(Message.sizes) = 1 /\ size \in Nat
  BY MessageIs DEF Framed
<1>2. Before(Message, 1) = HeadSize /\ Before(Message, 2) = HeadSize + size
  BY <1>1, BeforeIs DEF PieceLength
<1>3. MessageEnd = at + size /\ at \in Nat /\ at <= MessageEnd
  BY <1>1, <1>2, HttpAssumption DEF MessageEnd, LengthOf
<1>4. Piece(Message, MessageStart, 1) = Span(at, at + size)
  <2>1. MessageStart + Before(Message, 1) + 0 = at
    BY <1>1, <1>2, HttpAssumption
  <2> QED
    BY <2>1 DEF Piece
<1>5. Pieces(Message, MessageStart, 1) = <<>> \o Piece(Message, MessageStart, 1)
  <2>1. 1 \in 1 .. Len(Message.sizes) /\ 1 - 1 = 0
    BY <1>1
  <2>2. Pieces(Message, MessageStart, 1) = Pieces(Message, MessageStart, 1 - 1) \o Piece(Message, MessageStart, 1)
    BY <1>1, <2>1, PiecesAre
  <2>3. Pieces(Message, MessageStart, 0) = <<>>
    BY <1>1, PiecesAre
  <2> QED
    BY <2>1, <2>2, <2>3
<1>6. Span(at, at + size) \in Seq(Nat)
  BY <1>1, <1>3, SpanIs
<1>7. \A q \in Seq(Nat) : <<>> \o q = q
  BY ConcatEmptySeq
<1> HIDE DEF at, size
<1>8. Pieces(Message, MessageStart, 1) = Span(at, at + size)
  BY <1>4, <1>5, <1>6, <1>7
<1> QED
  BY <1>1, <1>3, <1>8 DEF at

\* More of a plain body: up to where the stream has been read.
LEMMA PlainMore ==
    ASSUME HttpInv, hpc = "plain", UNCHANGED <<messages, current, arrived, part>>,
           read' \in Nat, read' <= arrived, used' = read', read' >= used,
           need' = MessageEnd - read', body' = Span(MessageStart + HeadSize, read'),
           hpc' = IF read' = MessageEnd THEN "done" ELSE "plain"
    PROVE  HttpInv'
<1>1. Message' = Message /\ MessageStart' = MessageStart /\ MessageEnd' = MessageEnd
  BY SameMessage
<1>2. /\ HttpTypeOK /\ ~Message.chunked /\ used >= MessageStart + HeadSize /\ arrived <= MessageEnd
      /\ MessageStart \in Nat /\ MessageEnd \in Nat
  BY MessageIs DEF HttpInv, Received
<1> DEFINE at == MessageStart + HeadSize
<1>3. at \in Nat /\ read' >= at /\ read' <= MessageEnd
  BY <1>2, HttpAssumption DEF HttpTypeOK
<1>4. body' \in Seq(Nat)
  BY <1>3, SpanIs
<1>5. need' \in Nat /\ used' \in 0 .. read' /\ part' \in Nat
  <2>1. part' \in Nat
    BY <1>2 DEF HttpTypeOK
  <2>2. \A x, y \in Nat : y <= x => x - y \in Nat /\ y \in 0 .. y
    OBVIOUS
  <2>3. MessageEnd - read' \in Nat /\ read' \in 0 .. read'
    BY <1>2, <1>3, <2>2, Zenon
  <2> QED
    BY <2>1, <2>3, Zenon
<1>6. Received'
  BY <1>1, <1>2, <1>3 DEF Received
<1>7. MessageExact'
  <2> SUFFICES ASSUME hpc' = "done"
               PROVE  body' = Pieces(Message, MessageStart, Len(Message.sizes)) /\ read' = MessageEnd
    BY <1>1 DEF MessageExact, MessageEnd
  <2>1. read' = MessageEnd
    OBVIOUS
  <2> QED
    BY <1>2, <2>1, PlainWhole
<1> HIDE DEF at
<1> QED
  BY <1>4, <1>5, <1>6, <1>7, StepWithin

LEMMA PlainInv ==
    ASSUME HttpInv, PlainBuffered \/ PlainEmpty
    PROVE  HttpInv'
<1>1. /\ HttpTypeOK /\ MessageStart \in Nat /\ MessageEnd \in Nat /\ hpc = "plain" /\ ~Message.chunked
      /\ used >= MessageStart + HeadSize /\ need = MessageEnd - used /\ arrived <= MessageEnd
      /\ used = read \/ used = MessageStart + HeadSize
      /\ body = Span(MessageStart + HeadSize, used)
  BY MessageIs DEF HttpInv, Received, PlainBuffered, PlainEmpty
<1> DEFINE at == MessageStart + HeadSize
<1>2. read \in Nat /\ used \in Nat /\ used <= read /\ read <= arrived /\ at \in Nat /\ arrived \in Nat
  BY <1>1, HttpAssumption DEF HttpTypeOK
<1>3. CASE PlainBuffered
  <2>1. /\ body = <<>> /\ used < read /\ used' = read
        /\ UNCHANGED <<messages, current, arrived, read, part>>
    BY <1>2, <1>3 DEF PlainBuffered, Buffered
  <2>2. used = at
    <3>1. Len(body) = used - at
      BY <1>1, <1>2, SpanIs
    <3>2. Len(body) = 0
      BY <2>1
    <3> QED
      BY <1>1, <1>2, <3>1, <3>2
  <2>3. Buffered \in Nat /\ need \in Nat /\ Buffered <= need /\ used + Buffered = read
    BY <1>1, <1>2, <2>1 DEF Buffered
  <2>4. PICK n : n = (IF need >= Buffered THEN Buffered ELSE need) /\ need' = need - n
                 /\ body' = Span(used, used + n) /\ hpc' = IF need = n THEN "done" ELSE "plain"
    BY <1>3 DEF PlainBuffered
  <2>5. n = Buffered
    BY <2>3, <2>4
  <2>6. /\ need' = MessageEnd - read /\ body' = Span(at, read)
        /\ hpc' = IF read = MessageEnd THEN "done" ELSE "plain"
    BY <1>1, <1>2, <2>2, <2>3, <2>4, <2>5
  <2> QED
    BY <1>1, <1>2, <2>1, <2>6, PlainMore
<1>4. CASE PlainEmpty
  <2>1. /\ used = read /\ need = 0 /\ body' = body /\ hpc' = "done"
        /\ UNCHANGED <<messages, current, arrived, read, used, need, part>>
    BY <1>2, <1>4 DEF PlainEmpty, Buffered, Complete
  <2>2. read = MessageEnd
    BY <1>1, <1>2, <2>1
  <2> QED
    BY <1>1, <1>2, <2>1, <2>2, PlainMore
<1> QED
  BY <1>3, <1>4

LEMMA FixSizeInv ==
    ASSUME HttpInv, NEW n \in Int, ReadFixSize(n)
    PROVE  HttpInv'
<1>1. /\ HttpTypeOK /\ MessageStart \in Nat /\ MessageEnd \in Nat /\ hpc = "plain"
      /\ used >= MessageStart + HeadSize /\ need = MessageEnd - used /\ arrived <= MessageEnd
      /\ body = Span(MessageStart + HeadSize, used)
  BY MessageIs DEF HttpInv, Received, ReadFixSize
<1> DEFINE at == MessageStart + HeadSize
<1>2. read \in Nat /\ used \in Nat /\ used <= read /\ read <= arrived /\ at \in Nat /\ arrived \in Nat
  BY <1>1, HttpAssumption DEF HttpTypeOK
<1>3. /\ used = read /\ n >= 1 /\ n <= need /\ n <= arrived - read /\ read' = read + n /\ used' = read'
      /\ need' = need - n /\ body' = body \o Span(read, read')
      /\ hpc' = (IF need = n THEN "done" ELSE "plain") /\ UNCHANGED <<messages, current, arrived, part>>
  <2>1. n \in 1 .. need /\ n >= 1 /\ n <= need
    BY <1>1, <1>2 DEF ReadFixSize, Take
  <2> QED
    BY <1>2, <2>1 DEF ReadFixSize, Take, Buffered
<1>4. read' \in Nat /\ read <= read' /\ read' <= arrived /\ need' = MessageEnd - read'
  BY <1>1, <1>2, <1>3
<1>5. body' = Span(at, read')
  BY <1>1, <1>2, <1>3, <1>4, SpansJoin
<1>6. hpc' = IF read' = MessageEnd THEN "done" ELSE "plain"
  BY <1>1, <1>2, <1>3, <1>4
<1> QED
  BY <1>1, <1>2, <1>3, <1>4, <1>5, <1>6, PlainMore

\* Where the data of the chunk that is received begins, and where the next one.
LEMMA ChunkIs ==
    ASSUME HttpTypeOK, Message.chunked, NEW i \in 1 .. Len(Message.sizes)
    PROVE  /\ Message.sizes[i] \in Nat /\ DataAt(i) \in Nat /\ MessageStart + Before(Message, i) \in Nat
           /\ DataAt(i) = (MessageStart + Before(Message, i)) + SizeBytes
           /\ MessageStart + Before(Message, i + 1) = DataAt(i) + Message.sizes[i] + Crlf
           /\ MessageStart + Before(Message, i + 1) \in Nat
           /\ Pieces(Message, MessageStart, i - 1) \in Seq(Nat)
           /\ Pieces(Message, MessageStart, i)
              = Pieces(Message, MessageStart, i - 1) \o Span(DataAt(i), DataAt(i) + Message.sizes[i])
           /\ Message.sizes[i] = 0 <=> i = Len(Message.sizes)
           /\ i = Len(Message.sizes) => MessageStart + Before(Message, i + 1) = MessageEnd
<1>1. /\ MessageStart \in Nat /\ Message \in HttpMessage /\ Len(Message.sizes) \in Nat
      /\ Message.sizes[i] \in Nat /\ SizeBytes \in Nat
      /\ Message.sizes[i] = 0 <=> i = Len(Message.sizes)
  BY MessageIs, HttpAssumption DEF Framed
<1>2. /\ Before(Message, i) \in Nat
      /\ Before(Message, i + 1) = Before(Message, i) + (Message.sizes[i] + (SizeBytes + Crlf))
  <2>1. i \in 1 .. Len(Message.sizes) + 1
    BY <1>1
  <2> QED
    BY <1>1, <2>1, BeforeIs DEF PieceLength
<1>3. i - 1 \in 0 .. Len(Message.sizes)
  BY <1>1
<1>4. /\ Pieces(Message, MessageStart, i - 1) \in Seq(Nat)
      /\ Pieces(Message, MessageStart, i)
         = Pieces(Message, MessageStart, i - 1) \o Piece(Message, MessageStart, i)
  BY <1>1, <1>3, PiecesAre
<1>5. Piece(Message, MessageStart, i) = Span(DataAt(i), DataAt(i) + Message.sizes[i])
  BY DEF Piece, DataAt
<1>6. i = Len(Message.sizes) => MessageStart + Before(Message, i + 1) = MessageEnd
  BY DEF MessageEnd, LengthOf
<1>7. /\ DataAt(i) \in Nat /\ MessageStart + Before(Message, i) \in Nat
      /\ DataAt(i) = (MessageStart + Before(Message, i)) + SizeBytes
      /\ MessageStart + Before(Message, i + 1) = DataAt(i) + Message.sizes[i] + Crlf
      /\ MessageStart + Before(Message, i + 1) \in Nat
  <2>1. PICK s : s = MessageStart
    OBVIOUS
  <2>2. PICK z : z = Message.sizes[i]
    OBVIOUS
  <2>3. PICK b : b = Before(Message, i)
    OBVIOUS
  <2>4. PICK c : c = Before(Message, i + 1)
    OBVIOUS
  <2>5. s \in Nat /\ z \in Nat /\ b \in Nat /\ SizeBytes \in Nat /\ c = b + (z + (SizeBytes + 2))
    BY <1>1, <1>2, <2>1, <2>2, <2>3, <2>4 DEF Crlf
  <2>6. /\ (s + b) + SizeBytes \in Nat /\ s + b \in Nat /\ s + c \in Nat
        /\ s + c = ((s + b) + SizeBytes) + z + 2
    BY <2>5
  <2> QED
    BY <2>1, <2>2, <2>3, <2>4, <2>6 DEF DataAt, Crlf
<1> QED
  BY <1>1, <1>4, <1>5, <1>6, <1>7

\* A chunk is whole: the receiver goes on to the next one, or is done.
LEMMA ChunkWhole ==
    ASSUME HttpInv, hpc \in {"size", "chunk"}, UNCHANGED <<messages, current, arrived>>,
           read' \in Nat, read' <= arrived, need' \in Nat, part' = part + 1,
           used' = MessageStart + Before(Message, part + 1), used' <= read',
           body' = Pieces(Message, MessageStart, part),
           hpc' = IF Message.sizes[part] = 0 THEN "done" ELSE "size"
    PROVE  HttpInv'
<1> DEFINE N == Len(Message.sizes)
<1>1. Message' = Message /\ MessageStart' = MessageStart /\ MessageEnd' = MessageEnd
  BY SameMessage
<1>2. /\ HttpTypeOK /\ Message.chunked /\ part \in 1 .. N /\ arrived <= MessageEnd
      /\ MessageStart \in Nat /\ MessageEnd \in Nat /\ N \in Nat /\ Message \in HttpMessage
  BY MessageIs DEF HttpInv, Received
<1>3. /\ Message.sizes[part] = 0 <=> part = N
      /\ part = N => used' = MessageEnd
      /\ used' \in Nat
  <2>1. MessageStart + Before(Message, part + 1) \in Nat
    BY <1>2, ChunkIs
  <2> QED
    BY <1>2, <2>1, ChunkIs
<1>4. body' \in Seq(Nat)
  <2>1. part \in 0 .. Len(Message.sizes)
    BY <1>2
  <2> QED
    BY <1>2, <2>1, PiecesAre
<1>5. used' \in 0 .. read' /\ part' \in Nat /\ arrived \in Nat
  BY <1>2, <1>3 DEF HttpTypeOK
<1>6. Received'
  <2>1. CASE part = N
    BY <1>3, <2>1 DEF Received
  <2>2. CASE part # N
    <3>1. part' \in 1 .. N /\ part' - 1 = part
      BY <1>2, <2>2
    <3>2. hpc' = "size" /\ used' = MessageStart + Before(Message, part')
      BY <1>3, <2>2
    <3> QED
      BY <1>1, <1>2, <3>1, <3>2 DEF Received
  <2> QED
    BY <2>1, <2>2
<1>7. MessageExact'
  <2> SUFFICES ASSUME hpc' = "done"
               PROVE  body' = Pieces(Message, MessageStart, N) /\ read' = MessageEnd
    BY <1>1 DEF MessageExact, MessageEnd
  <2>1. part = N
    BY <1>3
  <2>2. read' = MessageEnd
    BY <1>2, <1>3, <1>5, <2>1
  <2> QED
    BY <2>1, <2>2
<1>8. hpc' \in {"head", "plain", "size", "chunk", "done", "closed", "torn"}
  OBVIOUS
<1> QED
  BY <1>4, <1>5, <1>6, <1>7, <1>8, StepWithin

\* A chunk is not whole yet.
LEMMA ChunkMore ==
    ASSUME HttpInv, hpc \in {"size", "chunk"}, UNCHANGED <<messages, current, arrived, part>>,
           read' \in Nat, read' <= arrived, used' = read', read' >= DataAt(part),
           need' > 0, need' = (MessageStart + Before(Message, part + 1)) - read', hpc' = "chunk",
           body' = Pieces(Message, MessageStart, part - 1) \o Span(DataAt(part), read')
    PROVE  HttpInv'
<1>1. Message' = Message /\ MessageStart' = MessageStart /\ MessageEnd' = MessageEnd
  BY SameMessage
<1>2. HttpTypeOK /\ Message.chunked /\ part \in 1 .. Len(Message.sizes)
  BY DEF HttpInv, Received
<1>3. DataAt(part)' = DataAt(part)
  BY <1>1 DEF DataAt
<1>4. body' \in Seq(Nat)
  <2>1. DataAt(part) \in Nat /\ Pieces(Message, MessageStart, part - 1) \in Seq(Nat)
    BY <1>2, ChunkIs
  <2>2. Span(DataAt(part), read') \in Seq(Nat)
    BY <2>1, SpanIs
  <2> QED
    BY <2>1, <2>2, ConcatProperties
<1>5. need' \in Nat
  <2>1. MessageStart + Before(Message, part + 1) \in Nat
    BY <1>2, ChunkIs
  <2> QED
    BY <2>1
<1>6. used' \in 0 .. read' /\ part' \in Nat
  BY <1>2
<1>7. Received'
  BY <1>1, <1>2, <1>3 DEF Received
<1>8. MessageExact'
  BY DEF MessageExact
<1>9. hpc' \in {"head", "plain", "size", "chunk", "done", "closed", "torn"}
  OBVIOUS
<1> QED
  BY <1>4, <1>5, <1>6, <1>7, <1>8, <1>9, StepWithin

LEMMA SizeLineInv ==
    ASSUME HttpInv, NEW n \in Int, ReadSizeLine(n)
    PROVE  HttpInv'
<1>1. /\ hpc = "size" /\ n >= 1 /\ n <= arrived - read /\ read' = read + n
      /\ UNCHANGED <<messages, current, arrived, used, hpc, need, part, body>>
  BY DEF ReadSizeLine, Take
<1>2. HttpTypeOK
  BY DEF HttpInv
<1>3. read' \in Nat /\ read' <= arrived /\ used' \in 0 .. read'
  BY <1>1, <1>2 DEF HttpTypeOK
<1>4. /\ need' \in Nat /\ part' \in Nat /\ body' \in Seq(Nat)
      /\ hpc' \in {"head", "plain", "size", "chunk", "done", "closed", "torn"}
  BY <1>1, <1>2 DEF HttpTypeOK
<1>5. Message' = Message /\ MessageStart' = MessageStart
  BY <1>1, SameMessage
<1>6. Received' /\ MessageExact'
  BY <1>1, <1>5 DEF HttpInv, Received, MessageExact
<1> QED
  BY <1>1, <1>3, <1>4, <1>6, StepWithin

LEMMA ParseSizeInv ==
    ASSUME HttpInv, ParseSizeLine
    PROVE  HttpInv'
<1> DEFINE size == Message.sizes[part]
           at == used + SizeBytes
           len == Buffered - SizeBytes
<1>1. /\ HttpTypeOK /\ Message.chunked /\ part \in 1 .. Len(Message.sizes) /\ hpc = "size"
      /\ used = MessageStart + Before(Message, part)
      /\ body = Pieces(Message, MessageStart, part - 1)
  BY DEF HttpInv, Received, ParseSizeLine
<1>2. UNCHANGED <<messages, current, arrived, read>>
  BY DEF ParseSizeLine
<1>3. /\ read \in Nat /\ used \in Nat /\ used <= read /\ read <= arrived /\ arrived \in Nat
      /\ need \in Nat /\ part \in Nat /\ body \in Seq(Nat) /\ SizeBytes \in Nat
  BY <1>1, HttpAssumption DEF HttpTypeOK
<1>4. /\ size \in Nat /\ at = DataAt(part)
      /\ MessageStart + Before(Message, part + 1) = at + size + Crlf
      /\ Pieces(Message, MessageStart, part) = Pieces(Message, MessageStart, part - 1) \o Span(at, at + size)
  BY <1>1, ChunkIs
<1> HIDE DEF at, size, len
<1>5. at = used + SizeBytes /\ len = (read - used) - SizeBytes /\ Buffered = read - used /\ Crlf = 2
  BY DEF at, len, Buffered, Crlf
<1>6. CASE Buffered < SizeBytes
  <2>1. hpc' = "torn" /\ UNCHANGED <<used, need, part, body>>
    BY <1>6 DEF ParseSizeLine
  <2>2. Received' /\ MessageExact'
    BY <2>1 DEF Received, MessageExact
  <2>3. read' \in Nat /\ read' <= arrived /\ used' \in 0 .. read'
    BY <1>2, <1>3, <2>1
  <2> QED
    BY <1>2, <1>3, <2>1, <2>2, <2>3, StepWithin
<1>7. CASE ~(Buffered < SizeBytes) /\ size + Crlf <= len
  <2>1. /\ body' = body \o Span(at, at + size) /\ used' = at + size + Crlf
        /\ hpc' = IF size = 0 THEN "done" ELSE "size"
        /\ part' = part + 1 /\ UNCHANGED need
    BY <1>7 DEF ParseSizeLine, at, size, len
  <2>2. read' \in Nat /\ read' <= arrived /\ need' \in Nat
    BY <1>2, <1>3, <2>1
  <2>3. used' <= read'
    BY <1>2, <1>3, <1>4, <1>7, <1>5, <2>1
  <2>4. body' = Pieces(Message, MessageStart, part) /\ used' = MessageStart + Before(Message, part + 1)
    BY <1>1, <1>4, <2>1
  <2> QED
    BY <1>1, <1>2, <2>1, <2>2, <2>3, <2>4, ChunkWhole DEF size
<1>8. CASE ~(Buffered < SizeBytes) /\ ~(size + Crlf <= len)
  <2>1. /\ body' = body \o Span(at, read) /\ used' = read
        /\ need' = size + Crlf - len /\ hpc' = "chunk" /\ UNCHANGED part
    BY <1>8 DEF ParseSizeLine, at, size, len
  <2>2. read' \in Nat /\ read' <= arrived /\ read' >= DataAt(part) /\ used' = read'
    BY <1>2, <1>3, <1>4, <1>8, <1>5, <2>1
  <2>3. need' > 0 /\ need' = (MessageStart + Before(Message, part + 1)) - read'
    <3>1. PICK next : next = MessageStart + Before(Message, part + 1)
      OBVIOUS
    <3>2. next = at + size + 2
      BY <1>4, <1>5, <3>1
    <3>3. need' > 0 /\ need' = next - read'
      BY <1>2, <1>3, <1>4, <1>8, <1>5, <2>1, <3>2
    <3> QED
      BY <3>1, <3>3, Zenon
  <2>4. body' = Pieces(Message, MessageStart, part - 1) \o Span(DataAt(part), read')
    BY <1>1, <1>2, <1>4, <2>1
  <2> QED
    BY <1>1, <1>2, <2>1, <2>2, <2>3, <2>4, ChunkMore
<1> QED
  BY <1>6, <1>7, <1>8

\* The CRLF of a chunk is in its body until the chunk is whole.
LEMMA ChunkInv ==
    ASSUME HttpInv, NEW n \in Int, ReadChunk(n)
    PROVE  HttpInv'
<1> DEFINE size == Message.sizes[part]
           at == DataAt(part)
           next == MessageStart + Before(Message, part + 1)
           before == Pieces(Message, MessageStart, part - 1)
           more == body \o Span(read, read')
<1>1. /\ HttpTypeOK /\ Message.chunked /\ part \in 1 .. Len(Message.sizes) /\ hpc = "chunk"
      /\ used = read /\ read >= at /\ need > 0 /\ need = next - read
      /\ body = before \o Span(at, read)
  <2>1. hpc = "chunk" /\ HttpTypeOK /\ Received
    BY DEF HttpInv, ReadChunk
  <2>2. Message.chunked /\ part \in 1 .. Len(Message.sizes)
    BY <2>1 DEF Received
  <2>3. /\ used = read /\ read >= DataAt(part)
        /\ need > 0 /\ need = (MessageStart + Before(Message, part + 1)) - read
        /\ body = Pieces(Message, MessageStart, part - 1) \o Span(DataAt(part), read)
    BY <2>1, Zenon DEF Received
  <2> QED
    BY <2>1, <2>2, <2>3, Zenon
<1>2. /\ read \in Nat /\ read <= arrived /\ arrived \in Nat /\ need \in Nat /\ part \in Nat
      /\ BuffSize \in Nat
  BY <1>1, HttpAssumption DEF HttpTypeOK
<1>3. /\ size \in Nat /\ at \in Nat /\ next = at + size + Crlf /\ before \in Seq(Nat)
      /\ Pieces(Message, MessageStart, part) = before \o Span(at, at + size)
  BY <1>1, ChunkIs
<1>4. /\ n >= 1 /\ n <= need /\ n <= arrived - read /\ read' = read + n /\ used' = read'
      /\ need' = need - n /\ UNCHANGED <<messages, current, arrived>>
      /\ body' = IF need = n THEN SubSeq(more, 1, Len(more) - Crlf) ELSE more
      /\ \/ need > n /\ hpc' = "chunk" /\ UNCHANGED part
         \/ need = n /\ hpc' = (IF size = 0 THEN "done" ELSE "size") /\ part' = part + 1
  <2>1. n \in 1 .. (IF need > BuffSize THEN BuffSize ELSE need)
    BY DEF ReadChunk, Take
  <2>2. n >= 1 /\ n <= need
    BY <1>2, <2>1
  <2> QED
    BY <2>2 DEF ReadChunk, Take
<1> HIDE DEF at, before, size, next, more
<1>5. /\ read' \in Nat /\ read <= read' /\ read' <= arrived /\ need' \in Nat
      /\ at <= read /\ at <= read'
  <2>1. read' = read + n /\ need' = need - n /\ n \in Nat /\ n <= need /\ n <= arrived - read
    BY <1>4
  <2>2. read \in Nat /\ need \in Nat /\ arrived \in Nat /\ at \in Nat /\ at <= read
    BY <1>1, <1>2, <1>3
  <2> QED
    BY <2>1, <2>2
<1>6. more = before \o Span(at, read')
  <2>0. at \in Nat /\ read \in Nat /\ read' \in Nat /\ at <= read /\ read <= read' /\ at <= read'
    BY <1>2, <1>3, <1>5
  <2>1. Span(at, read) \o Span(read, read') = Span(at, read')
    BY <2>0, SpansJoin
  <2>2. Span(at, read) \in Seq(Nat) /\ Span(read, read') \in Seq(Nat)
    BY <2>0, SpanIs
  <2>3. (before \o Span(at, read)) \o Span(read, read') = before \o (Span(at, read) \o Span(read, read'))
    BY <1>3, <2>2, Associate, Zenon
  <2> QED
    BY <1>1, <2>1, <2>3 DEF more
<1>7. CASE need > n
  <2>1. /\ hpc' = "chunk" /\ part' = part /\ body' = before \o Span(at, read')
        /\ need' > 0 /\ need' = next - read'
    <3>1. need # n
      BY <1>2, <1>4, <1>7
    <3>2. hpc' = "chunk" /\ part' = part /\ body' = before \o Span(at, read')
      BY <1>4, <1>6, <3>1, Zenon
    <3>3. need = next - read /\ read' = read + n /\ need' = need - n /\ next \in Int
      BY <1>1, <1>3, <1>4 DEF Crlf
    <3>4. need' > 0 /\ need' = next - read'
      BY <1>2, <1>4, <1>7, <3>3
    <3> QED
      BY <3>2, <3>4
  <2>2. /\ hpc \in {"size", "chunk"} /\ UNCHANGED <<messages, current, arrived, part>>
        /\ read' \in Nat /\ read' <= arrived /\ used' = read' /\ read' >= at
    BY <1>1, <1>3, <1>4, <1>5, <2>1
  <2> QED
    BY <2>1, <2>2, ChunkMore, Zenon DEF at, before, next
<1>8. CASE need = n
  <2>1. read' = next /\ hpc' = (IF size = 0 THEN "done" ELSE "size") /\ part' = part + 1
    BY <1>1, <1>2, <1>3, <1>4, <1>8 DEF Crlf
  <2>2. at + size \in Nat /\ at <= at + size /\ at + size <= read' /\ read' - (at + size) = Crlf
    BY <1>3, <2>1 DEF Crlf
  <2>3. Span(at, at + size) \o Span(at + size, read') = Span(at, read')
    BY <1>3, <1>5, <2>2, SpansJoin
  <2>4. /\ Span(at, at + size) \in Seq(Nat) /\ Span(at + size, read') \in Seq(Nat)
        /\ Len(Span(at + size, read')) = Crlf
    BY <1>3, <1>5, <2>2, SpanIs
  <2>5. PICK whole \in Seq(Nat) : whole = before \o Span(at, at + size)
    BY <1>3, <2>4, ConcatProperties
  <2>6. more = whole \o Span(at + size, read')
    <3>1. (before \o Span(at, at + size)) \o Span(at + size, read')
          = before \o (Span(at, at + size) \o Span(at + size, read'))
      BY <1>3, <2>4, Associate, Zenon
    <3> QED
      BY <1>6, <2>3, <2>5, <3>1
  <2>7. SubSeq(more, 1, Len(more) - Crlf) = whole
    <3>1. SubSeq(whole \o Span(at + size, read'), 1,
                 Len(whole \o Span(at + size, read')) - Len(Span(at + size, read'))) = whole
      BY <2>4, CutOff
    <3> QED
      BY <2>4, <2>6, <3>1
  <2>8. body' = Pieces(Message, MessageStart, part)
    BY <1>3, <1>4, <1>8, <2>5, <2>7
  <2>9. used' = next /\ used' <= read'
    BY <1>4, <1>5, <2>1
  <2> QED
    BY <1>1, <1>4, <1>5, <2>1, <2>8, <2>9, ChunkWhole DEF next, size
<1> QED
  BY <1>4, <1>7, <1>8

\* The next message begins where this one has ended.
LEMMA NextInv ==
    ASSUME HttpInv, ReceiveNext
    PROVE  HttpInv'
<1>1. /\ hpc = "done" /\ current < Len(messages) /\ current' = current + 1
      /\ hpc' = "head" /\ used' = read /\ need' = 0 /\ part' = 1 /\ body' = <<>>
      /\ UNCHANGED <<messages, arrived, read>>
  BY DEF ReceiveNext
<1>2. HttpTypeOK /\ read = MessageEnd /\ arrived <= MessageEnd
  BY <1>1 DEF HttpInv, MessageExact, MessageEnd
<1>3. HttpTypeOK'
  <2>1. current' \in 1 .. Len(messages)
    BY <1>1, <1>2, MessageIs DEF HttpTypeOK
  <2>2. <<>> \in Seq(Nat)
    OBVIOUS
  <2>3. read \in 0 .. read
    BY <1>2 DEF HttpTypeOK
  <2> QED
    BY <1>1, <1>2, <2>1, <2>2, <2>3 DEF HttpTypeOK
<1>4. MessageStart' = MessageEnd
  <2>1. MessageStart' = StartOf(messages, current + 1)
    BY <1>1 DEF MessageStart
  <2> QED
    BY <1>2, <2>1, MessageIs
<1>5. MessageEnd' = MessageStart' + LengthOf(Message)' /\ LengthOf(Message)' \in Nat /\ MessageStart' \in Nat
  <2>1. MessageStart' \in Nat /\ LengthOf(Message)' \in Nat
    <3>1. (HttpTypeOK => MessageStart \in Nat /\ LengthOf(Message) \in Nat)'
      BY MessageIs, PTL
    <3> QED
      BY <1>3, <3>1
  <2> QED
    BY <2>1 DEF MessageEnd
<1>6. arrived' <= MessageEnd'
  <2>1. arrived \in Nat /\ arrived <= MessageStart'
    BY <1>2, <1>4 DEF HttpTypeOK
  <2> QED
    BY <1>1, <1>5, <2>1
<1>7. read' \in MessageStart' .. MessageStart' + HeadSize - 1
  BY <1>1, <1>2, <1>4, <1>5, HttpAssumption
<1>8. Received' /\ MessageExact'
  BY <1>1, <1>7 DEF Received, MessageExact
<1> QED
  BY <1>3, <1>6, <1>8 DEF HttpInv

LEMMA HttpNextInv == ~Pipelined /\ HttpInv /\ [HttpNext]_httpVars => HttpInv'
<1> SUFFICES ASSUME ~Pipelined, HttpInv, [HttpNext]_httpVars PROVE HttpInv'
  OBVIOUS
<1>1. CASE Arrives \/ ReadFails \/ PlainBuffered \/ PlainEmpty \/ ParseSizeLine \/ ReceiveNext
  BY <1>1, ArrivesInv, FailsInv, PlainInv, ParseSizeInv, NextInv
<1>2. ASSUME NEW n \in 1 .. arrived - read, ReadHead(n) \/ ReadFixSize(n) \/ ReadSizeLine(n) \/ ReadChunk(n)
      PROVE  HttpInv'
  <2>1. n \in Int
    OBVIOUS
  <2> QED
    BY <1>2, <2>1, HeadInv, FixSizeInv, SizeLineInv, ChunkInv
<1>3. CASE UNCHANGED httpVars
  <2>1. UNCHANGED <<messages, current, arrived, read, used, hpc, need, part, body>>
    BY <1>3 DEF httpVars
  <2>2. Message' = Message /\ MessageStart' = MessageStart /\ MessageEnd' = MessageEnd
    BY <2>1, SameMessage
  <2>3. HttpTypeOK'
    BY <2>1 DEF HttpInv, HttpTypeOK
  <2>4. Received' /\ MessageExact'
    BY <2>1, <2>2 DEF HttpInv, Received, MessageExact, DataAt
  <2> QED
    BY <2>1, <2>2, <2>3, <2>4 DEF HttpInv
<1> QED
  BY <1>1, <1>2, <1>3 DEF HttpNext

\* MessageExact (http_session.cpp recvRequest, http_connection.cpp recvResponse):
\* when the peer sends no message before the last one is answered, every message
\* received has its body whole, with nothing else in it, and none of the bytes
\* after it is taken, for every size of the header, of a chunk's size line, of
\* the buffer and of the pieces, and however the reads cut the stream.
THEOREM MessagesWhole == ~Pipelined => (HttpSpec => []MessageExact)
<1> SUFFICES ASSUME ~Pipelined PROVE HttpSpec => []MessageExact
  OBVIOUS
<1>1. HttpInit => HttpInv
  BY HttpInitInv
<1>2. HttpInv /\ [HttpNext]_httpVars => HttpInv'
  BY HttpNextInv
<1>3. HttpInv => MessageExact
  BY DEF HttpInv
<1> QED
  BY <1>1, <1>2, <1>3, PTL DEF HttpSpec

-----------------------------------------------------------------------------
(* Types                                                                   *)

\* The receiver knows at which chunk it is, however much has arrived.
HttpTypes ==
    /\ HttpTypeOK
    /\ hpc \in {"size", "chunk"} => Message.chunked /\ part \in 1 .. Len(Message.sizes)

\* A step within a message.
LEMMA TypesWithin ==
    ASSUME HttpTypes, UNCHANGED <<messages, current, arrived>>,
           read' \in Nat, read' <= arrived, used' \in Nat, used' <= read', need' \in Nat, part' \in Nat,
           body' \in Seq(Nat), hpc' \in {"head", "plain", "size", "chunk", "done", "closed", "torn"},
           hpc' \in {"size", "chunk"} => Message.chunked /\ part' \in 1 .. Len(Message.sizes)
    PROVE  HttpTypes'
<1>1. Message' = Message
  BY SameMessage
<1>2. HttpTypeOK'
  BY DEF HttpTypes, HttpTypeOK
<1> QED
  BY <1>1, <1>2 DEF HttpTypes

\* The header tells how the body is framed.
LEMMA HeadTypes ==
    ASSUME HttpTypes, NEW n \in Int, ReadHead(n)
    PROVE  HttpTypes'
<1> DEFINE end == MessageStart + HeadSize
<1>1. /\ n >= 1 /\ n <= arrived - read /\ read' = read + n /\ part' = 1 /\ body' = <<>>
      /\ need' = IF Message.chunked THEN 0 ELSE Message.sizes[1]
      /\ UNCHANGED <<messages, current, arrived>>
  BY DEF ReadHead, Take
<1>2. \/ hpc' = "torn" /\ used' = read'
      \/ hpc' = "head" /\ used' = read'
      \/ read' >= end /\ used' = end /\ hpc' = IF Message.chunked THEN "size" ELSE "plain"
  BY DEF ReadHead
<1>3. /\ MessageStart \in Nat /\ Message.sizes[1] \in Nat /\ 1 \in 1 .. Len(Message.sizes)
      /\ Len(Message.sizes) \in Nat \ {0} /\ HeadSize \in Nat
  <2>1. HttpTypeOK
    BY DEF HttpTypes
  <2>2. /\ MessageStart \in Nat /\ Len(Message.sizes) \in Nat \ {0}
        /\ \A i \in 1 .. Len(Message.sizes) : Message.sizes[i] \in Nat
    BY <2>1, MessageIs
  <2>3. 1 \in 1 .. Len(Message.sizes)
    BY <2>2
  <2> QED
    BY <2>2, <2>3, HttpAssumption
<1>4. /\ read' \in Nat /\ read' <= arrived /\ need' \in Nat /\ part' \in Nat
      /\ used' \in Nat /\ used' <= read'
  BY <1>1, <1>2, <1>3 DEF HttpTypes, HttpTypeOK
<1>5. /\ hpc' \in {"head", "plain", "size", "chunk", "done", "closed", "torn"}
      /\ hpc' \in {"size", "chunk"} => Message.chunked /\ part' \in 1 .. Len(Message.sizes)
  BY <1>1, <1>2, <1>3
<1>6. body' \in Seq(Nat)
  BY <1>1
<1> QED
  BY <1>1, <1>4, <1>5, <1>6, TypesWithin

\* A body of known length.
LEMMA PlainTypes ==
    ASSUME HttpTypes, PlainBuffered \/ PlainEmpty \/ \E n \in Int : ReadFixSize(n)
    PROVE  HttpTypes'
<1>1. /\ arrived \in Nat /\ read \in Nat /\ read <= arrived /\ used \in Nat /\ used <= read
      /\ need \in Nat /\ part \in Nat /\ body \in Seq(Nat)
  BY DEF HttpTypes, HttpTypeOK
<1>2. CASE PlainBuffered
  <2>1. PICK n : /\ n = (IF need >= Buffered THEN Buffered ELSE need)
                 /\ need' = need - n /\ body' = Span(used, used + n)
                 /\ hpc' \in {"plain", "done"} /\ used' = read
                 /\ UNCHANGED <<messages, current, arrived, read, part>>
    BY <1>2 DEF PlainBuffered
  <2>2. n \in Nat /\ need - n \in Nat /\ used + n \in Nat /\ used <= used + n
    BY <1>1, <2>1 DEF Buffered
  <2>3. body' \in Seq(Nat)
    BY <1>1, <2>1, <2>2, SpanIs
  <2> QED
    BY <1>1, <2>1, <2>2, <2>3, TypesWithin
<1>3. CASE PlainEmpty
  BY <1>1, <1>3, TypesWithin DEF PlainEmpty, Complete
<1>4. ASSUME NEW n \in Int, ReadFixSize(n) PROVE HttpTypes'
  <2>1. /\ n >= 1 /\ n <= need /\ n <= arrived - read /\ read' = read + n /\ used' = read' /\ need' = need - n
        /\ body' = body \o Span(read, read') /\ hpc' \in {"plain", "done"}
        /\ UNCHANGED <<messages, current, arrived, part>>
    BY <1>1, <1>4 DEF ReadFixSize, Take
  <2>2. read' \in Nat /\ read <= read' /\ read' <= arrived /\ need' \in Nat
    BY <1>1, <2>1
  <2>3. Span(read, read') \in Seq(Nat)
    BY <1>1, <2>2, SpanIs
  <2>4. body' \in Seq(Nat)
    BY <1>1, <2>1, <2>3, ConcatProperties
  <2> QED
    BY <1>1, <2>1, <2>2, <2>4, TypesWithin
<1> QED
  BY <1>2, <1>3, <1>4

\* The chunk the receiver is at has a size, and another one follows if it is not empty.
LEMMA ChunkTypes ==
    ASSUME HttpTypes, hpc \in {"size", "chunk"}
    PROVE  /\ Message.chunked /\ part \in Nat /\ part \in 1 .. Len(Message.sizes)
           /\ Message.sizes[part] \in Nat
           /\ Message.sizes[part] # 0 => part + 1 \in 1 .. Len(Message.sizes)
<1>1. Message.chunked /\ part \in 1 .. Len(Message.sizes) /\ HttpTypeOK
  BY DEF HttpTypes
<1>2. /\ Framed(Message) /\ Len(Message.sizes) \in Nat
      /\ \A i \in 1 .. Len(Message.sizes) : Message.sizes[i] \in Nat
  BY <1>1, MessageIs
<1>3. Message.sizes[part] # 0 => part # Len(Message.sizes)
  BY <1>1, <1>2 DEF Framed
<1> QED
  BY <1>1, <1>2, <1>3

\* A chunk's size line and what the buffer has of the chunk.
LEMMA SizeTypes ==
    ASSUME HttpTypes, ParseSizeLine
    PROVE  HttpTypes'
<1>1. /\ arrived \in Nat /\ read \in Nat /\ read <= arrived /\ used \in Nat /\ used <= read
      /\ need \in Nat /\ part \in Nat /\ body \in Seq(Nat) /\ SizeBytes \in Nat
  BY HttpAssumption DEF HttpTypes, HttpTypeOK
<1>2. PICK size \in Nat :
          /\ size = Message.sizes[part] /\ part \in 1 .. Len(Message.sizes) /\ Message.chunked
          /\ size # 0 => part + 1 \in 1 .. Len(Message.sizes)
  BY ChunkTypes DEF ParseSizeLine
<1>3. UNCHANGED <<messages, current, arrived, read>>
  BY DEF ParseSizeLine
<1>4. CASE Buffered < SizeBytes
  <2>1. hpc' = "torn" /\ UNCHANGED <<used, need, part, body>>
    BY <1>4 DEF ParseSizeLine
  <2> QED
    BY <1>1, <1>3, <2>1, TypesWithin
<1>5. CASE ~(Buffered < SizeBytes)
  <2>1. PICK at \in Nat, len \in Nat : at = used + SizeBytes /\ len = Buffered - SizeBytes /\ read = at + len
    BY <1>1, <1>5 DEF Buffered
  <2>2. CASE size + Crlf <= len
    <3>1. /\ body' = body \o Span(at, at + size) /\ used' = at + size + Crlf
          /\ hpc' = (IF size = 0 THEN "done" ELSE "size") /\ part' = part + 1 /\ UNCHANGED need
      BY <1>2, <1>5, <2>1, <2>2, Zenon DEF ParseSizeLine
    <3>2. at + size \in Nat /\ at <= at + size /\ used' \in Nat /\ used' <= read /\ part + 1 \in Nat
      BY <1>1, <2>1, <2>2, <3>1 DEF Crlf
    <3>3. Span(at, at + size) \in Seq(Nat)
      BY <2>1, <3>2, SpanIs
    <3>4. body' \in Seq(Nat)
      BY <1>1, <3>1, <3>3, ConcatProperties
    <3> QED
      BY <1>1, <1>2, <1>3, <3>1, <3>2, <3>4, TypesWithin
  <2>3. CASE ~(size + Crlf <= len)
    <3>1. /\ body' = body \o Span(at, read) /\ used' = read /\ need' = size + Crlf - len
          /\ hpc' = "chunk" /\ UNCHANGED part
      BY <1>2, <1>5, <2>1, <2>3, Zenon DEF ParseSizeLine
    <3>2. at <= read /\ need' \in Nat
      <4>1. at <= read
        BY <2>1
      <4>2. len < size + 2 /\ need' = size + 2 - len
        BY <2>3, <3>1 DEF Crlf
      <4>3. need' \in Nat
        BY <4>2
      <4> QED
        BY <4>1, <4>3
    <3>3. Span(at, read) \in Seq(Nat)
      BY <1>1, <2>1, <3>2, SpanIs
    <3>4. body' \in Seq(Nat)
      BY <1>1, <3>1, <3>3, ConcatProperties
    <3> QED
      BY <1>1, <1>2, <1>3, <3>1, <3>2, <3>4, TypesWithin
  <2> QED
    BY <2>2, <2>3
<1> QED
  BY <1>4, <1>5

\* The rest of a chunk.
LEMMA RestTypes ==
    ASSUME HttpTypes, NEW n \in Int, ReadChunk(n)
    PROVE  HttpTypes'
<1>1. /\ arrived \in Nat /\ read \in Nat /\ read <= arrived /\ need \in Nat /\ part \in Nat /\ body \in Seq(Nat)
  BY DEF HttpTypes, HttpTypeOK
<1>2. /\ n >= 1 /\ n <= need /\ n <= arrived - read /\ read' = read + n /\ used' = read' /\ need' = need - n
      /\ UNCHANGED <<messages, current, arrived>>
  BY <1>1, HttpAssumption DEF ReadChunk, Take
<1>3. read' \in Nat /\ read <= read' /\ read' <= arrived /\ need' \in Nat
  BY <1>1, <1>2
<1>4. body' \in Seq(Nat)
  <2>1. Span(read, read') \in Seq(Nat)
    BY <1>1, <1>3, SpanIs
  <2>2. PICK more \in Seq(Nat) : more = body \o Span(read, read')
    BY <1>1, <2>1, ConcatProperties
  <2>3. body' = more \/ body' = SubSeq(more, 1, Len(more) - Crlf)
    BY <2>2 DEF ReadChunk
  <2>4. SubSeq(more, 1, Len(more) - Crlf) \in Seq(Nat)
    BY DEF Crlf
  <2> QED
    BY <2>3, <2>4
<1>5. /\ Message.chunked /\ part \in 1 .. Len(Message.sizes)
      /\ Message.sizes[part] # 0 => part + 1 \in 1 .. Len(Message.sizes)
  BY ChunkTypes DEF ReadChunk
<1>6. /\ hpc' \in {"size", "chunk", "done"} /\ part' \in Nat
      /\ hpc' \in {"size", "chunk"} => part' \in 1 .. Len(Message.sizes)
  BY <1>1, <1>5 DEF ReadChunk
<1> QED
  BY <1>1, <1>2, <1>3, <1>4, <1>5, <1>6, TypesWithin

\* The receiver's types, also when messages arrive before their turn.
THEOREM HttpTypeCorrect == HttpSpec => []HttpTypeOK
<1>1. HttpInit => HttpTypes
  BY HttpInitInv DEF HttpInv, HttpTypes, HttpInit
<1>2. HttpTypes /\ [HttpNext]_httpVars => HttpTypes'
  <2> SUFFICES ASSUME HttpTypes, [HttpNext]_httpVars PROVE HttpTypes'
    OBVIOUS
  <2>0. /\ arrived \in Nat /\ read \in Nat /\ read <= arrived /\ used \in Nat /\ used <= read
        /\ need \in Nat /\ part \in Nat /\ body \in Seq(Nat)
        /\ hpc \in {"head", "plain", "size", "chunk", "done", "closed", "torn"}
        /\ hpc \in {"size", "chunk"} => Message.chunked /\ part \in 1 .. Len(Message.sizes)
    BY DEF HttpTypes, HttpTypeOK
  <2>1. CASE Arrives
    <3>1. arrived' = arrived + 1 /\ UNCHANGED <<messages, current, read, used, hpc, need, part, body>>
      BY <2>1 DEF Arrives
    <3>2. Message' = Message
      BY <3>1, SameMessage
    <3>3. HttpTypeOK'
      BY <3>1 DEF HttpTypes, HttpTypeOK
    <3> QED
      BY <2>0, <3>1, <3>2, <3>3 DEF HttpTypes
  <2>2. CASE ReadFails
    BY <2>0, <2>2, TypesWithin DEF ReadFails
  <2>3. CASE PlainBuffered \/ PlainEmpty \/ \E n \in Int : ReadFixSize(n)
    BY <2>3, PlainTypes
  <2>4. CASE ParseSizeLine
    BY <2>4, SizeTypes
  <2>5. CASE ReceiveNext
    <3>1. /\ current' = current + 1 /\ current < Len(messages) /\ hpc' = "head" /\ used' = read /\ need' = 0
          /\ part' = 1 /\ body' = <<>> /\ UNCHANGED <<messages, arrived, read>>
      BY <2>5 DEF ReceiveNext
    <3>2. current' \in 1 .. Len(messages)
      <4>1. current \in 1 .. Len(messages) /\ Len(messages) \in Nat
        BY MessageIs DEF HttpTypes, HttpTypeOK
      <4> QED
        BY <3>1, <4>1
    <3>3. HttpTypeOK'
      BY <2>0, <3>1, <3>2 DEF HttpTypes, HttpTypeOK
    <3> QED
      BY <3>1, <3>3 DEF HttpTypes
  <2>6. ASSUME NEW n \in Int, ReadHead(n) PROVE HttpTypes'
    BY <2>6, HeadTypes
  <2>7. ASSUME NEW n \in Int, ReadSizeLine(n) PROVE HttpTypes'
    <3>1. n >= 1 /\ n <= arrived - read /\ read' = read + n /\ UNCHANGED <<messages, current, arrived, used, hpc, need, part, body>>
      BY <2>7 DEF ReadSizeLine, Take
    <3>2. read' \in Nat /\ read' <= arrived /\ used' <= read'
      BY <2>0, <3>1
    <3> QED
      BY <2>0, <3>1, <3>2, TypesWithin
  <2>8. ASSUME NEW n \in Int, ReadChunk(n) PROVE HttpTypes'
    BY <2>8, RestTypes
  <2>9. CASE UNCHANGED httpVars
    <3>1. UNCHANGED <<messages, current, arrived, read, used, hpc, need, part, body>>
      BY <2>9 DEF httpVars
    <3> QED
      BY <2>0, <3>1, TypesWithin
  <2>10. 1 .. arrived - read \subseteq Int
    OBVIOUS
  <2> QED
    BY <2>1, <2>2, <2>3, <2>4, <2>5, <2>6, <2>7, <2>8, <2>9, <2>10 DEF HttpNext
<1>3. HttpTypes => HttpTypeOK
  BY DEF HttpTypes
<1> QED
  BY <1>1, <1>2, <1>3, PTL DEF HttpSpec
=============================================================================
