--------------------------- MODULE IOManagerProofs ---------------------------
(***************************************************************************)
(* Proofs about IOManager, for any number of threads, jobs, descriptors    *)
(* and contexts: the types, that m_pendingEventCount is exact, and, as     *)
(* long as no context of a descriptor is built twice, that epoll agrees    *)
(* with the registered events and that no event is lost on its way from    *)
(* epoll to the thread that triggers it.                                   *)
(***************************************************************************)
EXTENDS IOManager, FiniteSetTheorems, TLAPS

-----------------------------------------------------------------------------
(* The invariant that goes with the types, one part per group of variables *)

Todos == {<<>>, <<"READ">>, <<"WRITE">>, <<"READ", "WRITE">>}
Adds == {"addFiber", "addCb"}
InCall == {"resize", "context"} \cup LockPc

\* A descriptor within the size of the table has a context.
TableOK ==
    /\ size \in Nat /\ table \in [Fds -> 0 .. MaxGen] /\ built \in [Fds -> 0 .. MaxGen]
    /\ size > 1 /\ \A f \in Fds : (f < size) => (table[f] # 0)

\* A registered event has somebody who waits for it.
EventOK ==
    /\ events \in [Contexts -> SUBSET Events]
    /\ waiter \in [Contexts -> [Events -> Jobs \cup {Nobody}]]
    /\ pending \in Int
    /\ \A c \in Contexts : \A e \in events[c] : waiter[c][e] \in Jobs

\* epoll has a context for what it watches or might be told to watch.
EpollOK ==
    /\ armed \in [Fds -> SUBSET Events] /\ ptr \in [Fds -> 0 .. MaxGen]
    /\ ready \in [Fds -> SUBSET (Events \cup {"ERR"})] /\ edges \subseteq Fds
    /\ \A f \in Fds : (armed[f] # {}) => (ptr[f] # 0)
    /\ \A c \in Contexts : (events[c] # {}) => (ptr[c[1]] # 0)

SchedOK ==
    /\ queue \subseteq Jobs /\ active \in Int /\ stop \in BOOLEAN
    /\ idleTerm \in [Threads -> BOOLEAN]
    /\ phase \in [Jobs -> {"new", "run", "hold", "done"}]

\* What an actor works on: its call, its context, its task, what to trigger.
Working(a) ==
    /\ (pc[a] \in {"context"} \cup LockPc) => (cx[a] \in Contexts)
    /\ (pc[a] \in InCall /\ op[a].kind # "epoll" /\ pc[a] # "resize") => (op[a].fd = cx[a][1])
    /\ (pc[a] \in {"resize", "context"}) => (op[a].kind # "epoll")
    /\ (pc[a] = "resize") => (op[a].kind \in Adds /\ op[a].fd \in Fds /\ op[a].fd > 1)
    /\ (pc[a] \in {"resize", "context"} /\ op[a].kind \in Adds) => (op[a].job \in Jobs)
    /\ (pc[a] = "trigger") => (todo[a] # <<>>)
    /\ (pc[a] \notin InCall \cup {"dead"}) => (op[a].kind = "epoll")
    /\ (a \in Threads) => (pc[a] # "free")
    /\ (a \in Threads /\ (pc[a] \in {"task", "yield"} \/ (pc[a] \in InCall /\ op[a].kind # "epoll")))
            => (cur[a] \in Jobs)

ActorOK ==
    /\ pc \in [Actors -> Pc]
    /\ cur \in [Actors -> Jobs \cup {Nobody}]
    /\ op \in [Actors -> [kind : Kinds, fd : Nat, event : Events, job : Jobs \cup {Nobody}]]
    /\ cx \in [Actors -> Contexts \cup {<<0, 0>>}]
    /\ todo \in [Actors -> Todos]
    /\ got \in [Actors -> SUBSET [cx : Contexts, ev : SUBSET (Events \cup {"ERR"})]]
    /\ \A a \in Actors : Working(a)

RestOK == ops \in Nat /\ failed \in BOOLEAN

TypeInv == TableOK /\ EventOK /\ EpollOK /\ SchedOK /\ ActorOK /\ RestOK

LEMMA TypeInvImplies == TypeInv => TypeOK
BY DEF TypeInv, TypeOK, TableOK, EventOK, EpollOK, SchedOK, ActorOK, RestOK, Todos

\* The descriptors of jobs, and the contexts of descriptors.
LEMMA JobFd ==
    ASSUME NEW j \in Jobs
    PROVE  On[j][1] \in Fds /\ On[j][1] \in Nat /\ On[j][2] \in Events
BY IOManagerAssumption DEF Fds

LEMMA FdNat == Fds \subseteq Nat
BY IOManagerAssumption DEF Fds

LEMMA ContextParts ==
    ASSUME NEW c \in Contexts
    PROVE  c[1] \in Fds /\ c[2] \in 1 .. MaxGen /\ c = <<c[1], c[2]>>
BY DEF Contexts

\* What InOrder() makes of a set of events, and taking it apart again.
LEMMA OrderedEvents ==
    ASSUME NEW S \in SUBSET Events
    PROVE  InOrder(S) \in Todos /\ ((S # {}) => (InOrder(S) # <<>>))
<1>1. CASE S = {}
  BY <1>1 DEF InOrder, Todos, Events
<1>2. CASE S = {"READ"}
  BY <1>2 DEF InOrder, Todos, Events
<1>3. CASE S = {"WRITE"}
  BY <1>3 DEF InOrder, Todos, Events
<1>4. CASE S = {"READ", "WRITE"}
  BY <1>4 DEF InOrder, Todos, Events
<1> QED
  BY <1>1, <1>2, <1>3, <1>4 DEF Events

LEMMA OrderedRange ==
    ASSUME NEW S \in SUBSET Events, NEW e
    PROVE  (\E i \in DOMAIN InOrder(S) : InOrder(S)[i] = e) <=> (e \in S)
<1>1. CASE S = {}
  BY <1>1 DEF InOrder, Events
<1>2. CASE S = {"READ"}
  <2>1. InOrder(S) = <<"READ">>
    BY <1>2 DEF InOrder, Events
  <2> QED
    BY <1>2, <2>1
<1>3. CASE S = {"WRITE"}
  <2>1. InOrder(S) = <<"WRITE">>
    BY <1>3 DEF InOrder, Events
  <2> QED
    BY <1>3, <2>1
<1>4. CASE S = {"READ", "WRITE"}
  BY <1>4 DEF InOrder, Events
<1> QED
  BY <1>1, <1>2, <1>3, <1>4 DEF Events

LEMMA TakeTodo ==
    ASSUME NEW s \in Todos, s # <<>>
    PROVE  /\ Head(s) \in Events /\ Tail(s) \in Todos
           /\ \A e : (\E i \in DOMAIN s : s[i] = e)
                         <=> (e = Head(s) \/ \E i \in DOMAIN Tail(s) : Tail(s)[i] = e)
<1>1. CASE s = <<"READ">>
  <2>1. Head(s) = "READ" /\ s[1] = "READ" /\ DOMAIN s = 1 .. 1
    BY <1>1
  <2>2. Tail(s) = <<>>
    BY <1>1
  <2> QED
    BY <2>1, <2>2 DEF Todos, Events
<1>2. CASE s = <<"WRITE">>
  <2>1. Head(s) = "WRITE" /\ s[1] = "WRITE" /\ DOMAIN s = 1 .. 1
    BY <1>2
  <2>2. Tail(s) = <<>>
    BY <1>2
  <2> QED
    BY <2>1, <2>2 DEF Todos, Events
<1>3. CASE s = <<"READ", "WRITE">>
  <2>1. /\ Tail(s) = <<"WRITE">> /\ DOMAIN s = 1 .. 2 /\ Head(s) = "READ"
        /\ s[1] = "READ" /\ s[2] = "WRITE"
    BY <1>3
  <2>2. DOMAIN Tail(s) = 1 .. 1 /\ Tail(s)[1] = "WRITE"
    BY <2>1
  <2> QED
    BY <2>1, <2>2 DEF Todos, Events
<1> QED
  BY <1>1, <1>2, <1>3 DEF Todos

-----------------------------------------------------------------------------
(* The calls keep the types                                                *)

\* A call comes with a job's descriptor, which is nothing but in a context.
LEMMA CallType ==
    ASSUME TypeInv, NEW a \in Actors, NEW j \in Jobs, NEW k \in Kinds \ {"epoll"},
           NEW w \in Jobs \cup {Nobody}, (k \in Adds) => (w \in Jobs),
           Call(a, k, On[j][1], On[j][2], w)
    PROVE  TableOK' /\ EventOK' /\ EpollOK' /\ ActorOK' /\ RestOK'
<1>1. TableOK' /\ EventOK' /\ EpollOK' /\ RestOK'
  BY IOManagerAssumption DEF TypeInv, Call, TableOK, EventOK, EpollOK, RestOK, tableVars, eventVars, epollVars
<1>2. On[j][1] \in Fds /\ On[j][1] \in Nat /\ On[j][2] \in Events
  BY JobFd
<1>3. (On[j][1] >= size) => (On[j][1] > 1)
  BY <1>2 DEF TypeInv, TableOK
<1>4. (On[j][1] < size) => (<<On[j][1], table[On[j][1]]>> \in Contexts)
  BY <1>2 DEF TypeInv, TableOK, Contexts
<1>5. /\ pc' \in [Actors -> Pc] /\ cur' \in [Actors -> Jobs \cup {Nobody}]
      /\ op' \in [Actors -> [kind : Kinds, fd : Nat, event : Events, job : Jobs \cup {Nobody}]]
      /\ cx' \in [Actors -> Contexts \cup {<<0, 0>>}]
      /\ todo' \in [Actors -> Todos]
      /\ got' \in [Actors -> SUBSET [cx : Contexts, ev : SUBSET (Events \cup {"ERR"})]]
  <2>1. /\ UNCHANGED <<cur, todo, got>> /\ pc' \in {[pc EXCEPT ![a] = "context"], [pc EXCEPT ![a] = "resize"]}
        /\ op' = [op EXCEPT ![a] = [kind |-> k, fd |-> On[j][1], event |-> On[j][2], job |-> w]]
        /\ cx' = cx \/ (On[j][1] < size /\ cx' = [cx EXCEPT ![a] = <<On[j][1], table[On[j][1]]>>])
    BY DEF Call, Goto
  <2>2. pc' \in [Actors -> Pc]
    BY <2>1 DEF TypeInv, ActorOK, Pc
  <2>3. op' \in [Actors -> [kind : Kinds, fd : Nat, event : Events, job : Jobs \cup {Nobody}]]
    BY <1>2, <2>1 DEF TypeInv, ActorOK
  <2>4. cx' \in [Actors -> Contexts \cup {<<0, 0>>}]
    BY <1>4, <2>1 DEF TypeInv, ActorOK
  <2> QED
    BY <2>1, <2>2, <2>3, <2>4 DEF TypeInv, ActorOK
<1>6. ASSUME NEW b \in Actors PROVE Working(b)'
  <2>1. CASE b # a
    BY <1>6, <2>1 DEF TypeInv, ActorOK, Working, Call, Goto
  <2>2. ASSUME b = a, pc'[a] = "context", cx'[a] = <<On[j][1], table[On[j][1]]>>, On[j][1] < size
        PROVE  Working(b)'
    <3>1. op'[a].kind = k /\ op'[a].fd = On[j][1] /\ op'[a].job = w /\ cur'[a] = cur[a]
      BY DEF TypeInv, ActorOK, Call
    <3>2. (a \in Threads) => (cur[a] \in Jobs)
      BY DEF TypeInv, ActorOK, Working, Call, UserPc
    <3> QED
      BY <1>2, <1>4, <2>2, <3>1, <3>2 DEF Working, InCall, LockPc, Adds
  <2>3. ASSUME b = a, pc'[a] = "resize", On[j][1] >= size, k \in Adds
        PROVE  Working(b)'
    <3>1. op'[a].kind = k /\ op'[a].fd = On[j][1] /\ op'[a].job = w /\ cur'[a] = cur[a]
      BY DEF TypeInv, ActorOK, Call
    <3>2. (a \in Threads) => (cur[a] \in Jobs)
      BY DEF TypeInv, ActorOK, Working, Call, UserPc
    <3> QED
      BY <1>2, <1>3, <2>3, <3>1, <3>2 DEF Working, InCall, LockPc, Adds
  <2> QED
    BY <2>1, <2>2, <2>3 DEF TypeInv, ActorOK, Call, Goto, Adds
<1> QED
  BY <1>1, <1>5, <1>6 DEF ActorOK

LEMMA CallAddFiberType == ASSUME TypeInv, NEW t \in Threads, CallAddFiber(t) PROVE TypeInv'
<1>1. cur[t] \in Jobs /\ t \in Actors
  BY DEF TypeInv, ActorOK, Working, CallAddFiber, Actors
<1>2. TableOK' /\ EventOK' /\ EpollOK' /\ ActorOK' /\ RestOK'
  BY <1>1, CallType DEF CallAddFiber, Kinds
<1>3. SchedOK'
  BY DEF TypeInv, SchedOK, CallAddFiber, Call
<1> QED
  BY <1>2, <1>3 DEF TypeInv

LEMMA UserType == ASSUME TypeInv, NEW a \in Actors, UserStep(a) PROVE TypeInv'
<1>1. ASSUME NEW j \in Jobs, CallAddCb(a, j) PROVE TypeInv'
  <2>1. TableOK' /\ EventOK' /\ EpollOK' /\ ActorOK' /\ RestOK'
    BY <1>1, CallType DEF CallAddCb, Kinds
  <2>2. SchedOK'
    BY <1>1 DEF TypeInv, SchedOK, CallAddCb, Call
  <2> QED
    BY <2>1, <2>2 DEF TypeInv
<1>2. ASSUME NEW j \in Jobs, NEW k \in {"delEvent", "cancelEvent", "cancelAll"}, CallOther(a, k, j)
      PROVE  TypeInv'
  <2>1. TableOK' /\ EventOK' /\ EpollOK' /\ ActorOK' /\ RestOK'
    BY <1>2, CallType DEF CallOther, Kinds, Adds
  <2>2. SchedOK'
    BY <1>2 DEF TypeInv, SchedOK, CallOther, Call
  <2> QED
    BY <2>1, <2>2 DEF TypeInv
<1> QED
  BY <1>1, <1>2 DEF UserStep

\* The table that is made has a place for the descriptor.
LEMMA ResizeType == ASSUME TypeInv, NEW a \in Actors, ContextResize(a) PROVE TypeInv'
<1> DEFINE fd == op[a].fd
           n == (fd * 3) \div 2
<1>1. fd \in Fds /\ fd \in Nat /\ fd > 1
  BY FdNat DEF TypeInv, ActorOK, Working, ContextResize
<1>2. n \in Nat /\ fd < n
  BY <1>1
<1>3. TableOK'
  <2>1. size' = n
    BY DEF ContextResize
  <2>2. ASSUME NEW f \in Fds
        PROVE  /\ built'[f] \in 0 .. MaxGen /\ table'[f] \in 0 .. MaxGen
               /\ (f < n) => (table'[f] # 0)
    <3>1. f \in Nat /\ table[f] \in 0 .. MaxGen /\ built[f] \in 0 .. MaxGen
      BY <2>2, FdNat DEF TypeInv, TableOK
    <3>2. CASE f < n /\ table[f] = 0
      <4>1. built[f] < MaxGen /\ built'[f] = built[f] + 1 /\ table'[f] = built[f] + 1
        BY <1>2, <3>1, <3>2 DEF ContextResize
      <4> QED
        BY <3>1, <4>1, IOManagerAssumption
    <3>3. CASE ~(f < n /\ table[f] = 0)
      <4>1. built'[f] = built[f] /\ table'[f] = IF f >= n THEN 0 ELSE table[f]
        BY <3>3 DEF ContextResize
      <4> QED
        BY <1>2, <3>1, <3>3, <4>1, IOManagerAssumption
    <3> QED
      BY <3>2, <3>3
  <2>3. built' = [f \in Fds |-> built'[f]] /\ table' = [f \in Fds |-> table'[f]]
    BY DEF ContextResize
  <2>4. built' \in [Fds -> 0 .. MaxGen] /\ table' \in [Fds -> 0 .. MaxGen]
    BY <2>2, <2>3
  <2> QED
    BY <1>1, <1>2, <2>1, <2>2, <2>4 DEF TableOK
<1>4. <<fd, table'[fd]>> \in Contexts
  BY <1>1, <1>2, <1>3 DEF TableOK, Contexts, ContextResize
<1>5. /\ pc' = [pc EXCEPT ![a] = "context"] /\ cx' = [cx EXCEPT ![a] = <<fd, table'[fd]>>]
      /\ pc[a] = "resize" /\ UNCHANGED <<cur, op, todo, got>>
  BY DEF ContextResize, Goto
<1>6. ActorOK'
  <2>1. /\ pc' \in [Actors -> Pc] /\ cx' \in [Actors -> Contexts \cup {<<0, 0>>}]
    BY <1>4, <1>5 DEF TypeInv, ActorOK, Pc
  <2>2. ASSUME NEW b \in Actors, b # a PROVE Working(b)'
    BY <1>5, <2>2 DEF TypeInv, ActorOK, Working
  <2>3. pc'[a] = "context" /\ cx'[a] = <<fd, table'[fd]>> /\ op'[a] = op[a] /\ cur'[a] = cur[a]
    BY <1>5 DEF TypeInv, ActorOK
  <2>4. Working(a)
    BY DEF TypeInv, ActorOK
  <2>5. Working(a)'
    BY <1>4, <1>5, <2>3, <2>4 DEF Working, InCall
  <2> QED
    BY <1>5, <2>1, <2>2, <2>5 DEF TypeInv, ActorOK
<1> QED
  BY <1>3, <1>6 DEF TypeInv, ContextResize, EventOK, EpollOK, SchedOK, RestOK, eventVars, epollVars, schedVars

\* Where a call or an event ends.
LEMMA ReturnType ==
    ASSUME TypeInv, NEW a \in Actors, pc[a] \in {"context", "count"},
           NEW l, l = Home(a) \/ (l = "yield" /\ pc[a] = "context"),
           Return(a, l), UNCHANGED <<cur, todo, got>>
    PROVE  ActorOK'
<1>1. /\ pc' = [pc EXCEPT ![a] = l] /\ op' = [op EXCEPT ![a] = NoOp] /\ cx' = [cx EXCEPT ![a] = <<0, 0>>]
  BY DEF Return, Goto
<1>2. l \in {"handle", "task", "free", "yield"} /\ (a \in Threads => l # "free")
  BY DEF Home
<1>3. (l \in {"task", "yield"} /\ a \in Threads) => (cur[a] \in Jobs)
  BY DEF TypeInv, ActorOK, Working, Home, InCall, LockPc
<1>4. NoOp \in [kind : Kinds, fd : Nat, event : Events, job : Jobs \cup {Nobody}]
  BY DEF NoOp, Kinds, Events
<1>5. /\ pc' \in [Actors -> Pc] /\ cx' \in [Actors -> Contexts \cup {<<0, 0>>}]
      /\ op' \in [Actors -> [kind : Kinds, fd : Nat, event : Events, job : Jobs \cup {Nobody}]]
  BY <1>1, <1>2, <1>4 DEF TypeInv, ActorOK, Pc, UserPc
<1>6. ASSUME NEW b \in Actors, b # a PROVE Working(b)'
  BY <1>1, <1>6 DEF TypeInv, ActorOK, Working
<1>7. Working(a)'
  <2>1. pc'[a] = l /\ op'[a] = NoOp /\ cur'[a] = cur[a]
    BY <1>1 DEF TypeInv, ActorOK
  <2>2. NoOp.kind = "epoll"
    BY DEF NoOp
  <2> QED
    BY <1>2, <1>3, <2>1, <2>2 DEF Working, InCall, LockPc
<1> QED
  BY <1>5, <1>6, <1>7 DEF TypeInv, ActorOK

LEMMA AddEventType == ASSUME TypeInv, NEW a \in Actors, AddEvent(a) PROVE TypeInv'
<1> DEFINE fd == op[a].fd
           e == op[a].event
           c == cx[a]
<1>1. /\ c \in Contexts /\ fd = c[1] /\ e \in Events /\ op[a].job \in Jobs /\ pc[a] = "context"
  BY DEF TypeInv, ActorOK, Working, AddEvent, Locks, Adds, InCall
<1>2. c[1] \in Fds /\ c[2] \in 1 .. MaxGen
  BY <1>1, ContextParts
<1>3. ActorOK'
  BY <1>1, ReturnType DEF AddEvent
<1>4. EventOK'
  <2>1. /\ events' = [events EXCEPT ![c] = @ \cup {e}] /\ pending' = pending + 1
        /\ waiter' = [waiter EXCEPT ![c][e] = op[a].job]
    BY DEF AddEvent
  <2> QED
    BY <1>1, <2>1 DEF TypeInv, EventOK
<1>5. EpollOK'
  <2>1. /\ armed' = [armed EXCEPT ![fd] = events[c] \cup {e}] /\ ptr' = [ptr EXCEPT ![fd] = c[2]]
        /\ events' = [events EXCEPT ![c] = @ \cup {e}] /\ ready' = ready
        /\ edges' \subseteq edges \cup {fd}
    BY DEF AddEvent, Control
  <2>2. /\ armed' \in [Fds -> SUBSET Events] /\ ptr' \in [Fds -> 0 .. MaxGen] /\ edges' \subseteq Fds
    BY <1>1, <1>2, <2>1 DEF TypeInv, EventOK, EpollOK
  <2>3. \A f \in Fds : (armed'[f] # {}) => (ptr'[f] # 0)
    BY <1>1, <1>2, <2>1 DEF TypeInv, EpollOK
  <2>4. ASSUME NEW d \in Contexts, events'[d] # {} PROVE ptr'[d[1]] # 0
    BY <1>1, <1>2, <2>1, <2>4, ContextParts DEF TypeInv, EpollOK, EventOK
  <2> QED
    BY <2>1, <2>2, <2>3, <2>4 DEF TypeInv, EpollOK
<1> QED
  BY <1>3, <1>4, <1>5 DEF TypeInv, AddEvent, TableOK, SchedOK, RestOK, tableVars, schedVars

LEMMA AddEventFailsType == ASSUME TypeInv, NEW a \in Actors, AddEventFails(a) PROVE TypeInv'
<1>1. pc[a] = "context"
  BY DEF AddEventFails, Locks
<1>2. ActorOK'
  BY <1>1, ReturnType DEF AddEventFails
<1> QED
  BY <1>2 DEF TypeInv, AddEventFails, TableOK, EventOK, EpollOK, SchedOK, RestOK, tableVars, eventVars, epollVars

LEMMA NotRegisteredType == ASSUME TypeInv, NEW a \in Actors, NotRegistered(a) PROVE TypeInv'
<1>1. pc[a] = "context"
  BY DEF NotRegistered, Locks
<1>2. ActorOK'
  BY <1>1, ReturnType DEF NotRegistered
<1> QED
  BY <1>2 DEF TypeInv, NotRegistered, TableOK, EventOK, EpollOK, SchedOK, RestOK, tableVars, eventVars, epollVars, schedVars

\* epoll_ctl by somebody who has the context of a registered event.
LEMMA ControlType ==
    ASSUME TypeInv, NEW c \in Contexts, events[c] # {}, NEW S \in SUBSET Events,
           Control(c[1], S), UNCHANGED <<ptr, ready>>, \A d \in Contexts : events'[d] \subseteq events[d]
    PROVE  EpollOK'
<1>1. c[1] \in Fds /\ ptr[c[1]] # 0
  BY ContextParts DEF TypeInv, EpollOK
<1>2. armed' = [armed EXCEPT ![c[1]] = S] /\ edges' \subseteq edges \cup {c[1]}
  BY DEF Control
<1> QED
  BY <1>1, <1>2 DEF TypeInv, EpollOK

LEMMA DelEventType == ASSUME TypeInv, NEW a \in Actors, DelEvent(a) PROVE TypeInv'
<1> DEFINE e == op[a].event
           c == cx[a]
<1>1. /\ c \in Contexts /\ op[a].fd = c[1] /\ e \in events[c] /\ pc[a] = "context"
  BY DEF TypeInv, ActorOK, Working, DelEvent, Locks, InCall
<1>2. ActorOK'
  BY <1>1, ReturnType DEF DelEvent
<1>3. /\ events' = [events EXCEPT ![c] = @ \ {e}] /\ pending' = pending - 1
      /\ waiter' = [waiter EXCEPT ![c][e] = Nobody]
      /\ Control(c[1], events[c] \ {e}) /\ UNCHANGED <<ptr, ready>>
  BY <1>1 DEF DelEvent
<1>4. e \in Events /\ events[c] \ {e} \in SUBSET Events
  BY <1>1 DEF TypeInv, EventOK
<1>5. EventOK'
  BY <1>1, <1>3, <1>4 DEF TypeInv, EventOK
<1>6. EpollOK'
  BY <1>1, <1>3, <1>4, ControlType DEF TypeInv, EventOK
<1> QED
  BY <1>2, <1>5, <1>6 DEF TypeInv, DelEvent, TableOK, SchedOK, RestOK, tableVars, schedVars

\* From here on the actor triggers at least one event of its context.
LEMMA BeginTrigger ==
    ASSUME TypeInv, NEW a \in Actors, NEW c \in Contexts, NEW S \in SUBSET Events, S # {},
           pc[a] \in {"context", "handle"},
           pc' = [pc EXCEPT ![a] = "trigger"], cx' = [cx EXCEPT ![a] = c],
           todo' = [todo EXCEPT ![a] = InOrder(S)], UNCHANGED <<cur, op>>,
           op[a].kind # "epoll" => (c = cx[a] /\ pc[a] = "context"),
           got' \in [Actors -> SUBSET [cx : Contexts, ev : SUBSET (Events \cup {"ERR"})]]
    PROVE  ActorOK'
<1>1. InOrder(S) \in Todos /\ InOrder(S) # <<>>
  BY OrderedEvents
<1>2. /\ pc' \in [Actors -> Pc] /\ cx' \in [Actors -> Contexts \cup {<<0, 0>>}]
      /\ todo' \in [Actors -> Todos]
  BY <1>1 DEF TypeInv, ActorOK, Pc, LockPc
<1>3. ASSUME NEW b \in Actors, b # a PROVE Working(b)'
  BY <1>3 DEF TypeInv, ActorOK, Working
<1>4. Working(a) /\ pc'[a] = "trigger" /\ cx'[a] = c /\ todo'[a] = InOrder(S)
  BY DEF TypeInv, ActorOK
<1>5. Working(a)'
  BY <1>1, <1>4 DEF Working, InCall, LockPc
<1> QED
  BY <1>2, <1>3, <1>5 DEF TypeInv, ActorOK

LEMMA CancelType == ASSUME TypeInv, NEW a \in Actors, Cancel(a) PROVE TypeInv'
<1> DEFINE c == cx[a]
           S == IF op[a].kind = "cancelAll" THEN events[c] ELSE {op[a].event}
<1>1. /\ c \in Contexts /\ op[a].fd = c[1] /\ pc[a] = "context"
  BY DEF TypeInv, ActorOK, Working, Cancel, Locks, InCall
<1>2. S # {} /\ S \subseteq events[c] /\ events[c] \subseteq Events
  BY <1>1 DEF Cancel, TypeInv, EventOK
<1>3. /\ Control(c[1], events[c] \ S) /\ todo' = [todo EXCEPT ![a] = InOrder(S)]
      /\ pc' = [pc EXCEPT ![a] = "trigger"]
      /\ UNCHANGED <<tableVars, eventVars, ptr, ready, schedVars, cur, op, cx, got, ops, failed>>
  BY <1>1 DEF Cancel, Goto
<1>4. cx' = [cx EXCEPT ![a] = c]
  BY <1>3 DEF TypeInv, ActorOK
<1> HIDE DEF S
<1>5. ActorOK'
  BY <1>1, <1>2, <1>3, <1>4, BeginTrigger DEF TypeInv, ActorOK
<1>6. EpollOK'
  BY <1>1, <1>2, <1>3, ControlType DEF eventVars
<1> QED
  BY <1>3, <1>5, <1>6 DEF TypeInv, TableOK, EventOK, SchedOK, RestOK, tableVars, eventVars, schedVars

LEMMA TriggerEventType == ASSUME TypeInv, NEW a \in Actors, TriggerEvent(a) PROVE TypeInv'
<1> DEFINE c == cx[a]
           e == Head(todo[a])
<1>1. /\ c \in Contexts /\ e \in events[c] /\ pc[a] = "trigger" /\ todo[a] \in Todos /\ todo[a] # <<>>
  BY DEF TypeInv, ActorOK, Working, TriggerEvent, LockPc
<1>2. e \in Events /\ Tail(todo[a]) \in Todos
  BY <1>1, TakeTodo
<1>3. /\ events' = [events EXCEPT ![c] = @ \ {e}] /\ waiter' = [waiter EXCEPT ![c][e] = Nobody]
      /\ queue' = queue \cup {waiter[c][e]} /\ pc' = [pc EXCEPT ![a] = "count"]
      /\ todo' = [todo EXCEPT ![a] = Tail(todo[a])]
  BY DEF TriggerEvent, Goto, TypeInv, ActorOK
<1> HIDE DEF c, e
<1>4. waiter[c][e] \in Jobs
  BY <1>1 DEF TypeInv, EventOK
<1>5. EventOK'
  <2>1. pending' = pending
    BY DEF TriggerEvent
  <2> QED
    BY <1>1, <1>2, <1>3, <2>1 DEF TypeInv, EventOK
<1>6. EpollOK'
  BY <1>1, <1>3 DEF TypeInv, EpollOK, EventOK, TriggerEvent, epollVars
<1>7. SchedOK'
  BY <1>3, <1>4 DEF TypeInv, SchedOK, TriggerEvent
<1>8. ActorOK'
  <2>1. pc' \in [Actors -> Pc] /\ todo' \in [Actors -> Todos]
    BY <1>2, <1>3 DEF TypeInv, ActorOK, Pc, LockPc
  <2>2. UNCHANGED <<cur, op, cx, got>>
    BY DEF TriggerEvent
  <2>3. ASSUME NEW b \in Actors PROVE Working(b)'
    BY <1>1, <1>3, <2>2, <2>3 DEF TypeInv, ActorOK, Working, InCall, LockPc
  <2> QED
    BY <2>1, <2>2, <2>3 DEF TypeInv, ActorOK
<1> QED
  BY <1>5, <1>6, <1>7, <1>8 DEF TypeInv, TriggerEvent, TableOK, RestOK, tableVars

LEMMA AbortTriggerType == ASSUME TypeInv, NEW a \in Actors, AbortTrigger(a) PROVE TypeInv'
<1>1. pc' = [b \in Actors |-> "dead"] /\ UNCHANGED <<cur, op, cx, todo, got>>
  BY DEF AbortTrigger
<1>2. ActorOK'
  BY <1>1 DEF TypeInv, ActorOK, Working, Pc, InCall, LockPc
<1>3. RestOK'
  BY DEF TypeInv, RestOK, AbortTrigger
<1> QED
  BY <1>2, <1>3 DEF TypeInv, AbortTrigger, TableOK, EventOK, EpollOK, SchedOK, tableVars, eventVars, epollVars, schedVars

LEMMA CountType == ASSUME TypeInv, NEW a \in Actors, Count(a) PROVE TypeInv'
<1>1. pc[a] = "count" /\ pending' = pending - 1 /\ UNCHANGED <<events, waiter>>
  BY DEF Count
<1>2. EventOK'
  BY <1>1 DEF TypeInv, EventOK
<1>3. ASSUME todo[a] = <<>> PROVE ActorOK'
  BY <1>1, <1>3, ReturnType DEF Count
<1>4. ASSUME todo[a] # <<>> PROVE ActorOK'
  <2>1. pc' = [pc EXCEPT ![a] = "trigger"] /\ UNCHANGED <<op, cx, cur, todo, got>>
    BY <1>4 DEF Count, Goto
  <2>2. ASSUME NEW b \in Actors PROVE Working(b)'
    BY <1>1, <1>4, <2>1, <2>2 DEF TypeInv, ActorOK, Working, InCall, LockPc
  <2>3. pc' \in [Actors -> Pc]
    BY <2>1 DEF TypeInv, ActorOK, Pc, LockPc
  <2> QED
    BY <2>1, <2>2, <2>3 DEF TypeInv, ActorOK
<1>5. ActorOK'
  BY <1>3, <1>4
<1> QED
  BY <1>2, <1>5 DEF TypeInv, Count, TableOK, EpollOK, SchedOK, RestOK, tableVars, epollVars, schedVars

-----------------------------------------------------------------------------
(* The threads, the kernel and the owner keep the types                    *)

LEMMA ScanTakeType == ASSUME TypeInv, NEW t \in Threads, NEW j \in Jobs, ScanTake(t, j) PROVE TypeInv'
<1>1. /\ pc' = [pc EXCEPT ![t] = "task"] /\ cur' = [cur EXCEPT ![t] = j] /\ pc[t] = "scan"
      /\ UNCHANGED <<op, cx, todo, got>> /\ t \in Actors
  BY DEF ScanTake, Goto, Actors
<1>2. ASSUME NEW b \in Actors PROVE Working(b)'
  BY <1>1, <1>2 DEF TypeInv, ActorOK, Working, InCall, LockPc
<1>3. pc' \in [Actors -> Pc] /\ cur' \in [Actors -> Jobs \cup {Nobody}]
  BY <1>1 DEF TypeInv, ActorOK, Pc, UserPc
<1>4. ActorOK'
  BY <1>1, <1>2, <1>3 DEF TypeInv, ActorOK
<1>5. SchedOK'
  BY DEF TypeInv, SchedOK, ScanTake
<1> QED
  BY <1>4, <1>5 DEF TypeInv, ScanTake, TableOK, EventOK, EpollOK, RestOK, tableVars, eventVars, epollVars

LEMMA SuspendType == ASSUME TypeInv, NEW t \in Threads, NEW s \in {"hold", "done"}, Suspend(t, s) PROVE TypeInv'
<1>1. /\ pc' = [pc EXCEPT ![t] = "leave"] /\ cur' = [cur EXCEPT ![t] = Nobody]
      /\ UNCHANGED <<op, cx, todo, got>> /\ t \in Actors
  BY DEF Suspend, Goto, Actors
<1>2. ASSUME NEW b \in Actors PROVE Working(b)'
  <2>1. CASE b # t
    BY <1>1, <1>2, <2>1 DEF TypeInv, ActorOK, Working
  <2>2. CASE b = t
    <3>1. pc'[t] = "leave" /\ op'[t] = op[t] /\ op[t].kind = "epoll"
      BY <1>1 DEF TypeInv, ActorOK, Working, Suspend, InCall, LockPc
    <3> QED
      BY <2>2, <3>1 DEF Working, InCall, LockPc
  <2> QED
    BY <2>1, <2>2
<1>3. pc' \in [Actors -> Pc] /\ cur' \in [Actors -> Jobs \cup {Nobody}]
  BY <1>1 DEF TypeInv, ActorOK, Pc
<1>4. ActorOK'
  BY <1>1, <1>2, <1>3 DEF TypeInv, ActorOK
<1>5. SchedOK'
  BY DEF TypeInv, SchedOK, Suspend
<1> QED
  BY <1>4, <1>5 DEF TypeInv, Suspend, TableOK, EventOK, EpollOK, RestOK, tableVars, eventVars, epollVars

\* A thread goes on to a place outside of tasks and calls.
LEMMA ElsewhereType ==
    ASSUME TypeInv, NEW t \in Threads, NEW l \in Pc \ (UserPc \cup InCall \cup {"yield"}), Goto(t, l),
           pc[t] \notin InCall \cup {"dead"}, UNCHANGED <<cur, op, cx, todo>>,
           got' \in [Actors -> SUBSET [cx : Contexts, ev : SUBSET (Events \cup {"ERR"})]]
    PROVE  ActorOK'
<1>1. pc' = [pc EXCEPT ![t] = l] /\ t \in Actors
  BY DEF Goto, Actors
<1>2. ASSUME NEW b \in Actors, b # t PROVE Working(b)'
  BY <1>1, <1>2 DEF TypeInv, ActorOK, Working
<1>3. Working(t)'
  <2>1. pc'[t] = l /\ op'[t] = op[t] /\ op[t].kind = "epoll"
    BY <1>1 DEF TypeInv, ActorOK, Working
  <2> QED
    BY <2>1 DEF Working, InCall, LockPc, UserPc
<1> QED
  BY <1>1, <1>2, <1>3 DEF TypeInv, ActorOK

LEMMA PlainStepType ==
    ASSUME TypeInv, NEW t \in Threads,
           ScanNone(t) \/ Leave(t) \/ AskPending(t) \/ AskStopping(t) \/ HandleDone(t)
    PROVE  TypeInv'
<1>1. ActorOK'
  <2>1. got \in [Actors -> SUBSET [cx : Contexts, ev : SUBSET (Events \cup {"ERR"})]]
    BY DEF TypeInv, ActorOK
  <2>2. UNCHANGED <<cur, op, cx, todo, got>>
    BY DEF ScanNone, Leave, AskPending, AskStopping, HandleDone
  <2>3. PICK l \in {"scan", "exit", "pending", "stopping", "wait"} :
           Goto(t, l) /\ pc[t] \notin InCall \cup {"dead"}
    BY DEF ScanNone, Leave, AskPending, AskStopping, HandleDone, InCall, LockPc
  <2>4. l \in Pc \ (UserPc \cup InCall \cup {"yield"})
    BY <2>3 DEF Pc, UserPc, InCall, LockPc
  <2> QED
    BY <2>1, <2>2, <2>3, <2>4, ElsewhereType
<1>2. SchedOK'
  <2>1. UNCHANGED <<queue, stop, phase>>
    BY DEF ScanNone, Leave, AskPending, AskStopping, HandleDone, schedVars
  <2>2. active' \in Int
    BY DEF TypeInv, SchedOK, ScanNone, Leave, AskPending, AskStopping, HandleDone, schedVars
  <2>3. idleTerm' \in [Threads -> BOOLEAN]
    <3>1. CASE AskStopping(t)
      <4>1. PICK d \in BOOLEAN : idleTerm' = [idleTerm EXCEPT ![t] = d]
        BY <3>1 DEF AskStopping
      <4> QED
        BY <4>1 DEF TypeInv, SchedOK
    <3>2. CASE ~AskStopping(t)
      BY <3>2 DEF TypeInv, SchedOK, ScanNone, Leave, AskPending, HandleDone, schedVars
    <3> QED
      BY <3>1, <3>2
  <2> QED
    BY <2>1, <2>2, <2>3 DEF TypeInv, SchedOK
<1> QED
  BY <1>1, <1>2 DEF TypeInv, ScanNone, Leave, AskPending, AskStopping, HandleDone,
     TableOK, EventOK, EpollOK, RestOK, tableVars, eventVars, epollVars

LEMMA EpollWaitType == ASSUME TypeInv, NEW t \in Threads, EpollWait(t) PROVE TypeInv'
<1> DEFINE What(fd) == ready[fd] \cap (armed[fd] \cup {"ERR"})
           Got == {[cx |-> <<fd, ptr[fd]>>, ev |-> What(fd)] :
                        fd \in {f \in edges : armed[f] # {} /\ What(f) # {}}}
<1>1. Got \subseteq [cx : Contexts, ev : SUBSET (Events \cup {"ERR"})]
  <2>1. ASSUME NEW fd \in edges, armed[fd] # {}
        PROVE  <<fd, ptr[fd]>> \in Contexts /\ What(fd) \in SUBSET (Events \cup {"ERR"})
    BY <2>1, IOManagerAssumption DEF TypeInv, EpollOK, Contexts
  <2> QED
    BY <2>1
<1>2. got' = [got EXCEPT ![t] = Got] /\ Goto(t, "handle") /\ UNCHANGED <<cur, op, cx, todo>>
  BY DEF EpollWait
<1> HIDE DEF Got
<1>3. got' \in [Actors -> SUBSET [cx : Contexts, ev : SUBSET (Events \cup {"ERR"})]]
  BY <1>1, <1>2 DEF TypeInv, ActorOK
<1>4. ActorOK'
  <2>1. "handle" \in Pc \ (UserPc \cup InCall \cup {"yield"}) /\ pc[t] \notin InCall \cup {"dead"}
    BY DEF Pc, UserPc, InCall, LockPc, EpollWait
  <2> QED
    BY <1>2, <1>3, <2>1, ElsewhereType
<1>5. EpollOK'
  BY DEF TypeInv, EpollOK, EpollWait, eventVars
<1> QED
  BY <1>4, <1>5 DEF TypeInv, EpollWait, TableOK, EventOK, SchedOK, RestOK, tableVars, eventVars, schedVars

LEMMA HandleType ==
    ASSUME TypeInv, NEW t \in Threads, NEW g \in got[t], HandleStale(t, g) \/ Handle(t, g)
    PROVE  TypeInv'
<1>1. /\ t \in Actors /\ g.cx \in Contexts /\ events[g.cx] \subseteq Events /\ pc[t] = "handle"
      /\ RealEvents(g) \subseteq Events
  BY DEF TypeInv, ActorOK, EventOK, Actors, HandleStale, Handle, RealEvents
<1>2. got' = [got EXCEPT ![t] = got[t] \ {g}]
  BY DEF HandleStale, Handle
<1>3. got' \in [Actors -> SUBSET [cx : Contexts, ev : SUBSET (Events \cup {"ERR"})]]
  BY <1>1, <1>2 DEF TypeInv, ActorOK
<1>4. CASE HandleStale(t, g)
  <2>1. ASSUME NEW b \in Actors PROVE Working(b)'
    BY <1>4, <2>1 DEF TypeInv, ActorOK, Working, HandleStale
  <2>2. ActorOK'
    BY <1>3, <1>4, <2>1 DEF TypeInv, ActorOK, HandleStale
  <2> QED
    BY <1>4, <2>2 DEF TypeInv, HandleStale, TableOK, EventOK, EpollOK, SchedOK, RestOK,
       tableVars, eventVars, epollVars, schedVars
<1>5. CASE Handle(t, g)
  <2>1. /\ pc' = [pc EXCEPT ![t] = "trigger"] /\ cx' = [cx EXCEPT ![t] = g.cx]
        /\ todo' = [todo EXCEPT ![t] = InOrder(RealEvents(g))]
        /\ RealEvents(g) # {} /\ events[g.cx] # {}
        /\ Control(g.cx[1], events[g.cx] \ RealEvents(g))
        /\ UNCHANGED <<tableVars, eventVars, ptr, ready, schedVars, cur, op, ops, failed>>
    BY <1>5 DEF Handle, Goto
  <2>2. op[t].kind = "epoll"
    BY <1>1 DEF TypeInv, ActorOK, Working, InCall, LockPc
  <2>3. ActorOK'
    BY <1>1, <1>3, <2>1, <2>2, BeginTrigger
  <2>4. EpollOK'
    BY <1>1, <2>1, ControlType DEF eventVars
  <2> QED
    BY <2>1, <2>3, <2>4 DEF TypeInv, TableOK, EventOK, SchedOK, RestOK, tableVars, eventVars, schedVars
<1> QED
  BY <1>4, <1>5

\* Tasks that are submitted or drain a descriptor, stop(), and the kernel.
LEMMA OtherType ==
    ASSUME TypeInv,
           \/ Stop
           \/ \E j \in Jobs : Submit(j)
           \/ \E t \in Threads : Drain(t)
           \/ \E fd \in Fds : HangUp(fd) \/ \E e \in Events : BecomeReady(fd, e)
    PROVE  TypeInv'
<1>1. CASE Stop
  BY <1>1 DEF TypeInv, Stop, TableOK, EventOK, EpollOK, SchedOK, ActorOK, Working, RestOK,
     tableVars, eventVars, epollVars, actorVars
<1>2. ASSUME NEW j \in Jobs, Submit(j) PROVE TypeInv'
  BY <1>2 DEF TypeInv, Submit, TableOK, EventOK, EpollOK, SchedOK, ActorOK, Working, RestOK,
     tableVars, eventVars, epollVars, actorVars
<1>3. ASSUME NEW R, ready' = R, R \in [Fds -> SUBSET (Events \cup {"ERR"})], edges' \subseteq Fds,
             UNCHANGED <<tableVars, eventVars, armed, ptr, schedVars, actorVars, ops, failed>>
      PROVE  TypeInv'
  <2>1. TableOK' /\ EventOK' /\ SchedOK' /\ RestOK'
    BY <1>3 DEF TypeInv, TableOK, EventOK, SchedOK, RestOK, tableVars, eventVars, schedVars
  <2>3. EpollOK'
    BY <1>3 DEF TypeInv, EpollOK, eventVars
  <2>2. ActorOK'
    BY <1>3 DEF TypeInv, ActorOK, Working, actorVars
  <2> QED
    BY <2>1, <2>2, <2>3 DEF TypeInv
<1>4. ASSUME NEW t \in Threads, Drain(t) PROVE TypeInv'
  <2>1. /\ ready' = [ready EXCEPT ![On[cur[t]][1]] = @ \ {On[cur[t]][2]}] /\ edges' = edges
        /\ UNCHANGED <<tableVars, eventVars, armed, ptr, schedVars, actorVars, ops, failed>>
    BY <1>4 DEF Drain
  <2>2. [ready EXCEPT ![On[cur[t]][1]] = @ \ {On[cur[t]][2]}] \in [Fds -> SUBSET (Events \cup {"ERR"})]
    BY DEF TypeInv, EpollOK
  <2>3. edges' \subseteq Fds
    BY <2>1 DEF TypeInv, EpollOK
  <2> QED
    BY <1>3, <2>1, <2>2, <2>3
<1>5. ASSUME NEW fd \in Fds, HangUp(fd) PROVE TypeInv'
  <2>1. ready' = [ready EXCEPT ![fd] = @ \cup {"ERR"}] /\ edges' \subseteq edges \cup {fd}
    BY <1>5 DEF HangUp
  <2>2. edges' \subseteq Fds
    BY <2>1 DEF TypeInv, EpollOK
  <2>3. [ready EXCEPT ![fd] = @ \cup {"ERR"}] \in [Fds -> SUBSET (Events \cup {"ERR"})]
    BY DEF TypeInv, EpollOK
  <2>4. UNCHANGED <<tableVars, eventVars, armed, ptr, schedVars, actorVars, ops, failed>>
    BY <1>5 DEF HangUp
  <2> QED
    BY <1>3, <2>1, <2>2, <2>3, <2>4
<1>6. ASSUME NEW fd \in Fds, NEW e \in Events, BecomeReady(fd, e) PROVE TypeInv'
  BY <1>3, <1>6 DEF BecomeReady, TypeInv, EpollOK
<1> QED
  BY <1>1, <1>2, <1>4, <1>5, <1>6

LEMMA TypeInit == Init => TypeInv
<1> SUFFICES ASSUME Init PROVE TypeInv
  OBVIOUS
<1>1. TableOK /\ EventOK /\ EpollOK
  BY IOManagerAssumption DEF Init, TableOK, EventOK, EpollOK
<1>2. SchedOK /\ RestOK
  <2>1. stop \in BOOLEAN /\ failed \in BOOLEAN /\ idleTerm \in [Threads -> BOOLEAN]
    BY DEF Init
  <2>2. active \in Int /\ ops \in Nat
    BY DEF Init
  <2> QED
    BY <2>1, <2>2 DEF Init, SchedOK, RestOK
<1>3. NoOp \in [kind : Kinds, fd : Nat, event : Events, job : Jobs \cup {Nobody}] /\ NoOp.kind = "epoll"
  BY DEF NoOp, Kinds, Events
<1>4. \A a \in Actors : Working(a)
  BY <1>3 DEF Init, Working, InCall, LockPc
<1>5. ActorOK
  BY <1>3, <1>4 DEF Init, ActorOK, Pc, UserPc, Todos
<1> QED
  BY <1>1, <1>2, <1>5 DEF TypeInv

LEMMA TypeStep == ASSUME TypeInv, [Next]_vars PROVE TypeInv'
<1>1. ASSUME NEW a \in Actors, CallStep(a) PROVE TypeInv'
  BY <1>1, ResizeType, AddEventType, AddEventFailsType, NotRegisteredType, DelEventType, CancelType,
     TriggerEventType, AbortTriggerType, CountType DEF CallStep
<1>2. ASSUME NEW t \in Threads, RunStep(t) PROVE TypeInv'
  BY <1>2, ScanTakeType, SuspendType, PlainStepType, EpollWaitType, HandleType DEF RunStep
<1>3. CASE UNCHANGED vars
  BY <1>3 DEF TypeInv, TableOK, EventOK, EpollOK, SchedOK, ActorOK, Working, RestOK,
     vars, tableVars, eventVars, epollVars, schedVars, actorVars
<1> QED
  BY <1>1, <1>2, <1>3, UserType, CallAddFiberType, OtherType DEF Next, Halted

\* Every variable of the event loop keeps its type: in particular idle() only
\* handles contexts that exist, whatever epoll reports (iomanager.cpp:290-392).
THEOREM TypeCorrect == Spec => []TypeOK
<1>1. Init => TypeInv
  BY TypeInit
<1>2. TypeInv /\ [Next]_vars => TypeInv'
  BY TypeStep
<1> QED
  BY <1>1, <1>2, TypeInvImplies, PTL DEF Spec

-----------------------------------------------------------------------------
(* m_pendingEventCount                                                     *)

\* Who has triggered an event and has not yet counted it.
Counting == {a \in Actors : pc[a] = "count"}

LEMMA FiniteParts == IsFiniteSet(Registered) /\ IsFiniteSet(Counting)
<1>1. IsFiniteSet(Fds)
  <2> DEFINE f == [j \in Jobs |-> On[j][1]]
  <2>1. f \in Surjection(Jobs, Fds)
    BY DEF Surjection, Fds
  <2> QED
    BY <2>1, FS_Surjection, IOManagerAssumption
<1>2. IsFiniteSet(1 .. MaxGen)
  BY FS_Interval, IOManagerAssumption
<1>3. IsFiniteSet(Contexts)
  BY <1>1, <1>2, FS_Product DEF Contexts
<1>4. IsFiniteSet(Events)
  <2>1. IsFiniteSet({"READ"}) /\ Events = {"READ"} \cup {"WRITE"}
    BY FS_Singleton DEF Events
  <2> QED
    BY <2>1, FS_AddElement
<1>5. IsFiniteSet(Contexts \X Events)
  BY <1>3, <1>4, FS_Product
<1>6. IsFiniteSet(Registered)
  BY <1>5, FS_Subset DEF Registered
<1>7. IsFiniteSet(Counting)
  BY FS_Subset, IOManagerAssumption DEF Counting
<1> QED
  BY <1>6, <1>7

\* How the two cardinalities move when one element comes or goes.
LEMMA OneMore ==
    ASSUME NEW S, IsFiniteSet(S), NEW x, x \notin S
    PROVE  Cardinality(S \cup {x}) = Cardinality(S) + 1
BY FS_AddElement

LEMMA OneLess ==
    ASSUME NEW S, IsFiniteSet(S), NEW x, x \in S
    PROVE  Cardinality(S \ {x}) = Cardinality(S) - 1
BY FS_RemoveElement

LEMMA Cardinals == Cardinality(Registered) \in Nat /\ Cardinality(Counting) \in Nat
BY FiniteParts, FS_CardinalityType

\* The property in terms of the two sets.
LEMMA PendingIs ==
    /\ PendingMatches <=> (~failed => pending = Cardinality(Registered) + Cardinality(Counting))
    /\ PendingMatches' <=> (~failed' => pending' = Cardinality(Registered') + Cardinality(Counting'))
BY DEF PendingMatches, Counting

\* What no step but those below disturbs.
LEMMA SameCount ==
    ASSUME PendingMatches, UNCHANGED <<events, pending>>, Counting' = Counting, failed => failed'
    PROVE  PendingMatches'
BY DEF PendingMatches, Registered, Counting

\* A step of an actor that is not at "count" before or after.
LEMMA GotoCount ==
    ASSUME TypeInv, NEW a \in Actors, NEW l, Goto(a, l), pc[a] # "count", l # "count"
    PROVE  Counting' = Counting
BY DEF Goto, Counting, TypeInv, ActorOK

LEMMA HomeCount == ASSUME NEW a \in Actors PROVE Home(a) # "count"
BY DEF Home

LEMMA AddEventCount == ASSUME TypeInv, PendingMatches, NEW a \in Actors, AddEvent(a) PROVE PendingMatches'
<1> DEFINE e == op[a].event
           c == cx[a]
           r == <<c, e>>
<1>1. /\ c \in Contexts /\ e \in Events /\ pc[a] = "context"
  BY DEF TypeInv, ActorOK, Working, AddEvent, Locks
<1>2. /\ e \notin events[c] /\ events' = [events EXCEPT ![c] = @ \cup {e}] /\ pending' = pending + 1
      /\ failed' = failed
  BY DEF AddEvent
<1>3. r \notin Registered /\ Registered' = Registered \cup {r}
  BY <1>1, <1>2 DEF Registered, TypeInv, EventOK
<1>4. Counting' = Counting
  BY <1>1, GotoCount, HomeCount DEF AddEvent, Return
<1>5. Cardinality(Registered') = Cardinality(Registered) + 1
  BY <1>3, FiniteParts, OneMore
<1> QED
  BY <1>2, <1>4, <1>5, Cardinals, PendingIs

LEMMA DelEventCount == ASSUME TypeInv, PendingMatches, NEW a \in Actors, DelEvent(a) PROVE PendingMatches'
<1> DEFINE e == op[a].event
           c == cx[a]
           r == <<c, e>>
<1>1. /\ c \in Contexts /\ e \in Events /\ pc[a] = "context"
  BY DEF TypeInv, ActorOK, Working, DelEvent, Locks
<1>2. /\ e \in events[c] /\ events' = [events EXCEPT ![c] = @ \ {e}] /\ pending' = pending - 1
      /\ failed' = failed
  BY DEF DelEvent
<1>3. r \in Registered /\ Registered' = Registered \ {r}
  BY <1>1, <1>2 DEF Registered, TypeInv, EventOK
<1>4. Counting' = Counting
  BY <1>1, GotoCount, HomeCount DEF DelEvent, Return
<1>5. Cardinality(Registered') = Cardinality(Registered) - 1
  BY <1>3, FiniteParts, OneLess
<1> QED
  BY <1>2, <1>4, <1>5, Cardinals, PendingIs

LEMMA TriggerEventCount == ASSUME TypeInv, PendingMatches, NEW a \in Actors, TriggerEvent(a) PROVE PendingMatches'
<1> DEFINE e == Head(todo[a])
           c == cx[a]
           r == <<c, e>>
<1>1. /\ c \in Contexts /\ e \in events[c] /\ e \in Events /\ pc[a] = "trigger"
  BY DEF TypeInv, ActorOK, EventOK, Working, TriggerEvent, LockPc
<1>2. /\ events' = [events EXCEPT ![c] = @ \ {e}] /\ pc' = [pc EXCEPT ![a] = "count"]
      /\ pending' = pending /\ failed' = failed
  BY DEF TriggerEvent, Goto
<1> HIDE DEF e, c
<1>3. r \in Registered /\ Registered' = Registered \ {r}
  BY <1>1, <1>2 DEF Registered, TypeInv, EventOK
<1>4. a \notin Counting /\ Counting' = Counting \cup {a}
  BY <1>1, <1>2 DEF Counting, TypeInv, ActorOK
<1>5. Cardinality(Registered') = Cardinality(Registered) - 1
  BY <1>3, FiniteParts, OneLess
<1>6. Cardinality(Counting') = Cardinality(Counting) + 1
  BY <1>4, FiniteParts, OneMore
<1> QED
  BY <1>2, <1>5, <1>6, Cardinals, PendingIs

LEMMA CountCount == ASSUME TypeInv, PendingMatches, NEW a \in Actors, Count(a) PROVE PendingMatches'
<1>1. pc[a] = "count" /\ pending' = pending - 1 /\ UNCHANGED <<events, failed>>
  BY DEF Count
<1>2. PICK l : l # "count" /\ pc' = [pc EXCEPT ![a] = l]
  BY HomeCount DEF Count, Return, Goto
<1>3. a \in Counting /\ Counting' = Counting \ {a}
  BY <1>1, <1>2 DEF Counting, TypeInv, ActorOK
<1>4. Cardinality(Counting') = Cardinality(Counting) - 1
  BY <1>3, FiniteParts, OneLess
<1>5. Registered' = Registered
  BY <1>1 DEF Registered
<1> QED
  BY <1>1, <1>4, <1>5, Cardinals, PendingIs

LEMMA CallStepCount == ASSUME TypeInv, PendingMatches, NEW a \in Actors, CallStep(a) PROVE PendingMatches'
<1>1. ASSUME ContextResize(a) PROVE PendingMatches'
  BY <1>1, GotoCount, SameCount DEF ContextResize, eventVars
<1>2. ASSUME AddEventFails(a) \/ NotRegistered(a) PROVE PendingMatches'
  BY <1>2, GotoCount, HomeCount, SameCount DEF AddEventFails, NotRegistered, Locks, Return, eventVars
<1>3. ASSUME Cancel(a) PROVE PendingMatches'
  BY <1>3, GotoCount, SameCount DEF Cancel, Locks, eventVars
<1>4. ASSUME AbortTrigger(a) PROVE PendingMatches'
  BY <1>4 DEF AbortTrigger, PendingMatches
<1> QED
  BY <1>1, <1>2, <1>3, <1>4, AddEventCount, DelEventCount, TriggerEventCount, CountCount DEF CallStep

LEMMA UserStepCount == ASSUME TypeInv, PendingMatches, NEW a \in Actors, UserStep(a) PROVE PendingMatches'
<1>1. PICK k, fd, e, j : Call(a, k, fd, e, j)
  BY DEF UserStep, CallAddCb, CallOther
<1> QED
  BY <1>1, GotoCount, SameCount DEF Call, UserPc, eventVars

LEMMA ThreadStepCount ==
    ASSUME TypeInv, PendingMatches, NEW t \in Threads, RunStep(t) \/ CallAddFiber(t) \/ Drain(t)
    PROVE  PendingMatches'
<1>0. t \in Actors
  BY DEF Actors
<1>1. ASSUME NEW l, Goto(t, l), pc[t] # "count", l # "count", UNCHANGED <<eventVars, failed>>
      PROVE  PendingMatches'
  BY <1>0, <1>1, GotoCount, SameCount DEF eventVars
<1>2. ASSUME NEW j \in Jobs, ScanTake(t, j) PROVE PendingMatches'
  BY <1>1, <1>2 DEF ScanTake
<1>3. ASSUME NEW s \in {"hold", "done"}, Suspend(t, s) PROVE PendingMatches'
  BY <1>1, <1>3 DEF Suspend
<1>4. ASSUME ScanNone(t) \/ Leave(t) \/ AskPending(t) \/ AskStopping(t) \/ EpollWait(t) \/ HandleDone(t)
      PROVE  PendingMatches'
  BY <1>1, <1>4 DEF ScanNone, Leave, AskPending, AskStopping, EpollWait, HandleDone
<1>5. ASSUME NEW g \in got[t], Handle(t, g) PROVE PendingMatches'
  BY <1>1, <1>5 DEF Handle
<1>6. ASSUME NEW g \in got[t], HandleStale(t, g) PROVE PendingMatches'
  BY <1>6, SameCount DEF HandleStale, eventVars, Counting
<1>7. ASSUME CallAddFiber(t) PROVE PendingMatches'
  BY <1>1, <1>7 DEF CallAddFiber, Call, UserPc
<1>8. ASSUME Drain(t) PROVE PendingMatches'
  BY <1>8, SameCount DEF Drain, eventVars, actorVars, Counting
<1> QED
  BY <1>2, <1>3, <1>4, <1>5, <1>6, <1>7, <1>8 DEF RunStep

LEMMA CountStep == ASSUME TypeInv, PendingMatches, [Next]_vars PROVE PendingMatches'
<1>1. ASSUME UNCHANGED <<eventVars, actorVars, failed>> PROVE PendingMatches'
  BY <1>1, SameCount DEF eventVars, actorVars, Counting
<1>2. CASE Stop
  BY <1>1, <1>2 DEF Stop
<1>3. ASSUME NEW j \in Jobs, Submit(j) PROVE PendingMatches'
  BY <1>1, <1>3 DEF Submit
<1>4. ASSUME NEW fd \in Fds, HangUp(fd) PROVE PendingMatches'
  BY <1>1, <1>4 DEF HangUp
<1>5. ASSUME NEW fd \in Fds, NEW e \in Events, BecomeReady(fd, e) PROVE PendingMatches'
  BY <1>1, <1>5 DEF BecomeReady
<1>6. CASE UNCHANGED vars
  BY <1>1, <1>6 DEF vars
<1> QED
  BY <1>2, <1>3, <1>4, <1>5, <1>6, CallStepCount, UserStepCount, ThreadStepCount DEF Next, Halted

LEMMA CountInit == Init => PendingMatches
<1> SUFFICES ASSUME Init PROVE PendingMatches
  OBVIOUS
<1>1. Registered = {} /\ Counting = {} /\ pending = 0
  BY DEF Init, Registered, Counting
<1> QED
  BY <1>1, FS_EmptySet, PendingIs

\* m_pendingEventCount is the number of registered events and of those that
\* were triggered and not yet counted, through every race of addEvent,
\* delEvent, cancelEvent, cancelAll and idle() (iomanager.cpp:146, 190, 225,
\* 257, 261, 382, 386): the unlocked increments and decrements never drift, also
\* when the table of contexts is rebuilt under them.
THEOREM CountIsExact == Spec => []PendingMatches
<1>1. Init => TypeInv /\ PendingMatches
  BY TypeInit, CountInit
<1>2. TypeInv /\ PendingMatches /\ [Next]_vars => (TypeInv /\ PendingMatches)'
  BY TypeStep, CountStep
<1> QED
  BY <1>1, <1>2, PTL DEF Spec

-----------------------------------------------------------------------------
(* What epoll watches                                                      *)

\* No context is ever built twice for a descriptor.
OneContext == MaxGen = 1

\* Actor a holds context c and is still to trigger e.
ToTrigger(a, c, e) ==
    pc[a] \in LockPc /\ cx[a] = c /\ \E i \in DOMAIN todo[a] : todo[a][i] = e

Taken(c, e) == \E a \in Actors : ToTrigger(a, c, e)

\* Event by event: epoll watches what is registered and not taken.
Agree ==
    ~failed => \A c \in Contexts : \A e \in Events :
                  (e \in armed[c[1]]) <=> (e \in events[c] /\ ~Taken(c, e))

LEMMA TakenIs == ASSUME NEW c, NEW e PROVE (e \in InTrigger(c)) <=> Taken(c, e)
BY DEF InTrigger, Taken, ToTrigger

LEMMA AgreeImplies == OneContext /\ TypeInv /\ Agree => KernelAgrees
<1> SUFFICES ASSUME OneContext, TypeInv, Agree, ~failed PROVE KernelAgrees
  BY DEF KernelAgrees
<1>1. ASSUME NEW c \in Contexts PROVE armed[c[1]] = events[c] \ InTrigger(c)
  <2>1. armed[c[1]] \subseteq Events /\ events[c] \subseteq Events
    BY ContextParts DEF TypeInv, EpollOK, EventOK
  <2>2. \A e \in Events : (e \in armed[c[1]]) <=> (e \in events[c] /\ e \notin InTrigger(c))
    BY TakenIs DEF Agree
  <2> QED
    BY <2>1, <2>2
<1>2. ASSUME NEW f \in Fds, armed[f] # {} PROVE <<f, ptr[f]>> \in Contexts
  BY <1>2 DEF TypeInv, EpollOK, Contexts, OneContext
<1>3. ASSUME NEW c \in Contexts, armed[c[1]] # {} PROVE ptr[c[1]] = c[2]
  BY <1>3, ContextParts DEF TypeInv, EpollOK, OneContext
<1>4. ASSUME NEW f \in Fds, armed[f] # {}
      PROVE  armed[f] = events[<<f, ptr[f]>>] \ InTrigger(<<f, ptr[f]>>)
  BY <1>1, <1>2, <1>4
<1> QED
  BY <1>1, <1>3, <1>4 DEF KernelAgrees

\* The others keep what they have to trigger.
LEMMA AgreeFrame ==
    ASSUME Agree, UNCHANGED <<events, armed>>, failed => failed',
           \A b \in Actors, c \in Contexts, e \in Events : ToTrigger(b, c, e)' <=> ToTrigger(b, c, e)
    PROVE  Agree'
<1>1. \A c \in Contexts, e \in Events : Taken(c, e)' <=> Taken(c, e)
  BY DEF Taken
<1> QED
  BY <1>1 DEF Agree

\* A step of an actor that holds no context before or after.
LEMMA GotoAgree ==
    ASSUME TypeInv, Agree, NEW a \in Actors, NEW l, Goto(a, l), pc[a] \notin LockPc, l \notin LockPc,
           \A b \in Actors : (b # a) => (cx'[b] = cx[b] /\ todo'[b] = todo[b]),
           UNCHANGED <<events, armed, failed>>
    PROVE  Agree'
<1>1. pc' = [pc EXCEPT ![a] = l]
  BY DEF Goto
<1>2. ASSUME NEW b \in Actors, NEW c, NEW e PROVE ToTrigger(b, c, e)' <=> ToTrigger(b, c, e)
  BY <1>1, <1>2 DEF ToTrigger, TypeInv, ActorOK
<1> QED
  BY <1>2, AgreeFrame

LEMMA HomeLock == ASSUME NEW a PROVE Home(a) \notin LockPc
BY DEF Home, LockPc

\* Nobody triggers events of a context that is not locked.
LEMMA UnlockedFree == ASSUME NEW c, Unlocked(c), NEW e PROVE ~Taken(c, e)
BY DEF Unlocked, Taken, ToTrigger

\* With one context for a descriptor, epoll_ctl on it is about that context.
LEMMA OtherContext ==
    ASSUME OneContext, NEW c \in Contexts, NEW d \in Contexts, d # c
    PROVE  d[1] # c[1]
BY ContextParts DEF OneContext

\* addEvent and delEvent hold the lock alone and let epoll watch what is left.
LEMMA ChangeAgree ==
    ASSUME OneContext, TypeInv, Agree, NEW a \in Actors, NEW c \in Contexts, pc[a] = "context", Unlocked(c),
           NEW E \in SUBSET Events, events' = [events EXCEPT ![c] = E], Control(c[1], E),
           NEW l \in Pc \ LockPc, Return(a, l), UNCHANGED <<todo, failed>>
    PROVE  Agree'
<1>1. /\ pc' = [pc EXCEPT ![a] = l] /\ cx' = [cx EXCEPT ![a] = <<0, 0>>] /\ armed' = [armed EXCEPT ![c[1]] = E]
      /\ pc[a] \notin LockPc
  BY DEF Return, Goto, Control, LockPc
<1>2. ASSUME NEW b \in Actors, NEW d, NEW e PROVE ToTrigger(b, d, e)' <=> ToTrigger(b, d, e)
  BY <1>1, <1>2 DEF ToTrigger, TypeInv, ActorOK
<1>3. ASSUME NEW d \in Contexts, NEW e \in Events PROVE Taken(d, e)' <=> Taken(d, e)
  BY <1>2 DEF Taken
<1>4. ASSUME ~failed, NEW d \in Contexts, NEW e \in Events
      PROVE  (e \in armed'[d[1]]) <=> (e \in events'[d] /\ ~Taken(d, e))
  <2>1. CASE d = c
    BY <1>1, <2>1, UnlockedFree, ContextParts DEF TypeInv, EventOK, EpollOK
  <2>2. CASE d # c
    <3>1. armed'[d[1]] = armed[d[1]] /\ events'[d] = events[d]
      BY <1>1, <2>2, OtherContext, ContextParts DEF TypeInv, EventOK, EpollOK
    <3> QED
      BY <1>4, <3>1 DEF Agree
  <2> QED
    BY <2>1, <2>2
<1> QED
  BY <1>3, <1>4 DEF Agree

\* cancelEvent, cancelAll and idle() take what epoll no longer watches.
LEMMA TakeAgree ==
    ASSUME OneContext, TypeInv, Agree, NEW a \in Actors, NEW c \in Contexts, pc[a] \notin LockPc, Unlocked(c),
           NEW S \in SUBSET Events, Control(c[1], events[c] \ S),
           pc' = [pc EXCEPT ![a] = "trigger"], cx' = [cx EXCEPT ![a] = c],
           todo' = [todo EXCEPT ![a] = InOrder(S)], UNCHANGED <<events, failed>>
    PROVE  Agree'
<1>1. armed' = [armed EXCEPT ![c[1]] = events[c] \ S]
  BY DEF Control
<1>2. ASSUME NEW b \in Actors, b # a, NEW d, NEW e PROVE ToTrigger(b, d, e)' <=> ToTrigger(b, d, e)
  BY <1>2 DEF ToTrigger, TypeInv, ActorOK
<1>3. ASSUME NEW d, NEW e PROVE ~ToTrigger(a, d, e) /\ (ToTrigger(a, d, e)' <=> (d = c /\ e \in S))
  <2>1. pc'[a] = "trigger" /\ cx'[a] = c /\ todo'[a] = InOrder(S)
    BY DEF TypeInv, ActorOK
  <2> QED
    BY <2>1, OrderedRange DEF ToTrigger, LockPc
<1>4. ASSUME NEW d \in Contexts, NEW e \in Events PROVE Taken(d, e)' <=> (Taken(d, e) \/ (d = c /\ e \in S))
  BY <1>2, <1>3 DEF Taken
<1>5. ASSUME ~failed, NEW d \in Contexts, NEW e \in Events
      PROVE  (e \in armed'[d[1]]) <=> (e \in events[d] /\ ~Taken(d, e)')
  <2>1. CASE d = c
    <3>1. armed'[d[1]] = events[c] \ S
      BY <1>1, <2>1, ContextParts DEF TypeInv, EpollOK
    <3> QED
      BY <1>4, <2>1, <3>1, UnlockedFree
  <2>2. CASE d # c
    <3>1. armed'[d[1]] = armed[d[1]]
      BY <1>1, <2>2, OtherContext, ContextParts DEF TypeInv, EpollOK
    <3> QED
      BY <1>4, <1>5, <2>2, <3>1 DEF Agree
  <2> QED
    BY <2>1, <2>2
<1> QED
  BY <1>5 DEF Agree

LEMMA CallStepAgree ==
    ASSUME OneContext, TypeInv, Agree, NEW a \in Actors, CallStep(a)
    PROVE  Agree'
<1>1. ASSUME ContextResize(a) PROVE Agree'
  <2>1. /\ pc[a] \notin LockPc /\ Goto(a, "context") /\ "context" \notin LockPc
        /\ UNCHANGED <<events, armed, failed>>
    BY <1>1 DEF ContextResize, LockPc, eventVars, epollVars
  <2>2. ASSUME NEW b \in Actors, b # a PROVE cx'[b] = cx[b] /\ todo'[b] = todo[b]
    BY <1>1, <2>2 DEF ContextResize, TypeInv, ActorOK
  <2> QED
    BY <2>1, <2>2, GotoAgree
<1>2. ASSUME AddEventFails(a) \/ NotRegistered(a) PROVE Agree'
  <2>1. /\ pc[a] \notin LockPc /\ Goto(a, Home(a)) /\ cx' = [cx EXCEPT ![a] = <<0, 0>>]
        /\ UNCHANGED <<todo, events, armed, failed>>
    BY <1>2 DEF AddEventFails, NotRegistered, Locks, LockPc, Return, eventVars, epollVars
  <2>2. ASSUME NEW b \in Actors, b # a PROVE cx'[b] = cx[b] /\ todo'[b] = todo[b]
    BY <2>1, <2>2 DEF TypeInv, ActorOK
  <2> QED
    BY <2>1, <2>2, GotoAgree, HomeLock
<1>3. ASSUME AddEvent(a) PROVE Agree'
  <2>1. /\ cx[a] \in Contexts /\ op[a].fd = cx[a][1] /\ op[a].event \in Events
        /\ pc[a] = "context" /\ Unlocked(cx[a])
    BY <1>3 DEF AddEvent, Locks, TypeInv, ActorOK, Working, InCall
  <2>2. events[cx[a]] \cup {op[a].event} \in SUBSET Events
    BY <2>1 DEF TypeInv, EventOK
  <2>3. PICK l \in {"yield", "handle", "task", "free"} : Return(a, l)
    BY <1>3 DEF AddEvent, Home
  <2>4. l \in Pc \ LockPc
    BY <2>3 DEF Pc, UserPc, LockPc
  <2> QED
    BY <1>3, <2>1, <2>2, <2>3, <2>4, ChangeAgree DEF AddEvent
<1>4. ASSUME DelEvent(a) PROVE Agree'
  <2>1. /\ cx[a] \in Contexts /\ op[a].fd = cx[a][1] /\ pc[a] = "context" /\ Unlocked(cx[a])
    BY <1>4 DEF DelEvent, Locks, TypeInv, ActorOK, Working, InCall
  <2>2. events[cx[a]] \ {op[a].event} \in SUBSET Events
    BY <2>1 DEF TypeInv, EventOK
  <2>3. PICK l \in {"handle", "task", "free"} : Return(a, l)
    BY <1>4 DEF DelEvent, Home
  <2>4. l \in Pc \ LockPc
    BY <2>3 DEF Pc, UserPc, LockPc
  <2> QED
    BY <1>4, <2>1, <2>2, <2>3, <2>4, ChangeAgree DEF DelEvent
<1>5. ASSUME Cancel(a) PROVE Agree'
  <2> DEFINE S == IF op[a].kind = "cancelAll" THEN events[cx[a]] ELSE {op[a].event}
  <2>1. /\ cx[a] \in Contexts /\ op[a].fd = cx[a][1] /\ pc[a] \notin LockPc /\ Unlocked(cx[a])
    BY <1>5 DEF Cancel, Locks, LockPc, TypeInv, ActorOK, Working, InCall
  <2>2. S \in SUBSET Events
    BY <1>5, <2>1 DEF Cancel, TypeInv, EventOK
  <2>3. /\ pc' = [pc EXCEPT ![a] = "trigger"] /\ cx' = cx /\ todo' = [todo EXCEPT ![a] = InOrder(S)]
        /\ Control(cx[a][1], events[cx[a]] \ S) /\ UNCHANGED <<events, failed>>
    BY <1>5, <2>1 DEF Cancel, Goto, eventVars
  <2>4. cx' = [cx EXCEPT ![a] = cx[a]]
    BY <2>3 DEF TypeInv, ActorOK
  <2> HIDE DEF S
  <2> QED
    BY <2>1, <2>2, <2>3, <2>4, TakeAgree
<1>6. ASSUME TriggerEvent(a) PROVE Agree'
  <2> DEFINE h == Head(todo[a])
             k == cx[a]
  <2>1. /\ k \in Contexts /\ pc[a] = "trigger" /\ todo[a] \in Todos /\ todo[a] # <<>> /\ h \in events[k]
    BY <1>6 DEF TriggerEvent, TypeInv, ActorOK, Working, LockPc
  <2>2. /\ events' = [events EXCEPT ![k] = @ \ {h}] /\ pc' = [pc EXCEPT ![a] = "count"]
        /\ todo' = [todo EXCEPT ![a] = Tail(todo[a])] /\ UNCHANGED <<armed, cx, failed>>
    BY <1>6 DEF TriggerEvent, Goto, epollVars, TypeInv, ActorOK
  <2>3. \A e : (\E i \in DOMAIN todo[a] : todo[a][i] = e)
                 <=> (e = h \/ \E i \in DOMAIN Tail(todo[a]) : Tail(todo[a])[i] = e)
    BY <2>1, TakeTodo
  <2> HIDE DEF h, k
  <2>4. ASSUME NEW b \in Actors, b # a, NEW d, NEW e PROVE ToTrigger(b, d, e)' <=> ToTrigger(b, d, e)
    BY <2>2, <2>4 DEF ToTrigger, TypeInv, ActorOK
  <2>5. ASSUME NEW d, NEW e
        PROVE  ToTrigger(a, d, e) <=> (ToTrigger(a, d, e)' \/ (d = k /\ e = h))
    <3>1. pc'[a] = "count" /\ cx'[a] = cx[a] /\ todo'[a] = Tail(todo[a]) /\ k = cx[a]
      BY <2>2 DEF TypeInv, ActorOK, k
    <3> QED
      BY <2>1, <2>3, <3>1 DEF ToTrigger, LockPc
  <2>6. ASSUME NEW d, NEW e PROVE Taken(d, e) <=> (Taken(d, e)' \/ (d = k /\ e = h))
    BY <2>4, <2>5 DEF Taken
  <2>7. ASSUME NEW d \in Contexts, NEW e PROVE (e \in events'[d]) <=> (e \in events[d] /\ ~(d = k /\ e = h))
    BY <2>1, <2>2 DEF TypeInv, EventOK
  <2> QED
    BY <2>2, <2>6, <2>7 DEF Agree
<1>7. ASSUME AbortTrigger(a) PROVE Agree'
  BY <1>7 DEF AbortTrigger, Agree
<1>8. ASSUME Count(a) PROVE Agree'
  <2>1. /\ pc[a] = "count" /\ UNCHANGED <<todo, events, armed, failed>>
        /\ \A b \in Actors : (b # a) => (pc'[b] = pc[b] /\ cx'[b] = cx[b])
        /\ \/ todo[a] = <<>> /\ pc'[a] \notin LockPc
           \/ pc'[a] = "trigger" /\ cx'[a] = cx[a]
    BY <1>8, HomeLock DEF Count, Return, Goto, epollVars, TypeInv, ActorOK
  <2>2. ASSUME NEW b \in Actors, NEW d, NEW e PROVE ToTrigger(b, d, e)' <=> ToTrigger(b, d, e)
    BY <2>1, <2>2 DEF ToTrigger, LockPc
  <2> QED
    BY <2>1, <2>2, AgreeFrame
<1> QED
  BY <1>1, <1>2, <1>3, <1>4, <1>5, <1>6, <1>7, <1>8 DEF CallStep

LEMMA UserStepAgree == ASSUME TypeInv, Agree, NEW a \in Actors, UserStep(a) \/ CallAddFiber(a) PROVE Agree'
<1>1. PICK k, fd, e, j : Call(a, k, fd, e, j)
  BY DEF UserStep, CallAddCb, CallOther, CallAddFiber
<1>2. PICK l \in {"context", "resize"} : Goto(a, l)
  BY <1>1 DEF Call
<1>3. ASSUME NEW b \in Actors, b # a PROVE cx'[b] = cx[b] /\ todo'[b] = todo[b]
  BY <1>1, <1>3 DEF Call, TypeInv, ActorOK
<1>4. pc[a] \notin LockPc /\ l \notin LockPc /\ UNCHANGED <<events, armed, failed>>
  BY <1>1, <1>2 DEF Call, UserPc, LockPc, eventVars, epollVars
<1> QED
  BY <1>2, <1>3, <1>4, GotoAgree

LEMMA ThreadStepAgree ==
    ASSUME OneContext, TypeInv, Agree, NEW t \in Threads, RunStep(t)
    PROVE  Agree'
<1>0. t \in Actors
  BY DEF Actors
<1>1. ASSUME NEW l, Goto(t, l), pc[t] \notin LockPc, l \notin LockPc,
             UNCHANGED <<cx, todo, events, armed, failed>>
      PROVE  Agree'
  BY <1>0, <1>1, GotoAgree
<1>2. ASSUME NEW j \in Jobs, ScanTake(t, j) PROVE Agree'
  BY <1>1, <1>2 DEF ScanTake, LockPc, eventVars, epollVars
<1>3. ASSUME NEW s \in {"hold", "done"}, Suspend(t, s) PROVE Agree'
  BY <1>1, <1>3 DEF Suspend, LockPc, eventVars, epollVars
<1>4. ASSUME ScanNone(t) \/ Leave(t) \/ AskPending(t) \/ AskStopping(t) \/ EpollWait(t) \/ HandleDone(t)
      PROVE  Agree'
  BY <1>1, <1>4 DEF ScanNone, Leave, AskPending, AskStopping, EpollWait, HandleDone, LockPc, eventVars, epollVars
<1>5. ASSUME NEW g \in got[t], Handle(t, g) PROVE Agree'
  <2>1. /\ g.cx \in Contexts /\ RealEvents(g) \in SUBSET Events /\ pc[t] \notin LockPc /\ Unlocked(g.cx)
    BY <1>0, <1>5 DEF Handle, RealEvents, LockPc, TypeInv, ActorOK
  <2>2. /\ pc' = [pc EXCEPT ![t] = "trigger"] /\ cx' = [cx EXCEPT ![t] = g.cx]
        /\ todo' = [todo EXCEPT ![t] = InOrder(RealEvents(g))]
        /\ Control(g.cx[1], events[g.cx] \ RealEvents(g)) /\ UNCHANGED <<events, failed>>
    BY <1>5 DEF Handle, Goto, eventVars
  <2> QED
    BY <1>0, <2>1, <2>2, TakeAgree
<1>6. ASSUME NEW g \in got[t], HandleStale(t, g) PROVE Agree'
  BY <1>6, AgreeFrame DEF HandleStale, eventVars, epollVars, ToTrigger
<1> QED
  BY <1>2, <1>3, <1>4, <1>5, <1>6 DEF RunStep

LEMMA AgreeStep == ASSUME OneContext, TypeInv, Agree, [Next]_vars PROVE Agree'
<1>1. ASSUME UNCHANGED <<eventVars, armed, actorVars, failed>> PROVE Agree'
  BY <1>1, AgreeFrame DEF eventVars, actorVars, ToTrigger
<1>2. CASE Stop
  BY <1>1, <1>2 DEF Stop, epollVars
<1>3. ASSUME NEW j \in Jobs, Submit(j) PROVE Agree'
  BY <1>1, <1>3 DEF Submit, epollVars
<1>4. ASSUME NEW fd \in Fds, HangUp(fd) PROVE Agree'
  BY <1>1, <1>4 DEF HangUp
<1>5. ASSUME NEW fd \in Fds, NEW e \in Events, BecomeReady(fd, e) PROVE Agree'
  BY <1>1, <1>5 DEF BecomeReady
<1>6. ASSUME NEW t \in Threads, Drain(t) PROVE Agree'
  BY <1>1, <1>6 DEF Drain
<1>7. CASE UNCHANGED vars
  BY <1>1, <1>7 DEF vars, epollVars
<1>8. Threads \subseteq Actors
  BY DEF Actors
<1> QED
  BY <1>2, <1>3, <1>4, <1>5, <1>6, <1>7, <1>8, CallStepAgree, UserStepAgree, ThreadStepAgree DEF Next, Halted

\* epoll watches exactly the events that are registered and that no thread is
\* about to trigger, as long as no context of a descriptor is built twice
\* (iomanager.cpp:135, 182, 216, 247, 368): whatever add, delete,
\* cancel and idle() race for, each leaves epoll with what it leaves in
\* FdContext::events, so no registered event is one that epoll will never report.
THEOREM EpollIsExact == OneContext /\ Spec => []KernelAgrees
<1> SUFFICES ASSUME OneContext PROVE Spec => []KernelAgrees
  OBVIOUS
<1>1. Init => Agree
  BY ContextParts DEF Init, Agree
<1>2. Init => TypeInv /\ Agree
  BY <1>1, TypeInit
<1>3. TypeInv /\ Agree /\ [Next]_vars => (TypeInv /\ Agree)'
  BY TypeStep, AgreeStep
<1>4. TypeInv /\ Agree => KernelAgrees
  BY AgreeImplies
<1> QED
  BY <1>2, <1>3, <1>4, PTL DEF Spec
-----------------------------------------------------------------------------
(* No event is lost between epoll and the threads                          *)

\* A thread has reports of epoll_wait only while it handles them.
Handling ==
    ~failed => \A t \in Threads :
        (got[t] # {}) => (pc[t] \in {"handle"} \cup LockPc /\ op[t].kind = "epoll")

\* One of the threads has been told that f is ready for e, or has failed.
Reported(f, e) == \E t \in Threads : \E g \in got[t] : g.cx[1] = f /\ g.ev \cap {e, "ERR"} # {}

\* What epoll watches and is there is on the ready list or reported.
Seen ==
    ~failed => \A f \in Fds : \A e \in armed[f] :
        (ready[f] \cap {e, "ERR"} # {}) => (f \in edges \/ Reported(f, e))

\* With one context for a descriptor a report is about that context.
LEMMA SeenImplies == OneContext /\ TypeInv /\ Agree /\ Seen => EventKept
<1> SUFFICES ASSUME OneContext, TypeInv, Agree, Seen, ~failed, NEW c \in Contexts,
                    NEW e \in events[c] \ InTrigger(c), ready[c[1]] \cap {e, "ERR"} # {}, c[1] \notin edges
             PROVE  \E t \in Threads : \E g \in got[t] : g.cx = c /\ g.ev \cap {e, "ERR"} # {}
  BY DEF EventKept
<1>1. c[1] \in Fds /\ e \in Events /\ ~Taken(c, e)
  BY ContextParts, TakenIs DEF TypeInv, EventOK
<1>2. e \in armed[c[1]]
  BY <1>1 DEF Agree
<1>3. PICK t \in Threads : \E g \in got[t] : g.cx[1] = c[1] /\ g.ev \cap {e, "ERR"} # {}
  BY <1>1, <1>2 DEF Seen, Reported
<1>4. PICK g \in got[t] : g.cx[1] = c[1] /\ g.ev \cap {e, "ERR"} # {}
  BY <1>3
<1>5. g.cx \in Contexts
  BY <1>3, <1>4 DEF TypeInv, ActorOK, Actors
<1>6. g.cx = c
  BY <1>4, <1>5, OtherContext
<1> QED
  BY <1>3, <1>4, <1>6

\* Reports of other descriptors are kept.
LEMMA ReportedFrame ==
    ASSUME NEW f, NEW e, Reported(f, e),
           \A t \in Threads : \A g \in got[t] : (g.cx[1] = f) => (g \in got'[t])
    PROVE  Reported(f, e)'
BY DEF Reported

\* epoll_ctl puts a descriptor that is there on the ready list.
LEMMA ControlSeen ==
    ASSUME TypeInv, Seen, NEW f \in Fds, NEW S \in SUBSET Events, Control(f, S), UNCHANGED <<ready, failed>>,
           \A t \in Threads : \A g \in got[t] : (g.cx[1] # f) => (g \in got'[t])
    PROVE  Seen'
<1> SUFFICES ASSUME ~failed, NEW h \in Fds, NEW e \in armed'[h], ready[h] \cap {e, "ERR"} # {}
             PROVE  h \in edges' \/ Reported(h, e)'
  BY DEF Seen
<1>1. /\ armed' = [armed EXCEPT ![f] = S]
      /\ edges' = IF S # {} /\ ready[f] \cap (S \cup {"ERR"}) # {} THEN edges \cup {f} ELSE edges \ {f}
  BY DEF Control
<1>2. CASE h = f
  <2>1. e \in S
    BY <1>1, <1>2 DEF TypeInv, EpollOK
  <2>2. ready[f] \cap (S \cup {"ERR"}) # {}
    BY <1>2, <2>1
  <2> QED
    BY <1>1, <1>2, <2>1, <2>2
<1>3. CASE h # f
  <2>1. e \in armed[h]
    BY <1>1, <1>3 DEF TypeInv, EpollOK
  <2>2. CASE h \in edges
    BY <1>1, <1>3, <2>2
  <2>3. CASE Reported(h, e)
    BY <1>3, <2>3, ReportedFrame
  <2> QED
    BY <2>1, <2>2, <2>3 DEF Seen
<1> QED
  BY <1>2, <1>3

\* A step that leaves epoll and what was reported alone.
LEMMA SeenFrame ==
    ASSUME Seen, UNCHANGED <<armed, ready, edges, got>>, failed => failed'
    PROVE  Seen'
BY DEF Seen, Reported

\* A step of one actor that leaves it without reports, or handling them.
LEMMA HandlingFrame ==
    ASSUME TypeInv, Handling, NEW a \in Actors, failed' = failed,
           \A b \in Actors : (b # a) => (pc'[b] = pc[b] /\ op'[b] = op[b] /\ got'[b] = got[b]),
           (a \in Threads /\ got'[a] # {}) => (pc'[a] \in {"handle"} \cup LockPc /\ op'[a].kind = "epoll")
    PROVE  Handling'
BY DEF Handling, Actors

\* An actor in a call, in a task or between tasks has no reports left.
LEMMA NoReports ==
    ASSUME TypeInv, Handling, ~failed, NEW t \in Threads,
           pc[t] \notin {"handle"} \cup LockPc \/ op[t].kind # "epoll"
    PROVE  got[t] = {}
BY DEF Handling

LEMMA CallStepHandling ==
    ASSUME TypeInv, Handling, NEW a \in Actors, CallStep(a)
    PROVE  Handling'
<1>1. ASSUME AbortTrigger(a) PROVE Handling'
  BY <1>1 DEF AbortTrigger, Handling
<1>2. ASSUME NEW l, Goto(a, l), UNCHANGED <<op, got, failed>>,
             ~failed => (a \in Threads => (l \in LockPc \/ got[a] = {}))
      PROVE  Handling'
  <2>1. pc' = [pc EXCEPT ![a] = l]
    BY <1>2 DEF Goto
  <2> QED
    BY <1>2, <2>1 DEF Handling, TypeInv, ActorOK, Actors
<1>3. ASSUME NEW l, Return(a, l), UNCHANGED <<got, failed>>,
             ~failed => (a \in Threads => (l = Home(a) \/ got[a] = {}))
      PROVE  Handling'
  <2>1. pc' = [pc EXCEPT ![a] = l] /\ op' = [op EXCEPT ![a] = NoOp]
    BY <1>3 DEF Return, Goto
  <2>2. ASSUME ~failed, NEW t \in Threads, got[t] # {}
        PROVE  pc'[t] \in {"handle"} \cup LockPc /\ op'[t].kind = "epoll"
    <3>1. t \in Actors /\ pc[t] \in {"handle"} \cup LockPc /\ op[t].kind = "epoll"
      BY <2>2 DEF Handling, Actors
    <3>2. CASE t # a
      BY <2>1, <3>1, <3>2 DEF TypeInv, ActorOK
    <3>3. CASE t = a
      <4>1. l = "handle"
        BY <1>3, <2>2, <3>1, <3>3 DEF Home
      <4> QED
        BY <2>1, <3>3, <4>1 DEF TypeInv, ActorOK, NoOp
    <3> QED
      BY <3>2, <3>3
  <2> QED
    BY <1>3, <2>2 DEF Handling
<1>4. ASSUME pc[a] \in {"context", "resize"}, ~failed, a \in Threads PROVE got[a] = {}
  <2>1. op[a].kind # "epoll"
    BY <1>4 DEF TypeInv, ActorOK, Working
  <2> QED
    BY <1>4, <2>1, NoReports
<1>5. ASSUME ContextResize(a) PROVE Handling'
  BY <1>2, <1>4, <1>5 DEF ContextResize
<1>6. ASSUME AddEvent(a) PROVE Handling'
  BY <1>3, <1>4, <1>6 DEF AddEvent, Locks
<1>7. ASSUME AddEventFails(a) \/ NotRegistered(a) \/ DelEvent(a) PROVE Handling'
  BY <1>3, <1>7 DEF AddEventFails, NotRegistered, DelEvent
<1>8. ASSUME Cancel(a) PROVE Handling'
  BY <1>2, <1>8 DEF Cancel, LockPc
<1>9. ASSUME TriggerEvent(a) PROVE Handling'
  BY <1>2, <1>9 DEF TriggerEvent, LockPc
<1>10. ASSUME Count(a) PROVE Handling'
  BY <1>2, <1>3, <1>10 DEF Count, LockPc
<1> QED
  BY <1>1, <1>5, <1>6, <1>7, <1>8, <1>9, <1>10 DEF CallStep
LEMMA UserStepHandling ==
    ASSUME TypeInv, Handling, NEW a \in Actors, UserStep(a) \/ CallAddFiber(a)
    PROVE  Handling'
<1>1. PICK k, fd, e, j : Call(a, k, fd, e, j)
  BY DEF UserStep, CallAddCb, CallOther, CallAddFiber
<1>2. /\ pc[a] \notin {"handle"} \cup LockPc /\ UNCHANGED <<got, failed>>
      /\ \A b \in Actors : (b # a) => (pc'[b] = pc[b] /\ op'[b] = op[b])
  BY <1>1 DEF Call, Goto, UserPc, LockPc, TypeInv, ActorOK
<1>3. (~failed /\ a \in Threads) => (got[a] = {})
  BY <1>2, NoReports
<1> QED
  BY <1>2, <1>3 DEF Handling, Actors

LEMMA RunStepHandling ==
    ASSUME TypeInv, Handling, NEW t \in Threads, RunStep(t)
    PROVE  Handling'
<1>0. t \in Actors
  BY DEF Actors
<1>1. ASSUME NEW l, Goto(t, l), UNCHANGED <<op, got, failed>>,
             (pc[t] \notin {"handle"} \cup LockPc) \/ (pc[t] = "handle" /\ got[t] = {})
      PROVE  Handling'
  <2>1. pc' = [pc EXCEPT ![t] = l]
    BY <1>1 DEF Goto
  <2>2. ~failed => (got[t] = {})
    BY <1>1, NoReports
  <2> QED
    BY <1>1, <2>1, <2>2 DEF Handling, TypeInv, ActorOK, Actors
<1>2. ASSUME NEW j \in Jobs, ScanTake(t, j) PROVE Handling'
  BY <1>1, <1>2 DEF ScanTake, LockPc
<1>3. ASSUME NEW s \in {"hold", "done"}, Suspend(t, s) PROVE Handling'
  BY <1>1, <1>3 DEF Suspend, LockPc
<1>4. ASSUME ScanNone(t) \/ Leave(t) \/ AskPending(t) \/ AskStopping(t) \/ HandleDone(t) PROVE Handling'
  BY <1>1, <1>4 DEF ScanNone, Leave, AskPending, AskStopping, HandleDone, LockPc
<1>5. ASSUME EpollWait(t) PROVE Handling'
  <2>1. /\ pc[t] = "wait" /\ pc' = [pc EXCEPT ![t] = "handle"] /\ UNCHANGED <<op, failed>>
        /\ \A b \in Actors : (b # t) => (got'[b] = got[b])
    BY <1>5 DEF EpollWait, Goto, TypeInv, ActorOK
  <2>2. op[t].kind = "epoll"
    BY <1>0, <2>1 DEF TypeInv, ActorOK, Working, InCall, LockPc
  <2> QED
    BY <1>0, <2>1, <2>2, HandlingFrame DEF TypeInv, ActorOK
<1>6. ASSUME NEW g \in got[t], HandleStale(t, g) PROVE Handling'
  <2>1. got' = [got EXCEPT ![t] = @ \ {g}] /\ UNCHANGED <<pc, op, failed>>
    BY <1>6 DEF HandleStale
  <2>2. \A b \in Threads : got'[b] \subseteq got[b]
    BY <2>1 DEF TypeInv, ActorOK, Actors
  <2> QED
    BY <2>1, <2>2 DEF Handling
<1>7. ASSUME NEW g \in got[t], Handle(t, g) PROVE Handling'
  <2>1. /\ pc[t] = "handle" /\ pc' = [pc EXCEPT ![t] = "trigger"] /\ UNCHANGED <<op, failed>>
        /\ \A b \in Actors : (b # t) => (got'[b] = got[b])
    BY <1>7 DEF Handle, Goto, TypeInv, ActorOK
  <2>2. op[t].kind = "epoll"
    BY <1>0, <2>1 DEF TypeInv, ActorOK, Working, InCall, LockPc
  <2> QED
    BY <1>0, <2>1, <2>2, HandlingFrame DEF TypeInv, ActorOK, LockPc
<1> QED
  BY <1>2, <1>3, <1>4, <1>5, <1>6, <1>7 DEF RunStep

\* The reports are where they belong.
LEMMA HandlingStep == ASSUME TypeInv, Handling, [Next]_vars PROVE Handling'
<1>1. ASSUME UNCHANGED <<actorVars, failed>> PROVE Handling'
  BY <1>1 DEF actorVars, Handling
<1>2. CASE Stop
  BY <1>1, <1>2 DEF Stop
<1>3. ASSUME NEW j \in Jobs, Submit(j) PROVE Handling'
  BY <1>1, <1>3 DEF Submit
<1>4. ASSUME NEW fd \in Fds, HangUp(fd) PROVE Handling'
  BY <1>1, <1>4 DEF HangUp
<1>5. ASSUME NEW fd \in Fds, NEW e \in Events, BecomeReady(fd, e) PROVE Handling'
  BY <1>1, <1>5 DEF BecomeReady
<1>6. ASSUME NEW t \in Threads, Drain(t) PROVE Handling'
  BY <1>1, <1>6 DEF Drain
<1>7. CASE UNCHANGED vars
  BY <1>1, <1>7 DEF vars
<1>8. Threads \subseteq Actors
  BY DEF Actors
<1> QED
  BY <1>2, <1>3, <1>4, <1>5, <1>6, <1>7, <1>8, CallStepHandling, UserStepHandling, RunStepHandling
     DEF Next, Halted

\* A call changes what is watched through epoll_ctl only.
LEMMA CallStepSeen ==
    ASSUME TypeInv, Seen, NEW a \in Actors, CallStep(a)
    PROVE  Seen'
<1>1. ASSUME ContextResize(a) \/ AddEventFails(a) \/ NotRegistered(a) \/ TriggerEvent(a) \/ Count(a)
      PROVE  Seen'
  BY <1>1, SeenFrame DEF ContextResize, AddEventFails, NotRegistered, TriggerEvent, Count, epollVars
<1>2. ASSUME AbortTrigger(a) PROVE Seen'
  BY <1>2 DEF AbortTrigger, Seen
<1>3. ASSUME NEW S \in SUBSET Events, cx[a] \in Contexts, Control(cx[a][1], S), UNCHANGED <<ready, failed, got>>
      PROVE  Seen'
  BY <1>3, ContextParts, ControlSeen
<1>4. ASSUME AddEvent(a) PROVE Seen'
  <2>1. /\ cx[a] \in Contexts /\ op[a].fd = cx[a][1] /\ op[a].event \in Events
    BY <1>4 DEF AddEvent, Locks, TypeInv, ActorOK, Working, InCall
  <2>2. events[cx[a]] \cup {op[a].event} \in SUBSET Events
    BY <2>1 DEF TypeInv, EventOK
  <2> QED
    BY <1>3, <1>4, <2>1, <2>2 DEF AddEvent
<1>5. ASSUME DelEvent(a) PROVE Seen'
  <2>1. /\ cx[a] \in Contexts /\ op[a].fd = cx[a][1]
    BY <1>5 DEF DelEvent, Locks, TypeInv, ActorOK, Working, InCall
  <2>2. events[cx[a]] \ {op[a].event} \in SUBSET Events
    BY <2>1 DEF TypeInv, EventOK
  <2> QED
    BY <1>3, <1>5, <2>1, <2>2 DEF DelEvent
<1>6. ASSUME Cancel(a) PROVE Seen'
  <2>1. /\ cx[a] \in Contexts /\ op[a].fd = cx[a][1]
    BY <1>6 DEF Cancel, Locks, TypeInv, ActorOK, Working, InCall
  <2>2. \A S : events[cx[a]] \ S \in SUBSET Events
    BY <2>1 DEF TypeInv, EventOK
  <2> QED
    BY <1>3, <1>6, <2>1, <2>2 DEF Cancel
<1> QED
  BY <1>1, <1>2, <1>4, <1>5, <1>6 DEF CallStep

\* What epoll_wait takes off the ready list is reported to the thread.
LEMMA EpollWaitSeen ==
    ASSUME TypeInv, Handling, Seen, NEW t \in Threads, EpollWait(t)
    PROVE  Seen'
<1> SUFFICES ASSUME ~failed, NEW f \in Fds, NEW e \in armed[f], ready[f] \cap {e, "ERR"} # {}
             PROVE  Reported(f, e)'
  BY DEF EpollWait, Seen
<1>1. t \in Actors /\ pc[t] = "wait"
  BY DEF EpollWait, Actors
<1>2. got[t] = {}
  BY <1>1, NoReports DEF LockPc
<1>3. CASE f \in edges
  <2> DEFINE g == [cx |-> <<f, ptr[f]>>, ev |-> ready[f] \cap (armed[f] \cup {"ERR"})]
  <2>1. g.ev \cap {e, "ERR"} # {} /\ g.ev # {} /\ g.cx[1] = f
    OBVIOUS
  <2>2. g \in got'[t]
    BY <1>1, <1>3, <2>1 DEF EpollWait, TypeInv, ActorOK
  <2> HIDE DEF g
  <2> QED
    BY <2>1, <2>2 DEF Reported
<1>4. CASE Reported(f, e)
  <2>1. \A b \in Threads : \A g \in got[b] : g \in got'[b]
    BY <1>1, <1>2 DEF EpollWait, TypeInv, ActorOK, Actors
  <2> QED
    BY <1>4, <2>1, ReportedFrame
<1> QED
  BY <1>3, <1>4 DEF Seen

\* What is dropped as stale reports nothing that is registered.
LEMMA HandleStaleSeen ==
    ASSUME OneContext, TypeInv, Agree, Seen, NEW t \in Threads, NEW r \in got[t], HandleStale(t, r)
    PROVE  Seen'
<1> SUFFICES ASSUME ~failed, NEW f \in Fds, NEW e \in armed[f], ready[f] \cap {e, "ERR"} # {}, f \notin edges
             PROVE  Reported(f, e)'
  BY DEF HandleStale, epollVars, Seen
<1>1. t \in Actors /\ r.cx \in Contexts /\ got' = [got EXCEPT ![t] = @ \ {r}] /\ Unlocked(r.cx)
      /\ events[r.cx] \cap RealEvents(r) = {}
  BY DEF HandleStale, TypeInv, ActorOK, Actors
<1>2. PICK b \in Threads : \E g \in got[b] : g.cx[1] = f /\ g.ev \cap {e, "ERR"} # {}
  BY DEF Seen, Reported
<1>3. PICK g \in got[b] : g.cx[1] = f /\ g.ev \cap {e, "ERR"} # {}
  BY <1>2
<1>4. e \in Events
  BY DEF TypeInv, EpollOK
<1>5. ASSUME r.cx[1] = f PROVE e \in events[r.cx]
  BY <1>1, <1>4, <1>5 DEF Agree
<1>6. ASSUME g = r PROVE FALSE
  BY <1>3, <1>4, <1>5, <1>6, <1>1 DEF RealEvents
<1>7. g \in got'[b]
  BY <1>1, <1>2, <1>3, <1>6 DEF TypeInv, ActorOK, Actors
<1> QED
  BY <1>2, <1>3, <1>7 DEF Reported

LEMMA RunStepSeen ==
    ASSUME OneContext, TypeInv, Agree, Handling, Seen, NEW t \in Threads, RunStep(t)
    PROVE  Seen'
<1>1. ASSUME NEW j \in Jobs, ScanTake(t, j) PROVE Seen'
  BY <1>1, SeenFrame DEF ScanTake, epollVars
<1>2. ASSUME NEW s \in {"hold", "done"}, Suspend(t, s) PROVE Seen'
  BY <1>2, SeenFrame DEF Suspend, epollVars
<1>3. ASSUME ScanNone(t) \/ Leave(t) \/ AskPending(t) \/ AskStopping(t) \/ HandleDone(t) PROVE Seen'
  BY <1>3, SeenFrame DEF ScanNone, Leave, AskPending, AskStopping, HandleDone, epollVars
<1>4. ASSUME NEW g \in got[t], Handle(t, g) PROVE Seen'
  <2>1. t \in Actors /\ g.cx \in Contexts
    BY <1>4 DEF TypeInv, ActorOK, Actors
  <2>2. events[g.cx] \ RealEvents(g) \in SUBSET Events /\ g.cx[1] \in Fds
    BY <2>1, ContextParts DEF TypeInv, EventOK
  <2>3. \A b \in Threads : \A r \in got[b] : (r.cx[1] # g.cx[1]) => (r \in got'[b])
    BY <1>4, <2>1 DEF Handle, TypeInv, ActorOK, Actors
  <2> QED
    BY <1>4, <2>2, <2>3, ControlSeen DEF Handle
<1> QED
  BY <1>1, <1>2, <1>3, <1>4, EpollWaitSeen, HandleStaleSeen DEF RunStep

LEMMA SeenStep ==
    ASSUME OneContext, TypeInv, Agree, Handling, Seen, [Next]_vars
    PROVE  Seen'
<1>1. CASE Stop
  BY <1>1, SeenFrame DEF Stop, epollVars, actorVars
<1>2. ASSUME NEW j \in Jobs, Submit(j) PROVE Seen'
  BY <1>2, SeenFrame DEF Submit, epollVars, actorVars
<1>3. ASSUME NEW a \in Actors, UserStep(a) \/ CallAddFiber(a) PROVE Seen'
  <2>1. PICK k, fd, e, j : Call(a, k, fd, e, j)
    BY <1>3 DEF UserStep, CallAddCb, CallOther, CallAddFiber
  <2> QED
    BY <2>1, SeenFrame DEF Call, epollVars
<1>4. ASSUME NEW fd \in Fds, HangUp(fd) PROVE Seen'
  <2>1. /\ ready' = [ready EXCEPT ![fd] = @ \cup {"ERR"}] /\ UNCHANGED <<armed, got, failed>>
        /\ edges' = IF armed[fd] # {} THEN edges \cup {fd} ELSE edges
    BY <1>4 DEF HangUp, actorVars
  <2>2. ASSUME NEW f \in Fds, f # fd PROVE ready'[f] = ready[f]
    BY <2>1, <2>2 DEF TypeInv, EpollOK
  <2> QED
    BY <2>1, <2>2 DEF Seen, Reported
<1>5. ASSUME NEW fd \in Fds, NEW n \in Events, BecomeReady(fd, n) PROVE Seen'
  <2>1. /\ ready' = [ready EXCEPT ![fd] = @ \cup {n}] /\ UNCHANGED <<armed, got, failed>>
        /\ edges' = IF n \in armed[fd] THEN edges \cup {fd} ELSE edges
    BY <1>5 DEF BecomeReady, actorVars
  <2>2. ASSUME NEW f \in Fds, NEW e \in armed[f], f # fd \/ (e # n)
        PROVE  ready'[f] \cap {e, "ERR"} = ready[f] \cap {e, "ERR"}
    BY <2>1, <2>2 DEF TypeInv, EpollOK, Events
  <2> QED
    BY <2>1, <2>2 DEF Seen, Reported
<1>6. ASSUME NEW t \in Threads, Drain(t) PROVE Seen'
  <2>1. UNCHANGED <<armed, edges, got, failed>> /\ \A f \in Fds : ready'[f] \subseteq ready[f]
    BY <1>6 DEF Drain, actorVars, TypeInv, EpollOK
  <2> QED
    BY <2>1 DEF Seen, Reported
<1>7. CASE UNCHANGED vars
  BY <1>7, SeenFrame DEF vars, epollVars, actorVars
<1>8. Threads \subseteq Actors
  BY DEF Actors
<1> QED
  BY <1>1, <1>2, <1>3, <1>4, <1>5, <1>6, <1>7, <1>8, CallStepSeen, RunStepSeen DEF Next, Halted

\* No event is lost between epoll and the threads that share it, for any
\* number of threads, jobs and descriptors, while no context of a descriptor
\* is built twice (iomanager.cpp:309, 346, 364).  The argument is about epoll
\* alone: whoever changes what a descriptor is watched for calls epoll_ctl,
\* which puts it back on the ready list, and what a thread drops as stale
\* is not watched, because it is not registered (EpollIsExact).
THEOREM NoEventLost == OneContext /\ Spec => []EventKept
<1> SUFFICES ASSUME OneContext PROVE Spec => []EventKept
  OBVIOUS
<1> DEFINE Inv == TypeInv /\ Agree /\ Handling /\ Seen
<1>1. Init => Agree
  BY ContextParts DEF Init, Agree
<1>2. Init => Handling /\ Seen
  BY DEF Init, Handling, Seen, Actors
<1>3. Init => Inv
  BY <1>1, <1>2, TypeInit
<1>4. Inv /\ [Next]_vars => Inv'
  BY TypeStep, AgreeStep, HandlingStep, SeenStep
<1>5. Inv => EventKept
  BY SeenImplies
<1> QED
  BY <1>3, <1>4, <1>5, PTL DEF Spec
=============================================================================
