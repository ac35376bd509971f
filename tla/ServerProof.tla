----------------------------- MODULE ServerProof -----------------------------
(***************************************************************************)
(* Proofs about the server process, for any number of descriptors, workers *)
(* and rooms and any capacity of the queue: the types of the variables, the*)
(* sizes of rooms, and what init_server() and server_finalize() leave.     *)
(*                                                                         *)
(* A worker's socket and a room's seats mean something in some states only *)
(* (ThreadShape); a request in the queue has the size of a room although   *)
(* a packet need not (QueueShape), which is why no room is of size zero.   *)
(***************************************************************************)
EXTENDS ServerProps, SequenceTheorems, TLAPS

Asks == [fd : Fds, size : RoomSizes]

QueueShape ==
  /\ DOMAIN queue = MsgTypes
  /\ queue[MSG_WRK] \in Seq(Fds)
  /\ queue[MSG_JOIN] \in Seq(Asks) /\ queue[MSG_CREATE] \in Seq(Asks)

Holding == {"RECV", "PROC", "ERROR"}
Empty   == {"NEW", "START", "INIT", "EXIT"}

ThreadShape ==
  /\ IF mainpc = "post" THEN mainfd \in Fds ELSE mainfd = NoFd
  /\ \A w \in Workers : IF wstate[w] \in Holding THEN wsock[w] \in Fds ELSE wsock[w] = NoFd
  /\ \A r \in Rooms : /\ rstate[r] \in Empty => rseats[r] = <<>>
                      /\ rstate[r] = "WAIT" => /\ rsize[r] \in RoomSizes
                                               /\ Len(rseats[r]) \in 1 .. rsize[r] - 1
                      /\ rstate[r] = "GAME" => Len(rseats[r]) = rsize[r]

\* Once the pools are launched no thread is about to start.
Launched == phase = "up" => AllInSync

ServerInv == TypeOK /\ QueueShape /\ ThreadShape /\ Launched

-----------------------------------------------------------------------------
(* The operators.                                                          *)

\* Only a request has a type that goes to the rooms.
LEMMA RequestTypes ==
  ASSUME NEW p \in Requests \cup Garbage \cup {NoRequest}
  PROVE  /\ p.size \in {0} \cup RoomSizes
         /\ IsRequest(p) => p.size \in RoomSizes /\ p = Request(p.type, p.size)
  BY ServerAssumption DEF Requests, Request, Disconnect, Unexpected, NoRequest, IsRequest, MSG_JOIN, MSG_CREATE,
     RoomSizes

LEMMA LinkTypes == \A l \in Links : AfterSend(l) \in Links /\ "down" \in Links
  BY DEF AfterSend, Links

\* Taking a message and posting one.
LEMMA TakeShape ==
  ASSUME QueueShape, NEW t \in MsgTypes, queue[t] # <<>>, queue' = MsgRcv(queue, t)
  PROVE  /\ QueueShape'
         /\ queue'[t] = Tail(queue[t]) /\ \A u \in MsgTypes \ {t} : queue'[u] = queue[u]
         /\ Head(queue[t]) \in IF t = MSG_WRK THEN Fds ELSE Asks
<1>1. /\ DOMAIN queue' = MsgTypes /\ queue'[t] = Tail(queue[t])
      /\ \A u \in MsgTypes \ {t} : queue'[u] = queue[u]
  BY DEF QueueShape, MsgRcv
<1>2. \A S : queue[t] \in Seq(S) => Head(queue[t]) \in S /\ Tail(queue[t]) \in Seq(S)
  BY HeadTailProperties
<1>3. t = MSG_WRK \/ t = MSG_JOIN \/ t = MSG_CREATE
  BY DEF MsgTypes
<1>4. MSG_WRK # MSG_JOIN /\ MSG_WRK # MSG_CREATE /\ MSG_JOIN # MSG_CREATE
      /\ MSG_WRK \in MsgTypes /\ MSG_JOIN \in MsgTypes /\ MSG_CREATE \in MsgTypes
  BY DEF MSG_WRK, MSG_JOIN, MSG_CREATE, MsgTypes
<1> QED
  BY <1>1, <1>2, <1>3, <1>4 DEF QueueShape

LEMMA PostShape ==
  ASSUME QueueShape, NEW t \in MsgTypes, NEW m \in (IF t = MSG_WRK THEN Fds ELSE Asks), NEW size,
         Post(t, m, size)
  PROVE  /\ QueueShape'
         /\ \/ queueUp /\ queue'[t] = Append(queue[t], m)
            \/ ~queueUp /\ queue'[t] = queue[t]
         /\ \A u \in MsgTypes \ {t} : queue'[u] = queue[u]
<1>1. CASE ~queueUp /\ queue' = queue
  BY <1>1 DEF QueueShape
<1>2. CASE queueUp /\ queue' = MsgSnd(queue, t, m)
  <2>1. /\ DOMAIN queue' = MsgTypes /\ queue'[t] = Append(queue[t], m)
        /\ \A u \in MsgTypes \ {t} : queue'[u] = queue[u]
    BY <1>2 DEF QueueShape, MsgSnd
  <2>2. \A S : queue[t] \in Seq(S) /\ m \in S => Append(queue[t], m) \in Seq(S)
    BY AppendProperties
  <2>3. t = MSG_WRK \/ t = MSG_JOIN \/ t = MSG_CREATE
    BY DEF MsgTypes
  <2>4. MSG_WRK # MSG_JOIN /\ MSG_WRK # MSG_CREATE /\ MSG_JOIN # MSG_CREATE
        /\ MSG_WRK \in MsgTypes /\ MSG_JOIN \in MsgTypes /\ MSG_CREATE \in MsgTypes
    BY DEF MSG_WRK, MSG_JOIN, MSG_CREATE, MsgTypes
  <2> QED
    BY <1>2, <2>1, <2>2, <2>3, <2>4 DEF QueueShape
<1> QED
  BY <1>1, <1>2 DEF Post

\* The requests are well typed for TypeOK, too.
LEMMA AsksAreJoinMsgs == Seq(Asks) \subseteq Seq(JoinMsgs)
  BY SeqMonotonic DEF Asks, JoinMsgs

LEMMA EmptyShape ==
  ASSUME queue' = EmptyQueue
  PROVE  QueueShape' /\ \A t \in MsgTypes : queue'[t] = <<>>
  BY DEF QueueShape, EmptyQueue, MsgTypes

\* TypeOK without the queue, which follows from QueueShape.
ThreadTypes ==
  /\ phase \in Boot \cup Finalizing \cup {"up", "down"}
  /\ mainpc \in {"accept", "post"} /\ mainfd \in Fds \cup {NoFd}
  /\ wstate \in [Workers -> {"NEW", "START", "WAIT", "RECV", "PROC", "ERROR", "FIN"}]
  /\ wsock \in [Workers -> Fds \cup {NoFd}]
  /\ wpack \in [Workers -> Requests \cup Garbage \cup {NoRequest}]
  /\ rstate \in [Rooms -> {"NEW", "START", "INIT", "WAIT", "GAME", "FIN", "EXIT"}]
  /\ rsize \in [Rooms -> {0} \cup RoomSizes]
  /\ rseats \in [Rooms -> Seq(Fds)]
  /\ queueUp \in BOOLEAN

ConnTypes ==
  /\ link \in [Fds -> Links]
  /\ asked \in [Fds -> Requests \cup {NoRequest}]
  /\ unread \in [Fds -> BOOLEAN]

LEMMA SplitTypes == QueueShape => (TypeOK <=> ThreadTypes /\ ConnTypes)
  BY AsksAreJoinMsgs DEF TypeOK, ThreadTypes, ConnTypes, QueueShape

LEMMA Processes == Boot \cup Finalizing \cup {"up", "down"}
                     = {"socket", "bind", "msgget", "units", "pools", "launch", "up",
                        "failing", "joining", "again", "down"}
  BY DEF Boot, Finalizing

-----------------------------------------------------------------------------
(* The invariant.                                                          *)

LEMMA InitServerInv == Init => ServerInv
<1> SUFFICES ASSUME Init PROVE ServerInv
  OBVIOUS
<1> USE ServerAssumption
<1>1. QueueShape
  BY DEF Init, QueueShape, EmptyQueue, MsgTypes, MSG_WRK, MSG_JOIN, MSG_CREATE
<1>2. ThreadTypes /\ ConnTypes
  <2>1. ThreadTypes
    <3>1. /\ phase = "down" /\ mainpc = "accept" /\ mainfd = NoFd /\ queueUp \in BOOLEAN
          /\ wstate = [w \in Workers |-> "NEW"] /\ wsock = [w \in Workers |-> NoFd]
          /\ wpack = [w \in Workers |-> NoRequest]
          /\ rstate = [r \in Rooms |-> "NEW"] /\ rsize = [r \in Rooms |-> 0]
          /\ rseats = [r \in Rooms |-> <<>>]
      BY DEF Init
    <3> QED
      BY <3>1 DEF ThreadTypes
  <2> QED
    BY <2>1 DEF Init, ConnTypes, Links
<1>3. ThreadShape /\ Launched
  BY DEF Init, ThreadShape, Launched, Holding, Empty
<1> QED
  BY <1>1, <1>2, <1>3, SplitTypes DEF ServerInv

\* A process that has ended leaves nothing behind but the queue.
LEMMA EndsInv ==
  ASSUME ServerInv, ProcessEnds, KeepQueue \/ RemoveQueue
  PROVE  ServerInv'
<1> USE ServerAssumption
<1>1. QueueShape'
  BY EmptyShape DEF ServerInv, QueueShape, KeepQueue, RemoveQueue
<1>2. ThreadTypes' /\ ConnTypes'
  <2>1. queueUp' \in BOOLEAN
    BY DEF ServerInv, TypeOK, KeepQueue, RemoveQueue
  <2> QED
    BY <2>1 DEF ProcessEnds, NoThreads, ThreadTypes, ConnTypes, Links
<1>3. ThreadShape' /\ Launched'
  BY DEF ProcessEnds, NoThreads, ThreadShape, Launched, Holding, Empty
<1>4. TypeOK'
  BY <1>1, <1>2, SplitTypes, PTL
<1> QED
  BY <1>1, <1>3, <1>4 DEF ServerInv

\* Steps of the start-up and of server_finalize() that leave the process alive.
LEMMA BootInv ==
  ASSUME ServerInv, BootStep \/ Start \/ Signal \/ SignalAgain \/ AcceptFails, phase' # "down"
  PROVE  ServerInv'
<1>1. CASE Launch
  <2>1. QueueShape' /\ ThreadShape' /\ Launched'
    BY <1>1 DEF Launch, ServerInv, QueueShape, ThreadShape, Launched, Holding, Empty, TypeOK, main
  <2>2. ThreadTypes' /\ ConnTypes'
    BY <1>1 DEF Launch, ServerInv, TypeOK, ThreadTypes, ConnTypes, main, conn
  <2> QED
    BY <2>1, <2>2, SplitTypes, PTL DEF ServerInv
<1>2. CASE ~Launch
  <2>1. /\ UNCHANGED <<main, worker, room, conn>>
        /\ phase' \in {"socket", "bind", "msgget", "units", "pools", "launch", "up",
                       "failing", "joining", "again"}
        /\ queueUp' \in BOOLEAN /\ (queue' = queue \/ queue' = EmptyQueue)
        /\ phase' = "up" => AllInSync
    BY <1>2 DEF BootStep, Start, Signal, SignalAgain, AcceptFails, OpenSocket, OpenQueue, LoadUnits, MakePools,
       InSync, ErrorExit, ProcessEnds, Finalize, RemoveQueue, KeepQueue, ServerInv, TypeOK
  <2>2. QueueShape'
    BY <2>1, EmptyShape DEF ServerInv, QueueShape
  <2>3. ThreadShape' /\ Launched'
    BY <2>1 DEF ServerInv, ThreadShape, Launched, AllInSync, WorkersInSync, main, worker, room
  <2>4. ThreadTypes' /\ ConnTypes'
    BY <2>1, Processes DEF ServerInv, TypeOK, ThreadTypes, ConnTypes, main, worker, room, conn
  <2> QED
    BY <2>2, <2>3, <2>4, SplitTypes, PTL DEF ServerInv
<1> QED
  BY <1>1, <1>2

\* The main thread and the clients.
LEMMA MainInv ==
  ASSUME ServerInv, PostConnection \/ \E f \in Fds : Accept(f) \/ Ask(f) \/ Leave(f)
  PROVE  ServerInv'
<1> USE ServerAssumption
<1>1. CASE PostConnection
  <2>1. mainfd \in Fds /\ Post(MSG_WRK, mainfd, ConSize) /\ MSG_WRK \in MsgTypes
    BY <1>1 DEF PostConnection, ConType, ServerInv, ThreadShape, MsgTypes
  <2>2. QueueShape'
    BY <2>1, PostShape DEF ServerInv
  <2>3. ThreadTypes' /\ ConnTypes' /\ ThreadShape' /\ Launched'
    BY <1>1 DEF PostConnection, ServerInv, TypeOK, ThreadTypes, ConnTypes, ThreadShape, Launched, AllInSync,
       WorkersInSync, worker, room, conn
  <2> QED
    BY <2>2, <2>3, SplitTypes, PTL DEF ServerInv
<1>2. ASSUME NEW f \in Fds, Accept(f) \/ Ask(f) \/ Leave(f)
      PROVE  ServerInv'
  <2>1. QueueShape' /\ ThreadShape' /\ Launched'
    BY <1>2 DEF Accept, Ask, Leave, ServerInv, QueueShape, ThreadShape, Launched, AllInSync, WorkersInSync,
       main, worker, room
  <2>2. ThreadTypes'
    BY <1>2 DEF Accept, Ask, Leave, ServerInv, TypeOK, ThreadTypes, main, worker, room
  <2>3. ConnTypes'
    <3>1. /\ link \in [Fds -> Links] /\ asked \in [Fds -> Requests \cup {NoRequest}]
          /\ unread \in [Fds -> BOOLEAN] /\ "up" \in Links /\ LeaveModes \subseteq Links
      BY DEF ServerInv, TypeOK, Links
    <3>2. CASE Accept(f)
      BY <3>1, <3>2 DEF Accept, ConnTypes
    <3>3. CASE Ask(f)
      BY <3>1, <3>3 DEF Ask, ConnTypes
    <3>4. CASE Leave(f)
      BY <3>1, <3>4 DEF Leave, ConnTypes
    <3> QED
      BY <1>2, <3>2, <3>3, <3>4
  <2> QED
    BY <2>1, <2>2, <2>3, SplitTypes, PTL DEF ServerInv
<1> QED
  BY <1>1, <1>2

LEMMA WorkersInv ==
  ASSUME ServerInv, NEW w \in Workers, WorkerStep(w)
  PROVE  ServerInv'
<1> USE ServerAssumption
<1>1. /\ \A v \in Workers \ {w} : wstate'[v] = wstate[v] /\ wsock'[v] = wsock[v] /\ wpack'[v] = wpack[v]
      /\ UNCHANGED <<phase, main, room, queueUp, asked>>
  BY DEF WorkerStep, WorkerBegin, WorkerTake, WorkerRecv, WorkerPost, AfterPost, WorkerDrop, Buffers, LetGo,
     AfterDrop, ServerInv,
     TypeOK, conn
<1>2. wstate'[w] \in {"WAIT", "RECV", "PROC", "ERROR", "FIN"}
      /\ wstate' \in [Workers -> {"NEW", "START", "WAIT", "RECV", "PROC", "ERROR", "FIN"}]
  BY DEF WorkerStep, WorkerBegin, WorkerTake, WorkerRecv, WorkerPost, AfterPost, WorkerDrop, AfterDrop,
     ServerInv, TypeOK
<1>3. /\ wpack' \in [Workers -> Requests \cup Garbage \cup {NoRequest}]
      /\ link' \in [Fds -> Links] /\ unread' \in [Fds -> BOOLEAN]
  <2>1. /\ wpack \in [Workers -> Requests \cup Garbage \cup {NoRequest}]
        /\ link \in [Fds -> Links] /\ unread \in [Fds -> BOOLEAN] /\ "down" \in Links
        /\ asked \in [Fds -> Requests \cup {NoRequest}]
    BY DEF ServerInv, TypeOK, Links
  <2>2. wstate[w] = "RECV" => wsock[w] \in Fds
    BY DEF ServerInv, ThreadShape, Holding
  <2>3. CASE WorkerRecv(w)
    <3> DEFINE f == wsock[w]
    <3>1. f \in Fds /\ asked[f] \in Requests \cup {NoRequest}
      BY <2>1, <2>2, <2>3 DEF WorkerRecv
    <3>2. /\ wpack' = wpack \/ wpack' = [wpack EXCEPT ![w] = asked[f]]
          /\ unread' = unread \/ unread' = [unread EXCEPT ![f] = FALSE]
          /\ link' = link \/ link' = [link EXCEPT ![f] = IF @ = "rst" THEN "down" ELSE @]
      BY <2>3 DEF WorkerRecv, Buffers
    <3> HIDE DEF f
    <3>3. wpack' \in [Workers -> Requests \cup Garbage \cup {NoRequest}]
      BY <2>1, <3>1, <3>2
    <3>4. link' \in [Fds -> Links]
      BY <2>1, <3>1, <3>2
    <3>5. unread' \in [Fds -> BOOLEAN]
      BY <2>1, <3>1, <3>2
    <3> QED
      BY <3>3, <3>4, <3>5
  <2>4. CASE WorkerBegin(w)
    BY <2>1, <2>4 DEF WorkerBegin, conn
  <2>5. CASE WorkerTake(w) \/ WorkerPost(w) \/ WorkerDrop(w)
    BY <2>1, <2>5 DEF WorkerTake, WorkerPost, AfterPost, WorkerDrop, conn
  <2> QED
    BY <2>3, <2>4, <2>5 DEF WorkerStep
<1>4. /\ QueueShape'
      /\ wsock' \in [Workers -> Fds \cup {NoFd}]
      /\ IF wstate'[w] \in Holding THEN wsock'[w] \in Fds ELSE wsock'[w] = NoFd
  <2>0. /\ wstate \in [Workers -> {"NEW", "START", "WAIT", "RECV", "PROC", "ERROR", "FIN"}]
        /\ wsock \in [Workers -> Fds \cup {NoFd}]
        /\ IF wstate[w] \in Holding THEN wsock[w] \in Fds ELSE wsock[w] = NoFd
        /\ QueueShape
    BY DEF ServerInv, TypeOK, ThreadShape
  <2>1. CASE WorkerBegin(w) \/ (WorkerTake(w) /\ ~queueUp) \/ WorkerRecv(w)
    <3>1. UNCHANGED <<queue, wsock>>
      BY <2>1 DEF WorkerBegin, WorkerTake, WorkerRecv
    <3> QED
      BY <2>0, <2>1, <3>1 DEF WorkerBegin, WorkerTake, WorkerRecv, Holding, QueueShape
  <2>2. CASE WorkerTake(w) /\ queueUp
    <3>1. /\ queue[MSG_WRK] # <<>> /\ queue' = MsgRcv(queue, MSG_WRK) /\ MSG_WRK \in MsgTypes
          /\ wsock' = [wsock EXCEPT ![w] = Head(queue[MSG_WRK])]
          /\ wstate' = [wstate EXCEPT ![w] = "RECV"]
      BY <2>2 DEF WorkerTake, MsgTypes
    <3>2. QueueShape' /\ Head(queue[MSG_WRK]) \in Fds
      BY <2>0, <3>1, TakeShape
    <3> QED
      BY <2>0, <3>1, <3>2 DEF Holding
  <2>3. CASE WorkerPost(w)
    <3> DEFINE m == [fd |-> wsock[w], size |-> wpack[w].size]
    <3>1. /\ wpack[w] \in Requests \cup Garbage \cup {NoRequest} /\ IsRequest(wpack[w])
          /\ Post(wpack[w].type, m, JoinSize) /\ wsock[w] \in Fds
      BY <2>0, <2>3 DEF WorkerPost, AfterPost, ServerInv, TypeOK, Holding
    <3>2. m \in Asks /\ wpack[w].type \in MsgTypes \ {MSG_WRK}
      BY <3>1, RequestTypes DEF Asks, IsRequest, MsgTypes, MSG_WRK, MSG_JOIN, MSG_CREATE
    <3>3. QueueShape'
      <4> HIDE DEF m
      <4> QED
        BY <2>0, <3>1, <3>2, PostShape
    <3> QED
      BY <2>0, <2>3, <3>3 DEF WorkerPost, AfterPost, LetGo, AfterDrop, Holding
  <2>4. CASE WorkerDrop(w)
    BY <2>0, <2>4 DEF WorkerDrop, LetGo, AfterDrop, Holding, QueueShape
  <2> QED
    BY <2>1, <2>2, <2>3, <2>4 DEF WorkerStep
<1>5. ThreadTypes' /\ ConnTypes'
  BY <1>1, <1>2, <1>3, <1>4 DEF ServerInv, TypeOK, ThreadTypes, ConnTypes, main, room
<1>6. ThreadShape' /\ Launched'
  BY <1>1, <1>2, <1>4 DEF ServerInv, ThreadShape, Launched, AllInSync, WorkersInSync, main, room
<1> QED
  BY <1>4, <1>5, <1>6, SplitTypes, PTL DEF ServerInv

LEMMA RoomsInv ==
  ASSUME ServerInv, NEW r \in Rooms, RoomStep(r)
  PROVE  ServerInv'
<1> USE ServerAssumption
<1>1. /\ \A s \in Rooms \ {r} : rstate'[s] = rstate[s] /\ rsize'[s] = rsize[s] /\ rseats'[s] = rseats[s]
      /\ UNCHANGED <<phase, main, worker, queueUp>>
  BY DEF RoomStep, RoomBegin, RoomFirst, RoomNext, RoomGone, RoomClose, ServerInv, TypeOK
<1>2. rstate'[r] \in {"INIT", "WAIT", "GAME", "FIN", "EXIT"}
      /\ rstate' \in [Rooms -> {"NEW", "START", "INIT", "WAIT", "GAME", "FIN", "EXIT"}]
  BY DEF RoomStep, RoomBegin, RoomFirst, RoomNext, RoomGone, RoomClose, ServerInv, TypeOK
<1>3. ConnTypes'
  <2>1. CASE RoomFirst(r)
    <3>1. queue[RoomMsgType(queue)] # <<>> /\ RoomMsgType(queue) \in MsgTypes \ {MSG_WRK}
      BY <2>1 DEF RoomFirst, HasRoomMsg, RoomMsgType, MsgTypes, MSG_WRK, MSG_JOIN, MSG_CREATE
    <3>2. link' \in [Fds -> Links]
      BY <2>1, LinkTypes DEF RoomFirst, ServerInv, TypeOK
    <3> QED
      BY <2>1, <3>2 DEF RoomFirst, ServerInv, TypeOK, ConnTypes
  <2>2. CASE RoomClose(r)
    BY <2>2 DEF RoomClose, ServerInv, TypeOK, ConnTypes, Links
  <2>3. CASE RoomBegin(r) \/ RoomNext(r) \/ RoomGone(r)
    BY <2>3 DEF RoomBegin, RoomNext, RoomGone, ServerInv, TypeOK, ConnTypes, conn
  <2> QED
    BY <2>1, <2>2, <2>3 DEF RoomStep
<1>4. /\ QueueShape'
      /\ rsize' \in [Rooms -> {0} \cup RoomSizes] /\ rseats' \in [Rooms -> Seq(Fds)]
      /\ rstate'[r] \in Empty => rseats'[r] = <<>>
      /\ rstate'[r] = "WAIT" => rsize'[r] \in RoomSizes /\ Len(rseats'[r]) \in 1 .. rsize'[r] - 1
      /\ rstate'[r] = "GAME" => Len(rseats'[r]) = rsize'[r]
  <2>0. /\ rsize \in [Rooms -> {0} \cup RoomSizes] /\ rseats \in [Rooms -> Seq(Fds)] /\ QueueShape
        /\ rstate \in [Rooms -> {"NEW", "START", "INIT", "WAIT", "GAME", "FIN", "EXIT"}]
        /\ rstate[r] \in Empty => rseats[r] = <<>>
        /\ rstate[r] = "WAIT" => rsize[r] \in RoomSizes /\ Len(rseats[r]) \in 1 .. rsize[r] - 1
    BY DEF ServerInv, TypeOK, ThreadShape
  <2>1. CASE RoomFirst(r)
    <3> DEFINE t == RoomMsgType(queue)
               m == Head(queue[t])
    <3>1. queue[t] # <<>> /\ t \in MsgTypes /\ t # MSG_WRK
      BY <2>1 DEF RoomFirst, HasRoomMsg, RoomMsgType, MsgTypes, MSG_WRK, MSG_JOIN, MSG_CREATE
    <3>2. /\ queue' = MsgRcv(queue, t) /\ rseats' = [rseats EXCEPT ![r] = <<m.fd>>]
          /\ rsize' = [rsize EXCEPT ![r] = m.size] /\ rstate'[r] \in {"WAIT", "FIN"}
      BY <2>0, <2>1 DEF RoomFirst
    <3>3. QueueShape' /\ m \in Asks
      BY <2>0, <3>1, <3>2, TakeShape
    <3>4. m.fd \in Fds /\ m.size \in RoomSizes /\ <<m.fd>> \in Seq(Fds) /\ Len(<<m.fd>>) = 1
      BY <3>3 DEF Asks
    <3>5. \A n \in RoomSizes : 1 \in 1 .. n - 1
      BY DEF RoomSizes
    <3> HIDE DEF m, t
    <3> QED
      BY <2>0, <3>2, <3>3, <3>4, <3>5 DEF Empty
  <2>2. CASE RoomNext(r)
    <3>1. PICK t \in NextTypes : /\ queue[t] # <<>> /\ queue' = MsgRcv(queue, t)
                                 /\ rseats' = [rseats EXCEPT ![r] = Append(@, Head(queue[t]).fd)]
      BY <2>2 DEF RoomNext
    <3>2. t \in MsgTypes /\ t # MSG_WRK
      BY DEF NextTypes, MsgTypes, MSG_WRK, MSG_JOIN
    <3>3. QueueShape' /\ Head(queue[t]).fd \in Fds
      BY <2>0, <3>1, <3>2, TakeShape DEF Asks
    <3>4. rseats'[r] \in Seq(Fds) /\ Len(rseats'[r]) = Len(rseats[r]) + 1
      BY <2>0, <3>1, <3>3, AppendProperties
    <3>5. /\ rstate[r] = "WAIT" /\ rsize' = rsize
          /\ rstate'[r] = IF Len(rseats[r]) + 1 = rsize[r] THEN "GAME" ELSE "WAIT"
      BY <2>0, <2>2 DEF RoomNext, FillsUp
    <3>6. rseats' \in [Rooms -> Seq(Fds)]
      BY <2>0, <3>1, <3>4
    <3> QED
      BY <2>0, <3>3, <3>4, <3>5, <3>6 DEF RoomSizes, Empty
  <2>3. CASE RoomBegin(r) \/ RoomGone(r)
    BY <2>0, <2>3 DEF RoomBegin, RoomGone, Empty, QueueShape
  <2>4. CASE RoomClose(r)
    BY <2>0, <2>4 DEF RoomClose, Empty, QueueShape
  <2> QED
    BY <2>1, <2>2, <2>3, <2>4 DEF RoomStep
<1>5. ThreadTypes'
  BY <1>1, <1>2, <1>4 DEF ServerInv, TypeOK, ThreadTypes, main, worker
<1>6. ThreadShape'
  BY <1>1, <1>4 DEF ServerInv, ThreadShape, main, worker
<1>7. Launched'
  BY <1>1, <1>2 DEF ServerInv, Launched, AllInSync, WorkersInSync, worker
<1> QED
  BY <1>3, <1>4, <1>5, <1>6, <1>7, SplitTypes, PTL DEF ServerInv

-----------------------------------------------------------------------------
(* Theorems.                                                               *)

\* The steps, by who takes them.
LEMMA Cases ==
  ASSUME [Next]_vars
  PROVE  \/ ProcessEnds /\ (KeepQueue \/ RemoveQueue)
         \/ (BootStep \/ Start \/ Signal \/ SignalAgain \/ AcceptFails) /\ phase' # "down"
         \/ PostConnection \/ \E f \in Fds : Accept(f) \/ Ask(f) \/ Leave(f)
         \/ \E w \in Workers : WorkerStep(w)
         \/ \E r \in Rooms : RoomStep(r)
         \/ UNCHANGED vars
<1>1. Abort \/ Exit => ProcessEnds /\ KeepQueue
  BY DEF Abort, Exit, KeepQueue
<1>2. Start \/ Signal \/ AcceptFails => phase' # "down"
  BY DEF Start, Signal, AcceptFails, Finalize
<1>3. SignalAgain => (ProcessEnds /\ KeepQueue) \/ phase' # "down"
  BY DEF SignalAgain, Finalize, ErrorExit
<1>4. BootStep => (ProcessEnds /\ (KeepQueue \/ RemoveQueue)) \/ phase' # "down"
  BY DEF BootStep, OpenSocket, OpenQueue, LoadUnits, MakePools, Launch, InSync, ErrorExit, PoolsFail
<1> QED
  BY <1>1, <1>2, <1>3, <1>4 DEF Next, MainStep

LEMMA NextServerInv == ServerInv /\ [Next]_vars => ServerInv'
<1> SUFFICES ASSUME ServerInv, [Next]_vars PROVE ServerInv'
  OBVIOUS
<1>1. CASE UNCHANGED vars
  BY <1>1 DEF vars, main, worker, room, conn, ServerInv, TypeOK, QueueShape, ThreadShape, Launched, AllInSync,
     WorkersInSync
<1> QED
  BY <1>1, Cases, EndsInv, BootInv, MainInv, WorkersInv, RoomsInv

THEOREM ServerInvariance == Spec => []ServerInv
  BY InitServerInv, NextServerInv, PTL DEF Spec

\* The variables keep their types: nobody works on NoFd, a room's size is one a
\* room can have, whatever a packet says (worker.c:69-101, room.c:96-140).
THEOREM ServerTypeCorrect == Spec => []TypeOK
  BY ServerInvariance, PTL DEF ServerInv

\* A room is never fuller than its size and plays only when it is full, for any
\* number of workers and rooms on one queue, whatever is left in it by an earlier
\* process (room.c:102-110).
THEOREM RoomFilledCorrect == Spec => []RoomFilled
<1>1. ServerInv => RoomFilled
  BY DEF ServerInv, ThreadShape, RoomFilled, RoomSizes
<1> QED
  BY <1>1, ServerInvariance, PTL

\* When init_server() returns, no thread has still to read the arguments on its
\* stack (server.c:112-147).
THEOREM ArgsAliveCorrect == Spec => []ArgsAlive
<1>1. ServerInv => ArgsAlive
  BY DEF ServerInv, Launched, AllInSync, WorkersInSync, ArgsAlive
<1> QED
  BY <1>1, ServerInvariance, PTL

\* A process that opened the queue and ends by itself removes it (server.c:65-107,
\* 225-251); only one that is killed can leave it behind.
THEOREM NoQueueLeftCorrect ==
  ASSUME "abrupt" \notin Endings
  PROVE  Spec => NoQueueLeft
<1> DEFINE open == phase \in {"units", "pools", "launch", "up"}
<1>1. [Next]_vars => (open /\ phase' \in Finalizing \cup {"down"} => ~queueUp')
  <2> SUFFICES ASSUME [Next]_vars, open, phase' \in Finalizing \cup {"down"} PROVE ~queueUp'
    OBVIOUS
  <2>0. phase \notin Finalizing \cup {"down"}
    BY DEF Finalizing
  <2>1. ~Abort /\ ~Exit /\ ~Start /\ ~SignalAgain
    BY <2>0 DEF Abort, Exit, Start, SignalAgain, Finalizing
  <2>2. BootStep \/ Signal \/ AcceptFails => ~queueUp'
    BY <2>0 DEF BootStep, OpenSocket, OpenQueue, LoadUnits, MakePools, Launch, InSync, ErrorExit, PoolsFail,
       Signal, AcceptFails, Finalize, RemoveQueue, Finalizing
  <2>3. PostConnection \/ (\E f \in Fds : Accept(f) \/ Ask(f) \/ Leave(f)) => phase' = phase
    BY DEF PostConnection, Accept, Ask, Leave
  <2>4. (\E w \in Workers : WorkerStep(w)) \/ (\E r \in Rooms : RoomStep(r)) => phase' = phase
    BY DEF WorkerStep, WorkerBegin, WorkerTake, WorkerRecv, WorkerPost, AfterPost, WorkerDrop, RoomStep,
       RoomBegin,
       RoomFirst, RoomNext, RoomGone, RoomClose
  <2> QED
    BY <2>0, <2>1, <2>2, <2>3, <2>4 DEF Next, MainStep, vars
<1> QED
  BY <1>1, PTL DEF Spec, NoQueueLeft
=============================================================================
