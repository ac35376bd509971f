--------------------------- MODULE RoomSeatsProof ---------------------------
(***************************************************************************)
(* Proofs about who holds a socket, for any number of clients and seats:   *)
(* an open connection is held by one request in the queue or by one seat   *)
(* (OnePlace), and by at least one of the two (NoLeakedSocket).            *)
(*                                                                         *)
(* Neither is inductive alone: a request taken from the queue ends on a    *)
(* seat, so the queue must not hold its client twice; and a client posts a *)
(* request only on a new connection, so what is queued or seated must be   *)
(* open.  Apart says all this of the two places together.                  *)
(***************************************************************************)
EXTENDS RoomProof, SequenceTheorems

\* The clients with a request in the queue q, and that none has two.
Queued(q) == UNION {{q[t][k].player : k \in DOMAIN q[t]} : t \in MsgTypes}

Distinct(q) ==
  \A t, u \in MsgTypes : \A k \in DOMAIN q[t], l \in DOMAIN q[u] :
    q[t][k].player = q[u][l].player => t = u /\ k = l

Apart ==
  /\ \A i, j \in Taken : players[i] = players[j] => i = j
  /\ Distinct(queue)
  /\ Queued(queue) \cap SeatedClients = {}
  /\ \A c \in Queued(queue) \cup SeatedClients : link[c] # "closed"
  /\ (queueUp /\ state # "KILLED") =>
       \A c \in Clients : link[c] # "closed" => c \in Queued(queue) \cup SeatedClients

SeatsInv == Inv /\ Apart

-----------------------------------------------------------------------------
(* The operators.                                                          *)

\* msgrcv() takes one client off the queue.
LEMMA MsgRcvPlayers ==
  ASSUME NEW q \in [MsgTypes -> Seq(RoomMsgs)], NEW t \in MsgTypes, q[t] # <<>>, Distinct(q)
  PROVE  /\ Distinct(MsgRcv(q, t))
         /\ Head(q[t]).player \in Queued(q)
         /\ Queued(MsgRcv(q, t)) = Queued(q) \ {Head(q[t]).player}
<1> DEFINE r == MsgRcv(q, t)
           at(u, k) == IF u = t THEN k + 1 ELSE k
<1>1. /\ \A u \in MsgTypes : DOMAIN q[u] = 1 .. Len(q[u]) /\ Len(q[u]) \in Nat
      /\ Len(q[t]) >= 1 /\ Head(q[t]) = q[t][1]
  BY LenProperties, EmptySeq
<1>2. r \in [MsgTypes -> Seq(RoomMsgs)] /\ r[t] = Tail(q[t])
      /\ \A u \in MsgTypes \ {t} : r[u] = q[u]
  BY QueueType DEF MsgRcv
<1>3. DOMAIN r[t] = 1 .. Len(q[t]) - 1 /\ \A k \in DOMAIN r[t] : r[t][k] = q[t][k + 1]
  BY <1>2, HeadTailProperties, LenProperties
<1>4. \A u \in MsgTypes : \A k \in DOMAIN r[u] :
         at(u, k) \in DOMAIN q[u] /\ r[u][k] = q[u][at(u, k)] /\ (u = t => at(u, k) # 1)
  <2> TAKE u \in MsgTypes
  <2> TAKE k \in DOMAIN r[u]
  <2>1. CASE u = t
    BY <1>1, <1>3, <2>1
  <2>2. CASE u # t
    BY <1>2, <2>2
  <2> QED
    BY <2>1, <2>2
<1>5. \A u \in MsgTypes : \A k \in DOMAIN q[u] :
         (u = t /\ k = 1) \/ \E l \in DOMAIN r[u] : at(u, l) = k
  <2> TAKE u \in MsgTypes
  <2> TAKE k \in DOMAIN q[u]
  <2>1. CASE u = t /\ k # 1
    <3>1. k - 1 \in DOMAIN r[u] /\ at(u, k - 1) = k
      BY <1>1, <1>3, <2>1
    <3> QED
      BY <3>1
  <2>2. CASE u # t
    BY <1>2, <2>2
  <2> QED
    BY <2>1, <2>2
<1>6. \A u \in MsgTypes : \A k, l \in DOMAIN r[u] : at(u, k) = at(u, l) => k = l
  BY <1>1, <1>2, <1>3
<1> HIDE DEF at, r
<1>7. Distinct(r)
  BY <1>4, <1>6 DEF Distinct
<1>8. Head(q[t]).player \in Queued(q)
  BY <1>1 DEF Queued
<1>9. ASSUME NEW c \in Queued(r) PROVE c \in Queued(q) \ {Head(q[t]).player}
  <2>1. PICK u \in MsgTypes : \E k \in DOMAIN r[u] : c = r[u][k].player
    BY <1>9 DEF Queued
  <2>2. PICK k \in DOMAIN r[u] : c = r[u][k].player
    BY <2>1
  <2>3. c = q[u][at(u, k)].player /\ at(u, k) \in DOMAIN q[u] /\ (u = t => at(u, k) # 1)
    BY <1>4, <2>2
  <2>4. 1 \in DOMAIN q[t]
    BY <1>1
  <2>5. c # q[t][1].player
    BY <2>3, <2>4 DEF Distinct
  <2> QED
    BY <1>1, <2>3, <2>5 DEF Queued
<1>10. ASSUME NEW c \in Queued(q), c # Head(q[t]).player PROVE c \in Queued(r)
  <2>1. PICK u \in MsgTypes : \E k \in DOMAIN q[u] : c = q[u][k].player
    BY DEF Queued
  <2>2. PICK k \in DOMAIN q[u] : c = q[u][k].player
    BY <2>1
  <2>3. ~(u = t /\ k = 1)
    BY <1>1, <1>10, <2>2
  <2>4. PICK l \in DOMAIN r[u] : at(u, l) = k
    BY <1>5, <2>3
  <2>5. c = r[u][l].player
    BY <1>4, <2>2, <2>4
  <2> QED
    BY <2>5 DEF Queued
<1> QED
  BY <1>7, <1>8, <1>9, <1>10 DEF r

\* msgsnd() puts one client on the queue.
LEMMA MsgSndPlayers ==
  ASSUME NEW q \in [MsgTypes -> Seq(RoomMsgs)], NEW t \in MsgTypes, NEW m \in RoomMsgs,
         Distinct(q), m.player \notin Queued(q)
  PROVE  /\ Distinct(MsgSnd(q, t, m))
         /\ Queued(MsgSnd(q, t, m)) = Queued(q) \cup {m.player}
<1> DEFINE s == MsgSnd(q, t, m)
           n == Len(q[t]) + 1
<1>1. \A u \in MsgTypes : DOMAIN q[u] = 1 .. Len(q[u]) /\ Len(q[u]) \in Nat
  BY LenProperties
<1>2. s[t] = Append(q[t], m) /\ \A u \in MsgTypes \ {t} : s[u] = q[u]
  BY DEF MsgSnd
<1>3. DOMAIN s[t] = 1 .. n /\ s[t][n] = m /\ \A k \in DOMAIN q[t] : s[t][k] = q[t][k]
  BY <1>1, <1>2, AppendProperties, LenProperties
<1>4. \A u \in MsgTypes : \A k \in DOMAIN s[u] :
         (u = t /\ k = n) \/ (k \in DOMAIN q[u] /\ s[u][k] = q[u][k])
  BY <1>1, <1>2, <1>3
<1>5. \A u \in MsgTypes : \A k \in DOMAIN q[u] : k \in DOMAIN s[u] /\ s[u][k] = q[u][k]
  BY <1>1, <1>2, <1>3
<1>6. n \in DOMAIN s[t] /\ s[t][n] = m
  BY <1>1, <1>3
<1> HIDE DEF s, n
<1>7. \A u \in MsgTypes : \A k \in DOMAIN q[u] : q[u][k].player # m.player
  BY DEF Queued
<1>8. ASSUME NEW u \in MsgTypes, NEW v \in MsgTypes, NEW k \in DOMAIN s[u], NEW l \in DOMAIN s[v],
             s[u][k].player = s[v][l].player
      PROVE  u = v /\ k = l
  <2>1. (u = t /\ k = n /\ s[u][k].player = m.player) \/ (k \in DOMAIN q[u] /\ s[u][k] = q[u][k])
    BY <1>4, <1>6
  <2>2. (v = t /\ l = n /\ s[v][l].player = m.player) \/ (l \in DOMAIN q[v] /\ s[v][l] = q[v][l])
    BY <1>4, <1>6
  <2> QED
    BY <1>7, <1>8, <2>1, <2>2 DEF Distinct
<1>9. ASSUME NEW c \in Queued(s) PROVE c \in Queued(q) \cup {m.player}
  <2>1. PICK u \in MsgTypes : \E k \in DOMAIN s[u] : c = s[u][k].player
    BY DEF Queued
  <2> QED
    BY <1>4, <1>6, <2>1 DEF Queued
<1>10. ASSUME NEW c \in Queued(q) \cup {m.player} PROVE c \in Queued(s)
  <2>1. CASE c = m.player
    BY <1>6, <2>1 DEF Queued
  <2>2. CASE c \in Queued(q)
    BY <1>5, <2>2 DEF Queued
  <2> QED
    BY <2>1, <2>2
<1>11. Distinct(s)
  BY <1>8 DEF Distinct
<1> QED
  BY <1>9, <1>10, <1>11 DEF s

\* A loop of sends neither opens nor closes a connection.
LEMMA SendLoopOpen ==
  ASSUME NEW seated, NEW tried, NEW pkt, SendLoop(seated, tried, pkt)
  PROVE  \A c \in Clients : link'[c] = "closed" <=> link[c] = "closed"
  BY DEF SendLoop, AfterSend

\* Only clients are in the queue and on seats.
LEMMA PlacesType ==
  ASSUME Inv
  PROVE  Queued(queue) \subseteq Clients /\ SeatedClients \subseteq Clients
<1>1. \A t \in MsgTypes : \A k \in DOMAIN queue[t] : queue[t][k] \in RoomMsgs
  BY ElementOfSeq, LenProperties DEF Inv, TypeOK
<1> QED
  BY <1>1 DEF Queued, RoomMsgs, Inv, Shape, SeatedClients
-----------------------------------------------------------------------------
(* Apart holds in the initial state and is kept by every step.             *)

LEMMA InitApart == Init => Apart
  BY DEF Init, Apart, Distinct, Queued, EmptyQueue, SeatedClients, Taken, HasSeats, Playing

\* A step that moves nobody and closes nothing keeps Apart.
LEMMA SamePlaces ==
  ASSUME SeatsInv, UNCHANGED <<players, queue, queueUp>>,
         Taken' = Taken \/ (state' = "KILLED" /\ Taken' = {}),
         state' # "KILLED" => state # "KILLED",
         \A c \in Clients : link'[c] = "closed" <=> link[c] = "closed"
  PROVE  Apart'
<1>1. SeatedClients' \subseteq SeatedClients /\ Queued(queue)' = Queued(queue) /\ Distinct(queue)'
  BY DEF SeatsInv, Apart, SeatedClients
<1>2. \A c \in Queued(queue) \cup SeatedClients : link'[c] # "closed"
  BY PlacesType DEF SeatsInv, Apart
<1>3. state' # "KILLED" => SeatedClients' = SeatedClients
  BY DEF SeatedClients
<1>4. (queueUp' /\ state' # "KILLED") =>
        \A c \in Clients : link'[c] # "closed" => c \in Queued(queue) \cup SeatedClients
  BY DEF SeatsInv, Apart
<1>5. \A i, j \in Taken' : players'[i] = players'[j] => i = j
  BY DEF SeatsInv, Apart
<1> QED
  BY <1>1, <1>2, <1>3, <1>4, <1>5 DEF SeatsInv, Apart

\* A step that moves the first client of type t from the queue to the next seat.
LEMMA MoveToSeat ==
  ASSUME SeatsInv, NEW t \in MsgTypes, queue[t] # <<>>,
         queue' = MsgRcv(queue, t), queueUp' = queueUp,
         NEW n \in Seats, Taken = 0 .. n - 1,
         players' = [players EXCEPT ![n] = Head(queue[t]).player],
         Taken' = 0 .. n \/ (state' = "KILLED" /\ Taken' = {}),
         state # "KILLED",
         \A c \in Clients : link'[c] = "closed" <=> link[c] = "closed"
  PROVE  Apart'
<1> DEFINE c == Head(queue[t]).player
<1>1. /\ Distinct(queue)' /\ c \in Queued(queue)
      /\ Queued(queue)' = Queued(queue) \ {c}
  BY MsgRcvPlayers DEF SeatsInv, Inv, TypeOK, Apart
<1>2. players'[n] = c /\ (\A i \in 0 .. n - 1 : players'[i] = players[i])
  BY DEF SeatsInv, Inv, TypeOK, Seats
<1>3. Taken' = 0 .. n => SeatedClients' = SeatedClients \cup {c}
  BY <1>2 DEF SeatedClients, Seats
<1>4. c \notin SeatedClients
  BY <1>1 DEF SeatsInv, Apart
<1>5. \A i, j \in Taken' : players'[i] = players'[j] => i = j
  BY <1>2, <1>4 DEF SeatsInv, Apart, SeatedClients, Seats
<1>6. Taken' # 0 .. n => SeatedClients' = {}
  BY DEF SeatedClients
<1>7. Queued(queue) \cup SeatedClients \subseteq Clients
  BY PlacesType DEF SeatsInv
<1> HIDE DEF c
<1>8. Queued(queue)' \cap SeatedClients' = {}
  BY <1>1, <1>3, <1>6 DEF SeatsInv, Apart
<1>9. \A x \in Queued(queue)' \cup SeatedClients' : link'[x] # "closed"
  BY <1>1, <1>3, <1>6, <1>7 DEF SeatsInv, Apart
<1>10. (queueUp' /\ state' # "KILLED") =>
         \A x \in Clients : link'[x] # "closed" => x \in Queued(queue)' \cup SeatedClients'
  BY <1>1, <1>3 DEF SeatsInv, Apart
<1> QED
  BY <1>1, <1>5, <1>8, <1>9, <1>10 DEF Apart

LEMMA SeatFirstApart == SeatsInv /\ SeatFirst => Apart'
<1> SUFFICES ASSUME SeatsInv, SeatFirst PROVE Apart'
  OBVIOUS
<1> DEFINE type == RoomMsgType(queue)
<1>1. type \in MsgTypes /\ queue[type] # <<>>
  BY DEF SeatFirst, NoneTaken, RoomMsgType, HasRoomMsg, MsgTypes
<1>2. /\ queue' = MsgRcv(queue, type) /\ queueUp' = queueUp
      /\ players' = [players EXCEPT ![0] = Head(queue[type]).player]
      /\ state = "INIT" /\ state' \in {"WAIT", "FIN", "KILLED"} /\ last_plr_id' = 1
  BY DEF SeatFirst, NoneTaken
<1>3. \A c \in Clients : link'[c] = "closed" <=> link[c] = "closed"
  BY SendLoopOpen DEF SeatFirst, NoneTaken
<1>4. Taken = 0 .. 0 - 1 /\ (Taken' = 0 .. 0 \/ (state' = "KILLED" /\ Taken' = {})) /\ 0 \in Seats
  BY <1>2, RoomAssumption DEF Taken, HasSeats, Playing, Seats
<1> QED
  BY <1>1, <1>2, <1>3, <1>4, MoveToSeat

LEMMA SeatNextApart == SeatsInv /\ SeatNext => Apart'
<1> SUFFICES ASSUME SeatsInv, SeatNext PROVE Apart'
  OBVIOUS
<1>1. /\ queue' = MsgRcv(queue, MSG_JOIN) /\ queueUp' = queueUp /\ queue[MSG_JOIN] # <<>>
      /\ players' = [players EXCEPT ![last_plr_id] = Head(queue[MSG_JOIN]).player]
      /\ state = "WAIT" /\ state' \in {"WAIT", "GAME", "KILLED"} /\ last_plr_id' = last_plr_id + 1
  BY DEF SeatNext
<1>2. \A c \in Clients : link'[c] = "closed" <=> link[c] = "closed"
  BY SendLoopOpen DEF SeatNext
<1>3. last_plr_id \in Seats /\ MSG_JOIN \in MsgTypes
  BY <1>1, RoomAssumption DEF SeatsInv, Inv, TypeOK, Shape, Seats, RoomSizes, MsgTypes
<1>4. Taken = 0 .. last_plr_id - 1
      /\ (Taken' = 0 .. last_plr_id \/ (state' = "KILLED" /\ Taken' = {}))
  BY <1>1, <1>3 DEF Taken, HasSeats, Playing, Seats
<1> QED
  BY <1>1, <1>2, <1>3, <1>4, MoveToSeat

\* GAMEOVER and FIN close the seats that are taken, all of them.
LEMMA CloseApart == SeatsInv /\ (GameOver \/ Fin) => Apart'
<1> SUFFICES ASSUME SeatsInv, GameOver \/ Fin PROVE Apart'
  OBVIOUS
<1>1. CloseSeats(last_plr_id) /\ Taken = 0 .. last_plr_id - 1 /\ Taken' = {}
      /\ UNCHANGED <<queue, queueUp>> /\ state # "KILLED"
  BY DEF GameOver, Fin, SeatsInv, Inv, Shape, Playing, Taken, HasSeats
<1>2. FirstPlayers(last_plr_id) = SeatedClients
  BY <1>1 DEF FirstPlayers, SeatedClients
<1>3. \A c \in Clients : link'[c] = IF c \in SeatedClients THEN "closed" ELSE link[c]
  BY <1>1, <1>2 DEF CloseSeats
<1>4. SeatedClients' = {} /\ Queued(queue)' = Queued(queue) /\ Distinct(queue)'
  BY <1>1 DEF SeatedClients, SeatsInv, Apart
<1> QED
  BY <1>1, <1>3, <1>4, PlacesType DEF SeatsInv, Apart

\* The other steps of the room: nobody moves.
LEMMA RoundApart ==
  ASSUME SeatsInv, QueueGone \/ AllAsked \/ Ask \/ Collect \/ PassOver \/ EndRound
  PROVE  Apart'
<1>1. UNCHANGED <<players, queue, queueUp>> /\ state # "KILLED"
  BY DEF QueueGone, NoneTaken, Waiting, AllAsked, Ask, Collect, PassOver, EndRound
<1>2. Taken' = Taken \/ (state' = "KILLED" /\ Taken' = {})
  BY DEF QueueGone, NoneTaken, Waiting, AllAsked, Ask, Collect, PassOver, EndRound, Taken, HasSeats, Playing
<1>3. \A c \in Clients : link'[c] = "closed" <=> link[c] = "closed"
  <2>1. CASE Ask
    BY <2>1, SendLoopOpen DEF Ask
  <2>2. CASE Collect
    <3>1. link' = link \/ (inbox[players[id]] = <<>> /\ RecvErr(link[players[id]])
                           /\ link' = [link EXCEPT ![players[id]] = "down"])
      BY <2>2 DEF Collect
    <3>2. id \in Taken
      BY <2>2 DEF Collect, SeatsInv, Inv, TypeOK, Shape, Taken, HasSeats, Playing
    <3>3. players[id] \in SeatedClients
      BY <3>2 DEF SeatedClients
    <3>4. link[players[id]] # "closed"
      BY <3>3 DEF SeatsInv, Apart
    <3> QED
      BY <3>1, <3>4 DEF SeatsInv, Inv, TypeOK
  <2>3. CASE UNCHANGED link
    BY <2>3
  <2> QED
    BY <2>1, <2>2, <2>3 DEF QueueGone, NoneTaken, AllAsked, PassOver, EndRound
<1> QED
  BY <1>1, <1>2, <1>3, SamePlaces

\* A request comes with a new connection; shutdown empties the queue.
LEMMA EnvironmentApart == SeatsInv /\ Environment => Apart'
<1> SUFFICES ASSUME SeatsInv, Environment PROVE Apart'
  OBVIOUS
<1>1. UNCHANGED locals
  BY DEF Environment, Request, Answer, SendUnasked, Leave, ResetArrives, Shutdown
<1>2. Taken' = Taken /\ SeatedClients' = SeatedClients /\ UNCHANGED <<players, state>>
  BY <1>1 DEF locals, Taken, HasSeats, Playing, SeatedClients
<1>3. ASSUME NEW c \in Clients, Request(c) PROVE Apart'
  <2>1. PICK type \in MsgTypes, m \in RoomMsgs :
            m.player = c /\ queue' = MsgSnd(queue, type, m)
    <3>1. PICK type \in {MSG_JOIN, MSG_CREATE}, n \in RoomSizes :
              queue' = MsgSnd(queue, type, [player |-> c, size |-> n])
      BY <1>3 DEF Request
    <3>2. type \in MsgTypes /\ [player |-> c, size |-> n] \in RoomMsgs
      BY DEF MsgTypes, RoomMsgs
    <3> QED
      BY <3>1, <3>2
  <2>2. Distinct(queue) /\ queue \in [MsgTypes -> Seq(RoomMsgs)]
    BY DEF SeatsInv, Inv, TypeOK, Apart
  <2>3. c \notin Queued(queue) \cup SeatedClients
    BY <1>3 DEF Request, SeatsInv, Apart
  <2>4. Distinct(queue)' /\ Queued(queue)' = Queued(queue) \cup {c}
    BY <2>1, <2>2, <2>3, MsgSndPlayers
  <2>5. \A x \in Clients : link'[x] = IF x = c THEN "up" ELSE link[x]
    BY <1>3 DEF Request, SeatsInv, Inv, TypeOK
  <2>6. queueUp /\ state # "KILLED" /\ queueUp' = queueUp
    BY <1>3 DEF Request
  <2> QED
    BY <1>2, <2>3, <2>4, <2>5, <2>6, PlacesType DEF SeatsInv, Apart
<1>4. CASE Shutdown
  <2>1. Queued(queue)' = {} /\ Distinct(queue)' /\ queueUp' = FALSE /\ link' = link
    BY <1>4 DEF Shutdown, Queued, Distinct, EmptyQueue
  <2> QED
    BY <1>2, <2>1 DEF SeatsInv, Apart
<1>5. ASSUME NEW c \in Clients, Answer(c) \/ SendUnasked(c) \/ Leave(c) \/ ResetArrives(c)
      PROVE  Apart'
  <2>1. UNCHANGED <<queue, queueUp>>
    BY <1>5 DEF Answer, SendUnasked, Leave, ResetArrives
  <2>2. \A x \in Clients : link'[x] = "closed" <=> link[x] = "closed"
    BY <1>5, RoomAssumption DEF Answer, SendUnasked, Leave, ResetArrives, SeatsInv, Inv, TypeOK
  <2> QED
    BY <1>2, <2>1, <2>2, SamePlaces
<1> QED
  BY <1>3, <1>4, <1>5 DEF Environment

\* SeatsInv is an invariant of a room.
THEOREM SeatsInvariance == Spec => []SeatsInv
<1>1. SeatsInv /\ UNCHANGED vars => Apart'
  BY SamePlaces DEF vars, locals, Taken, HasSeats, Playing
<1>2. SeatsInv /\ Next => Apart'
  BY SeatFirstApart, SeatNextApart, CloseApart, RoundApart, EnvironmentApart DEF Next, RoomStep
<1>3. Apart /\ Inv /\ Inv' /\ [Next]_vars => Apart'
  BY <1>1, <1>2 DEF SeatsInv
<1>4. []Inv /\ Apart /\ [][Next]_vars => []Apart
  BY <1>3, PTL
<1> QED
  BY InitApart, <1>4, Invariance, PTL DEF Spec, SeatsInv

\* No client is on two seats, and none on a seat has a request in the queue.
THEOREM OnePlaceCorrect == Spec => []OnePlace
<1>1. Apart => OnePlace
  BY DEF Apart, OnePlace, Queued
<1> QED
  BY SeatsInvariance, <1>1, PTL DEF SeatsInv

\* Somebody will close every open connection.
THEOREM NoLeakedSocketCorrect == Spec => []NoLeakedSocket
<1>1. Apart => NoLeakedSocket
  BY DEF Apart, NoLeakedSocket, Queued
<1> QED
  BY SeatsInvariance, <1>1, PTL DEF SeatsInv
=============================================================================
