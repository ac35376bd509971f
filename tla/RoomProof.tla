----------------------------- MODULE RoomProof ------------------------------
(***************************************************************************)
(* Proofs about a room, for any number of clients, seats and questions.    *)
(*                                                                         *)
(* TypeOK bounds the scores, and a score only stays in its bound because   *)
(* it follows the rounds (ScoresMatchRounds), which in turn needs to know  *)
(* how many seats are taken in each state and that each holds a client.    *)
(* Inv puts these together; it is inductive.                               *)
(***************************************************************************)
EXTENDS RoomProps, TLAPS

\* How the thread's variables hang together in each of its states.
Shape ==
  /\ state = "WAIT" => /\ room_size \in RoomSizes
                       /\ last_plr_id >= 1 /\ last_plr_id < room_size
                       /\ quest_num = 1
  /\ Playing => room_size \in RoomSizes /\ last_plr_id = room_size
  /\ state = "ANSWERS" => quest_num >= 1 /\ id <= room_size
  /\ \A i \in Taken : players[i] \in Clients

Inv == TypeOK /\ Shape /\ ScoresMatchRounds

-----------------------------------------------------------------------------
(* The operators.                                                          *)

\* A send leaves a connection in one of its states.
LEMMA AfterSendType == \A l \in Links : AfterSend(l) \in Links
  BY DEF AfterSend, Links

\* Taking and posting messages keeps the queue a queue of requests.
LEMMA QueueType ==
  ASSUME NEW q \in [MsgTypes -> Seq(RoomMsgs)], NEW t \in MsgTypes
  PROVE  /\ q[t] # <<>> => Head(q[t]) \in RoomMsgs /\ MsgRcv(q, t) \in [MsgTypes -> Seq(RoomMsgs)]
         /\ \A m \in RoomMsgs : MsgSnd(q, t, m) \in [MsgTypes -> Seq(RoomMsgs)]
  BY DEF MsgRcv, MsgSnd

\* A loop of sends changes connections and what clients were told, within their types.
LEMMA SendLoopType ==
  ASSUME TypeOK, NEW seated, NEW tried, NEW pkt \in [Clients -> Told],
         SendLoop(seated, tried, pkt)
  PROVE  link' \in [Clients -> Links] /\ told' \in [Clients -> Told]
  BY AfterSendType DEF TypeOK, SendLoop

\* The seats a loop gets to are among those it goes through.
LEMMA TriedSubset == \A T, stop : Tried(T, stop) \subseteq T
  BY DEF Tried
-----------------------------------------------------------------------------
(* Inv holds in the initial state and is kept by every step.               *)

LEMMA InitInv == Init => Inv
  BY RoomAssumption DEF Init, Inv, TypeOK, Shape, ScoresMatchRounds, States, Seats, Taken,
     HasSeats, Playing, EmptyQueue, Links, Told, PLR_LOST, PLR_DISCONNECT

LEMMA StutterInv == Inv /\ UNCHANGED vars => Inv'
  BY DEF vars, locals, Inv, TypeOK, Shape, ScoresMatchRounds, Taken, HasSeats, Playing, InGame,
     RoundsDone

LEMMA SeatFirstInv == Inv /\ SeatFirst => Inv'
<1> SUFFICES ASSUME Inv, SeatFirst PROVE Inv'
  OBVIOUS
<1> USE RoomAssumption
<1> DEFINE type == RoomMsgType(queue)
           msg  == Head(queue[type])
<1>1. type \in MsgTypes /\ queue[type] # <<>>
  BY DEF SeatFirst, NoneTaken, RoomMsgType, HasRoomMsg, MsgTypes
<1>2. msg \in RoomMsgs /\ MsgRcv(queue, type) \in [MsgTypes -> Seq(RoomMsgs)]
  BY <1>1, QueueType DEF Inv, TypeOK
<1>3. link' \in [Clients -> Links] /\ told' \in [Clients -> Told]
  BY SendLoopType DEF SeatFirst, NoneTaken, Inv, Told
<1>4. state' \in {"WAIT", "FIN", "KILLED"}
  BY <1>2 DEF SeatFirst, NoneTaken, Inv, TypeOK, RoomMsgs, SendOK, SendErr, SendPipe, Links
<1>5. TypeOK'
  <2>1. /\ room_size' \in RoomSizes /\ last_plr_id' = 1 /\ quest_num' = 1
        /\ players' \in [Seats -> Clients \cup {NoPlayer}]
        /\ players'[0] \in Clients
    BY <1>2 DEF SeatFirst, NoneTaken, Inv, TypeOK, RoomMsgs, Seats
  <2>2. score' \in [Seats -> PLR_DISCONNECT .. LAST_QUEST]
    <3>1. score' = [score EXCEPT ![0] = 0] /\ score \in [Seats -> PLR_DISCONNECT .. LAST_QUEST]
      BY DEF SeatFirst, NoneTaken, Inv, TypeOK
    <3>2. 0 \in PLR_DISCONNECT .. LAST_QUEST
      BY DEF PLR_DISCONNECT
    <3> QED
      BY <3>1, <3>2
  <2>3. queue' \in [MsgTypes -> Seq(RoomMsgs)]
    BY <1>2 DEF SeatFirst, NoneTaken
  <2> QED
    BY <1>3, <1>4, <2>1, <2>2, <2>3 DEF SeatFirst, NoneTaken, Inv, TypeOK, States
<1>6. Taken' \subseteq {0} /\ last_plr_id' = 1 /\ quest_num' = 1
  BY DEF SeatFirst, NoneTaken, Taken
<1>7. players'[0] \in Clients /\ score'[0] = 0 /\ room_size' \in RoomSizes
  BY <1>2 DEF SeatFirst, NoneTaken, Inv, TypeOK, RoomMsgs, Seats
<1>8. Shape' /\ ScoresMatchRounds'
  BY <1>4, <1>6, <1>7 DEF Shape, ScoresMatchRounds, Playing, RoomSizes
<1> QED
  BY <1>5, <1>8 DEF Inv

LEMMA SeatNextInv == Inv /\ SeatNext => Inv'
<1> SUFFICES ASSUME Inv, SeatNext PROVE Inv'
  OBVIOUS
<1> USE RoomAssumption
<1>1. Head(queue[MSG_JOIN]) \in RoomMsgs /\ MsgRcv(queue, MSG_JOIN) \in [MsgTypes -> Seq(RoomMsgs)]
  BY QueueType DEF SeatNext, MsgTypes, Inv, TypeOK
<1>2. link' \in [Clients -> Links] /\ told' \in [Clients -> Told]
  BY SendLoopType DEF SeatNext, Inv, Told
<1>3. /\ last_plr_id \in 1 .. room_size - 1 /\ room_size \in RoomSizes
      /\ quest_num = 1 /\ last_plr_id' = last_plr_id + 1
      /\ quest_num' = quest_num /\ room_size' = room_size
      /\ state' \in {"WAIT", "GAME", "KILLED"}
      /\ state' = "GAME" => last_plr_id + 1 = room_size
      /\ state' = "WAIT" => last_plr_id + 1 # room_size
  BY DEF SeatNext, Inv, Shape, TypeOK, RoomSizes
<1>4. /\ score' \in [Seats -> PLR_DISCONNECT .. LAST_QUEST]
      /\ \A i \in Seats : score'[i] \in {score[i], 0, PLR_DISCONNECT}
      /\ score'[last_plr_id] \in {0, PLR_DISCONNECT}
  BY <1>3 DEF SeatNext, Inv, TypeOK, PLR_DISCONNECT, Seats, RoomSizes
<1>5. TypeOK'
  <2>1. players' \in [Seats -> Clients \cup {NoPlayer}]
    BY <1>1 DEF SeatNext, Inv, TypeOK, RoomMsgs
  <2>2. queue' \in [MsgTypes -> Seq(RoomMsgs)]
    BY <1>1 DEF SeatNext
  <2>3. last_plr_id' \in 0 .. USER_COUNT
    BY <1>3 DEF RoomSizes
  <2> QED
    BY <1>2, <1>3, <1>4, <2>1, <2>2, <2>3 DEF SeatNext, Inv, TypeOK, States
<1>6. /\ Taken = 0 .. last_plr_id - 1
      /\ Taken' \subseteq Taken \cup {last_plr_id}
  BY <1>3 DEF SeatNext, Taken, HasSeats
<1>7. Shape'
  <2>1. \A i \in Taken' : players'[i] \in Clients
    <3>1. players' = [players EXCEPT ![last_plr_id] = Head(queue[MSG_JOIN]).player]
      BY DEF SeatNext
    <3>2. Head(queue[MSG_JOIN]).player \in Clients
      BY <1>1 DEF RoomMsgs
    <3>3. last_plr_id \in Seats /\ DOMAIN players = Seats
      BY <1>3 DEF Inv, TypeOK, RoomSizes, Seats
    <3> QED
      BY <1>6, <3>1, <3>2, <3>3 DEF Inv, Shape
  <2> QED
    BY <1>3, <2>1 DEF Shape, Playing, RoomSizes
<1>8. ScoresMatchRounds'
  <2>1. \A i \in Taken' : score'[i] > PLR_LOST => score'[i] = 0
    BY <1>3, <1>4, <1>6 DEF SeatNext, Inv, TypeOK, ScoresMatchRounds, InGame, Seats, RoomSizes,
       PLR_LOST, PLR_DISCONNECT
  <2> QED
    BY <1>3, <2>1 DEF ScoresMatchRounds, InGame, RoundsDone, RoomSizes
<1> QED
  BY <1>5, <1>7, <1>8 DEF Inv

LEMMA AskInv == Inv /\ Ask => Inv'
<1> SUFFICES ASSUME Inv, Ask PROVE Inv'
  OBVIOUS
<1> USE RoomAssumption
<1>1. link' \in [Clients -> Links] /\ told' \in [Clients -> Told]
  <2>1. [c \in Clients |-> GamePacket(c)] \in [Clients -> Told]
    BY DEF GamePacket, Told
  <2> QED
    BY <2>1, SendLoopType DEF Ask, Inv
<1>2. state' \in {"ANSWERS", "GAMEOVER", "KILLED"}
  BY DEF Ask
<1>3. /\ score' \in [Seats -> PLR_DISCONNECT .. LAST_QUEST]
      /\ \A i \in Seats : score'[i] \in {score[i], PLR_DISCONNECT}
  BY DEF Ask, Inv, TypeOK, PLR_DISCONNECT
<1>4. TypeOK'
  BY <1>1, <1>2, <1>3 DEF Ask, Inv, TypeOK, States
<1>5. Shape' /\ ScoresMatchRounds'
  BY <1>2, <1>3, <1>4 DEF Ask, Inv, TypeOK, Shape, ScoresMatchRounds, Taken, HasSeats, Playing, InGame,
     RoundsDone, RoomSizes, Seats, PLR_LOST, PLR_DISCONNECT
<1> QED
  BY <1>4, <1>5 DEF Inv

\* CloseSeats() leaves connections and inboxes within their types.
LEMMA CloseSeatsType ==
  ASSUME TypeOK, NEW n, CloseSeats(n)
  PROVE  /\ link' \in [Clients -> Links] /\ told' \in [Clients -> Told]
         /\ inbox' \in [Clients -> Seq(Answers)]
  BY DEF CloseSeats, TypeOK, Links, Told

\* The steps that change nobody's score and seat no one.
LEMMA ControlInv ==
  ASSUME Inv, QueueGone \/ AllAsked \/ EndRound \/ GameOver \/ Fin
  PROVE  Inv'
<1> USE RoomAssumption
<1>1. CASE QueueGone
  <2>1. TypeOK'
    BY <1>1 DEF QueueGone, NoneTaken, Inv, TypeOK, States
  <2>2. Taken' \subseteq Taken
    BY <1>1 DEF QueueGone, NoneTaken, Waiting, Inv, TypeOK, Shape, Taken, HasSeats, Playing
  <2>3. state' = "FIN" /\ players' = players
    BY <1>1 DEF QueueGone, NoneTaken
  <2> QED
    BY <2>1, <2>2, <2>3 DEF Inv, Shape, ScoresMatchRounds, Playing
<1>2. CASE AllAsked
  <2>1. TypeOK'
    BY <1>2 DEF AllAsked, Inv, TypeOK, States
  <2> QED
    BY <1>2, <2>1 DEF AllAsked, Inv, Shape, ScoresMatchRounds, Playing, Taken, HasSeats
<1>3. CASE EndRound
  <2>1. quest_num \in 1 .. LAST_QUEST /\ quest_num' \in 0 .. LAST_QUEST /\ RoundsDone' = quest_num
    BY <1>3 DEF EndRound, NextQuest, Inv, TypeOK, Shape, RoundsDone
  <2>2. TypeOK'
    BY <1>3, <2>1 DEF EndRound, Inv, TypeOK, States
  <2>3. \A i \in Taken : i < id
    BY <1>3 DEF EndRound, AllRead, Inv, Shape, Taken, HasSeats, Playing, TypeOK, RoomSizes
  <2> QED
    BY <1>3, <2>1, <2>2, <2>3 DEF EndRound, Inv, Shape, ScoresMatchRounds, Playing, Taken, HasSeats, InGame
<1>4. CASE GameOver
  <2>1. TypeOK'
    BY <1>4, CloseSeatsType DEF GameOver, Inv, TypeOK, States
  <2> QED
    BY <1>4, <2>1 DEF GameOver, Inv, Shape, ScoresMatchRounds, Playing, Taken, HasSeats
<1>5. CASE Fin
  <2>1. TypeOK'
    BY <1>5, CloseSeatsType DEF Fin, Inv, TypeOK, States
  <2> QED
    BY <1>5, <2>1 DEF Fin, Inv, Shape, ScoresMatchRounds, Playing, Taken, HasSeats
<1> QED
  BY <1>1, <1>2, <1>3, <1>4, <1>5

\* In the loop that collects the answers a score moves to the next round, or below zero.
LEMMA CollectInv == Inv /\ (Collect \/ PassOver) => Inv'
<1> SUFFICES ASSUME Inv, Collect \/ PassOver PROVE Inv'
  OBVIOUS
<1> USE RoomAssumption
<1>1. /\ state = "ANSWERS" /\ id \in Taken /\ id \in Seats /\ Taken = 0 .. room_size - 1
      /\ quest_num \in 1 .. LAST_QUEST /\ room_size \in RoomSizes /\ last_plr_id = room_size
      /\ players[id] \in Clients
  BY DEF Collect, PassOver, Inv, TypeOK, Shape, Taken, HasSeats, Playing, Seats, RoomSizes
<1>2. /\ state' = state /\ Taken' = Taken /\ id' = id + 1
      /\ UNCHANGED <<room_size, last_plr_id, quest_num, players, rans, queue, queueUp, told>>
  BY DEF Collect, PassOver, Taken, HasSeats, Playing
<1>3. InGame(id) => score[id] = quest_num - 1
  BY <1>1 DEF Inv, TypeOK, ScoresMatchRounds, RoundsDone
<1>4. /\ score' \in [Seats -> PLR_DISCONNECT .. LAST_QUEST]
      /\ \A i \in Seats \ {id} : score'[i] = score[i]
      /\ score'[id] > PLR_LOST => score'[id] = quest_num
  <2>1. CASE PassOver
    BY <1>1, <2>1 DEF PassOver, Inv, TypeOK, InGame
  <2>2. CASE Collect
    <3>0. score[id] = quest_num - 1
      BY <1>3, <2>2 DEF Collect
    <3>1. \E n \in {quest_num, PLR_LOST, PLR_DISCONNECT} : score' = [score EXCEPT ![id] = n]
      <4>1. score[id] + 1 = quest_num
        BY <1>1, <3>0
      <4>2. ASSUME NEW a, Judge(a)
            PROVE  \E n \in {quest_num, PLR_LOST} : score' = [score EXCEPT ![id] = n]
        BY <4>1, <4>2 DEF Judge
      <4>3. \/ Judge(cpack') \/ Judge(cpack)
            \/ score' = [score EXCEPT ![id] = PLR_DISCONNECT]
        BY <2>2 DEF Collect
      <4> QED
        BY <4>2, <4>3
    <3>2. {quest_num, PLR_LOST, PLR_DISCONNECT} \subseteq PLR_DISCONNECT .. LAST_QUEST
      BY <1>1 DEF PLR_LOST, PLR_DISCONNECT
    <3> QED
      BY <1>1, <3>1, <3>2 DEF Inv, TypeOK, PLR_LOST, PLR_DISCONNECT
  <2> QED
    BY <2>1, <2>2
<1>5. TypeOK'
  <2>1. /\ link' \in [Clients -> Links] /\ inbox' \in [Clients -> Seq(Answers)]
        /\ cpack' \in Answers \cup RightAnswers
    <3>1. CASE PassOver
      BY <3>1 DEF PassOver, Inv, TypeOK
    <3>2. CASE Collect
      <4> DEFINE c == players[id]
      <4>1. c \in Clients /\ inbox[c] \in Seq(Answers)
        BY <1>1 DEF Inv, TypeOK
      <4>2. inbox[c] # <<>> => Head(inbox[c]) \in Answers /\ Tail(inbox[c]) \in Seq(Answers)
        BY <4>1
      <4>3. link' \in {link, [link EXCEPT ![c] = "down"]}
        BY <3>2 DEF Collect
      <4>4. inbox' = inbox \/ (inbox[c] # <<>> /\ inbox' = [inbox EXCEPT ![c] = Tail(@)])
        BY <3>2 DEF Collect
      <4>5. cpack' = cpack \/ (inbox[c] # <<>> /\ cpack' = Head(inbox[c]))
        BY <3>2 DEF Collect
      <4> QED
        BY <4>1, <4>2, <4>3, <4>4, <4>5 DEF Inv, TypeOK, Links
    <3> QED
      BY <3>1, <3>2
  <2>2. id' \in 0 .. USER_COUNT
    BY <1>1, <1>2 DEF RoomSizes
  <2> QED
    BY <1>2, <1>4, <2>1, <2>2 DEF Inv, TypeOK
<1>6. Shape'
  BY <1>1, <1>2 DEF Inv, Shape, Playing, RoomSizes
<1>7. ScoresMatchRounds'
  <2>1. \A i \in Taken' : InGame(i)' => score'[i] = IF i < id + 1 THEN quest_num ELSE RoundsDone
    <3> TAKE i \in Taken'
    <3>1. i \in Seats /\ i \in Taken
      BY <1>1, <1>2 DEF Seats, RoomSizes
    <3>2. CASE i = id
      BY <1>4, <3>2, <1>1 DEF InGame, RoomSizes
    <3>3. CASE i # id
      BY <1>1, <1>4, <3>1, <3>3 DEF Inv, ScoresMatchRounds, InGame, Seats, TypeOK
    <3> QED
      BY <3>2, <3>3
  <2> QED
    BY <1>1, <1>2, <2>1 DEF ScoresMatchRounds, RoundsDone, RoomSizes
<1> QED
  BY <1>5, <1>6, <1>7 DEF Inv

\* The environment does not touch the room's variables.
LEMMA EnvironmentInv == Inv /\ Environment => Inv'
<1> SUFFICES ASSUME Inv, Environment PROVE Inv'
  OBVIOUS
<1> USE RoomAssumption
<1>1. UNCHANGED locals
  BY DEF Environment, Request, Answer, SendUnasked, Leave, ResetArrives, Shutdown
<1>2. /\ link' \in [Clients -> Links] /\ told' \in [Clients -> Told]
      /\ inbox' \in [Clients -> Seq(Answers)] /\ queueUp' \in BOOLEAN
  <2>1. ASSUME NEW c \in Clients, Answer(c) \/ SendUnasked(c)
        PROVE  inbox' \in [Clients -> Seq(Answers)]
    <3>1. PICK a \in Answers : inbox' = [inbox EXCEPT ![c] = Append(@, a)]
      BY <2>1 DEF Answer, SendUnasked
    <3> QED
      BY <3>1 DEF Inv, TypeOK
  <2>2. (Shutdown \/ \E c \in Clients : Request(c) \/ Leave(c) \/ ResetArrives(c)) => inbox' = inbox
    BY DEF Shutdown, Request, Leave, ResetArrives
  <2>3. inbox' \in [Clients -> Seq(Answers)]
    BY <2>1, <2>2 DEF Environment, Inv, TypeOK
  <2>4. /\ link' \in [Clients -> Links] /\ told' \in [Clients -> Told]
        /\ queueUp' \in BOOLEAN
    BY DEF Environment, Request, Answer, SendUnasked, Leave, ResetArrives, Shutdown, Inv, TypeOK, Links, Told
  <2> QED
    BY <2>3, <2>4
<1>3. queue' \in [MsgTypes -> Seq(RoomMsgs)]
  <2>1. ASSUME NEW c \in Clients, Request(c) PROVE queue' \in [MsgTypes -> Seq(RoomMsgs)]
    <3>1. PICK type \in {MSG_JOIN, MSG_CREATE}, n \in RoomSizes :
              queue' = MsgSnd(queue, type, [player |-> c, size |-> n])
      BY <2>1 DEF Request
    <3>2. type \in MsgTypes /\ [player |-> c, size |-> n] \in RoomMsgs
      BY DEF MsgTypes, RoomMsgs
    <3> QED
      BY <3>1, <3>2, QueueType DEF Inv, TypeOK
  <2>2. Shutdown => queue' \in [MsgTypes -> Seq(RoomMsgs)]
    BY DEF Shutdown, EmptyQueue
  <2> QED
    BY <2>1, <2>2 DEF Environment, Answer, SendUnasked, Leave, ResetArrives, Inv, TypeOK
<1> QED
  BY <1>1, <1>2, <1>3 DEF locals, Inv, TypeOK, Shape, ScoresMatchRounds, Taken, HasSeats, Playing, InGame,
     RoundsDone

\* Inv is an invariant of a room.
THEOREM Invariance == Spec => []Inv
<1>1. Inv /\ [Next]_vars => Inv'
  BY StutterInv, SeatFirstInv, SeatNextInv, AskInv, ControlInv, CollectInv, EnvironmentInv
     DEF Next, RoomStep
<1> QED
  BY InitInv, <1>1, PTL DEF Spec

\* Every variable keeps its type; no score outgrows the number of questions.
THEOREM TypeCorrect == Spec => []TypeOK
  BY Invariance, PTL DEF Inv

\* Nobody in the game was judged twice in a round or passed over.
THEOREM RoundsCorrect == Spec => []ScoresMatchRounds
  BY Invariance, PTL DEF Inv

\* Who is out stays out until the game is over.
THEOREM OutStaysOutCorrect == Spec => OutStaysOut
<1> DEFINE A == \A i \in Taken : (Playing /\ Playing' /\ ~InGame(i)) => ~InGame(i)'
<1>1. ASSUME Inv, Next, Playing, Playing', NEW i \in Taken, ~InGame(i)
      PROVE  ~InGame(i)'
  <2> USE DEF InGame
  <2>1. i \in Seats
    BY <1>1, RoomAssumption DEF Inv, TypeOK, Shape, Taken, HasSeats, Playing, Seats, RoomSizes
  <2>2. CASE Ask
    BY <1>1, <2>1, <2>2 DEF Ask, Inv, TypeOK, PLR_LOST, PLR_DISCONNECT
  <2>3. CASE Collect
    BY <1>1, <2>1, <2>3 DEF Collect, Judge, Inv, TypeOK, PLR_LOST, PLR_DISCONNECT
  <2>4. CASE UNCHANGED score
    BY <1>1, <2>4
  <2>5. ~SeatFirst /\ ~SeatNext
    BY <1>1 DEF SeatFirst, NoneTaken, SeatNext, Playing
  <2> QED
    BY <1>1, <2>2, <2>3, <2>4, <2>5 DEF Next, RoomStep, QueueGone, NoneTaken, AllAsked, PassOver, EndRound,
       GameOver,
       Fin, Environment, Request, Answer, SendUnasked, Leave, ResetArrives, Shutdown, locals
<1>2. Inv /\ [Next]_vars => [A]_vars
  BY <1>1
<1> QED
  BY Invariance, <1>2, PTL DEF Spec, OutStaysOut
=============================================================================
