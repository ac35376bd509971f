-------------------------- MODULE RoomAnswersProof --------------------------
(***************************************************************************)
(* Proofs about questions and answers, for any number of clients, seats    *)
(* and questions: a room waits only for answers to questions that were     *)
(* sent (NoMutualWait), judges an answer in the round it was given in      *)
(* (NoStaleAnswer, for clients that send only what they are asked) and     *)
(* tells who is out (OutIsTold).                                           *)
(*                                                                         *)
(* A room finds a player by his seat and a question by his socket, so all  *)
(* three rest on the seats being distinct (SeatsInv).  A round starts with *)
(* everybody's stream empty only because the round before emptied it:      *)
(* Stream follows a client's stream from his connection to his last answer.*)
(***************************************************************************)
EXTENDS RoomSeatsProof, WellFoundedInduction

\* Nothing to read from client c and nothing he was asked.
Quiet(c) == inbox[c] = <<>> /\ told[c] # "quest"

\* Only a client that is there was told something.
ToldThere == \A c \in Clients : told[c] # "none" => link[c] = "up"

\* Who is out, and there, was told so; before the game nobody is there and out.
OutTold ==
  \A i \in Taken : (score[i] = PLR_DISCONNECT /\ link[players[i]] = "up")
                   => Playing /\ told[players[i]] = "lost"

\* The stream of every client, until he is out.
Stream ==
  /\ state # "KILLED" => \A c \in Clients \ SeatedClients : Quiet(c)
  /\ ~Playing => \A i \in Taken : Quiet(players[i])
  /\ state = "GAME" => \A i \in Taken : InGame(i) => Quiet(players[i])
  /\ state = "ANSWERS" =>
       \A i \in Taken : InGame(i) =>
         IF i < id THEN Quiet(players[i])
         ELSE /\ Len(inbox[players[i]]) <= 1
              /\ told[players[i]] = "quest" => inbox[players[i]] = <<>>

AnswersInv ==
  /\ ToldThere
  /\ OutTold
  /\ NoMutualWait
  /\ UNASKED = 0 => Stream

-----------------------------------------------------------------------------
(* The sends of a loop.                                                    *)

\* A set of numbers that is not empty has a least one.
LEMMA Least ==
  ASSUME NEW S \in SUBSET Nat, S # {}
  PROVE  \E m \in S : \A i \in S : m <= i
<1>1. PICK m \in S : \A i \in S : ~(<<i, m>> \in OpToRel(<, Nat))
  BY NatLessThanWellFounded, WFMin
<1>2. \A i \in S : ~(i < m)
  BY <1>1 DEF OpToRel
<1>3. \A i \in S : i \in Nat /\ m \in Nat
  OBVIOUS
<1> QED
  BY <1>2, <1>3

\* A loop that stops at none of the seats it gets to gets to all of them.
LEMMA TriedAll ==
  ASSUME NEW T \in SUBSET Nat, NEW stop \in SUBSET T, Tried(T, stop) \cap stop = {}
  PROVE  Tried(T, stop) = T
<1>1. stop = {}
  <2>1. SUFFICES ASSUME stop # {} PROVE FALSE
    OBVIOUS
  <2>2. PICK m \in stop : \A i \in stop : m <= i
    BY <2>1, Least
  <2> QED
    BY <2>2 DEF Tried
<1> QED
  BY <1>1 DEF Tried

\* Sending takes nobody away at once and brings nobody back.
LEMMA SendLoopThere ==
  ASSUME ToldThere, NEW seated, NEW tried, NEW pkt, SendLoop(seated, tried, pkt)
  PROVE  ToldThere' /\ \A c \in Clients : link'[c] = "up" <=> link[c] = "up"
  BY DEF ToldThere, SendLoop, AfterSend

\* What Ask does for the player on seat i.
LEMMA AskSeat ==
  ASSUME SeatsInv, Ask, state' # "KILLED", NEW i \in Taken
  PROVE  /\ i \in Seats /\ players[i] \in Clients
         /\ link'[players[i]] = IF score[i] >= PLR_LOST THEN AfterSend(link[players[i]])
                                ELSE link[players[i]]
         /\ told'[players[i]] = IF link[players[i]] = "up" /\ score[i] >= PLR_LOST
                                THEN IF InGame(i) THEN "quest" ELSE "lost"
                                ELSE told[players[i]]
         /\ score'[i] = IF score[i] = PLR_LOST \/ (score[i] >= PLR_LOST /\ ~SendOK(link[players[i]]))
                        THEN PLR_DISCONNECT ELSE score[i]
<1> DEFINE toAsk   == {j \in 0 .. room_size - 1 : IsAsked(j)}
           pipes   == {j \in toAsk : SendPipe(link[players[j]])}
           tried   == Tried(toAsk, pipes)
           reached == {j \in tried : SendOK(link[players[j]])}
           c       == players[i]
<1>1. /\ state = "GAME" /\ Taken = 0 .. room_size - 1 /\ room_size \in RoomSizes
      /\ i \in Seats /\ c \in Clients
  BY RoomAssumption DEF Ask, SeatsInv, Inv, Shape, Playing, Taken, HasSeats, RoomSizes, Seats
<1>2. /\ SendLoop(players, tried, [x \in Clients |-> GamePacket(x)])
      /\ score' = [j \in Seats |-> IF j \in tried \ reached \/ (j < room_size /\ score[j] = PLR_LOST)
                                   THEN PLR_DISCONNECT ELSE score[j]]
      /\ ~ \E j \in tried : SendPipe(link[players[j]])
  BY DEF Ask
<1>3. tried = toAsk
  <2>1. toAsk \in SUBSET Nat
    BY <1>1 DEF RoomSizes
  <2>2. pipes \in SUBSET toAsk
    OBVIOUS
  <2>3. tried \cap pipes = {}
    <3> HIDE DEF tried
    <3> QED
      BY <1>2
  <2> HIDE DEF toAsk, pipes
  <2> QED
    BY <2>1, <2>2, <2>3, TriedAll
<1>4. i \in tried <=> score[i] >= PLR_LOST
  BY <1>1, <1>3 DEF IsAsked
<1>5. (\E j \in tried : players[j] = c) <=> i \in tried
  BY <1>1, <1>3 DEF SeatsInv, Apart
<1>6. GamePacket(c) = IF InGame(i) THEN "quest" ELSE "lost"
  BY <1>1 DEF GamePacket, SeatsInv, Apart
<1> HIDE DEF tried
<1>7. link'[c] = IF i \in tried THEN AfterSend(link[c]) ELSE link[c]
  BY <1>1, <1>2, <1>5 DEF SendLoop
<1>8. told'[c] = IF link[c] = "up" /\ i \in tried THEN GamePacket(c) ELSE told[c]
  BY <1>1, <1>2, <1>5 DEF SendLoop
<1>9. i < room_size
  BY <1>1 DEF RoomSizes
<1> QED
  BY <1>1, <1>2, <1>4, <1>6, <1>7, <1>8, <1>9
-----------------------------------------------------------------------------
(* AnswersInv holds in the initial state and is kept by every step.        *)

LEMMA InitAnswers == Init => AnswersInv
  BY DEF Init, AnswersInv, ToldThere, OutTold, NoMutualWait, Stream, Quiet, Taken, HasSeats, Playing

\* Shapes of the seats that the steps below share.
LEMMA SeatTypes ==
  ASSUME SeatsInv, NEW i \in Taken
  PROVE  i \in Seats /\ players[i] \in Clients /\ players[i] \in SeatedClients
         /\ \A j \in Taken : players[i] = players[j] => i = j
  BY RoomAssumption DEF SeatsInv, Inv, TypeOK, Shape, Apart, Taken, HasSeats, Playing, Seats, RoomSizes,
     SeatedClients

LEMMA AskAnswers == SeatsInv /\ AnswersInv /\ Ask => AnswersInv'
<1> SUFFICES ASSUME SeatsInv, AnswersInv, Ask PROVE AnswersInv'
  OBVIOUS
<1>1. /\ state = "GAME" /\ state' \in {"ANSWERS", "GAMEOVER", "KILLED"} /\ id' = 0
      /\ UNCHANGED <<players, inbox, last_plr_id>>
  BY DEF Ask
<1>2. /\ state' # "KILLED" => Playing' /\ Taken' = Taken /\ SeatedClients' = SeatedClients
      /\ state' = "KILLED" => ~Playing' /\ Taken' = {}
  BY <1>1 DEF Taken, HasSeats, Playing, SeatedClients
<1>3. ToldThere' /\ \A c \in Clients : link'[c] = "up" <=> link[c] = "up"
  BY SendLoopThere DEF Ask, AnswersInv
<1>4. CASE state' = "KILLED"
  BY <1>2, <1>3, <1>4 DEF AnswersInv, OutTold, NoMutualWait, Stream
<1>5. CASE state' # "KILLED"
  <2>1. ASSUME NEW i \in Taken
        PROVE  /\ players[i] \in Clients /\ score[i] \in Int
               /\ told'[players[i]] = IF link[players[i]] = "up" /\ score[i] >= PLR_LOST
                                      THEN IF InGame(i) THEN "quest" ELSE "lost"
                                      ELSE told[players[i]]
               /\ score'[i] = IF score[i] = PLR_LOST \/ (score[i] >= PLR_LOST /\ ~SendOK(link[players[i]]))
                              THEN PLR_DISCONNECT ELSE score[i]
    BY <1>5, AskSeat DEF SeatsInv, Inv, TypeOK, PLR_DISCONNECT
  <2>2. OutTold'
    BY <1>1, <1>2, <1>3, <1>5, <2>1 DEF AnswersInv, OutTold, InGame, SendOK, PLR_LOST, PLR_DISCONNECT
  <2>3. NoMutualWait'
    BY <1>1, <1>2, <1>3, <1>5, <2>1 DEF NoMutualWait, InGame, PLR_LOST, PLR_DISCONNECT
  <2>4. ASSUME UNASKED = 0 PROVE Stream'
    <3>1. \A c \in Clients \ SeatedClients : told'[c] = told[c]
      <4>1. PICK tried \in SUBSET Taken :
                SendLoop(players, tried, [c \in Clients |-> GamePacket(c)])
        <5>1. Taken = 0 .. room_size - 1
          BY <1>1 DEF SeatsInv, Inv, Shape, Playing, Taken, HasSeats
        <5> QED
          BY <5>1, TriedSubset DEF Ask
      <4> QED
        BY <4>1 DEF SendLoop, SeatedClients
    <3>2. \A c \in Clients \ SeatedClients : Quiet(c)'
      BY <1>1, <1>5, <2>4, <3>1 DEF AnswersInv, Stream, Quiet
    <3>3. \A i \in Taken : InGame(i)' => InGame(i)
      BY <2>1 DEF InGame, PLR_LOST, PLR_DISCONNECT
    <3>4. \A i \in Taken : InGame(i)' => inbox'[players[i]] = <<>>
      BY <1>1, <2>4, <3>3 DEF AnswersInv, Stream, Quiet
    <3>5. \A i \in Taken : ~(i < id')
      BY <1>1, SeatTypes DEF Seats
    <3> QED
      BY <1>1, <1>2, <1>5, <3>2, <3>4, <3>5 DEF Stream
  <2> QED
    BY <1>3, <2>2, <2>3, <2>4 DEF AnswersInv
<1> QED
  BY <1>4, <1>5

\* An answer is read, or the end of the stream.
LEMMA CollectAnswers == SeatsInv /\ AnswersInv /\ Collect => AnswersInv'
<1> SUFFICES ASSUME SeatsInv, AnswersInv, Collect PROVE AnswersInv'
  OBVIOUS
<1> DEFINE c == players[id]
<1>1. /\ state = "ANSWERS" /\ id' = id + 1 /\ id \in Nat /\ InGame(id)
      /\ UNCHANGED <<state, players, last_plr_id, told>>
  BY DEF Collect, SeatsInv, Inv, TypeOK
<1>2. id \in Taken
  BY DEF Collect, SeatsInv, Inv, TypeOK, Shape, Taken, HasSeats, Playing
<1>3. Playing /\ Playing' /\ Taken' = Taken /\ SeatedClients' = SeatedClients
  BY <1>1 DEF Taken, HasSeats, Playing, SeatedClients
<1>4. \/ (inbox[c] # <<>> /\ inbox' = [inbox EXCEPT ![c] = Tail(@)] /\ link' = link /\ Judge(cpack'))
      \/ (inbox[c] = <<>> /\ inbox' = inbox /\ link[c] # "up" /\ link' = link /\ Judge(cpack))
      \/ (inbox[c] = <<>> /\ inbox' = inbox /\ link[c] # "up" /\ link' = [link EXCEPT ![c] = "down"]
          /\ score' = [score EXCEPT ![id] = PLR_DISCONNECT])
  BY DEF Collect, RecvEOF, RecvErr
<1>5. c \in Clients /\ \A i \in Taken \ {id} : players[i] # c
  BY <1>2, SeatTypes
<1>6. /\ \A x \in Clients \ {c} : inbox'[x] = inbox[x] /\ link'[x] = link[x]
      /\ link'[c] = "up" <=> link[c] = "up"
  BY <1>4, <1>5 DEF SeatsInv, Inv, TypeOK
<1>7. \A i \in Taken \ {id} : score'[i] = score[i]
  BY <1>2, <1>4, SeatTypes DEF Judge, SeatsInv, Inv, TypeOK
<1>8. score'[id] = PLR_DISCONNECT => link'[c] # "up"
  <2>1. id \in Seats /\ score[id] \in Int
    BY <1>2, SeatTypes DEF SeatsInv, Inv, TypeOK, PLR_DISCONNECT
  <2>2. ASSUME NEW a, Judge(a) PROVE score'[id] # PLR_DISCONNECT
    BY <1>1, <2>1, <2>2 DEF Judge, InGame, SeatsInv, Inv, TypeOK, PLR_LOST, PLR_DISCONNECT
  <2> QED
    BY <1>4, <1>6, <2>2
<1>9. \A i \in Taken : players[i] \in Clients /\ i \in Nat
  BY SeatTypes DEF Seats
<1> HIDE DEF c
<1>10. ToldThere'
  BY <1>1, <1>5, <1>6 DEF AnswersInv, ToldThere
<1>11. OutTold'
  <2> SUFFICES ASSUME NEW i \in Taken, score'[i] = PLR_DISCONNECT, link'[players[i]] = "up"
               PROVE  told[players[i]] = "lost"
    BY <1>1, <1>3 DEF OutTold
  <2>1. i # id
    BY <1>8 DEF c
  <2> QED
    BY <1>5, <1>6, <1>7, <1>9, <2>1 DEF AnswersInv, OutTold
<1>12. NoMutualWait'
  <2> SUFFICES ASSUME NEW i \in Taken, i >= id + 1, InGame(i)', link'[players[i]] = "up"
               PROVE  told[players[i]] = "quest" \/ inbox'[players[i]] # <<>>
    BY <1>1, <1>3 DEF NoMutualWait
  <2>1. i # id /\ i >= id
    BY <1>1, <1>9
  <2> QED
    BY <1>1, <1>5, <1>6, <1>7, <1>9, <2>1 DEF AnswersInv, NoMutualWait, InGame
<1>13. ASSUME UNASKED = 0 PROVE Stream'
  <2>1. Stream
    BY <1>13 DEF AnswersInv
  <2>2. \A x \in Clients \ SeatedClients : Quiet(x)'
    <3>1. c \in SeatedClients
      BY <1>2 DEF SeatedClients, c
    <3> QED
      BY <1>1, <1>6, <2>1, <3>1 DEF Stream, Quiet
  <2>3. inbox'[c] = <<>> /\ told'[c] # "quest"
    <3>1. Len(inbox[c]) <= 1 /\ (told[c] = "quest" => inbox[c] = <<>>)
      BY <1>1, <1>2, <2>1 DEF Stream, c
    <3>2. inbox[c] \in Seq(Answers)
      BY <1>5 DEF SeatsInv, Inv, TypeOK
    <3>3. CASE inbox[c] # <<>>
      <4>1. Tail(inbox[c]) = <<>>
        BY <3>1, <3>2, <3>3
      <4>2. inbox'[c] = Tail(inbox[c])
        BY <1>4, <1>5, <3>3 DEF SeatsInv, Inv, TypeOK
      <4> QED
        BY <1>1, <3>1, <3>3, <4>1, <4>2
    <3>4. CASE inbox[c] = <<>>
      <4>1. link[c] # "up" /\ inbox' = inbox
        BY <1>4, <3>4
      <4>2. told[c] = "none"
        BY <1>5, <4>1 DEF AnswersInv, ToldThere
      <4> QED
        BY <1>1, <3>4, <4>1, <4>2
    <3> QED
      BY <3>3, <3>4
  <2>4. ASSUME NEW i \in Taken, InGame(i)'
        PROVE  IF i < id + 1 THEN Quiet(players[i])'
               ELSE /\ Len(inbox'[players[i]]) <= 1
                    /\ told'[players[i]] = "quest" => inbox'[players[i]] = <<>>
    <3>1. CASE i = id
      BY <1>1, <2>3, <3>1 DEF Quiet, c
    <3>2. CASE i # id
      <4>1. InGame(i) /\ players[i] \in Clients \ {c} /\ (i < id + 1 <=> i < id)
        BY <1>1, <1>5, <1>7, <1>9, <2>4, <3>2 DEF InGame
      <4>2. inbox'[players[i]] = inbox[players[i]] /\ told' = told
        BY <1>1, <1>6, <4>1
      <4> QED
        BY <1>1, <2>1, <4>1, <4>2 DEF Stream, Quiet
    <3> QED
      BY <3>1, <3>2
  <2> QED
    BY <1>1, <1>3, <2>2, <2>4 DEF Stream, Quiet
<1> QED
  BY <1>10, <1>11, <1>12, <1>13 DEF AnswersInv

\* While nobody plays, nobody was asked: a new player finds his stream empty.
LEMMA SeatAnswers == SeatsInv /\ AnswersInv /\ (SeatFirst \/ SeatNext) => AnswersInv'
<1> SUFFICES ASSUME SeatsInv, AnswersInv, SeatFirst \/ SeatNext PROVE AnswersInv'
  OBVIOUS
<1>1. PICK seated, tried, pkt : /\ SendLoop(seated, tried, pkt)
                                /\ \A c \in Clients : pkt[c] \in {"wait", "full"}
  <2>1. ASSUME SeatFirst
        PROVE  SendLoop(players', {0}, [c \in Clients |-> "wait"])
    BY <2>1 DEF SeatFirst, NoneTaken
  <2>2. ASSUME SeatNext
        PROVE  \E seated, tried :
                 SendLoop(seated, tried, [c \in Clients |-> IF last_plr_id + 1 = room_size THEN "full" ELSE "wait"])
    BY <2>2 DEF SeatNext
  <2> QED
    BY <2>1, <2>2
<1>2. ToldThere' /\ \A c \in Clients : link'[c] = "up" <=> link[c] = "up"
  BY <1>1, SendLoopThere DEF AnswersInv
<1>3. state \in {"INIT", "WAIT"} /\ state' \in {"WAIT", "GAME", "FIN", "KILLED"} /\ inbox' = inbox
  BY DEF SeatFirst, NoneTaken, SeatNext
<1>4. NoMutualWait'
  BY <1>3 DEF NoMutualWait
<1>5. \A i \in Taken' : players'[i] \in Clients
  BY SeatFirstInv, SeatNextInv DEF SeatsInv, Inv, Shape
<1>6. OutTold'
  <2> SUFFICES ASSUME NEW i \in Taken', score'[i] = PLR_DISCONNECT PROVE link[players'[i]] # "up"
    BY <1>2, <1>5 DEF OutTold
  <2>1. CASE SeatFirst
    <3>1. i = 0 /\ score'[0] = 0
      BY <2>1, RoomAssumption DEF SeatFirst, NoneTaken, Taken, SeatsInv, Inv, TypeOK, Seats
    <3> QED
      BY <3>1 DEF PLR_DISCONNECT
  <2>2. CASE SeatNext
    <3> DEFINE n      == last_plr_id
               failed == {j \in ToTell(n) : ~SendOK(link[players'[j]])}
               sent   == Tried(ToTell(n), failed)
    <3>1. /\ Taken = 0 .. n - 1 /\ i \in 0 .. n /\ n \in Seats
      BY <2>2, RoomAssumption DEF SeatNext, SeatsInv, Inv, TypeOK, Shape, Taken, HasSeats, Playing, Seats,
         RoomSizes
    <3>2. /\ players' = [players EXCEPT ![n] = Head(queue[MSG_JOIN]).player]
          /\ score' = [j \in Seats |-> IF j \in sent \cap failed THEN PLR_DISCONNECT
                                       ELSE IF j = n THEN 0 ELSE score[j]]
      BY <2>2 DEF SeatNext
    <3>3. CASE i \in failed
      BY <3>3 DEF SendOK
    <3>4. CASE i \notin failed
      <4>1. i # n /\ score[i] = PLR_DISCONNECT
        <5>1. i \in Seats /\ PLR_DISCONNECT # 0
          BY <3>1, RoomAssumption DEF Seats, PLR_DISCONNECT
        <5> HIDE DEF failed, sent
        <5>2. score'[i] = IF i = n THEN 0 ELSE score[i]
          BY <3>2, <3>4, <5>1
        <5> QED
          BY <5>1, <5>2
      <4>2. i \in Taken /\ players'[i] = players[i]
        BY <3>1, <3>2, <4>1 DEF SeatsInv, Inv, TypeOK, Seats
      <4> QED
        BY <2>2, <4>1, <4>2 DEF AnswersInv, OutTold, SeatNext, Playing
    <3> QED
      BY <3>3, <3>4
  <2> QED
    BY <2>1, <2>2
<1>7. ASSUME UNASKED = 0 PROVE Stream'
  <2>1. \A c \in Clients : Quiet(c)
    BY <1>3, <1>7 DEF AnswersInv, Stream, SeatedClients, Playing
  <2>2. \A c \in Clients : Quiet(c)'
    BY <1>1, <1>3, <2>1 DEF SendLoop, Quiet
  <2> QED
    BY <1>3, <1>5, <2>2 DEF Stream, Quiet
<1> QED
  BY <1>2, <1>4, <1>6, <1>7 DEF AnswersInv

\* The steps that read and send nothing.
LEMMA ControlAnswers ==
  ASSUME SeatsInv, AnswersInv, QueueGone \/ AllAsked \/ PassOver \/ EndRound \/ GameOver \/ Fin
  PROVE  AnswersInv'
<1>1. CASE GameOver \/ Fin
  <2>1. /\ CloseSeats(last_plr_id) /\ Taken = 0 .. last_plr_id - 1 /\ Taken' = {} /\ ~Playing'
        /\ state # "KILLED"
    BY <1>1 DEF GameOver, Fin, SeatsInv, Inv, Shape, Playing, Taken, HasSeats
  <2>2. FirstPlayers(last_plr_id) = SeatedClients
    BY <2>1 DEF FirstPlayers, SeatedClients
  <2>3. \A c \in Clients :
          IF c \in SeatedClients THEN told'[c] = "none" /\ inbox'[c] = <<>>
          ELSE told'[c] = told[c] /\ inbox'[c] = inbox[c] /\ link'[c] = link[c]
    BY <2>1, <2>2 DEF CloseSeats
  <2>4. ToldThere'
    BY <2>3 DEF AnswersInv, ToldThere
  <2>5. UNASKED = 0 => \A c \in Clients : Quiet(c)'
    BY <2>1, <2>3 DEF AnswersInv, Stream, Quiet
  <2> QED
    BY <2>1, <2>4, <2>5 DEF AnswersInv, OutTold, NoMutualWait, Stream, Playing
<1>2. CASE QueueGone \/ AllAsked
  <2>1. /\ UNCHANGED <<players, score, link, told, inbox>> /\ state' \in {"FIN", "GAMEOVER"}
        /\ state # "KILLED" /\ (Playing <=> Playing')
    BY <1>2 DEF QueueGone, NoneTaken, Waiting, AllAsked, Playing
  <2>2. Taken' = Taken
    BY <1>2 DEF QueueGone, NoneTaken, Waiting, AllAsked, Taken, HasSeats, Playing
  <2>3. SeatedClients' = SeatedClients
    BY <2>1, <2>2 DEF SeatedClients
  <2> QED
    BY <2>1, <2>2, <2>3 DEF AnswersInv, ToldThere, OutTold, NoMutualWait, Stream, Quiet
<1>3. CASE EndRound
  <2>1. /\ UNCHANGED <<players, score, link, told, inbox>> /\ state = "ANSWERS" /\ state' = "GAME"
        /\ Playing /\ Playing' /\ Taken' = Taken /\ SeatedClients' = SeatedClients
    BY <1>3 DEF EndRound, Playing, Taken, HasSeats, SeatedClients
  <2>2. \A i \in Taken : i < id
    BY <1>3 DEF EndRound, AllRead, SeatsInv, Inv, Shape, Taken, HasSeats, Playing, TypeOK, RoomSizes
  <2> QED
    BY <2>1, <2>2 DEF AnswersInv, ToldThere, OutTold, NoMutualWait, Stream, Quiet, InGame
<1>4. CASE PassOver
  <2>1. /\ UNCHANGED <<players, score, link, told, inbox, state>> /\ state = "ANSWERS" /\ id' = id + 1
        /\ Playing /\ Playing' /\ Taken' = Taken /\ SeatedClients' = SeatedClients
        /\ ~InGame(id) /\ id \in Nat
    BY <1>4 DEF PassOver, Playing, Taken, HasSeats, SeatedClients, SeatsInv, Inv, TypeOK
  <2>2. \A i \in Taken : i \in Nat /\ (InGame(i) => (i < id + 1 <=> i < id) /\ (i >= id + 1 <=> i >= id))
    BY <2>1, SeatTypes DEF Seats
  <2> QED
    BY <2>1, <2>2 DEF AnswersInv, ToldThere, OutTold, NoMutualWait, Stream, Quiet, InGame
<1> QED
  BY <1>1, <1>2, <1>3, <1>4

\* Clients answer what they are asked, leave and come.
LEMMA EnvironmentAnswers == SeatsInv /\ AnswersInv /\ Environment => AnswersInv'
<1> SUFFICES ASSUME SeatsInv, AnswersInv, Environment PROVE AnswersInv'
  OBVIOUS
<1>1. UNCHANGED <<state, last_plr_id, players, score, id>> /\ state # "KILLED"
  BY DEF Environment, Request, Answer, SendUnasked, Leave, ResetArrives, Shutdown, locals
<1>2. /\ Taken' = Taken /\ SeatedClients' = SeatedClients /\ (Playing <=> Playing')
      /\ \A i : InGame(i)' <=> InGame(i)
  BY <1>1 DEF Taken, HasSeats, Playing, SeatedClients, InGame
<1>3. \A i \in Taken : players[i] \in Clients /\ players[i] \in SeatedClients
  BY SeatTypes
<1>4. CASE Shutdown
  BY <1>1, <1>2, <1>4 DEF Shutdown, AnswersInv, ToldThere, OutTold, NoMutualWait, Stream, Quiet
<1>5. ASSUME NEW c \in Clients, Request(c) \/ Leave(c) \/ ResetArrives(c)
      PROVE  AnswersInv'
  <2>1. /\ inbox' = inbox
        /\ \A x \in Clients \ {c} : link'[x] = link[x] /\ told'[x] = told[x]
        /\ told'[c] \in {told[c], "none"}
    BY <1>5 DEF Request, Leave, ResetArrives, SeatsInv, Inv, TypeOK
  <2>2. link'[c] # "up" \/ (link[c] = "closed" /\ told'[c] = told[c])
    BY <1>5, RoomAssumption DEF Request, Leave, ResetArrives, SeatsInv, Inv, TypeOK
  <2>3. link'[c] = "up" => c \notin SeatedClients
    BY <2>2 DEF SeatsInv, Apart
  <2>4. told'[c] = "none"
    <3>1. CASE Leave(c)
      BY <3>1 DEF Leave, SeatsInv, Inv, TypeOK
    <3>2. CASE Request(c) \/ ResetArrives(c)
      BY <3>2 DEF Request, ResetArrives, AnswersInv, ToldThere
    <3> QED
      BY <1>5, <3>1, <3>2
  <2>5. ToldThere'
    BY <2>1, <2>4 DEF AnswersInv, ToldThere
  <2>6. OutTold' /\ NoMutualWait'
    BY <1>1, <1>2, <1>3, <2>1, <2>3 DEF AnswersInv, OutTold, NoMutualWait
  <2>7. ASSUME UNASKED = 0 PROVE Stream'
    <3>1. \A x \in Clients : inbox'[x] = inbox[x] /\ (told'[x] = "quest" => told[x] = "quest")
      BY <2>1, <2>4
    <3> QED
      BY <1>1, <1>2, <1>3, <2>7, <3>1 DEF AnswersInv, Stream, Quiet
  <2> QED
    BY <2>5, <2>6, <2>7 DEF AnswersInv
<1>6. ASSUME NEW c \in Clients, Answer(c) \/ SendUnasked(c)
      PROVE  AnswersInv'
  <2>1. PICK a \in Answers : inbox' = [inbox EXCEPT ![c] = Append(@, a)]
    BY <1>6 DEF Answer, SendUnasked
  <2>2. /\ link' = link /\ link[c] = "up" /\ inbox[c] \in Seq(Answers)
        /\ told' = told \/ (told[c] = "quest" /\ told' = [told EXCEPT ![c] = "replied"])
    BY <1>6 DEF Answer, SendUnasked, SeatsInv, Inv, TypeOK
  <2>3. /\ inbox'[c] = Append(inbox[c], a) /\ inbox'[c] # <<>> /\ Len(inbox'[c]) = Len(inbox[c]) + 1
        /\ \A x \in Clients \ {c} : inbox'[x] = inbox[x] /\ told'[x] = told[x]
    BY <2>1, <2>2 DEF SeatsInv, Inv, TypeOK
  <2>4. ToldThere' /\ OutTold' /\ NoMutualWait'
    BY <1>1, <1>2, <1>3, <2>2, <2>3 DEF AnswersInv, ToldThere, OutTold, NoMutualWait
  <2>5. ASSUME UNASKED = 0 PROVE Stream'
    <3>1. told[c] = "quest" /\ told'[c] = "replied"
      <4>1. ~SendUnasked(c)
        BY <2>2, <2>5 DEF SendUnasked
      <4> QED
        BY <1>6, <4>1 DEF Answer, SeatsInv, Inv, TypeOK
    <3>2. ~Quiet(c) /\ Stream
      BY <2>5, <3>1 DEF Quiet, AnswersInv
    <3>3. \A x \in Clients \ {c} : Quiet(x)' <=> Quiet(x)
      BY <2>3 DEF Quiet
    <3>4. Playing /\ c \in SeatedClients
      BY <1>1, <3>2 DEF Stream, SeatedClients
    <3>5. state = "GAME" => \A i \in Taken : InGame(i) => players[i] # c
      BY <3>2 DEF Stream
    <3>6. ASSUME state = "ANSWERS", NEW i \in Taken, InGame(i)
          PROVE  IF i < id THEN Quiet(players[i])'
                 ELSE /\ Len(inbox'[players[i]]) <= 1
                      /\ told'[players[i]] = "quest" => inbox'[players[i]] = <<>>
      <4>1. CASE players[i] = c
        <5>1. ~(i < id) /\ inbox[c] = <<>>
          BY <3>1, <3>2, <3>6, <4>1 DEF Stream
        <5>2. Len(inbox'[c]) = 1
          BY <2>3, <5>1
        <5> QED
          BY <3>1, <4>1, <5>1, <5>2
      <4>2. CASE players[i] # c
        BY <1>1, <1>3, <2>3, <3>2, <3>6, <4>2 DEF Stream, Quiet
      <4> QED
        BY <4>1, <4>2
    <3>7. state = "GAME" => \A i \in Taken : InGame(i) => Quiet(players[i])'
      BY <1>1, <1>3, <2>3, <3>2, <3>5 DEF Stream, Quiet
    <3> QED
      BY <1>1, <1>2, <3>2, <3>3, <3>4, <3>6, <3>7 DEF Stream, Quiet
  <2> QED
    BY <2>4, <2>5 DEF AnswersInv
<1> QED
  BY <1>4, <1>5, <1>6 DEF Environment

LEMMA StutterAnswers == AnswersInv /\ UNCHANGED vars => AnswersInv'
  BY DEF vars, locals, AnswersInv, ToldThere, OutTold, NoMutualWait, Stream, Quiet, Taken, HasSeats, Playing,
     SeatedClients, InGame

\* AnswersInv is an invariant of a room.
THEOREM AnswersInvariance == Spec => []AnswersInv
<1>1. SeatsInv /\ AnswersInv /\ [Next]_vars => AnswersInv'
  BY StutterAnswers, SeatAnswers, AskAnswers, CollectAnswers, ControlAnswers, EnvironmentAnswers
     DEF Next, RoomStep
<1> QED
  BY InitAnswers, SeatsInvariance, <1>1, PTL DEF Spec

\* A room never waits for an answer to a question its player never got.
THEOREM NoMutualWaitCorrect == Spec => []NoMutualWait
  BY AnswersInvariance, PTL DEF AnswersInv

\* A player put out, whose connection works, is told so with the next question.
THEOREM OutIsToldCorrect == Spec => []OutIsTold
<1>1. OutTold => OutIsTold
  BY DEF OutTold, OutIsTold
<1> QED
  BY AnswersInvariance, <1>1, PTL DEF AnswersInv

\* Clients that send only what they are asked have their answers judged in the
\* round they were given in.
THEOREM NoStaleAnswerCorrect == Spec => [](UNASKED = 0 => NoStaleAnswer)
<1>1. AnswersInv => (UNASKED = 0 => NoStaleAnswer)
  BY DEF AnswersInv, Stream, Quiet, NoStaleAnswer
<1> QED
  BY AnswersInvariance, <1>1, PTL
=============================================================================
