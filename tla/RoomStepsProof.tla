--------------------------- MODULE RoomStepsProof ---------------------------
(***************************************************************************)
(* Proofs of what a room does step by step, for any number of clients,     *)
(* seats and questions.                                                    *)
(*                                                                         *)
(* What it says and notices: a client takes no question before the packet  *)
(* of the full room, unless the loop that announces stopped before him     *)
(* (FullIsTold); and, when clients leave by a reset, a game never sends on *)
(* a connection whose failure was reported (GameSurvivesResets) and never  *)
(* credits an answer that was not given (CreditBacked).  The last two      *)
(* follow from OnlyResets: a connection that is "down" was found so by a   *)
(* send or a recv of this room, which put the player out.  A client that   *)
(* closes in order breaks it: his connection goes "down" by itself, which  *)
(* is why the two properties are for resets.                               *)
(*                                                                         *)
(* What it promises: a room implements Lobby.  A step maps to the step of  *)
(* Lobby that its comment names.  Lobby counts clients where the room      *)
(* counts seats; the two agree because seats are distinct (SeatsInv).      *)
(* Lobby ends a game that has run out of questions or of players; the room *)
(* forgets which when it enters GAMEOVER, so FewLeft remembers it.         *)
(***************************************************************************)
EXTENDS RoomAnswersProof, FiniteSetTheorems

\* Who was not told of the full room sits behind a player found gone.
FullOrBehind ==
  Playing => \A j \in Taken :
    (link[players[j]] = "up" /\ told[players[j]] \in {"none", "wait"})
      => \E i \in Taken : i < j /\ score[i] = PLR_DISCONNECT

OnlyResets ==
  /\ \A c \in Clients : link[c] \notin {"fin", "finsent"}
  /\ state # "KILLED" => \A c \in Clients \ SeatedClients : link[c] # "down"
  /\ (state = "WAIT" \/ Playing) =>
       \A i \in Taken : link[players[i]] = "down" => score[i] = PLR_DISCONNECT

LinksInv == FullOrBehind /\ (LeaveModes \subseteq {"rst"} => OnlyResets)

-----------------------------------------------------------------------------
(* LinksInv holds in the initial state and is kept by every step.          *)

LEMMA InitLinks == Init => LinksInv
  BY DEF Init, LinksInv, FullOrBehind, OnlyResets, Taken, HasSeats, Playing

\* What SeatNext does for the players on the seats.
LEMMA SeatNextSeats ==
  ASSUME SeatsInv, SeatsInv', SeatNext, state' # "KILLED"
  PROVE  \E sent \in SUBSET Taken', failed \in SUBSET Taken' :
         /\ \A i \in Taken' : i \notin sent => \E j \in sent \cap failed : j < i
         /\ \A i \in Taken' :
              /\ players'[i] \in Clients
              /\ i \in failed <=> ~SendOK(link[players'[i]])
              /\ i \in sent => link[players'[i]] # "down"
              /\ link'[players'[i]] = IF i \in sent THEN AfterSend(link[players'[i]]) ELSE link[players'[i]]
              /\ (i \in sent /\ link[players'[i]] = "up" /\ state' = "GAME") => told'[players'[i]] = "full"
              /\ i \in sent \cap failed => score'[i] = PLR_DISCONNECT
              /\ i \notin sent \cap failed => score'[i] = IF i = last_plr_id THEN 0 ELSE score[i]
         /\ \A c \in Clients \ SeatedClients' : link'[c] = link[c]
<1> DEFINE n      == last_plr_id
           full   == n + 1 = room_size
           failed == {i \in ToTell(n) : ~SendOK(link[players'[i]])}
           sent   == Tried(ToTell(n), failed)
<1>1. /\ players' = [players EXCEPT ![n] = Head(queue[MSG_JOIN]).player]
      /\ SendLoop(players', sent, [c \in Clients |-> IF full THEN "full" ELSE "wait"])
      /\ score' = [i \in Seats |-> IF i \in sent \cap failed THEN PLR_DISCONNECT
                                   ELSE IF i = n THEN 0 ELSE score[i]]
      /\ ~ \E i \in sent : SendPipe(link[players'[i]])
      /\ state' = "GAME" => full
      /\ state' \in {"GAME", "WAIT"} /\ last_plr_id' = n + 1
  BY DEF SeatNext
<1>2. Taken' = 0 .. n /\ ToTell(n) = 0 .. n /\ n \in Nat /\ Taken' \subseteq Seats
  <2>1. n \in Seats /\ n \in Nat
    BY RoomAssumption DEF SeatNext, SeatsInv, Inv, TypeOK, Shape, Seats, RoomSizes
  <2> QED
    BY <1>1, <2>1, RoomAssumption DEF Taken, HasSeats, Playing, Seats, ToTell
<1>3. failed \subseteq Taken' /\ sent \subseteq Taken'
  BY <1>2, TriedSubset
<1>4. \A i \in Taken' : i \notin sent => \E j \in sent \cap failed : j < i
  <2> SUFFICES ASSUME NEW i \in Taken', i \notin sent PROVE \E j \in sent \cap failed : j < i
    OBVIOUS
  <2>1. PICK k \in failed : k < i
    BY <1>2 DEF Tried
  <2>2. failed \in SUBSET Nat
    BY <1>2, <1>3
  <2>3. PICK j \in failed : \A l \in failed : j <= l
    <3> HIDE DEF failed
    <3> QED
      BY <2>1, <2>2, Least
  <2>4. j \in sent
    BY <2>3 DEF Tried
  <2>5. j < i
    BY <1>2, <2>1, <2>3
  <2> QED
    BY <2>3, <2>4, <2>5
<1>5. \A i \in Taken' : players'[i] \in Clients /\ \A j \in Taken' : players'[i] = players'[j] => i = j
  BY DEF SeatsInv, Inv, Shape, Apart
<1>6. \A i \in Taken' : i \in failed <=> ~SendOK(link[players'[i]])
  BY <1>2
<1> HIDE DEF failed, sent
<1>7. \A i \in Taken' : (\E j \in sent : players'[j] = players'[i]) <=> i \in sent
  BY <1>3, <1>5
<1>8. ASSUME NEW i \in Taken'
      PROVE  /\ link'[players'[i]] = IF i \in sent THEN AfterSend(link[players'[i]]) ELSE link[players'[i]]
             /\ (i \in sent /\ link[players'[i]] = "up" /\ state' = "GAME") => told'[players'[i]] = "full"
  BY <1>1, <1>5, <1>7 DEF SendLoop
<1>9. \A c \in Clients \ SeatedClients' : link'[c] = link[c]
  BY <1>1, <1>3 DEF SendLoop, SeatedClients
<1>10. \A i \in Taken' : /\ i \in sent \cap failed => score'[i] = PLR_DISCONNECT
                         /\ i \notin sent \cap failed => score'[i] = IF i = n THEN 0 ELSE score[i]
  BY <1>1, <1>2
<1>11. \A i \in sent : link[players'[i]] # "down"
  BY <1>1 DEF SendPipe
<1> QED
  BY <1>3, <1>4, <1>5, <1>6, <1>8, <1>9, <1>10, <1>11

LEMMA SeatNextLinks == SeatsInv /\ SeatsInv' /\ LinksInv /\ SeatNext => LinksInv'
<1> SUFFICES ASSUME SeatsInv, SeatsInv', LinksInv, SeatNext PROVE LinksInv'
  OBVIOUS
<1>1. CASE state' = "KILLED"
  <2>1. ~Playing' /\ state' # "WAIT"
    BY <1>1 DEF Playing
  <2>2. PICK seated, tried, pkt : SendLoop(seated, tried, pkt)
    BY DEF SeatNext
  <2>3. (\A c \in Clients : link[c] \notin {"fin", "finsent"})
          => \A c \in Clients : link'[c] \notin {"fin", "finsent"}
    BY <2>2 DEF SendLoop, AfterSend
  <2> QED
    BY <1>1, <2>1, <2>3 DEF LinksInv, FullOrBehind, OnlyResets
<1>2. CASE state' # "KILLED"
  <2>1. PICK sent \in SUBSET Taken', failed \in SUBSET Taken' :
         /\ \A i \in Taken' : i \notin sent => \E j \in sent \cap failed : j < i
         /\ \A i \in Taken' :
              /\ players'[i] \in Clients
              /\ i \in failed <=> ~SendOK(link[players'[i]])
              /\ i \in sent => link[players'[i]] # "down"
              /\ link'[players'[i]] = IF i \in sent THEN AfterSend(link[players'[i]]) ELSE link[players'[i]]
              /\ (i \in sent /\ link[players'[i]] = "up" /\ state' = "GAME") => told'[players'[i]] = "full"
              /\ i \in sent \cap failed => score'[i] = PLR_DISCONNECT
              /\ i \notin sent \cap failed => score'[i] = IF i = last_plr_id THEN 0 ELSE score[i]
         /\ \A c \in Clients \ SeatedClients' : link'[c] = link[c]
    BY <1>2, SeatNextSeats
  <2>2. FullOrBehind'
    <3> SUFFICES ASSUME Playing', NEW j \in Taken', link'[players'[j]] = "up",
                        told'[players'[j]] \in {"none", "wait"}
                 PROVE  \E i \in Taken' : i < j /\ score'[i] = PLR_DISCONNECT
      BY DEF FullOrBehind
    <3>1. state' = "GAME"
      BY DEF SeatNext, Playing
    <3>2. link[players'[j]] = "up"
      BY <2>1 DEF AfterSend
    <3>3. j \notin sent
      BY <2>1, <3>1, <3>2
    <3> QED
      BY <2>1, <3>3
  <2>3. ASSUME LeaveModes \subseteq {"rst"} PROVE OnlyResets'
    <3>1. OnlyResets /\ state = "WAIT"
      BY <2>3 DEF LinksInv, SeatNext
    <3>2. \A c \in Clients : link'[c] \notin {"fin", "finsent"}
      <4>1. PICK seated, tried, pkt : SendLoop(seated, tried, pkt)
        BY DEF SeatNext
      <4> QED
        BY <3>1, <4>1 DEF SendLoop, AfterSend, OnlyResets
    <3>3. /\ SeatedClients \subseteq SeatedClients'
          /\ \A i \in Taken' \ {last_plr_id} : i \in Taken /\ players'[i] = players[i]
          /\ last_plr_id \in Taken' => players'[last_plr_id] \notin SeatedClients
      <4>1. /\ players' = [players EXCEPT ![last_plr_id] = Head(queue[MSG_JOIN]).player]
            /\ last_plr_id' = last_plr_id + 1 /\ state' \in {"GAME", "WAIT"}
        BY <1>2 DEF SeatNext
      <4>2. /\ Taken = 0 .. last_plr_id - 1 /\ Taken' = 0 .. last_plr_id
            /\ last_plr_id \in Nat /\ last_plr_id \in Seats
        BY <3>1, <4>1, RoomAssumption
           DEF Taken, HasSeats, Playing, SeatsInv, Inv, TypeOK, Shape, Seats, RoomSizes
      <4>3. /\ \A i \in Taken : i \in Taken' /\ i # last_plr_id
            /\ \A i \in Taken' \ {last_plr_id} : i \in Taken
        BY <4>2
      <4>4. \A i \in Taken : players'[i] = players[i]
        BY <4>1, <4>3
      <4>5. last_plr_id \in Taken'
        BY <4>2
      <4>6. \A i \in Taken : players'[last_plr_id] # players'[i]
        BY <4>3, <4>5 DEF SeatsInv, Apart
      <4> QED
        BY <4>3, <4>4, <4>6 DEF SeatedClients
    <3>4. \A c \in Clients \ SeatedClients' : link'[c] # "down"
      BY <2>1, <3>1, <3>3 DEF OnlyResets
    <3>5. ASSUME NEW i \in Taken', link'[players'[i]] = "down" PROVE score'[i] = PLR_DISCONNECT
      <4>1. players'[i] \in Clients
        BY <2>1
      <4>2. CASE link[players'[i]] = "down"
        <5>1. i # last_plr_id
          BY <3>1, <3>3, <4>1, <4>2 DEF OnlyResets
        <5>2. score[i] = PLR_DISCONNECT
          BY <3>1, <3>3, <4>2, <5>1 DEF OnlyResets
        <5> QED
          BY <2>1, <4>2, <5>1, <5>2
      <4>3. CASE link[players'[i]] # "down"
        <5>1. i \in sent /\ link[players'[i]] = "rst"
          BY <2>1, <3>5, <4>3 DEF AfterSend
        <5> QED
          BY <2>1, <5>1 DEF SendOK
      <4> QED
        BY <4>2, <4>3
    <3> QED
      BY <3>2, <3>4, <3>5 DEF OnlyResets
  <2> QED
    BY <2>2, <2>3 DEF LinksInv
<1> QED
  BY <1>1, <1>2

LEMMA SeatFirstLinks == SeatsInv /\ SeatsInv' /\ LinksInv /\ SeatFirst => LinksInv'
<1> SUFFICES ASSUME SeatsInv, SeatsInv', LinksInv, SeatFirst PROVE LinksInv'
  OBVIOUS
<1> DEFINE type == RoomMsgType(queue)
           c    == Head(queue[type]).player
<1>1. /\ state = "INIT" /\ last_plr_id' = 1 /\ players' = [players EXCEPT ![0] = c]
      /\ SendLoop(players', {0}, [x \in Clients |-> "wait"])
      /\ state' = IF SendOK(link[c]) THEN "WAIT" ELSE IF SendErr(link[c]) THEN "FIN" ELSE "KILLED"
  BY DEF SeatFirst, NoneTaken
<1>2. players'[0] = c
  BY <1>1, RoomAssumption DEF SeatsInv, Inv, TypeOK, Seats
<1>3. \A x \in Clients : link'[x] = IF x = c THEN AfterSend(link[x]) ELSE link[x]
  BY <1>1, <1>2 DEF SendLoop
<1>4. ~Playing'
  BY <1>1 DEF Playing
<1>5. SeatedClients = {} /\ (state' # "KILLED" => Taken' = {0} /\ SeatedClients' = {c})
  BY <1>1, <1>2 DEF Taken, HasSeats, Playing, SeatedClients
<1>6. c \in Clients
  <2>1. type \in MsgTypes /\ queue[type] # <<>>
    BY DEF SeatFirst, NoneTaken, RoomMsgType, HasRoomMsg, MsgTypes
  <2> QED
    BY <2>1, QueueType DEF SeatsInv, Inv, TypeOK, RoomMsgs
<1> HIDE DEF c
<1>7. ASSUME LeaveModes \subseteq {"rst"} PROVE OnlyResets'
  <2>1. /\ \A x \in Clients : link[x] \notin {"fin", "finsent", "down"}
    BY <1>1, <1>5, <1>7 DEF LinksInv, OnlyResets
  <2>2. \A x \in Clients : link'[x] \notin {"fin", "finsent"}
    BY <1>3, <2>1 DEF AfterSend
  <2>3. \A x \in Clients : link'[x] = "down" => x = c /\ link[c] = "rst"
    BY <1>3, <2>1 DEF AfterSend
  <2>4. state' = "WAIT" => link[c] # "rst"
    BY <1>1 DEF SendOK, SendErr
  <2> QED
    BY <1>2, <1>4, <1>5, <1>6, <2>2, <2>3, <2>4 DEF OnlyResets
<1> QED
  BY <1>4, <1>7 DEF LinksInv, FullOrBehind

\* When clients leave by resets a game never sends on a "down" connection.
LEMMA AskSurvives ==
  ASSUME SeatsInv, OnlyResets, Ask
  PROVE  state' # "KILLED"
<1> DEFINE toAsk == {i \in 0 .. room_size - 1 : IsAsked(i)}
           tried == Tried(toAsk, {i \in toAsk : SendPipe(link[players[i]])})
<1>1. /\ state = "GAME" /\ Taken = 0 .. room_size - 1
      /\ state' = "KILLED" => \E i \in tried : SendPipe(link[players[i]])
  BY DEF Ask, SeatsInv, Inv, Shape, Taken, HasSeats, Playing
<1>2. \A i \in tried : i \in Taken /\ IsAsked(i)
  BY <1>1, TriedSubset
<1> HIDE DEF tried
<1>3. \A i \in tried : link[players[i]] # "down"
  BY <1>1, <1>2 DEF OnlyResets, Playing, IsAsked, PLR_LOST, PLR_DISCONNECT
<1> QED
  BY <1>1, <1>3 DEF SendPipe

LEMMA AskLinks == SeatsInv /\ LinksInv /\ Ask => LinksInv'
<1> SUFFICES ASSUME SeatsInv, LinksInv, Ask PROVE LinksInv'
  OBVIOUS
<1>1. /\ state = "GAME" /\ state' \in {"ANSWERS", "GAMEOVER", "KILLED"}
      /\ UNCHANGED <<players, last_plr_id>>
  BY DEF Ask
<1>2. /\ state' # "KILLED" => Playing' /\ Taken' = Taken /\ SeatedClients' = SeatedClients
      /\ state' = "KILLED" => ~Playing'
      /\ Playing
  BY <1>1 DEF Taken, HasSeats, Playing, SeatedClients
<1>3. state' # "KILLED" => \A i \in Taken :
         /\ players[i] \in Clients /\ score[i] \in Int
         /\ link'[players[i]] = IF score[i] >= PLR_LOST THEN AfterSend(link[players[i]])
                                ELSE link[players[i]]
         /\ told'[players[i]] = IF link[players[i]] = "up" /\ score[i] >= PLR_LOST
                                THEN IF InGame(i) THEN "quest" ELSE "lost"
                                ELSE told[players[i]]
         /\ score'[i] = IF score[i] = PLR_LOST \/ (score[i] >= PLR_LOST /\ ~SendOK(link[players[i]]))
                        THEN PLR_DISCONNECT ELSE score[i]
  BY AskSeat DEF SeatsInv, Inv, TypeOK, PLR_DISCONNECT
<1>4. FullOrBehind'
  <2> SUFFICES ASSUME state' # "KILLED", NEW j \in Taken, link'[players[j]] = "up",
                      told'[players[j]] \in {"none", "wait"}
               PROVE  \E i \in Taken : i < j /\ score'[i] = PLR_DISCONNECT
    BY <1>1, <1>2 DEF FullOrBehind
  <2>1. link[players[j]] = "up" /\ told[players[j]] \in {"none", "wait"}
    BY <1>3 DEF AfterSend
  <2>2. PICK i \in Taken : i < j /\ score[i] = PLR_DISCONNECT
    BY <1>2, <2>1 DEF LinksInv, FullOrBehind
  <2>3. score'[i] = PLR_DISCONNECT
    BY <1>3, <2>2
  <2> QED
    BY <2>2, <2>3
<1>5. ASSUME LeaveModes \subseteq {"rst"} PROVE OnlyResets'
  <2>1. OnlyResets /\ state' # "KILLED"
    BY <1>5, AskSurvives DEF LinksInv
  <2>2. PICK tried \in SUBSET Taken :
            SendLoop(players, tried, [c \in Clients |-> GamePacket(c)])
    <3>1. Taken = 0 .. room_size - 1
      BY <1>1 DEF SeatsInv, Inv, Shape, Playing, Taken, HasSeats
    <3> QED
      BY <3>1, TriedSubset DEF Ask
  <2>3. /\ \A c \in Clients : link'[c] \notin {"fin", "finsent"}
        /\ \A c \in Clients \ SeatedClients : link'[c] = link[c]
    BY <2>1, <2>2 DEF SendLoop, AfterSend, OnlyResets, SeatedClients
  <2>4. ASSUME NEW i \in Taken, link'[players[i]] = "down" PROVE score'[i] = PLR_DISCONNECT
    <3>1. CASE link[players[i]] = "down"
      BY <1>1, <1>3, <2>1, <3>1 DEF OnlyResets, Playing, PLR_LOST, PLR_DISCONNECT
    <3>2. CASE link[players[i]] # "down"
      <4>1. link[players[i]] = "rst" /\ score[i] >= PLR_LOST
        BY <1>3, <2>1, <2>4, <3>2 DEF AfterSend
      <4> QED
        BY <1>3, <2>1, <4>1 DEF SendOK
    <3> QED
      BY <3>1, <3>2
  <2> QED
    BY <1>1, <1>2, <2>1, <2>3, <2>4 DEF OnlyResets
<1> QED
  BY <1>4, <1>5 DEF LinksInv

LEMMA CollectLinks == SeatsInv /\ LinksInv /\ Collect => LinksInv'
<1> SUFFICES ASSUME SeatsInv, LinksInv, Collect PROVE LinksInv'
  OBVIOUS
<1> DEFINE c == players[id]
<1>1. state = "ANSWERS" /\ UNCHANGED <<state, players, last_plr_id, told>> /\ InGame(id)
  BY DEF Collect
<1>2. id \in Taken
  BY DEF Collect, SeatsInv, Inv, TypeOK, Shape, Taken, HasSeats, Playing
<1>3. Playing /\ Playing' /\ Taken' = Taken /\ SeatedClients' = SeatedClients
  BY <1>1 DEF Taken, HasSeats, Playing, SeatedClients
<1>4. \/ link' = link /\ \E a : Judge(a)
      \/ /\ RecvErr(link[c]) /\ link' = [link EXCEPT ![c] = "down"]
         /\ score' = [score EXCEPT ![id] = PLR_DISCONNECT]
  BY DEF Collect
<1>5. /\ id \in Seats /\ c \in Clients /\ c \in SeatedClients
      /\ score \in [Seats -> PLR_DISCONNECT .. LAST_QUEST] /\ link \in [Clients -> Links]
  BY <1>2, SeatTypes DEF SeatsInv, Inv, TypeOK
<1>6. \A i \in Taken : i # id => score'[i] = score[i] /\ players[i] # c
  BY <1>2, <1>4, <1>5, SeatTypes DEF Judge
<1> HIDE DEF c
<1>7. \A x \in Clients : link'[x] = link[x] \/ (x = c /\ link'[x] = "down" /\ score'[id] = PLR_DISCONNECT)
  BY <1>4, <1>5
<1>8. \A i \in Taken : players[i] \in Clients
  BY SeatTypes
<1>9. FullOrBehind'
  <2> SUFFICES ASSUME NEW j \in Taken, link'[players[j]] = "up", told[players[j]] \in {"none", "wait"}
               PROVE  \E i \in Taken : i < j /\ score'[i] = PLR_DISCONNECT
    BY <1>1, <1>3 DEF FullOrBehind
  <2>1. PICK i \in Taken : i < j /\ score[i] = PLR_DISCONNECT
    BY <1>3, <1>7, <1>8 DEF LinksInv, FullOrBehind
  <2>2. i # id
    BY <1>1, <2>1 DEF InGame, PLR_LOST, PLR_DISCONNECT
  <2> QED
    BY <1>6, <2>1, <2>2
<1>10. ASSUME LeaveModes \subseteq {"rst"} PROVE OnlyResets'
  <2>1. OnlyResets
    BY <1>10 DEF LinksInv
  <2>2. ASSUME NEW i \in Taken, link'[players[i]] = "down" PROVE score'[i] = PLR_DISCONNECT
    <3>1. CASE link[players[i]] = "down"
      <4>1. score[i] = PLR_DISCONNECT
        BY <1>3, <2>1, <3>1 DEF OnlyResets
      <4>2. i # id
        BY <1>1, <4>1 DEF InGame, PLR_LOST, PLR_DISCONNECT
      <4> QED
        BY <1>6, <4>1, <4>2
    <3>2. CASE link[players[i]] # "down"
      BY <1>6, <1>7, <1>8, <2>2, <3>2
    <3> QED
      BY <3>1, <3>2
  <2>3. /\ \A x \in Clients : link'[x] \notin {"fin", "finsent"}
        /\ \A x \in Clients \ SeatedClients : link'[x] = link[x]
    BY <1>5, <1>7, <2>1 DEF OnlyResets
  <2> QED
    BY <1>1, <1>3, <2>1, <2>2, <2>3 DEF OnlyResets
<1> QED
  BY <1>9, <1>10 DEF LinksInv

\* The steps that read and send nothing.
LEMMA ControlLinks ==
  ASSUME SeatsInv, LinksInv, QueueGone \/ AllAsked \/ PassOver \/ EndRound \/ GameOver \/ Fin
  PROVE  LinksInv'
<1>1. CASE GameOver \/ Fin
  <2>1. /\ CloseSeats(last_plr_id) /\ Taken = 0 .. last_plr_id - 1 /\ Taken' = {} /\ ~Playing'
        /\ state # "KILLED"
    BY <1>1 DEF GameOver, Fin, SeatsInv, Inv, Shape, Playing, Taken, HasSeats
  <2>2. FirstPlayers(last_plr_id) = SeatedClients
    BY <2>1 DEF FirstPlayers, SeatedClients
  <2>3. \A c \in Clients : link'[c] = IF c \in SeatedClients THEN "closed" ELSE link[c]
    BY <2>1, <2>2 DEF CloseSeats
  <2> QED
    BY <2>1, <2>3 DEF LinksInv, FullOrBehind, OnlyResets
<1>2. CASE QueueGone \/ AllAsked \/ PassOver \/ EndRound
  <2>1. /\ UNCHANGED <<players, score, link, told>> /\ state # "KILLED" /\ state' # "WAIT"
        /\ Taken' = Taken /\ (Playing' => Playing)
    BY <1>2 DEF QueueGone, NoneTaken, Waiting, AllAsked, PassOver, EndRound, Taken, HasSeats, Playing
  <2>2. SeatedClients' = SeatedClients
    BY <2>1 DEF SeatedClients
  <2> QED
    BY <2>1, <2>2 DEF LinksInv, FullOrBehind, OnlyResets
<1> QED
  BY <1>1, <1>2

\* Clients come, answer and leave; none of this makes a connection "down" but
\* the reset that follows an orderly close.
LEMMA EnvironmentLinks == SeatsInv /\ LinksInv /\ ToldThere /\ Environment => LinksInv'
<1> SUFFICES ASSUME SeatsInv, LinksInv, ToldThere, Environment PROVE LinksInv'
  OBVIOUS
<1>1. UNCHANGED <<state, last_plr_id, players, score>> /\ state # "KILLED"
  BY DEF Environment, Request, Answer, SendUnasked, Leave, ResetArrives, Shutdown, locals
<1>2. Taken' = Taken /\ SeatedClients' = SeatedClients /\ (Playing <=> Playing')
  BY <1>1 DEF Taken, HasSeats, Playing, SeatedClients
<1>3. \A i \in Taken : players[i] \in Clients /\ players[i] \in SeatedClients
  BY SeatTypes
<1>4. CASE Shutdown
  BY <1>1, <1>2, <1>4 DEF Shutdown, LinksInv, FullOrBehind, OnlyResets
<1>5. ASSUME NEW c \in Clients, Request(c) \/ Answer(c) \/ SendUnasked(c) \/ Leave(c) \/ ResetArrives(c)
      PROVE  LinksInv'
  <2>1. \A x \in Clients \ {c} : link'[x] = link[x] /\ told'[x] = told[x]
    BY <1>5 DEF Request, Answer, SendUnasked, Leave, ResetArrives, SeatsInv, Inv, TypeOK
  <2>2. \/ link'[c] = "up" /\ link[c] = "closed" /\ c \notin SeatedClients
        \/ link'[c] = link[c] /\ (told'[c] = told[c] \/ told'[c] = "replied")
        \/ link'[c] \in LeaveModes /\ link'[c] # "up"
        \/ link[c] = "finsent" /\ link'[c] = "down"
    <3>1. CASE Request(c)
      BY <3>1 DEF Request, SeatsInv, Inv, TypeOK, Apart
    <3>2. CASE Answer(c) \/ SendUnasked(c)
      BY <3>2 DEF Answer, SendUnasked, SeatsInv, Inv, TypeOK
    <3>3. CASE Leave(c)
      BY <3>3, RoomAssumption DEF Leave, SeatsInv, Inv, TypeOK
    <3>4. CASE ResetArrives(c)
      BY <3>4 DEF ResetArrives, SeatsInv, Inv, TypeOK
    <3> QED
      BY <1>5, <3>1, <3>2, <3>3, <3>4
  <2>3. FullOrBehind'
    <3> SUFFICES ASSUME Playing, NEW j \in Taken, link'[players[j]] = "up",
                        told'[players[j]] \in {"none", "wait"}
                 PROVE  \E i \in Taken : i < j /\ score[i] = PLR_DISCONNECT
      BY <1>1, <1>2 DEF FullOrBehind
    <3>1. link[players[j]] = "up" /\ told[players[j]] \in {"none", "wait"}
      BY <1>3, <2>1, <2>2
    <3> QED
      BY <3>1 DEF LinksInv, FullOrBehind
  <2>4. ASSUME LeaveModes \subseteq {"rst"} PROVE OnlyResets'
    <3>1. OnlyResets
      BY <2>4 DEF LinksInv
    <3>2. \A x \in Clients : link'[x] \in {link[x], "up", "rst"}
      BY <2>1, <2>2, <2>4, <3>1 DEF OnlyResets
    <3> QED
      BY <1>1, <1>2, <1>3, <3>1, <3>2 DEF OnlyResets
  <2> QED
    BY <2>3, <2>4 DEF LinksInv
<1> QED
  BY <1>4, <1>5 DEF Environment

LEMMA StutterLinks == LinksInv /\ UNCHANGED vars => LinksInv'
  BY DEF vars, locals, LinksInv, FullOrBehind, OnlyResets, Taken, HasSeats, Playing, SeatedClients

\* LinksInv is an invariant of a room.
THEOREM LinksInvariance == Spec => []LinksInv
<1>1. SeatsInv /\ SeatsInv' /\ AnswersInv /\ LinksInv /\ [Next]_vars => LinksInv'
  BY StutterLinks, SeatFirstLinks, SeatNextLinks, AskLinks, CollectLinks, ControlLinks, EnvironmentLinks
     DEF Next, RoomStep, AnswersInv
<1> QED
  BY InitLinks, SeatsInvariance, AnswersInvariance, <1>1, PTL DEF Spec

\* A client waits for the packet of the full room before it takes questions; it
\* misses that packet only behind a player found gone.
THEOREM FullIsToldCorrect == Spec => FullIsTold
<1> DEFINE A == \A j \in Taken :
                  LET c == players[j]
                  IN (told'[c] \in {"quest", "lost"} /\ told[c] \in {"none", "wait"})
                     => \E i \in Taken : i < j /\ score[i] = PLR_DISCONNECT
<1>1. ASSUME SeatsInv, LinksInv, Next, NEW j \in Taken,
             told'[players[j]] \in {"quest", "lost"}, told[players[j]] \in {"none", "wait"}
      PROVE  \E i \in Taken : i < j /\ score[i] = PLR_DISCONNECT
  <2> DEFINE c == players[j]
  <2>1. c \in Clients /\ told'[c] # told[c]
    BY <1>1, SeatTypes
  <2>2. ~SeatFirst /\ ~SeatNext
    <3>1. ASSUME SeatFirst \/ SeatNext PROVE told'[c] \in {told[c], "wait", "full"}
      <4>1. SeatFirst => told'[c] \in {told[c], "wait"}
        BY <2>1 DEF SeatFirst, NoneTaken, SendLoop
      <4>2. SeatNext => told'[c] \in {told[c], "wait", "full"}
        BY <2>1 DEF SeatNext, SendLoop
      <4> QED
        BY <3>1, <4>1, <4>2
    <3> QED
      BY <1>1, <3>1
  <2>3. CASE Ask
    <3>1. link[c] = "up" /\ Playing
      BY <2>1, <2>3 DEF Ask, SendLoop, Playing
    <3> QED
      BY <1>1, <3>1 DEF LinksInv, FullOrBehind
  <2>4. ~GameOver /\ ~Fin
    BY <1>1, <2>1 DEF GameOver, Fin, CloseSeats
  <2>5. ~Environment
    <3>1. ASSUME NEW x \in Clients, Answer(x) \/ Leave(x) PROVE told'[c] \in {told[c], "replied", "none"}
      BY <2>1, <3>1, <1>1 DEF Answer, Leave, SeatsInv, Inv, TypeOK
    <3> QED
      BY <1>1, <2>1, <3>1 DEF Environment, Request, SendUnasked, ResetArrives, Shutdown
  <2> QED
    BY <1>1, <2>1, <2>2, <2>3, <2>4, <2>5
       DEF Next, RoomStep, QueueGone, NoneTaken, AllAsked, Collect, PassOver, EndRound
<1>2. SeatsInv /\ LinksInv /\ [Next]_vars => [A]_vars
  BY <1>1
<1> QED
  BY SeatsInvariance, LinksInvariance, <1>2, PTL DEF Spec, FullIsTold

\* With clients that leave by a reset, no game is ended by SIGPIPE.
THEOREM GameSurvivesResetsCorrect ==
  ASSUME LeaveModes \subseteq {"rst"}
  PROVE  Spec => GameSurvivesResets
<1>1. ASSUME SeatsInv, LinksInv, Next, Playing PROVE state' # "KILLED"
  <2>1. OnlyResets
    BY <1>1 DEF LinksInv
  <2>2. ~SeatFirst /\ ~SeatNext
    BY <1>1 DEF SeatFirst, NoneTaken, SeatNext, Playing
  <2>3. Environment => state' = state
    BY DEF Environment, Request, Answer, SendUnasked, Leave, ResetArrives, Shutdown, locals
  <2> QED
    BY <1>1, <2>1, <2>2, <2>3, AskSurvives
       DEF Next, RoomStep, QueueGone, NoneTaken, AllAsked, Collect, PassOver, EndRound, GameOver, Fin, Playing
<1>2. SeatsInv /\ LinksInv /\ [Next]_vars => [Playing => state' # "KILLED"]_vars
  BY <1>1
<1> QED
  BY SeatsInvariance, LinksInvariance, <1>2, PTL DEF Spec, GameSurvivesResets

\* With clients that leave by a reset, only a right answer is credited.
THEOREM CreditBackedCorrect ==
  ASSUME LeaveModes \subseteq {"rst"}
  PROVE  Spec => CreditBacked
<1> DEFINE A == \A i \in Taken : (Playing /\ score'[i] > score[i]) =>
                  inbox[players[i]] # <<>> /\ Head(inbox[players[i]]) = rans
<1>1. ASSUME SeatsInv, LinksInv, Next, Playing, NEW i \in Taken, score'[i] > score[i]
      PROVE  inbox[players[i]] # <<>> /\ Head(inbox[players[i]]) = rans
  <2>1. OnlyResets
    BY <1>1 DEF LinksInv
  <2>2. i \in Seats /\ players[i] \in Clients /\ score[i] \in PLR_DISCONNECT .. LAST_QUEST
    BY <1>1, SeatTypes DEF SeatsInv, Inv, TypeOK
  <2>3. ~SeatFirst /\ ~SeatNext
    BY <1>1 DEF SeatFirst, NoneTaken, SeatNext, Playing
  <2>4. ~Ask
    BY <1>1, <2>2 DEF Ask, PLR_DISCONNECT
  <2>5. ~UNCHANGED score
    BY <1>1, <2>2 DEF PLR_DISCONNECT
  <2>6. Collect
    BY <1>1, <2>3, <2>4, <2>5 DEF Next, RoomStep, QueueGone, NoneTaken, AllAsked, PassOver, EndRound,
       GameOver, Fin,
       Environment, Request, Answer, SendUnasked, Leave, ResetArrives, Shutdown, locals
  <2>7. i = id
    BY <1>1, <2>2, <2>6 DEF Collect, Judge, SeatsInv, Inv, TypeOK, PLR_DISCONNECT
  <2>8. \A a : Judge(a) => a = rans
    BY <1>1, <2>2, <2>6, <2>7 DEF Judge, Collect, InGame, SeatsInv, Inv, TypeOK, PLR_LOST, PLR_DISCONNECT
  <2>9. score' # [score EXCEPT ![id] = PLR_DISCONNECT]
    BY <1>1, <2>2, <2>7 DEF SeatsInv, Inv, TypeOK, PLR_DISCONNECT
  <2>10. ~RecvEOF(link[players[id]])
    <3>1. link[players[id]] = "down" => score[id] = PLR_DISCONNECT
      BY <1>1, <2>1, <2>7 DEF OnlyResets
    <3>2. score[id] # PLR_DISCONNECT
      BY <2>6 DEF Collect, InGame, PLR_LOST, PLR_DISCONNECT
    <3> QED
      BY <2>1, <2>2, <2>7, <3>1, <3>2 DEF RecvEOF, OnlyResets
  <2> QED
    BY <2>6, <2>7, <2>8, <2>9, <2>10 DEF Collect
<1>2. SeatsInv /\ LinksInv /\ [Next]_vars => [A]_vars
  BY <1>1
<1> QED
  BY SeatsInvariance, LinksInvariance, <1>2, PTL DEF Spec, CreditBacked

-----------------------------------------------------------------------------
(* The refinement of Lobby.                                                *)

\* A game is over after the last question or with at most one player in it.
FewLeft == state = "GAMEOVER" => quest_num = 0 \/ Cardinality(InPlay) <= 1

\* What Lobby sees in each state of the room.
LEMMA PhaseOf ==
  /\ state = "INIT" => Phase = "idle"
  /\ state = "WAIT" => Phase = "open"
  /\ Playing => Phase = "playing"
  /\ state = "FIN" => Phase = "closing"
  /\ state = "EXIT" => Phase = "closed"
  /\ state = "KILLED" => Phase = "dead"
  BY DEF Phase, Playing

\* Lobby counts as the room does.
LEMMA SameCount == \A S : Promise!Cardinality(S) = Cardinality(S)
  BY DEF Promise!Cardinality, Cardinality, Promise!IsFiniteSet, IsFiniteSet

\* There are as many clients on seats as seats taken.
LEMMA SeatedCount == SeatsInv /\ HasSeats => Cardinality(SeatedClients) = last_plr_id
<1> SUFFICES ASSUME Inv, Apart, HasSeats PROVE Cardinality(SeatedClients) = last_plr_id
  BY DEF SeatsInv
<1> DEFINE f == [i \in Taken |-> players[i]]
<1>1. Taken = 0 .. last_plr_id - 1 /\ last_plr_id \in Nat
  BY DEF Taken, Inv, TypeOK
<1>2. f \in Bijection(Taken, SeatedClients)
  <2>1. f \in [Taken -> SeatedClients] /\ \A c \in SeatedClients : \E i \in Taken : f[i] = c
    BY DEF SeatedClients
  <2>2. \A i, j \in Taken : f[i] = f[j] => i = j
    BY DEF Apart
  <2> QED
    BY <2>1, <2>2 DEF Bijection, Injection, Surjection, IsInjective
<1>3. IsFiniteSet(Taken) /\ Cardinality(Taken) = last_plr_id
  BY <1>1, FS_Interval
<1> QED
  BY <1>2, <1>3, FS_Bijection DEF ExistsBijection

\* The players of at most one seat are at most one.
LEMMA FewPlayers ==
  ASSUME NEW S, IsFiniteSet(S), Cardinality(S) <= 1,
         NEW P, \A c \in P : \E i \in S : c = players[i]
  PROVE  Cardinality(P) <= 1
<1>1. Cardinality(S) \in Nat
  BY FS_CardinalityType
<1>2. CASE Cardinality(S) = 0
  <2>1. P = {}
    BY <1>2, FS_EmptySet
  <2> QED
    BY <2>1, FS_EmptySet
<1>3. CASE Cardinality(S) = 1
  <2>1. PICK i : S = {i}
    BY <1>3, FS_Singleton
  <2>2. P = {} \/ P = {players[i]}
    BY <2>1
  <2>3. CASE P = {}
    BY <2>3, FS_EmptySet
  <2>4. CASE P = {players[i]}
    <3>1. Cardinality(P) = 1
      BY <2>4, FS_Singleton
    <3> QED
      BY <3>1
  <2> QED
    BY <2>2, <2>3, <2>4
<1> QED
  BY <1>1, <1>2, <1>3
-----------------------------------------------------------------------------
(* FewLeft.                                                                *)

LEMMA AskFew == SeatsInv /\ Ask => FewLeft'
<1> SUFFICES ASSUME SeatsInv, Ask, state' = "GAMEOVER" PROVE Cardinality(InPlay') <= 1
  BY DEF FewLeft
<1> DEFINE toAsk   == {i \in 0 .. room_size - 1 : IsAsked(i)}
           tried   == Tried(toAsk, {i \in toAsk : SendPipe(link[players[i]])})
           reached == {i \in tried : SendOK(link[players[i]])}
<1>1. /\ IsFew(Cardinality(reached))
      /\ score' = [i \in Seats |-> IF i \in tried \ reached \/ (i < room_size /\ score[i] = PLR_LOST)
                                   THEN PLR_DISCONNECT ELSE score[i]]
      /\ ~ \E i \in tried : SendPipe(link[players[i]])
      /\ players' = players /\ Taken = 0 .. room_size - 1 /\ Taken' = Taken
  BY DEF Ask, SeatsInv, Inv, Shape, Taken, HasSeats, Playing
<1>2. tried = toAsk
  <2>1. Taken \in SUBSET Nat /\ room_size \in Nat
    BY <1>1 DEF SeatsInv, Inv, TypeOK, RoomSizes
  <2>2. toAsk \in SUBSET Nat /\ {i \in toAsk : SendPipe(link[players[i]])} \in SUBSET toAsk
    BY <1>1, <2>1
  <2>3. tried \cap {i \in toAsk : SendPipe(link[players[i]])} = {}
    <3> HIDE DEF tried
    <3> QED
      BY <1>1
  <2> HIDE DEF toAsk
  <2> QED
    BY <2>2, <2>3, TriedAll
<1>3. reached \subseteq Taken /\ IsFiniteSet(Taken)
  <2>1. reached \subseteq toAsk /\ toAsk \subseteq Taken /\ room_size \in Int
    BY <1>1, TriedSubset DEF SeatsInv, Inv, TypeOK, RoomSizes
  <2>2. IsFiniteSet(0 .. room_size - 1)
    BY <2>1, FS_Interval
  <2> HIDE DEF reached, toAsk
  <2> QED
    BY <1>1, <2>1, <2>2
<1>4. IsFiniteSet(reached) /\ Cardinality(reached) <= 1
  BY <1>1, <1>3, FS_Subset DEF IsFew
<1>5. ASSUME NEW i \in Taken, InGame(i)' PROVE i \in reached
  <2>1. i \in Seats /\ i < room_size /\ score[i] \in PLR_DISCONNECT .. LAST_QUEST
    BY <1>1, RoomAssumption DEF SeatsInv, Inv, TypeOK, Seats, RoomSizes, Shape, Playing, Ask
  <2> HIDE DEF reached, tried
  <2>2. score'[i] = score[i] /\ score[i] # PLR_LOST /\ i \notin tried \ reached
    BY <1>1, <1>5, <2>1 DEF InGame, PLR_LOST, PLR_DISCONNECT
  <2>3. IsAsked(i)
    BY <1>5, <2>1, <2>2 DEF IsAsked, InGame, PLR_LOST, PLR_DISCONNECT
  <2>4. i \in toAsk
    BY <1>1, <2>3
  <2> QED
    BY <1>2, <2>2, <2>4
<1> HIDE DEF reached
<1>6. \A c \in InPlay' : \E i \in reached : c = players[i]
  BY <1>1, <1>5 DEF InPlay
<1> QED
  BY <1>4, <1>6, FewPlayers

\* A game is over for one of the reasons Lobby knows.
LEMMA FewLeftStep == SeatsInv /\ FewLeft /\ [Next]_vars => FewLeft'
<1> SUFFICES ASSUME SeatsInv, FewLeft, [Next]_vars PROVE FewLeft'
  OBVIOUS
<1>1. CASE Ask
  BY <1>1, AskFew
<1>2. CASE state = "GAMEOVER" /\ state' = "GAMEOVER"
  <2>1. UNCHANGED locals
    BY <1>2 DEF Next, RoomStep, SeatFirst, NoneTaken, SeatNext, QueueGone, Waiting, AllAsked, Ask, Collect,
       PassOver,
       EndRound, GameOver, Fin, Environment, Request, Answer, SendUnasked, Leave, ResetArrives, Shutdown, vars
  <2> QED
    BY <2>1 DEF FewLeft, InPlay, Taken, HasSeats, Playing, InGame, locals
<1>3. CASE AllAsked
  BY <1>3 DEF AllAsked, FewLeft
<1>4. CASE state' # "GAMEOVER"
  BY <1>4 DEF FewLeft
<1>5. Ask \/ AllAsked \/ state' # "GAMEOVER" \/ state' = state
  BY DEF Next, RoomStep, SeatFirst, NoneTaken, SeatNext, QueueGone, Collect, PassOver,
     EndRound, GameOver, Fin, Environment, Request, Answer, SendUnasked, Leave, ResetArrives, Shutdown,
     vars, locals
<1> QED
  BY <1>1, <1>2, <1>3, <1>4, <1>5

\* FewLeft is an invariant of a room.
LEMMA FewLeftInvariance == Spec => []FewLeft
<1>1. Init => FewLeft
  BY DEF Init, FewLeft
<1> QED
  BY <1>1, FewLeftStep, SeatsInvariance, PTL DEF Spec
-----------------------------------------------------------------------------
(* Every step of the room is a step of Lobby, or none.                     *)

\* A step that changes no local variable of the thread is none.
LEMMA Unseen ==
  ASSUME UNCHANGED <<Phase, LobbySize, SeatedClients, InPlay, Round>>
  PROVE  UNCHANGED Promise!lobby
  BY DEF Promise!lobby

LEMMA EnvironmentUnseen == UNCHANGED locals => UNCHANGED Promise!lobby
  BY DEF locals, Promise!lobby, Phase, LobbySize, SeatedClients, InPlay, Round, Taken, HasSeats, Playing,
     InGame, RoundsDone

\* The process is killed: Crash.
LEMMA KilledStep == state' = "KILLED" => Promise!Crash
<1> SUFFICES ASSUME state' = "KILLED" PROVE Promise!Crash
  OBVIOUS
<1>1. ~Playing' /\ ~HasSeats' /\ Taken' = {}
  BY DEF Playing, HasSeats, Taken
<1>2. Phase' = "dead" /\ LobbySize' = 0 /\ SeatedClients' = {} /\ InPlay' = {} /\ Round' = 0
  BY <1>1 DEF Phase, Playing, LobbySize, SeatedClients, InPlay, Round
<1> QED
  BY <1>2 DEF Promise!Crash

\* The first client opens the room: Open.
LEMMA SeatFirstOpens == SeatsInv /\ Inv' /\ SeatFirst => Promise!LobbyNext
<1> SUFFICES ASSUME SeatsInv, Inv', SeatFirst, state' # "KILLED" PROVE Promise!Open
  BY KilledStep DEF Promise!LobbyNext
<1>1. /\ state = "INIT" /\ state' \in {"WAIT", "FIN"} /\ last_plr_id' = 1
      /\ score' = [score EXCEPT ![0] = 0]
  BY DEF SeatFirst, NoneTaken
<1>2. Taken' = {0} /\ HasSeats' /\ ~Playing' /\ 0 \in Seats
  BY <1>1, RoomAssumption DEF Taken, HasSeats, Playing, Seats
<1>3. players'[0] \in Clients /\ score'[0] = 0
  BY <1>1, <1>2 DEF Inv, Shape, SeatsInv, TypeOK
<1>4. SeatedClients' = {players'[0]} /\ InPlay' = {players'[0]}
  <2>1. InGame(0)'
    BY <1>3 DEF InGame, PLR_LOST
  <2> QED
    BY <1>2, <2>1 DEF SeatedClients, InPlay
<1>5. room_size' \in RoomSizes
  <2>1. RoomMsgType(queue) \in MsgTypes /\ queue[RoomMsgType(queue)] # <<>>
    BY DEF SeatFirst, NoneTaken, RoomMsgType, HasRoomMsg, MsgTypes
  <2>2. Head(queue[RoomMsgType(queue)]) \in RoomMsgs
    BY <2>1, QueueType DEF SeatsInv, Inv, TypeOK
  <2> QED
    BY <2>2 DEF SeatFirst, NoneTaken, RoomMsgs
<1>6. LobbySize' \in RoomSizes /\ Round' = 0
  BY <1>2, <1>5 DEF LobbySize, Round
<1>7. Phase = "idle" /\ Phase' \in {"open", "closing"}
  BY <1>1 DEF Phase, Playing
<1> QED
  BY <1>3, <1>4, <1>6, <1>7 DEF Promise!Open

\* One more client enters: Join.
LEMMA SeatNextJoins == SeatsInv /\ SeatsInv' /\ SeatNext => Promise!LobbyNext
<1> SUFFICES ASSUME SeatsInv, SeatsInv', SeatNext, state' # "KILLED" PROVE Promise!Join
  BY KilledStep DEF Promise!LobbyNext
<1> DEFINE n == last_plr_id
           c == Head(queue[MSG_JOIN]).player
<1>1. /\ state = "WAIT" /\ state' = (IF n + 1 = room_size THEN "GAME" ELSE "WAIT")
      /\ last_plr_id' = n + 1 /\ players' = [players EXCEPT ![n] = c]
      /\ UNCHANGED <<room_size, quest_num>>
  BY DEF SeatNext
<1>2. /\ Taken = 0 .. n - 1 /\ Taken' = 0 .. n /\ HasSeats /\ HasSeats' /\ n \in Seats /\ n \in Nat
      /\ quest_num = 1 /\ ~Playing
  BY <1>1, RoomAssumption DEF Taken, HasSeats, Playing, SeatsInv, Inv, TypeOK, Shape, Seats, RoomSizes
<1>3. players'[n] = c /\ \A i \in Taken : players'[i] = players[i]
  BY <1>1, <1>2 DEF SeatsInv, Inv, TypeOK, Seats
<1>4. c \in Clients /\ c \notin SeatedClients
  <2>1. c \in Queued(queue)
    BY MsgRcvPlayers DEF SeatNext, MsgTypes, SeatsInv, Inv, TypeOK, Apart
  <2> QED
    BY <2>1, PlacesType DEF SeatsInv, Apart
<1> HIDE DEF c
<1>5. SeatedClients' = SeatedClients \cup {c}
  BY <1>2, <1>3 DEF SeatedClients
<1>6. InPlay' \subseteq InPlay \cup {c}
  <2>1. \A i \in Taken : InGame(i)' => InGame(i)
    <3> TAKE i \in Taken
    <3>1. i \in Seats /\ i # n
      BY <1>2, RoomAssumption DEF Seats
    <3>2. score'[i] = PLR_DISCONNECT \/ score'[i] = score[i]
      BY <3>1 DEF SeatNext
    <3> QED
      BY <3>2 DEF InGame, PLR_LOST, PLR_DISCONNECT
  <2>2. \A i \in Taken' : i = n \/ i \in Taken
    BY <1>2
  <2> QED
    BY <1>3, <2>1, <2>2 DEF InPlay
<1>7. Cardinality(SeatedClients') = n + 1
  <2>1. (SeatsInv /\ HasSeats => Cardinality(SeatedClients) = last_plr_id)'
    BY SeatedCount, PTL
  <2> QED
    BY <1>1, <1>2, <2>1
<1>8. LobbySize = room_size /\ LobbySize' = room_size
  BY <1>1, <1>2 DEF LobbySize
<1>9. Round = 0 /\ Round' = 0
  BY <1>1, <1>2, RoomAssumption DEF Round, RoundsDone
<1>10. Phase = "open" /\ Phase' = IF n + 1 = room_size THEN "playing" ELSE "open"
  BY <1>1 DEF Phase, Playing
<1> QED
  BY <1>4, <1>5, <1>6, <1>7, <1>8, <1>9, <1>10, SameCount DEF Promise!Join

\* Players go out: Drop.  They are not judged before the round has ended.
LEMMA RoundDrops == SeatsInv /\ (Ask \/ Collect) => Promise!LobbyNext
<1> SUFFICES ASSUME SeatsInv, Ask \/ Collect, state' # "KILLED" PROVE Promise!Drop
  BY KilledStep DEF Promise!LobbyNext
<1>1. /\ Playing /\ Playing' /\ UNCHANGED <<players, room_size, last_plr_id, quest_num>>
      /\ HasSeats /\ HasSeats' /\ Taken' = Taken
  BY DEF Ask, Collect, Playing, HasSeats, Taken
<1>2. ASSUME NEW i \in Taken, InGame(i)' PROVE InGame(i)
  <2>1. i \in Seats /\ score \in [Seats -> PLR_DISCONNECT .. LAST_QUEST]
    BY SeatTypes DEF SeatsInv, Inv, TypeOK
  <2>2. CASE Ask
    BY <1>2, <2>1, <2>2 DEF Ask, InGame, PLR_LOST, PLR_DISCONNECT
  <2>3. CASE Collect
    <3>1. CASE i = id
      BY <2>3, <3>1 DEF Collect
    <3>2. CASE i # id
      BY <1>2, <2>1, <2>3, <3>2 DEF Collect, Judge, InGame
    <3> QED
      BY <3>1, <3>2
  <2> QED
    BY <2>2, <2>3
<1>3. InPlay' \subseteq InPlay /\ SeatedClients' = SeatedClients
  BY <1>1, <1>2 DEF InPlay, SeatedClients
<1>4. LobbySize' = LobbySize /\ Round' = Round
  BY <1>1 DEF LobbySize, Round, RoundsDone
<1> QED
  BY <1>1, <1>3, <1>4, PhaseOf DEF Promise!Drop, Phase, Playing

\* EndOfRound.
LEMMA EndRoundCounts == SeatsInv /\ EndRound => Promise!EndOfRound
<1> SUFFICES ASSUME SeatsInv, EndRound PROVE Promise!EndOfRound
  OBVIOUS
<1>1. /\ state = "ANSWERS" /\ state' = "GAME"
      /\ UNCHANGED <<players, room_size, last_plr_id, score>>
  BY DEF EndRound
<1>2. Playing /\ Playing' /\ HasSeats /\ HasSeats' /\ Taken' = Taken
  BY <1>1 DEF Playing, HasSeats, Taken
<1>3. quest_num \in 1 .. LAST_QUEST /\ RoundsDone = quest_num - 1 /\ RoundsDone' = quest_num
  BY <1>1, RoomAssumption DEF EndRound, NextQuest, SeatsInv, Inv, TypeOK, Shape, RoundsDone
<1>4. Round < LAST_QUEST /\ Round' = Round + 1
  BY <1>2, <1>3, RoomAssumption DEF Round
<1>5. UNCHANGED <<LobbySize, SeatedClients, InPlay>>
  BY <1>1, <1>2 DEF LobbySize, SeatedClients, InPlay, InGame
<1>6. Phase = "playing" /\ Phase' = "playing"
  BY <1>1 DEF Phase, Playing
<1> QED
  BY <1>4, <1>5, <1>6 DEF Promise!EndOfRound

\* The game is over: Finish.
LEMMA GameOverFinishes == SeatsInv /\ FewLeft /\ GameOver => Promise!Finish
<1> SUFFICES ASSUME SeatsInv, FewLeft, GameOver PROVE Promise!Finish
  OBVIOUS
<1>1. state = "GAMEOVER" /\ state' = "INIT" /\ Playing /\ ~Playing' /\ ~HasSeats' /\ Taken' = {}
  BY DEF GameOver, Playing, HasSeats, Taken
<1>2. Round = LAST_QUEST \/ Cardinality(InPlay) <= 1
  BY <1>1 DEF FewLeft, Round, RoundsDone
<1>3. LobbySize' = 0 /\ SeatedClients' = {} /\ InPlay' = {} /\ Round' = 0
  BY <1>1 DEF LobbySize, SeatedClients, InPlay, Round
<1>4. Phase = "playing" /\ Phase' = "idle"
  BY <1>1 DEF Phase, Playing
<1> QED
  BY <1>2, <1>3, <1>4, SameCount DEF Promise!Finish

\* The room stops for good: Stop, its first and its second half.
LEMMA RoomStops == SeatsInv /\ (QueueGone \/ Fin) => Promise!Stop
<1> SUFFICES ASSUME SeatsInv, QueueGone \/ Fin PROVE Promise!Stop
  OBVIOUS
<1>1. CASE QueueGone
  <2>1. /\ state \in {"INIT", "WAIT"} /\ state' = "FIN" /\ UNCHANGED <<players, score>>
        /\ state = "INIT" => room_size' = 0 /\ last_plr_id' = 0
        /\ state = "WAIT" => UNCHANGED <<room_size, last_plr_id>>
    BY <1>1 DEF QueueGone, NoneTaken, Waiting
  <2>2. ~Playing /\ ~Playing' /\ HasSeats' /\ (HasSeats <=> state = "WAIT") /\ Taken' = Taken
    BY <2>1 DEF Playing, HasSeats, Taken
  <2>3. UNCHANGED <<LobbySize, SeatedClients, InPlay, Round>>
    BY <2>1, <2>2 DEF LobbySize, SeatedClients, InPlay, Round, InGame
  <2>4. Phase \in {"idle", "open"} /\ Phase' = "closing"
    BY <2>1 DEF Phase, Playing
  <2> QED
    BY <2>3, <2>4 DEF Promise!Stop
<1>2. CASE Fin
  <2>1. state = "FIN" /\ state' = "EXIT" /\ ~Playing' /\ ~HasSeats' /\ Taken' = {}
    BY <1>2 DEF Fin, Playing, HasSeats, Taken
  <2>2. LobbySize' = 0 /\ SeatedClients' = {} /\ InPlay' = {} /\ Round' = 0
    BY <2>1 DEF LobbySize, SeatedClients, InPlay, Round
  <2>3. Phase = "closing" /\ Phase' = "closed"
    BY <2>1 DEF Phase, Playing
  <2> QED
    BY <2>2, <2>3 DEF Promise!Stop
<1> QED
  BY <1>1, <1>2

\* The steps that Lobby does not see.
LEMMA ControlUnseen == AllAsked \/ PassOver => UNCHANGED Promise!lobby
<1> SUFFICES ASSUME AllAsked \/ PassOver PROVE UNCHANGED Promise!lobby
  OBVIOUS
<1>1. Playing /\ Playing' /\ UNCHANGED <<players, score, room_size, last_plr_id, quest_num>>
  BY DEF AllAsked, PassOver, Playing
<1>2. HasSeats /\ HasSeats' /\ Taken' = Taken /\ Phase' = Phase
  BY <1>1 DEF HasSeats, Taken, Phase, Playing
<1> QED
  BY <1>1, <1>2, Unseen DEF LobbySize, SeatedClients, InPlay, Round, InGame, RoundsDone

LEMMA InitPromise == Init => Promise!LobbyInit
<1> SUFFICES ASSUME Init PROVE Promise!LobbyInit
  OBVIOUS
<1>1. state = "INIT" /\ ~Playing /\ ~HasSeats /\ Taken = {}
  BY DEF Init, Playing, HasSeats, Taken
<1>2. Phase = "idle" /\ LobbySize = 0 /\ SeatedClients = {} /\ InPlay = {} /\ Round = 0
  BY <1>1 DEF Phase, LobbySize, SeatedClients, InPlay, Round
<1> QED
  BY <1>2 DEF Promise!LobbyInit

\* A room keeps the promises of Lobby: it seats different clients up to its
\* size, plays the rounds in order with players only going out, and frees all
\* seats when the questions or the players have run out.
THEOREM PromiseCorrect == Spec => PromiseKept
<1>1. SeatsInv /\ SeatsInv' /\ FewLeft /\ [Next]_vars => [Promise!LobbyNext]_(Promise!lobby)
  <2> SUFFICES ASSUME SeatsInv, SeatsInv', FewLeft, [Next]_vars
               PROVE  Promise!LobbyNext \/ UNCHANGED Promise!lobby
    OBVIOUS
  <2>1. CASE Environment \/ UNCHANGED vars
    <3>1. UNCHANGED locals
      BY <2>1 DEF Environment, Request, Answer, SendUnasked, Leave, ResetArrives, Shutdown, vars
    <3> QED
      BY <3>1, EnvironmentUnseen
  <2>2. CASE RoomStep
    BY <2>2, SeatFirstOpens, SeatNextJoins, RoundDrops, EndRoundCounts, GameOverFinishes, RoomStops,
       ControlUnseen DEF RoomStep, SeatsInv, Promise!LobbyNext
  <2> QED
    BY <2>1, <2>2 DEF Next
<1> QED
  BY InitPromise, <1>1, SeatsInvariance, FewLeftInvariance, PTL
     DEF Spec, PromiseKept, Promise!LobbySpec
=============================================================================
