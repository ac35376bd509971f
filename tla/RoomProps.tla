----------------------------- MODULE RoomProps ------------------------------
(***************************************************************************)
(* What is claimed of a room (module Room).                                *)
(***************************************************************************)
EXTENDS Room

Playing    == state \in {"GAME", "ANSWERS", "GAMEOVER"}
HasSeats   == Playing \/ state \in {"WAIT", "FIN"}
Taken      == IF HasSeats THEN 0 .. last_plr_id - 1 ELSE {}
SeatedClients == {players[i] : i \in Taken}

\* Rounds judged so far in the present game.
RoundsDone == IF quest_num = 0 THEN LAST_QUEST ELSE quest_num - 1

RoomMsgs == [player : Clients, size : RoomSizes]

\* The types of the variables.  A score is a `char' of the S_GAME packet: its
\* sign tells who is out, so it must never grow past the number of questions.
TypeOK ==
  /\ state \in States
  /\ room_size \in {0} \cup RoomSizes
  /\ last_plr_id \in 0 .. USER_COUNT
  /\ quest_num \in 0 .. LAST_QUEST
  /\ players \in [Seats -> Clients \cup {NoPlayer}]
  /\ score \in [Seats -> PLR_DISCONNECT .. LAST_QUEST]
  /\ id \in 0 .. USER_COUNT
  /\ rans \in RightAnswers
  /\ cpack \in Answers \cup RightAnswers
  /\ queue \in [MsgTypes -> Seq(RoomMsgs)]
  /\ queueUp \in BOOLEAN
  /\ link \in [Clients -> Links]
  /\ inbox \in [Clients -> Seq(Answers)]
  /\ told \in [Clients -> Told]

-----------------------------------------------------------------------------
(* Safety.                                                                 *)

\* The score of a player still in the game is the number of questions judged
\* so far: nobody is judged twice in a round or passed over, whatever links
\* failed before (room.c:157-204 keeps no other record of who was judged).
ScoresMatchRounds ==
  /\ state \in {"WAIT", "GAME", "ANSWERS"} => last_plr_id <= room_size
  /\ \A i \in Taken : InGame(i) =>
       /\ state = "WAIT" => score[i] = 0
       /\ state = "GAME" => score[i] = RoundsDone
       /\ state = "ANSWERS" => score[i] = IF i < id THEN quest_num ELSE RoundsDone

\* The room never waits for an answer to a question its player never got: while
\* it collects, every player it has yet to read from has been asked, has
\* answered or is gone.  Otherwise both would wait for ever.
NoMutualWait ==
  state = "ANSWERS" =>
    \A i \in Taken : (i >= id /\ InGame(i)) =>
      LET c == players[i]
      IN link[c] = "up" => told[c] = "quest" \/ inbox[c] # <<>>

\* An answer is judged in the round it was given in: between two rounds no
\* player in the game has an answer unread or a question unanswered.  For clients
\* that send only what they are asked (UNASKED = 0).
NoStaleAnswer ==
  state = "GAME" =>
    \A i \in Taken : InGame(i) =>
      LET c == players[i]
      IN inbox[c] = <<>> /\ (link[c] = "up" => told[c] # "quest")

\* A player put out is told so: once the next question is out, a player whose
\* connection works and who is out has been sent a packet with his score below
\* zero (room.c:158-172 sends to those that are at PLR_LOST one last time).
OutIsTold ==
  (state \in {"ANSWERS", "GAMEOVER"} /\ quest_num # 0) =>
    \A i \in Taken : (score[i] = PLR_DISCONNECT /\ link[players[i]] = "up")
                     => told[players[i]] = "lost"

\* A socket is in one place: no client is on two seats, and none on a seat has
\* a request in the queue.  A GAMEOVER that left a socket open, or a request
\* taken and not removed, would put one socket under two owners.
OnePlace ==
  /\ \A i, j \in Taken : players[i] = players[j] => i = j
  /\ \A t \in MsgTypes : \A k \in DOMAIN queue[t] : queue[t][k].player \notin SeatedClients

\* Every open connection belongs to a request or to a seat, so that somebody
\* will close it, as long as the queue and the process live.
NoLeakedSocket ==
  (queueUp /\ state # "KILLED") =>
    \A c \in Clients : link[c] # "closed" =>
      \/ c \in SeatedClients
      \/ \E t \in MsgTypes : \E k \in DOMAIN queue[t] : queue[t][k].player = c

-----------------------------------------------------------------------------
(* Action properties.                                                      *)

\* Who is out stays out until the game is over.
OutStaysOut ==
  [][\A i \in Taken : (Playing /\ Playing' /\ ~InGame(i)) => ~InGame(i)']_vars

\* Only an answer is credited: a score grows by the answer of that player, the
\* one in front of his stream, and only when it is the right one.  It holds
\* when clients leave by a reset; room.h:50 says recvfrom_user() returns "0, if data
\* received successfully", but recv() returns 0 at the end of an orderly close.
CreditBacked ==
  [][\A i \in Taken : (Playing /\ score'[i] > score[i]) =>
       inbox[players[i]] # <<>> /\ Head(inbox[players[i]]) = rans]_vars

\* A reset is noticed once: a game in progress never sends again to a connection
\* whose failure was reported, which would kill the server with SIGPIPE.
GameSurvivesResets == [][Playing => state' # "KILLED"]_vars

\* A client waits for the packet of the full room before it takes questions
\* (client_logic.c:108 "wait_for_players() shouldn't receive game packets").  It
\* misses that packet only behind a player found gone, where the loop that
\* announces a new player stops (room.c:120).
FullIsTold ==
  [][\A j \in Taken :
       LET c == players[j]
       IN (told'[c] \in {"quest", "lost"} /\ told[c] \in {"none", "wait"})
          => \E i \in Taken : i < j /\ score[i] = PLR_DISCONNECT]_vars

\* The room as Lobby sees it.
Phase == CASE state = "INIT" -> "idle"   [] state = "WAIT"   -> "open"
           [] Playing -> "playing"       [] state = "FIN"    -> "closing"
           [] state = "EXIT" -> "closed" [] state = "KILLED" -> "dead"

LobbySize == IF HasSeats THEN room_size ELSE 0

InPlay == {players[i] : i \in {j \in Taken : InGame(j)}}

Round == IF Playing THEN RoundsDone ELSE 0

Promise == INSTANCE Lobby WITH
  Sizes <- RoomSizes, Rounds <- LAST_QUEST,
  phase <- Phase, size <- LobbySize, seated <- SeatedClients, inplay <- InPlay, round <- Round

\* The room keeps the promises of Lobby.
PromiseKept == Promise!LobbySpec

-----------------------------------------------------------------------------
(* Liveness.                                                               *)

\* A client that was asked does not keep silent for ever: it answers or leaves.
\* The server has no timeout, so this is assumed, not provided.
Respond(c) == told[c] = "quest" /\ (Answer(c) \/ Leave(c))

AttentiveSpec == FairSpec /\ \A c \in Clients : WF_vars(Respond(c))

\* A game that has started ends and the room is free again (or the process is dead).
GameEnds == Playing ~> state \in {"INIT", "KILLED"}

\* After the queue is removed the room thread ends, which server_finalize()
\* waits for (server.c:237-242), even if a game was on.
ShutdownEnds == ~queueUp ~> state \in {"EXIT", "KILLED"}
-----------------------------------------------------------------------------
(* What the repository says of the program and the code does not do.       *)

\* packet.h:38 the "Number of player's answer [0-3]" counts from 0, the right
\* answers of the units from 1 (unit.c:88): picking the right one is credited.
RightPickCounts ==
  [][\A i \in Taken :
       (/\ state = "ANSWERS" /\ id = i /\ InGame(i)
        /\ inbox[players[i]] # <<>> /\ Head(inbox[players[i]]) + 1 = rans)
       => score'[i] > score[i]]_vars
=============================================================================
