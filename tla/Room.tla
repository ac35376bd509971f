-------------------------------- MODULE Room --------------------------------
(***************************************************************************)
(* One room thread (room.c, room_fsm) with its environment: the message    *)
(* queue it takes requests from and the clients at the other end of its    *)
(* players' sockets.  A room waits for a first request, seats players      *)
(* until it is full, then asks questions; in every round it first sends    *)
(* the question to all players and then reads their answers in seat order. *)
(*                                                                         *)
(* The variable `state' is the code's variable of that name, with the GAME *)
(* case cut in two at its first blocking recv(): "GAME" asks, "ANSWERS"    *)
(* collects.  Every other case of the switch is one action.  The sends of  *)
(* one loop happen in one step: they concern different connections, so a   *)
(* client leaving between two of them is the same as it leaving earlier.   *)
(*                                                                         *)
(* Question texts and names are left out.  The deque of units is reduced   *)
(* to the right answer of the question drawn: the room moves 1..5 units    *)
(* ahead by rand(), which can draw any.                                    *)
(***************************************************************************)
EXTENDS MsgQueue, Connection, FiniteSets

CONSTANTS
  Clients,       \* the clients; each holds at most one connection at a time
  NoPlayer,      \* content of a seat nobody has taken yet
  USER_COUNT,    \* most players in a room (packet.h:13)
  LAST_QUEST,    \* number of the last question (room.h:11)
  Answers,       \* the answer numbers clients send
  RightAnswers,  \* the numbers of right answers among the units
  LeaveModes,    \* how clients leave: "fin" in order, "rst" by a reset
  UNASKED        \* packets a client may have under way without being asked

ASSUME RoomAssumption ==
  /\ USER_COUNT \in Nat /\ USER_COUNT >= 2
  /\ LAST_QUEST \in Nat /\ LAST_QUEST >= 1
  /\ Answers # {} /\ RightAnswers # {}
  /\ NoPlayer \notin Clients
  /\ LeaveModes \subseteq {"fin", "rst"}
  /\ UNASKED \in Nat

PLR_LOST       == -1
PLR_DISCONNECT == -2

Seats     == 0 .. USER_COUNT - 1
RoomSizes == 2 .. USER_COUNT

VARIABLES
  \* the thread's local variables
  state, room_size, last_plr_id, quest_num, players, score,
  id,        \* seat the loop that collects answers has reached
  rans,      \* cur_unit->rans
  cpack,     \* answer in the receive buffer, kept from one recv() to the next
  \* its environment
  queue,     \* the message queue
  queueUp,   \* the queue exists (shutdown removes it)
  link,      \* connection of every client
  inbox,     \* answers sent by a client and not read yet
  told       \* what the last packet of the server told a client that is there

locals == <<state, room_size, last_plr_id, quest_num, players, score, id, rans, cpack>>
vars   == <<locals, queue, queueUp, link, inbox, told>>

\* The packets: S_WAIT with occupancy < room_size, S_WAIT of the full room,
\* S_GAME to a player in the game, S_GAME to one that is out (none is ever sent
\* with quest_num = 0).  "replied": the client has answered the last question.
Told == {"none", "wait", "full", "quest", "replied", "lost"}

States == {"INIT", "WAIT", "GAME", "ANSWERS", "GAMEOVER", "FIN", "EXIT", "KILLED"}

InGame(i) == score[i] > PLR_LOST

-----------------------------------------------------------------------------
(* Sending to several players.                                             *)

\* The seats a loop over the seats T gets to when it stops after a seat of stop.
Tried(T, stop) == {i \in T : \A j \in stop : i <= j}

\* Packet pkt[c] is sent to the client c of every seat tried.
SendLoop(seated, tried, pkt) ==
  /\ link' = [c \in Clients |-> IF \E i \in tried : seated[i] = c
                                THEN AfterSend(link[c]) ELSE link[c]]
  /\ told' = [c \in Clients |-> IF link[c] = "up" /\ \E i \in tried : seated[i] = c
                                THEN pkt[c] ELSE told[c]]

\* The S_GAME packet as client c reads its own entry of it.
GamePacket(c) ==
  IF \E i \in 0 .. room_size - 1 : players[i] = c /\ ~InGame(i) THEN "lost"
  ELSE "quest"

-----------------------------------------------------------------------------
(* The cases of room_fsm().                                                *)

Init ==
  /\ state = "INIT" /\ room_size = 0 /\ last_plr_id = 0 /\ quest_num = 1
  /\ players = [i \in Seats |-> NoPlayer]
  /\ score = [i \in Seats |-> 0]
  /\ id = 0
  /\ rans \in RightAnswers
  /\ cpack \in Answers \cup RightAnswers       \* not initialised
  /\ queue = EmptyQueue /\ queueUp = TRUE
  /\ link = [c \in Clients |-> "closed"]
  /\ inbox = [c \in Clients |-> <<>>]
  /\ told = [c \in Clients |-> "none"]

\* The states that msgrcv() blocks in.
WaitingInit == {"INIT"}
Waiting == {"INIT", "WAIT"}

\* Seats taken when a room begins anew.
AsLeft    == last_plr_id
NoneTaken == 0

\* case INIT: the first request sets the size of the room.
SeatFirst ==
  /\ state = "INIT" /\ queueUp /\ HasRoomMsg(queue)
  /\ LET type == RoomMsgType(queue)
         msg  == Head(queue[type])
         line == link[msg.player]
     IN /\ queue' = MsgRcv(queue, type)
        /\ room_size' = msg.size
        /\ players' = [players EXCEPT ![0] = msg.player]
        /\ SendLoop(players', {0}, [c \in Clients |-> "wait"])
        /\ state' = IF SendOK(line) THEN "WAIT"
                    ELSE IF SendErr(line) THEN "FIN" ELSE "KILLED"
  /\ score' = [score EXCEPT ![0] = 0]
  /\ last_plr_id' = NoneTaken + 1 /\ quest_num' = 1
  /\ UNCHANGED <<id, rans, cpack, queueUp, inbox>>

\* Who is told of the player on seat new: everybody, himself included.
AllButNew(new) == 0 .. new - 1
ToTell(new)    == 0 .. new

\* case WAIT: one more player; everybody is told, up to the first send that fails.
SeatNext ==
  /\ state = "WAIT" /\ queueUp /\ queue[MSG_JOIN] # <<>>
  /\ LET new    == last_plr_id
         seated == [players EXCEPT ![new] = Head(queue[MSG_JOIN]).player]
         failed == {i \in ToTell(new) : ~SendOK(link[seated[i]])}
         tried  == Tried(ToTell(new), failed)
         full   == new + 1 = room_size
     IN /\ players' = seated
        /\ SendLoop(seated, tried, [c \in Clients |-> IF full THEN "full" ELSE "wait"])
        /\ score' = [i \in Seats |-> IF i \in tried \cap failed THEN PLR_DISCONNECT
                                     ELSE IF i = new THEN 0 ELSE score[i]]
        /\ last_plr_id' = new + 1
        /\ state' = IF \E i \in tried : SendPipe(link[seated[i]]) THEN "KILLED"
                    ELSE IF full THEN "GAME" ELSE "WAIT"
  /\ queue' = MsgRcv(queue, MSG_JOIN)
  /\ UNCHANGED <<room_size, quest_num, id, rans, cpack, queueUp, inbox>>

\* cases INIT and WAIT: msgrcv() fails, the queue is gone.
QueueGone ==
  /\ state \in Waiting /\ ~queueUp
  /\ state' = "FIN"
  /\ IF state = "INIT"
     THEN room_size' = 0 /\ last_plr_id' = NoneTaken /\ quest_num' = 1
     ELSE UNCHANGED <<room_size, last_plr_id, quest_num>>
  /\ UNCHANGED <<players, score, id, rans, cpack, queue, queueUp, link, inbox, told>>

\* case GAME after the last question.
AllAsked ==
  /\ state = "GAME" /\ quest_num = 0
  /\ state' = "GAMEOVER"
  /\ UNCHANGED <<room_size, last_plr_id, quest_num, players, score, id, rans, cpack,
                 queue, queueUp, link, inbox, told>>

\* A question is for everybody in the game and, as their last packet, for those
\* who went out in the last round.
IsAskedInGame(i)    == score[i] > PLR_LOST
IsAskedButLast(i)   == i < room_size - 1 /\ score[i] >= PLR_LOST
IsAskedAlways(i)    == TRUE
IsAsked(i)          == score[i] >= PLR_LOST

\* The game is over when n sends succeeded.
TwoIsFew(n) == n <= 2
IsFew(n)    == n <= 1

\* case GAME, first half.
Ask ==
  /\ state = "GAME" /\ quest_num # 0
  /\ rans' \in RightAnswers
  /\ LET toAsk   == {i \in 0 .. room_size - 1 : IsAsked(i)}
         tried   == Tried(toAsk, {i \in toAsk : SendPipe(link[players[i]])})
         reached == {i \in tried : SendOK(link[players[i]])}
     IN /\ SendLoop(players, tried, [c \in Clients |-> GamePacket(c)])
        /\ score' = [i \in Seats |-> IF i \in tried \ reached \/ (i < room_size /\ score[i] = PLR_LOST)
                                     THEN PLR_DISCONNECT ELSE score[i]]
        /\ state' = IF \E i \in tried : SendPipe(link[players[i]]) THEN "KILLED"
                    ELSE IF IsFew(Cardinality(reached)) THEN "GAMEOVER" ELSE "ANSWERS"
  /\ id' = 0
  /\ UNCHANGED <<room_size, last_plr_id, quest_num, players, cpack, queue, queueUp, inbox>>

\* The verdict on the answer a that is in the receive buffer.
JudgeLenient(a) == score' = [score EXCEPT ![id] = IF a = rans THEN @ + 1 ELSE @]
Judge(a) == score' = [score EXCEPT ![id] = IF a = rans THEN @ + 1 ELSE PLR_LOST]

\* case GAME, second half: read the answer of the player on seat id.  recv()
\* blocks while there is neither an answer nor an end of the connection; at
\* the end of the stream it returns 0, which the code takes for an answer.
Collect ==
  /\ state = "ANSWERS" /\ id < room_size /\ InGame(id)
  /\ LET c == players[id]
     IN \/ /\ inbox[c] # <<>>
           /\ cpack' = Head(inbox[c])
           /\ inbox' = [inbox EXCEPT ![c] = Tail(@)]
           /\ Judge(cpack')
           /\ UNCHANGED link
        \/ /\ inbox[c] = <<>> /\ RecvEOF(link[c])
           /\ Judge(cpack)
           /\ UNCHANGED <<cpack, inbox, link>>
        \/ /\ inbox[c] = <<>> /\ RecvErr(link[c])
           /\ score' = [score EXCEPT ![id] = PLR_DISCONNECT]
           /\ link' = [link EXCEPT ![c] = "down"]
           /\ UNCHANGED <<cpack, inbox>>
  /\ id' = id + 1
  /\ UNCHANGED <<state, room_size, last_plr_id, quest_num, players, rans, queue, queueUp, told>>

\* The same loop at a seat whose player is out.
PassOver ==
  /\ state = "ANSWERS" /\ id < room_size /\ ~InGame(id)
  /\ id' = id + 1
  /\ UNCHANGED <<state, room_size, last_plr_id, quest_num, players, score, rans, cpack,
                 queue, queueUp, link, inbox, told>>

\* The loop is done, and the question after this one; 0 after the last.
AllButOneRead == id = room_size - 1
NoneEverRead  == id > room_size
AllRead       == id = room_size

NextQuestNoEnd == quest_num + 1
NextQuest      == IF quest_num = LAST_QUEST THEN 0 ELSE quest_num + 1

\* The end of case GAME.
EndRound ==
  /\ state = "ANSWERS" /\ AllRead
  /\ quest_num' = NextQuest
  /\ state' = "GAME"
  /\ UNCHANGED <<room_size, last_plr_id, players, score, id, rans, cpack,
                 queue, queueUp, link, inbox, told>>

\* The clients on the first n seats.
FirstButOne(n)  == {players[i] : i \in 0 .. n - 2}
FirstPlayers(n) == {players[i] : i \in 0 .. n - 1}

\* close() of the sockets on the first n seats.
CloseSeats(n) ==
  LET gone == FirstPlayers(n)
  IN /\ link'  = [c \in Clients |-> IF c \in gone THEN "closed" ELSE link[c]]
     /\ inbox' = [c \in Clients |-> IF c \in gone THEN <<>> ELSE inbox[c]]
     /\ told'  = [c \in Clients |-> IF c \in gone THEN "none" ELSE told[c]]

\* case GAMEOVER.
GameOver ==
  /\ state = "GAMEOVER"
  /\ CloseSeats(room_size)
  /\ state' = "INIT"
  /\ UNCHANGED <<room_size, last_plr_id, quest_num, players, score, id, rans, cpack,
                 queue, queueUp>>

\* case FIN.
Fin ==
  /\ state = "FIN"
  /\ CloseSeats(last_plr_id)
  /\ state' = "EXIT"
  /\ UNCHANGED <<room_size, last_plr_id, quest_num, players, score, id, rans, cpack,
                 queue, queueUp>>

RoomStep == \/ SeatFirst \/ SeatNext \/ QueueGone \/ AllAsked \/ Ask
            \/ Collect \/ PassOver \/ EndRound \/ GameOver \/ Fin

-----------------------------------------------------------------------------
(* The environment: clients, TCP and the thread that shuts the server down. *)

\* A client connects and its request reaches the queue (main and a worker).
\* A join always carries the largest size (client_logic.c:58-61).
Request(c) ==
  /\ state # "KILLED" /\ queueUp /\ link[c] = "closed"
  /\ \E type \in {MSG_JOIN, MSG_CREATE}, n \in RoomSizes :
       /\ type = MSG_JOIN => n = USER_COUNT
       /\ queue' = MsgSnd(queue, type, [player |-> c, size |-> n])
  /\ link' = [link EXCEPT ![c] = "up"]
  /\ UNCHANGED <<locals, queueUp, inbox, told>>

\* A client answers the question it was sent, once.
Answer(c) ==
  /\ state # "KILLED" /\ link[c] = "up" /\ told[c] = "quest"
  /\ \E a \in Answers : inbox' = [inbox EXCEPT ![c] = Append(@, a)]
  /\ told' = [told EXCEPT ![c] = "replied"]
  /\ UNCHANGED <<locals, queue, queueUp, link>>

\* A client is back at its menu while the game goes on, or plays before it has
\* begun (module Client), and sends a packet nobody asked for.  The room does not
\* look at the type of a packet; a request has its REQ_JOIN or REQ_CREATE where an
\* answer has its number.
SendUnasked(c) ==
  /\ state # "KILLED" /\ link[c] = "up" /\ Len(inbox[c]) < UNASKED
  /\ \E a \in Answers : inbox' = [inbox EXCEPT ![c] = Append(@, a)]
  /\ UNCHANGED <<locals, queue, queueUp, link, told>>

\* A client leaves.
Leave(c) ==
  /\ state # "KILLED" /\ link[c] = "up"
  /\ \E mode \in LeaveModes : link' = [link EXCEPT ![c] = mode]
  /\ told' = [told EXCEPT ![c] = "none"]
  /\ UNCHANGED <<locals, queue, queueUp, inbox>>

\* The reset that answers what was sent to a client that has closed arrives.
ResetArrives(c) ==
  /\ state # "KILLED" /\ link[c] = "finsent"
  /\ link' = [link EXCEPT ![c] = "down"]
  /\ UNCHANGED <<locals, queue, queueUp, inbox, told>>

\* server_finalize() removes the queue with what is in it.
Shutdown ==
  /\ state # "KILLED" /\ queueUp
  /\ queueUp' = FALSE /\ queue' = EmptyQueue
  /\ UNCHANGED <<locals, link, inbox, told>>

Environment == \/ \E c \in Clients : \/ Request(c) \/ Answer(c) \/ SendUnasked(c)
                                     \/ Leave(c) \/ ResetArrives(c)
               \/ Shutdown

Next == RoomStep \/ Environment

Spec == Init /\ [][Next]_vars

\* The operating system keeps running a thread that can run.  Nothing is
\* assumed of the clients.
FairSpec == Spec /\ WF_vars(RoomStep)
=============================================================================
