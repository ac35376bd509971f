------------------------------- MODULE Client -------------------------------
(***************************************************************************)
(* The client: the screens of client.c, the packets of client_logic.c and  *)
(* the one connection to the server it keeps for its whole life, with the  *)
(* server as this client sees it.                                          *)
(*                                                                         *)
(* recvfrom_server() asks recv() for sizeof(recv_pack) bytes, and recv_pack *)
(* is a pointer: it reads 8 bytes of a packet of 540 and leaves the rest   *)
(* for the next call.  The stream is therefore a sequence of words of 4    *)
(* bytes, of which a call takes two (or the one that is there).  What a    *)
(* word means depends on where it is read: as the type of a packet, as the *)
(* counts of an S_WAIT or as the scores of an S_GAME.  What lies behind    *)
(* the 8 bytes in the caller's packet was never written.                   *)
(*                                                                         *)
(* A screen is a place where the code waits, for the user or for the       *)
(* server; an action is what it does from there to the next one.  Drawing, *)
(* names and texts are left out.                                           *)
(***************************************************************************)
EXTENDS Connection, Integers, Sequences

CONSTANTS
  USER_COUNT,     \* most players in a room (packet.h:13)
  LAST_QUEST,     \* number of the last question (room.h:11)
  PACKET_WORDS,   \* words of a packet of the server, odd: 135
  ROWS            \* rows of the terminal

ASSUME ClientAssumption ==
  /\ USER_COUNT \in Nat /\ USER_COUNT >= 2
  /\ LAST_QUEST \in Nat /\ LAST_QUEST >= 1
  /\ PACKET_WORDS \in Nat /\ PACKET_WORDS >= 3 /\ PACKET_WORDS % 2 = 1
  /\ ROWS \in Nat

VARIABLES
  screen,      \* where the program is
  behaviour,   \* main()'s variable of that name: what the user chose
  status,      \* what get_unit() or send_ans() returned last, in game_loop()
  known,       \* r_info.id is the number of this client's seat
  drawer,      \* the thread that draws the progress bar runs
  link,        \* the connection
  stream,      \* words sent by the server and not read yet
  outbox,      \* packets sent by the client and not read yet
  session,     \* what the server does with this connection
  left,        \* players missing in the room, then questions still to come
  requests     \* history: requests sent so far, 0, 1 or 2 for more

client == <<screen, behaviour, status, known, drawer>>
server == <<session, left>>
vars   == <<client, link, stream, outbox, server, requests>>

Windows == {"CONN_ERR", "CONF_ERR", "WAIT_ERR", "GAME_ERR"}     \* error_window()
InGame  == {"FIRST", "GAME", "ANSWERED"}                        \* game_loop()
Ended   == {"END", "KILLED", "CRASHED"}
Screens == {"CONNECT", "MENU", "SIZE", "CONF", "WAIT", "LOST"} \cup Windows \cup InGame \cup Ended

\* client_logic.h; GAME_OVER and CODE_SUCCESS are the same number.
CODE_FAILURE == -1
CODE_SUCCESS == 0
GAME_OVER    == 0
GAME_CONT    == 1
WAIT_MORE    == 1
START_GAME   == 0

\* client_ui.h: values of behaviour, the others are sizes of rooms.
APPLICATION_EXIT  == -1
BACK_TO_MAIN_MENU == -2
ROOM_JOIN         == 1

-----------------------------------------------------------------------------
(* Where a click goes: rows of the terminal, from its top.                 *)

SPACER == 2
MENU_H == 5
SELECT_BOX_H == 5
BACK_BOX_H == 5
QUESTION_HEIGHT == 6
ANSWER_HEIGHT == 4
CHOICES == USER_COUNT - 1     \* the sizes to choose from

Rows   == 0 .. ROWS - 1
Nowhere == -9
CREATE  == 0        \* leads to select_size()

\* mainMenu()
MenuNoGap(y) ==
  IF y < SPACER THEN Nowhere
  ELSE CASE (y - SPACER) \div MENU_H = 0 -> CREATE
         [] (y - SPACER) \div MENU_H = 1 -> ROOM_JOIN
         [] OTHER -> APPLICATION_EXIT
MenuChoice(y) ==
  IF y < SPACER \/ (y - SPACER) % (MENU_H + SPACER) >= MENU_H THEN Nowhere
  ELSE CASE (y - SPACER) \div (MENU_H + SPACER) = 0 -> CREATE
         [] (y - SPACER) \div (MENU_H + SPACER) = 1 -> ROOM_JOIN
         [] OTHER -> APPLICATION_EXIT

\* select_size()
SizeChoiceUpTo(y) ==
  CASE y >= SPACER /\ (y - SPACER) \div SELECT_BOX_H \in 0 .. CHOICES
         -> (y - SPACER) \div SELECT_BOX_H + 2
    [] OTHER -> Nowhere
SizeChoice(y) ==
  CASE y >= SPACER /\ (y - SPACER) \div SELECT_BOX_H \in 0 .. CHOICES - 1
         -> (y - SPACER) \div SELECT_BOX_H + 2
    [] y - (SPACER + CHOICES * SELECT_BOX_H) \in 0 .. BACK_BOX_H - 1 -> BACK_TO_MAIN_MENU
    [] OTHER -> Nowhere

\* game_loop(): the number of the answer, which can be more than 3.
AnswerChoice(y) ==
  IF y > QUESTION_HEIGHT + SPACER THEN (y - (QUESTION_HEIGHT + SPACER)) \div ANSWER_HEIGHT
  ELSE Nowhere

-----------------------------------------------------------------------------
(* The packets of the server and what the client makes of their words.     *)

Body == [i \in 1 .. PACKET_WORDS - 2 |-> "body"]     \* names or question texts
WaitPacket(missing) == <<"S_WAIT", IF missing > 0 THEN "waiting" ELSE "full">> \o Body
GamePacket(score)   == <<"S_GAME", score>> \o Body   \* own score 0, above, or lost

Words == {"S_WAIT", "S_GAME", "waiting", "full", "level", "ahead", "lost", "body", "stale"}
Types == {"S_WAIT", "S_GAME", "other"}

\* The word as the type of a packet.
AsType(w) == CASE w \in {"S_WAIT", "S_GAME"}  -> {w}
               [] w \in {"waiting", "full"}   -> {"other"}
               [] OTHER                       -> Types

\* The word as occupancy, room_size and id: S_WAIT is a word of zeros, S_GAME
\* reads as one player in a room of size zero.
AsCounts(w) == CASE w = "waiting"                      -> {WAIT_MORE}
                 [] w \in {"full", "S_WAIT", "S_GAME"} -> {START_GAME}
                 [] OTHER                              -> {WAIT_MORE, START_GAME}

\* is_loser() after the word was taken for scores; with a wrong id it looks at
\* any of them or behind them.
AsLoser(w) == CASE ~known                            -> BOOLEAN
                [] known /\ w = "ahead"              -> {FALSE}
                [] known /\ w \in {"level", "lost", "S_WAIT"} -> {TRUE}
                [] OTHER                             -> BOOLEAN

\* recvfrom_server(): the two words the caller gets.  At the end of the stream
\* recv() returns 0, which counts as success.
RecvOK  == stream # <<>> \/ RecvEOF(link)
RecvErrs == stream = <<>> /\ RecvErr(link)
Got == IF Len(stream) >= 2 THEN SubSeq(stream, 1, 2)
       ELSE IF Len(stream) = 1 THEN <<stream[1], "stale">> ELSE <<"stale", "stale">>
Rest == IF Len(stream) >= 2 THEN SubSeq(stream, 3, Len(stream)) ELSE <<>>

\* A call of recvfrom_server() that succeeds, and one that fails.
Receive    == RecvOK /\ stream' = Rest /\ UNCHANGED link
ReceiveErr == RecvErrs /\ link' = "down" /\ UNCHANGED stream

\* What wait_for_players() returns.
WaitResults ==
  UNION {IF t = "S_WAIT" THEN AsCounts(Got[2]) ELSE {CODE_FAILURE} : t \in AsType(Got[1])}

\* What get_unit() returns: quest_num is beyond the 8 bytes and can be 0.  The
\* type of the packet is not looked at.
LosesOrNot == {IF loser THEN GAME_OVER ELSE GAME_CONT : loser \in AsLoser(Got[2])}
UnitResults == {GAME_OVER} \cup LosesOrNot

-----------------------------------------------------------------------------
(* main()                                                                  *)

Init ==
  /\ screen = "CONNECT" /\ behaviour = BACK_TO_MAIN_MENU /\ status = GAME_OVER
  /\ known = FALSE /\ drawer = FALSE
  /\ link = "closed" /\ stream = <<>> /\ outbox = <<>>
  /\ session = "none" /\ left = 0 /\ requests = 0

\* connect_to_server(), at first and for RETRY.
Connect ==
  /\ screen = "CONNECT"
  /\ \/ screen' = "MENU" /\ link' = "up"
     \/ screen' = "CONN_ERR" /\ UNCHANGED link
  /\ UNCHANGED <<behaviour, status, known, drawer, stream, outbox, server, requests>>

\* The program ends and the kernel closes its socket, whether finalize() was
\* called before or not.
Ends(how) ==
  /\ screen' = how /\ link' = "closed"
  /\ stream' = <<>> /\ outbox' = <<>> /\ drawer' = FALSE

\* A click in the main menu.
Menu ==
  /\ screen = "MENU"
  /\ \E y \in Rows :
       LET choice == MenuChoice(y)
       IN \/ /\ choice = CREATE
             /\ screen' = "SIZE"
             /\ UNCHANGED <<behaviour, drawer, link, stream, outbox>>
          \/ /\ choice = ROOM_JOIN
             /\ screen' = "CONF" /\ behaviour' = choice
             /\ UNCHANGED <<drawer, link, stream, outbox>>
          \/ /\ choice = APPLICATION_EXIT
             /\ behaviour' = choice /\ Ends("END")
  /\ UNCHANGED <<status, known, server, requests>>

\* A click in the list of sizes.
SelectSize ==
  /\ screen = "SIZE"
  /\ \E y \in Rows : SizeChoice(y) # Nowhere /\ behaviour' = SizeChoice(y)
  /\ screen' = IF behaviour' = BACK_TO_MAIN_MENU THEN "MENU" ELSE "CONF"
  /\ UNCHANGED <<status, known, drawer, link, stream, outbox, server, requests>>

\* The packets of the client.
JoinPacket == [type |-> "C_JOIN", create |-> behaviour # ROOM_JOIN,
               size |-> IF behaviour = ROOM_JOIN THEN USER_COUNT ELSE behaviour]
AnsPacket  == [type |-> "C_ANS"]

\* sendto_server(): next is the screen after a send that succeeds, failed after
\* one that does not; the server reads what arrives before it closes.
SendToServer(pkt, next, failed) ==
  IF SendPipe(link) THEN Ends("KILLED")
  ELSE /\ screen' = IF SendOK(link) THEN next ELSE failed
       /\ link' = AfterSend(link)
       /\ outbox' = IF link = "up" THEN Append(outbox, pkt) ELSE outbox
       /\ drawer' = (next = "WAIT" /\ SendOK(link))
       /\ UNCHANGED stream

\* send_conf(), at first and for RETRY; wait_players() starts the drawer.
SendConf ==
  /\ screen = "CONF"
  /\ SendToServer(JoinPacket, "WAIT", "CONF_ERR")
  /\ requests' = IF SendOK(link) /\ requests < 2 THEN requests + 1 ELSE requests
  /\ UNCHANGED <<behaviour, status, known, server>>

-----------------------------------------------------------------------------
(* wait_players()                                                          *)

\* Which screen follows a result of wait_for_players().
AfterWait(r) == CASE r = WAIT_MORE  -> "WAIT"
                  [] r = START_GAME -> "FIRST"
                  [] OTHER          -> "WAIT_ERR"
KeepDrawer(r)  == TRUE
StopDrawer(r)  == r # START_GAME

\* wait_for_players(), at first, for WAIT_MORE and for RETRY.
WaitForPlayers ==
  /\ screen = "WAIT"
  /\ \/ /\ Receive
        /\ \E r \in WaitResults : screen' = AfterWait(r) /\ drawer' = StopDrawer(r)
        /\ known' = (Got[2] = "full" /\ screen' = "FIRST")
     \/ /\ ReceiveErr
        /\ screen' = "WAIT_ERR"
        /\ UNCHANGED <<known, drawer>>
  /\ UNCHANGED <<behaviour, status, outbox, server, requests>>

-----------------------------------------------------------------------------
(* game_loop().  Back in main(), refresh_values() forgets the choice.      *)

ToMenu == screen' = "MENU" /\ behaviour' = BACK_TO_MAIN_MENU

\* The first get_unit(): GAME_OVER leaves the loop before it begins.
FirstUnit ==
  /\ screen = "FIRST"
  /\ \/ /\ Receive
        /\ status' \in UnitResults
        /\ \/ status' = GAME_OVER /\ ToMenu
           \/ status' = GAME_CONT /\ screen' = "GAME" /\ UNCHANGED behaviour
     \/ /\ ReceiveErr
        /\ status' = CODE_FAILURE /\ screen' = "GAME_ERR"
        /\ UNCHANGED behaviour
  /\ UNCHANGED <<known, drawer, outbox, server, requests>>

\* After an answer the next unit is read.
AskUserAgain == "GAME"
ReadUnit     == "ANSWERED"

\* A click on an answer.  Below the last one answer[] and question.ans[] are
\* read behind their ends; if that goes well send_ans() refuses the number.
ClickAnswer ==
  /\ screen = "GAME"
  /\ \E y \in Rows :
       \/ /\ AnswerChoice(y) \in 0 .. 3
          /\ status' = IF SendErr(link) THEN CODE_FAILURE ELSE CODE_SUCCESS
          /\ SendToServer(AnsPacket, ReadUnit, "GAME_ERR")
       \/ /\ AnswerChoice(y) > 3
          /\ \/ Ends("CRASHED") /\ UNCHANGED status
             \/ /\ status' = CODE_FAILURE /\ screen' = "GAME_ERR"
                /\ UNCHANGED <<drawer, link, stream, outbox>>
  /\ UNCHANGED <<behaviour, known, server, requests>>

\* Where the player goes with the unit read after his answer.  GAME_CONT is not
\* CODE_SUCCESS: the loop is left.
ListenOn  == "ANSWERED"
AfterUnit == "MENU"

\* The second get_unit() and what follows: with GAME_OVER, is_loser() = GAME_OVER
\* holds for a player who has not lost, that is when quest_num was read as 0.
NextUnit ==
  /\ screen = "ANSWERED"
  /\ \/ /\ Receive
        /\ \/ status' = GAME_OVER /\ screen' = "LOST" /\ UNCHANGED behaviour
           \/ /\ status' \in LosesOrNot
              /\ screen' = IF status' = GAME_CONT THEN AfterUnit ELSE "MENU"
              /\ behaviour' = BACK_TO_MAIN_MENU
     \/ /\ ReceiveErr
        /\ status' = CODE_FAILURE /\ screen' = "GAME_ERR"
        /\ UNCHANGED behaviour
  /\ UNCHANGED <<known, drawer, outbox, server, requests>>

\* "Oh no, you lost!": what error_window() returns is not looked at.
PlayOn    == screen' = "GAME" /\ UNCHANGED behaviour
AfterLost == ToMenu
CloseLost ==
  /\ screen = "LOST"
  /\ AfterLost
  /\ UNCHANGED <<status, known, drawer, link, stream, outbox, server, requests>>

-----------------------------------------------------------------------------
(* error_window()                                                          *)

\* The screen that RETRY leads to; the window after game_loop() has none.
Retries == [w \in Windows \ {"GAME_ERR"} |->
             CASE w = "CONN_ERR" -> "CONNECT" [] w = "CONF_ERR" -> "CONF" [] OTHER -> "WAIT"]

Retry ==
  /\ screen \in DOMAIN Retries
  /\ screen' = Retries[screen]
  /\ UNCHANGED <<behaviour, status, known, drawer, link, stream, outbox, server, requests>>

Stop ==
  /\ screen \in Windows
  /\ Ends("END")
  /\ UNCHANGED <<behaviour, status, known, server, requests>>

\* Ctrl-C: cbreak() leaves it to the terminal, no handler is installed.
Interrupt ==
  /\ screen \notin Ended
  /\ Ends("END")
  /\ UNCHANGED <<behaviour, status, known, server, requests>>

-----------------------------------------------------------------------------
(* The server: a worker, then a room.                                      *)

Send(pkt) == stream' = stream \o pkt

\* The first packet is the request, which opens a room or, a join, may find one
\* with seats taken; the room may miss players for some time.
Seat ==
  /\ link = "up" /\ session = "none" /\ outbox # <<>>
  /\ LET p == Head(outbox)
     IN left' \in IF p.create THEN {p.size - 1} ELSE 0 .. p.size - 1
  /\ outbox' = Tail(outbox)
  /\ session' = "wait"
  /\ Send(WaitPacket(left'))
  /\ UNCHANGED <<client, link, requests>>

Joined ==
  /\ link = "up" /\ session = "wait" /\ left > 0
  /\ left' = left - 1
  /\ Send(WaitPacket(left'))
  /\ UNCHANGED <<client, link, outbox, session, requests>>

\* The first question: every score is 0.
Begin ==
  /\ link = "up" /\ session = "wait" /\ left = 0
  /\ session' = "play" /\ left' = LAST_QUEST - 1
  /\ Send(GamePacket("level"))
  /\ UNCHANGED <<client, link, outbox, requests>>

\* Nothing is sent after the last question.
OneMoreRound == "play"
AfterLast    == "over"

\* Whatever packet comes next is judged, and the player learns his score with
\* the next question.
JudgeNext ==
  /\ link = "up" /\ session = "play" /\ outbox # <<>>
  /\ outbox' = Tail(outbox)
  /\ \/ left > 0 /\ session' = "play" /\ left' = left - 1 /\ Send(GamePacket("ahead"))
     \/ left > 0 /\ session' = "out" /\ UNCHANGED left /\ Send(GamePacket("lost"))
     \/ left = 0 /\ session' = AfterLast /\ UNCHANGED <<left, stream>>
  /\ UNCHANGED <<client, link, requests>>

\* The server closes: at the end of a game, of a room or of its process.
Close ==
  /\ link = "up"
  /\ link' = IF outbox = <<>> THEN "fin" ELSE "rst"
  /\ outbox' = <<>>
  /\ UNCHANGED <<client, stream, server, requests>>

\* The reset that answers what was sent to a server that has closed arrives.
ResetArrives ==
  /\ link = "finsent"
  /\ link' = "down"
  /\ UNCHANGED <<client, stream, outbox, server, requests>>

-----------------------------------------------------------------------------
UserStep   == Menu \/ SelectSize \/ ClickAnswer \/ CloseLost \/ Retry \/ Stop
ClientStep == Connect \/ SendConf \/ WaitForPlayers \/ FirstUnit \/ NextUnit
ServerStep == Seat \/ Joined \/ Begin \/ JudgeNext \/ Close

Next == UserStep \/ ClientStep \/ ServerStep \/ Interrupt \/ ResetArrives

Spec == Init /\ [][Next]_vars

\* The program runs, and so does the room: the first question follows on the packet
\* of the full room.  Nothing else of the server is fair: that others join (room.c:88),
\* and answer before it is this player's turn (room.c:185), it waits for without limit.
FairSpec == Spec /\ WF_vars(ClientStep) /\ WF_vars(Begin) /\ WF_vars(ResetArrives)
=============================================================================
