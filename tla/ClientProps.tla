----------------------------- MODULE ClientProps ----------------------------
(***************************************************************************)
(* What is claimed of a client (module Client).                            *)
(***************************************************************************)
EXTENDS Client

Packets == [type : {"C_JOIN"}, create : BOOLEAN, size : 2 .. USER_COUNT] \cup [type : {"C_ANS"}]

\* The types of the variables: only sizes of rooms get into a request, whatever
\* way through the menus led to it.
TypeOK ==
  /\ screen \in Screens
  /\ behaviour \in {APPLICATION_EXIT, BACK_TO_MAIN_MENU, ROOM_JOIN} \cup 2 .. USER_COUNT
  /\ status \in {CODE_FAILURE, GAME_OVER, GAME_CONT}
  /\ known \in BOOLEAN /\ drawer \in BOOLEAN
  /\ link \in Links
  /\ stream \in Seq(Words) /\ outbox \in Seq(Packets)
  /\ session \in {"none", "wait", "play", "out", "over"}
  /\ left \in 0 .. USER_COUNT + LAST_QUEST
  /\ requests \in 0 .. 2

-----------------------------------------------------------------------------
(* Where main() and select_size() draw what mainMenu(), select_size() and  *)
(* game_loop() test for (client.c:19-38, 321-336).                         *)

Box(top, height, y) == y \in top .. top + height - 1

DrawnMenu(y) ==
  CASE Box(SPACER, MENU_H, y)                  -> CREATE
    [] Box(MENU_H + SPACER * 2, MENU_H, y)     -> ROOM_JOIN
    [] Box(MENU_H * 2 + SPACER * 3, MENU_H, y) -> APPLICATION_EXIT
    [] OTHER                                   -> Nowhere

DrawnSize(y) ==
  CASE \E n \in 0 .. CHOICES - 1 : Box(SPACER + SELECT_BOX_H * n, SELECT_BOX_H, y)
         -> 2 + CHOOSE n \in 0 .. CHOICES - 1 : Box(SPACER + SELECT_BOX_H * n, SELECT_BOX_H, y)
    [] Box(SPACER + SELECT_BOX_H * CHOICES, BACK_BOX_H, y) -> BACK_TO_MAIN_MENU
    [] OTHER -> Nowhere

DrawnAnswer(y) ==
  IF \E n \in 0 .. 3 : Box(QUESTION_HEIGHT + SPACER + ANSWER_HEIGHT * n, ANSWER_HEIGHT, y)
  THEN CHOOSE n \in 0 .. 3 : Box(QUESTION_HEIGHT + SPACER + ANSWER_HEIGHT * n, ANSWER_HEIGHT, y)
  ELSE Nowhere

\* A click on a box is never taken for another one: the places are computed
\* twice, once to draw and once, by divisions, to find the box under the mouse.
\* (Row 8, the upper border of the first answer, counts as outside, client.c:482;
\* rows below all boxes of the menu count as EXIT, client.c:565.)
ClicksHit ==
  \A y \in Rows :
    /\ screen = "MENU" /\ DrawnMenu(y) # Nowhere => MenuChoice(y) = DrawnMenu(y)
    /\ screen = "SIZE" => SizeChoice(y) = DrawnSize(y)
    /\ screen = "GAME" /\ DrawnAnswer(y) # Nowhere => AnswerChoice(y) \in {DrawnAnswer(y), Nowhere}

-----------------------------------------------------------------------------
(* Safety.                                                                 *)

\* Two threads draw at the same time only while the client waits for players:
\* on no way out of wait_players() is the drawer forgotten (client.c:251-282).
DrawerStopped == drawer => screen \in {"WAIT", "WAIT_ERR"}

\* The server closes the connection behind the client's back and the client
\* installs no handler for SIGPIPE; still nobody who got a seat is killed in his
\* first game: it takes a second request on the old connection (client.c:66-102
\* never connects again), or what follows it.
DiesOnlyOnReuse ==
  [][screen' = "KILLED" => \/ requests >= IF screen = "CONF" THEN 1 ELSE 2
                           \/ session = "none"]_vars

\* Whose turn it is on each screen, as module Talker sees it.
Turn == CASE screen \in {"CONNECT", "CONN_ERR"} \cup Ended        -> "nobody"
          [] screen \in {"WAIT", "WAIT_ERR", "FIRST", "ANSWERED"} -> "listen"
          [] OTHER                                                -> "speak"

T == INSTANCE Talker WITH turn <- Turn, sent <- Len(outbox), heard <- Len(stream)

\* The client listens after each packet (module Talker).
Alternates == T!TalkSpec

\* Neither of two that wait has a timeout (client_logic.c:19, room.c:185): after a
\* request the server does not wait for another one, and after an answer not for
\* another answer.  (On the screens WAIT and FIRST it can come to that when the
\* packet of a question was read in pieces as something else.)
NoMutualWait ==
  link = "up" /\ stream = <<>> /\ outbox = <<>> =>
    /\ screen = "WAIT" => session # "none"
    /\ screen = "ANSWERED" => session \in {"out", "over"}

-----------------------------------------------------------------------------
(* Liveness.                                                               *)

\* All was read, and the server is waiting for others: to join the room, to answer
\* before the answer of this player is read, to end a game he is out of or through.
WaitsForOthers ==
  /\ link = "up" /\ stream = <<>>
  /\ \/ session = "wait" /\ left > 0
     \/ session = "play" /\ outbox # <<>>
     \/ session \in {"out", "over"}

\* After an answer get_unit() returns, or other players, who are not there or keep
\* silent, hold up the server for ever: nothing else does.
AnswerIsFollowed == screen = "ANSWERED" ~> (screen # "ANSWERED" \/ []WaitsForOthers)

-----------------------------------------------------------------------------
(* What the repository says of the program and the code does not do.       *)

\* client_logic.h:90 "START_GAME Game is started.": while the server is there,
\* wait_for_players() says so only when the room is full.
StartIsStart ==
  [][(screen = "WAIT" /\ screen' = "FIRST" /\ link = "up") =>
       \/ session \in {"play", "out", "over"}
       \/ session = "wait" /\ left = 0]_vars

\* client_ui.h:189 "@return CODE_FAILURE || GAME_OVER": game_loop() does not take a
\* player back to the menu whose game goes on.
LoopEndsWithGame ==
  [][(screen \in InGame /\ screen' \in {"MENU", "GAME_ERR"} /\ link = "up" /\ session = "play")
       => status' # GAME_CONT]_vars
=============================================================================
