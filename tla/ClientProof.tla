----------------------------- MODULE ClientProof -----------------------------
(***************************************************************************)
(* Proofs about a client, for rooms of any size, any number of questions,  *)
(* packets of any odd length and terminals of any height: where clicks go  *)
(* (ClicksHit), when the drawer runs (DrawerStopped), when SIGPIPE can     *)
(* kill it (DiesOnlyOnReuse), that it and the server do not wait for each  *)
(* other (NoMutualWait), and that it listens after each packet: it         *)
(* implements Talker (Alternates).                                         *)
(*                                                                         *)
(* A client is not killed in its first game because a connection is reset  *)
(* only if the server closed it with a packet unread, and in a first game  *)
(* there is none: the request was read, or the game could not begin        *)
(* (Unserved), and nothing else was sent (FirstGame).                      *)
(***************************************************************************)
EXTENDS ClientProps, SequenceTheorems, TLAPS

Requesting == [type : {"C_JOIN"}, create : BOOLEAN, size : 2 .. USER_COUNT]

\* What there is to be connected: nothing before and after.
Connected ==
  /\ screen \in {"CONNECT", "CONN_ERR"} \cup Ended <=> link = "closed"
  /\ link = "closed" => stream = <<>> /\ outbox = <<>>
  /\ screen \in {"CONNECT", "CONN_ERR"} => requests = 0 /\ session = "none"

\* A request has a size to ask for.
Chosen == screen \in {"CONF", "CONF_ERR"} => behaviour \in {ROOM_JOIN} \cup 2 .. USER_COUNT

\* While the server is there and has not read the request, nothing was sent to the
\* client: he has not asked yet, or waits with one request under way.
Unserved ==
  (session = "none" /\ link = "up") =>
    /\ stream = <<>>
    /\ \/ requests = 0 /\ outbox = <<>> /\ screen \in {"MENU", "SIZE", "CONF"}
       \/ requests = 1 /\ Len(outbox) = 1 /\ outbox[1] \in Requesting /\ screen = "WAIT"

\* From the first request to the first answer the connection is there, or was
\* closed by the server in order.
FirstGame ==
  (session # "none" /\ requests = 1 /\ screen \in {"WAIT", "WAIT_ERR", "FIRST", "GAME"}) =>
    outbox = <<>> /\ link \in {"up", "fin"}

Asked == session # "none" => requests > 0

ClientInv ==
  /\ TypeOK
  /\ DrawerStopped
  /\ Connected
  /\ Chosen
  /\ Unserved
  /\ FirstGame
  /\ Asked

-----------------------------------------------------------------------------
(* Packets and words.                                                      *)

LEMMA PacketTypes ==
  /\ \A n \in Int : WaitPacket(n) \in Seq(Words) /\ Len(WaitPacket(n)) = PACKET_WORDS
  /\ \A w \in Words : GamePacket(w) \in Seq(Words) /\ Len(GamePacket(w)) = PACKET_WORDS
<1>1. PACKET_WORDS \in Nat /\ PACKET_WORDS - 2 \in Nat
  BY ClientAssumption
<1>2. Body \in Seq(Words) /\ Len(Body) = PACKET_WORDS - 2
  BY <1>1 DEF Body, Words
<1>3. ASSUME NEW v \in Words, NEW w \in Words
      PROVE  <<v, w>> \o Body \in Seq(Words) /\ Len(<<v, w>> \o Body) = PACKET_WORDS
  <2>1. <<v, w>> \in Seq(Words) /\ Len(<<v, w>>) = 2
    OBVIOUS
  <2> QED
    BY <1>1, <1>2, <2>1, ConcatProperties
<1>4. {"S_WAIT", "S_GAME", "waiting", "full"} \subseteq Words
  BY DEF Words
<1> QED
  BY <1>3, <1>4 DEF WaitPacket, GamePacket

\* What a call of recvfrom_server() takes from the stream.
LEMMA Takes ==
  ASSUME stream \in Seq(Words)
  PROVE  /\ Rest \in Seq(Words) /\ Len(Rest) \in Nat /\ Len(stream) \in Nat
         /\ Len(Rest) < Len(stream) \/ (stream = <<>> /\ Rest = <<>>)
         /\ stream = <<>> => Rest = <<>>
<1>1. Len(stream) \in Nat /\ DOMAIN stream = 1 .. Len(stream) /\ \A i \in 1 .. Len(stream) : stream[i] \in Words
  BY LenProperties, ElementOfSeq
<1>2. CASE Len(stream) >= 2
  <2>1. /\ SubSeq(stream, 3, Len(stream)) \in Seq(Words)
        /\ Len(SubSeq(stream, 3, Len(stream))) = IF 3 <= Len(stream) THEN Len(stream) - 2 ELSE 0
    BY <1>1, SubSeqProperties
  <2> QED
    BY <1>1, <1>2, <2>1 DEF Rest
<1>3. CASE Len(stream) < 2
  BY <1>1, <1>3, EmptySeq DEF Rest
<1> QED
  BY <1>1, <1>2, <1>3

LEMMA Longer ==
  ASSUME NEW q \in Seq(Words), NEW pkt \in Seq(Words), Len(pkt) = PACKET_WORDS
  PROVE  q \o pkt \in Seq(Words) /\ Len(q \o pkt) > Len(q) /\ Len(q) \in Nat
  BY ClientAssumption, ConcatProperties, LenProperties

\* One packet is read from the client.
LEMMA Reads ==
  ASSUME outbox \in Seq(Packets), outbox # <<>>
  PROVE  /\ Tail(outbox) \in Seq(Packets) /\ Len(Tail(outbox)) = Len(outbox) - 1
         /\ Len(outbox) \in Nat \ {0} /\ Head(outbox) = outbox[1] /\ Head(outbox) \in Packets
  BY HeadTailProperties, EmptySeq, LenProperties

-----------------------------------------------------------------------------
(* ClientInv holds in the initial state and is kept by every step.         *)

\* The sizes that select_size() returns are those of rooms.
LEMMA Sizes ==
  ASSUME NEW y \in Rows, SizeChoice(y) # Nowhere
  PROVE  SizeChoice(y) \in {BACK_TO_MAIN_MENU} \cup 2 .. USER_COUNT
<1>1. y \in Nat /\ USER_COUNT \in Nat /\ CHOICES = USER_COUNT - 1
  BY ClientAssumption DEF Rows, CHOICES
<1> QED
  BY <1>1 DEF SizeChoice, SPACER, SELECT_BOX_H, BACK_BOX_H

LEMMA InitClient == Init => ClientInv
<1> SUFFICES ASSUME Init PROVE ClientInv
  OBVIOUS
<1>1. TypeOK
  <2>1. left \in 0 .. USER_COUNT + LAST_QUEST
    BY ClientAssumption DEF Init
  <2>2. known \in BOOLEAN /\ drawer \in BOOLEAN
    BY DEF Init
  <2>3. screen \in Screens /\ link \in Links /\ stream \in Seq(Words) /\ outbox \in Seq(Packets)
    BY DEF Init, Screens, Links
  <2> QED
    BY <2>1, <2>2, <2>3 DEF Init, TypeOK
<1> QED
  BY <1>1 DEF Init, ClientInv, DrawerStopped, Connected, Chosen, Unserved, FirstGame, Asked, Ended

LEMMA ConnectInv == ClientInv /\ Connect => ClientInv'
<1> SUFFICES ASSUME ClientInv, Connect PROVE ClientInv'
  OBVIOUS
<1>1. TypeOK' /\ DrawerStopped'
  BY DEF ClientInv, TypeOK, DrawerStopped, Connect, server, Links, Screens, Windows
<1>2. /\ screen = "CONNECT" /\ link = "closed" /\ stream = <<>> /\ outbox = <<>> /\ requests = 0 /\ session = "none"
      /\ (screen' = "MENU" /\ link' = "up") \/ (screen' = "CONN_ERR" /\ link' = "closed")
      /\ UNCHANGED <<stream, outbox, requests, session>>
  BY DEF ClientInv, Connected, Connect, server, Ended
<1> QED
  BY <1>1, <1>2 DEF ClientInv, Connected, Chosen, Unserved, FirstGame, Asked, Ended

\* The program ends.
LEMMA EndInv ==
  ASSUME ClientInv, NEW how \in Ended, Ends(how),
         screen \notin Ended \/ screen = how, UNCHANGED <<known, server, requests>>,
         status' \in {CODE_FAILURE, GAME_OVER, GAME_CONT},
         behaviour' \in {APPLICATION_EXIT, behaviour}
  PROVE  ClientInv'
<1>1. /\ screen' = how /\ link' = "closed" /\ stream' = <<>> /\ outbox' = <<>> /\ drawer' = FALSE
      /\ session' = session /\ left' = left
  BY DEF Ends, server
<1>2. TypeOK'
  <2>1. screen' \in Screens /\ link' \in Links /\ stream' \in Seq(Words) /\ outbox' \in Seq(Packets)
    BY <1>1 DEF Screens, Links
  <2>2. drawer' \in BOOLEAN
    BY <1>1
  <2>3. behaviour' \in {APPLICATION_EXIT, BACK_TO_MAIN_MENU, ROOM_JOIN} \cup 2 .. USER_COUNT
    BY DEF ClientInv, TypeOK
  <2> QED
    BY <1>1, <2>1, <2>2, <2>3 DEF ClientInv, TypeOK
<1> QED
  BY <1>1, <1>2 DEF ClientInv, DrawerStopped, Connected, Chosen, Unserved, FirstGame, Asked, Ended

\* The client goes from one screen to another without a word to the server, and to
\* no screen on which it waits for it.
LEMMA SilentInv ==
  ASSUME ClientInv, UNCHANGED <<status, known, drawer, link, stream, outbox, server, requests>>,
         behaviour' \in {APPLICATION_EXIT, BACK_TO_MAIN_MENU, ROOM_JOIN} \cup 2 .. USER_COUNT,
         screen \notin {"CONNECT", "CONN_ERR", "WAIT", "WAIT_ERR"} \cup Ended,
         screen' \in {"MENU", "SIZE", "CONF"}, Chosen'
  PROVE  ClientInv'
<1>1. UNCHANGED <<session, left>>
  BY DEF server
<1>2. TypeOK'
  BY <1>1 DEF ClientInv, TypeOK, Screens
<1>3. drawer = FALSE
  BY DEF ClientInv, DrawerStopped, TypeOK
<1> QED
  BY <1>1, <1>2, <1>3 DEF ClientInv, DrawerStopped, Connected, Unserved, FirstGame, Asked, Ended

LEMMA MenuInv == ClientInv /\ Menu => ClientInv'
<1> SUFFICES ASSUME ClientInv, Menu PROVE ClientInv'
  OBVIOUS
<1>1. screen = "MENU" /\ UNCHANGED <<status, known, server, requests>>
  BY DEF Menu
<1>2. CASE screen' \in {"SIZE", "CONF"}
  BY <1>1, <1>2, SilentInv DEF Menu, ClientInv, TypeOK, Chosen, Ended, Ends
<1>3. CASE screen' \notin {"SIZE", "CONF"}
  BY <1>1, <1>3, EndInv DEF Menu, Ended, ClientInv, TypeOK
<1> QED
  BY <1>2, <1>3

LEMMA SelectSizeInv == ClientInv /\ SelectSize => ClientInv'
<1> SUFFICES ASSUME ClientInv, SelectSize PROVE ClientInv'
  OBVIOUS
<1>1. behaviour' \in {BACK_TO_MAIN_MENU} \cup 2 .. USER_COUNT
  BY Sizes DEF SelectSize
<1> QED
  BY <1>1, SilentInv DEF SelectSize, Chosen, Ended

LEMMA CloseLostInv == ClientInv /\ CloseLost => ClientInv'
  BY SilentInv DEF CloseLost, AfterLost, ToMenu, Chosen, Ended

LEMMA InterruptInv == ClientInv /\ (Stop \/ Interrupt) => ClientInv'
  BY EndInv DEF Stop, Interrupt, Windows, Ended, ClientInv, TypeOK

LEMMA RetryInv == ClientInv /\ Retry => ClientInv'
<1> SUFFICES ASSUME ClientInv, Retry PROVE ClientInv'
  OBVIOUS
<1>1. \/ screen = "CONN_ERR" /\ screen' = "CONNECT"
      \/ screen = "CONF_ERR" /\ screen' = "CONF"
      \/ screen = "WAIT_ERR" /\ screen' = "WAIT"
  BY DEF Retry, Retries, Windows
<1>2. UNCHANGED <<behaviour, status, known, drawer, link, stream, outbox, session, left, requests>>
  BY DEF Retry, server
<1>3. TypeOK'
  BY <1>1, <1>2 DEF ClientInv, TypeOK, Screens
<1> QED
  BY <1>1, <1>2, <1>3 DEF ClientInv, DrawerStopped, Connected, Chosen, Unserved, FirstGame, Asked, Ended

\* The second request on a connection is not the first (requests = 2): that is what
\* FirstGame lives on.  The first one finds nothing under way.
LEMMA SendConfInv == ClientInv /\ SendConf => ClientInv'
<1> SUFFICES ASSUME ClientInv, SendConf PROVE ClientInv'
  OBVIOUS
<1>1. /\ screen = "CONF" /\ link \in {"up", "fin", "finsent", "rst", "down"}
      /\ UNCHANGED <<behaviour, status, known, session, left>>
  BY DEF ClientInv, TypeOK, Connected, Links, SendConf, server, Ended
<1>2. CASE link = "down"
  <2>1. Ends("KILLED") /\ requests' = requests
    BY <1>2 DEF SendConf, SendToServer, SendPipe, SendOK
  <2> QED
    BY <1>1, <2>1, EndInv DEF Ended, ClientInv, TypeOK, server
<1>3. CASE link = "rst"
  <2>1. /\ screen' = "CONF_ERR" /\ link' = "down" /\ drawer' = FALSE
        /\ UNCHANGED <<stream, outbox, requests>>
    BY <1>3 DEF SendConf, SendToServer, SendPipe, SendOK, AfterSend
  <2>2. TypeOK'
    BY <1>1, <2>1 DEF ClientInv, TypeOK, Screens, Windows, Links
  <2> QED
    BY <1>1, <1>3, <2>1, <2>2 DEF ClientInv, DrawerStopped, Connected, Chosen, Unserved, FirstGame, Asked, Ended
<1>4. CASE link \in {"up", "fin", "finsent"}
  <2>1. /\ screen' = "WAIT" /\ drawer' = TRUE /\ stream' = stream
        /\ link' = IF link = "up" THEN "up" ELSE "finsent"
        /\ outbox' = IF link = "up" THEN Append(outbox, JoinPacket) ELSE outbox
        /\ requests' = IF requests < 2 THEN requests + 1 ELSE requests
    BY <1>4 DEF SendConf, SendToServer, SendPipe, SendOK, AfterSend
  <2>2. JoinPacket \in Requesting /\ JoinPacket \in Packets
    BY <1>1, ClientAssumption DEF ClientInv, Chosen, JoinPacket, Requesting, Packets, ROOM_JOIN
  <2>3. outbox' \in Seq(Packets)
    BY <2>1, <2>2, AppendProperties DEF ClientInv, TypeOK
  <2>4. TypeOK'
    BY <1>1, <2>1, <2>3 DEF ClientInv, TypeOK, Screens, Links
  <2>5. requests \in 0 .. 2 /\ requests' \in {1, 2} /\ (requests' = 1 => requests = 0)
    BY <2>1 DEF ClientInv, TypeOK
  <2>6. ASSUME session' = "none", link' = "up"
        PROVE  stream' = <<>> /\ requests' = 1 /\ Len(outbox') = 1 /\ outbox'[1] \in Requesting
    <3>1. link = "up" /\ session = "none"
      BY <1>1, <1>4, <2>1, <2>6
    <3>2. stream = <<>> /\ requests = 0 /\ outbox = <<>>
      BY <1>1, <3>1 DEF ClientInv, Unserved
    <3> QED
      BY <2>1, <2>2, <3>1, <3>2
  <2>7. Unserved'
    BY <2>1, <2>6 DEF Unserved
  <2>8. FirstGame' /\ Asked'
    BY <1>1, <2>5 DEF ClientInv, FirstGame, Asked
  <2> QED
    BY <1>1, <1>4, <2>1, <2>4, <2>7, <2>8 DEF ClientInv, DrawerStopped, Connected, Chosen, Ended
<1> QED
  BY <1>1, <1>2, <1>3, <1>4

\* What reading from the server does, wherever the client goes with it: nothing is
\* read before the server answered, and in a first game nothing fails.
LEMMA ReadInv ==
  ASSUME ClientInv, Receive \/ ReceiveErr, UNCHANGED <<outbox, server, requests>>,
         screen \in {"WAIT", "FIRST", "ANSWERED"},
         screen' \in {"WAIT", "WAIT_ERR", "FIRST", "GAME", "GAME_ERR", "LOST", "MENU"},
         screen = "ANSWERED" => screen' \in {"LOST", "MENU", "GAME_ERR"},
         drawer' \in BOOLEAN, drawer' => screen' \in {"WAIT", "WAIT_ERR"},
         known' \in BOOLEAN, status' \in {CODE_FAILURE, GAME_OVER, GAME_CONT},
         behaviour' \in {behaviour, BACK_TO_MAIN_MENU}
  PROVE  ClientInv'
<1>1. link # "closed" /\ link \in Links /\ session' = session /\ left' = left
  BY DEF ClientInv, TypeOK, Connected, Ended, server
<1>2. stream' \in Seq(Words) /\ link' \in {link, "down"}
  BY Takes DEF ClientInv, TypeOK, Receive, ReceiveErr
<1>3. TypeOK'
  <2>1. screen' \in Screens /\ link' \in Links
    BY <1>1, <1>2 DEF Screens, Windows, InGame, Links
  <2>2. behaviour' \in {APPLICATION_EXIT, BACK_TO_MAIN_MENU, ROOM_JOIN} \cup 2 .. USER_COUNT
    BY DEF ClientInv, TypeOK
  <2> QED
    BY <1>1, <1>2, <2>1, <2>2 DEF ClientInv, TypeOK
<1>4. Connected'
  BY <1>1, <1>2 DEF Connected, Ended
<1>5. ~(session = "none" /\ link' = "up")
  <2> SUFFICES ASSUME session = "none", link' = "up" PROVE FALSE
    OBVIOUS
  <2>1. link = "up"
    BY <1>2
  <2>2. stream = <<>>
    BY <2>1 DEF ClientInv, Unserved
  <2> QED
    BY <2>1, <2>2 DEF Receive, ReceiveErr, RecvOK, RecvErrs, RecvEOF, RecvErr
<1>6. FirstGame'
  <2> SUFFICES ASSUME session # "none", requests = 1, screen' \in {"WAIT", "WAIT_ERR", "FIRST", "GAME"}
               PROVE  outbox = <<>> /\ link' \in {"up", "fin"}
    BY <1>1 DEF FirstGame
  <2>1. outbox = <<>> /\ link \in {"up", "fin"}
    BY DEF ClientInv, FirstGame
  <2> QED
    BY <2>1 DEF Receive, ReceiveErr, RecvErrs, RecvErr
<1> QED
  BY <1>1, <1>3, <1>4, <1>5, <1>6 DEF ClientInv, DrawerStopped, Chosen, Unserved, Asked

LEMMA WaitForPlayersInv == ClientInv /\ WaitForPlayers => ClientInv'
<1> SUFFICES ASSUME ClientInv, WaitForPlayers PROVE ClientInv'
  OBVIOUS
<1>1. screen = "WAIT" /\ UNCHANGED <<behaviour, status, outbox, server, requests>>
  BY DEF WaitForPlayers
<1>2. CASE ReceiveErr /\ screen' = "WAIT_ERR" /\ UNCHANGED <<known, drawer>>
  BY <1>1, <1>2, ReadInv DEF ClientInv, TypeOK
<1>3. ASSUME Receive, NEW r \in WaitResults, screen' = AfterWait(r), drawer' = StopDrawer(r),
             known' = (Got[2] = "full" /\ screen' = "FIRST")
      PROVE  ClientInv'
  <2>1. screen' \in {"WAIT", "WAIT_ERR", "FIRST"} /\ (r # START_GAME => screen' \in {"WAIT", "WAIT_ERR"})
    BY <1>3 DEF AfterWait, START_GAME, WAIT_MORE
  <2>2. drawer' \in BOOLEAN /\ (drawer' => screen' \in {"WAIT", "WAIT_ERR"})
    BY <1>3, <2>1 DEF StopDrawer
  <2>3. known' \in BOOLEAN
    BY <1>3
  <2> QED
    BY <1>1, <1>3, <2>1, <2>2, <2>3, ReadInv DEF ClientInv, TypeOK
<1> QED
  BY <1>2, <1>3 DEF WaitForPlayers

\* get_unit() returns one of three numbers.
LEMMA UnitStatus == UnitResults \cup LosesOrNot \subseteq {GAME_OVER, GAME_CONT}
  BY DEF UnitResults, LosesOrNot

LEMMA FirstUnitInv == ClientInv /\ FirstUnit => ClientInv'
<1> SUFFICES ASSUME ClientInv, FirstUnit PROVE ClientInv'
  OBVIOUS
<1>1. screen = "FIRST" /\ UNCHANGED <<known, drawer, outbox, server, requests>>
  BY DEF FirstUnit
<1>2. drawer = FALSE /\ known \in BOOLEAN
  BY <1>1 DEF ClientInv, TypeOK, DrawerStopped
<1>3. status' \in {CODE_FAILURE, GAME_OVER, GAME_CONT}
  BY UnitStatus DEF FirstUnit
<1>4. screen' \in {"MENU", "GAME", "GAME_ERR"} /\ behaviour' \in {behaviour, BACK_TO_MAIN_MENU}
  BY DEF FirstUnit, ToMenu
<1>5. Receive \/ ReceiveErr
  BY DEF FirstUnit
<1> QED
  BY <1>1, <1>2, <1>3, <1>4, <1>5, ReadInv

LEMMA NextUnitInv == ClientInv /\ NextUnit => ClientInv'
<1> SUFFICES ASSUME ClientInv, NextUnit PROVE ClientInv'
  OBVIOUS
<1>1. screen = "ANSWERED" /\ UNCHANGED <<known, drawer, outbox, server, requests>>
  BY DEF NextUnit
<1>2. drawer = FALSE /\ known \in BOOLEAN
  BY <1>1 DEF ClientInv, TypeOK, DrawerStopped
<1>3. status' \in {CODE_FAILURE, GAME_OVER, GAME_CONT}
  BY UnitStatus DEF NextUnit
<1>4. screen' \in {"MENU", "LOST", "GAME_ERR"} /\ behaviour' \in {behaviour, BACK_TO_MAIN_MENU}
  BY DEF NextUnit, AfterUnit
<1>5. Receive \/ ReceiveErr
  BY DEF NextUnit
<1> QED
  BY <1>1, <1>2, <1>3, <1>4, <1>5, ReadInv

LEMMA ClickAnswerInv == ClientInv /\ ClickAnswer => ClientInv'
<1> SUFFICES ASSUME ClientInv, ClickAnswer PROVE ClientInv'
  OBVIOUS
<1>1. screen = "GAME" /\ UNCHANGED <<behaviour, known, server, requests, session, left>>
  BY DEF ClickAnswer, server
<1>2. /\ link \in {"up", "fin", "finsent", "rst", "down"} /\ drawer = FALSE
      /\ ~(session = "none" /\ link = "up")
  BY <1>1 DEF ClientInv, TypeOK, Connected, DrawerStopped, Unserved, Links, Ended
<1>3. CASE screen' \in Ended
  <2>1. /\ Ends("KILLED") \/ Ends("CRASHED")
        /\ status' \in {CODE_FAILURE, CODE_SUCCESS, status}
    BY <1>3 DEF ClickAnswer, SendToServer, Ended, ReadUnit
  <2> QED
    BY <1>1, <2>1, EndInv DEF Ended, ClientInv, TypeOK, CODE_SUCCESS, GAME_OVER
<1>4. CASE screen' \notin Ended
  <2>1. /\ screen' \in {"ANSWERED", "GAME_ERR"} /\ drawer' = FALSE /\ stream' = stream
        /\ status' \in {CODE_FAILURE, GAME_OVER}
        /\ link' \in {link, "finsent", "down"} /\ outbox' \in {outbox, Append(outbox, AnsPacket)}
    BY <1>2, <1>4 DEF ClickAnswer, SendToServer, AfterSend, Ends, Ended, ReadUnit, CODE_SUCCESS, GAME_OVER
  <2>2. link' \in {"up", "fin", "finsent", "rst", "down"} /\ (link' = "up" => link = "up")
    BY <1>2, <2>1
  <2>3. AnsPacket \in Packets
    BY DEF AnsPacket, Packets
  <2>4. outbox' \in Seq(Packets)
    BY <2>1, <2>3, AppendProperties DEF ClientInv, TypeOK
  <2>5. TypeOK'
    BY <1>1, <2>1, <2>2, <2>4 DEF ClientInv, TypeOK, Screens, Windows, InGame, Links
  <2> QED
    BY <1>1, <1>2, <2>1, <2>2, <2>5 DEF ClientInv, DrawerStopped, Connected, Chosen, Unserved, FirstGame, Asked, Ended
<1> QED
  BY <1>3, <1>4

\* The server's steps leave the client where it is; the first takes the request.
LEMMA SeatInv == ClientInv /\ Seat => ClientInv'
<1> SUFFICES ASSUME ClientInv, Seat PROVE ClientInv'
  OBVIOUS
<1>1. /\ link = "up" /\ session = "none" /\ outbox # <<>> /\ session' = "wait"
      /\ outbox' = Tail(outbox) /\ stream' = stream \o WaitPacket(left')
      /\ UNCHANGED <<screen, behaviour, status, known, drawer, link, requests>>
  BY DEF Seat, Send, client
<1>2. requests = 1 /\ Len(outbox) = 1 /\ outbox[1] \in Requesting /\ screen = "WAIT"
  BY <1>1 DEF ClientInv, Unserved
<1>3. Tail(outbox) = <<>> /\ Head(outbox) \in Requesting
  BY <1>1, <1>2, Reads, EmptySeq DEF ClientInv, TypeOK
<1>4. left' \in 0 .. USER_COUNT + LAST_QUEST
  BY <1>3, ClientAssumption DEF Seat, Requesting
<1>5. stream' \in Seq(Words)
  BY <1>1, <1>4, PacketTypes, Longer, ClientAssumption DEF ClientInv, TypeOK
<1>6. TypeOK'
  BY <1>1, <1>3, <1>4, <1>5 DEF ClientInv, TypeOK
<1> QED
  BY <1>1, <1>2, <1>3, <1>6 DEF ClientInv, DrawerStopped, Connected, Chosen, Unserved, FirstGame, Asked, Ended

\* A game goes on: the server reads an answer, sends, or both.
LEMMA GameInv == ClientInv /\ (Joined \/ Begin \/ JudgeNext) => ClientInv'
<1> SUFFICES ASSUME ClientInv, Joined \/ Begin \/ JudgeNext PROVE ClientInv'
  OBVIOUS
<1>1. /\ link = "up" /\ session # "none" /\ session' \in {"wait", "play", "out", "over"}
      /\ UNCHANGED <<screen, behaviour, status, known, drawer, link, requests>>
  BY DEF Joined, Begin, JudgeNext, AfterLast, client
<1>2. left' \in 0 .. USER_COUNT + LAST_QUEST
  BY ClientAssumption DEF ClientInv, TypeOK, Joined, Begin, JudgeNext
<1>3. stream' \in Seq(Words)
  <2>1. {"level", "ahead", "lost"} \subseteq Words
    BY DEF Words
  <2>2. \/ stream' = stream \/ stream' = stream \o WaitPacket(left')
        \/ \E w \in Words : stream' = stream \o GamePacket(w)
    BY <2>1 DEF Joined, Begin, JudgeNext, Send
  <2>3. left' \in Int /\ stream \in Seq(Words)
    BY <1>2, ClientAssumption DEF ClientInv, TypeOK
  <2>4. CASE stream' = stream \o WaitPacket(left')
    BY <2>3, <2>4, PacketTypes, Longer
  <2>5. ASSUME NEW w \in Words, stream' = stream \o GamePacket(w) PROVE stream' \in Seq(Words)
    BY <2>3, <2>5, PacketTypes, Longer
  <2> QED
    BY <2>2, <2>3, <2>4, <2>5
<1>4. outbox' \in Seq(Packets) /\ (outbox = <<>> => outbox' = <<>>)
  BY Reads DEF ClientInv, TypeOK, Joined, Begin, JudgeNext
<1>5. TypeOK'
  BY <1>1, <1>2, <1>3, <1>4 DEF ClientInv, TypeOK
<1> QED
  BY <1>1, <1>4, <1>5 DEF ClientInv, DrawerStopped, Connected, Chosen, Unserved, FirstGame, Asked, Ended

\* In a first game nothing is unread when the server closes: no reset.
LEMMA CloseInv == ClientInv /\ Close => ClientInv'
<1> SUFFICES ASSUME ClientInv, Close PROVE ClientInv'
  OBVIOUS
<1>1. /\ link = "up" /\ link' = (IF outbox = <<>> THEN "fin" ELSE "rst") /\ outbox' = <<>>
      /\ UNCHANGED <<screen, behaviour, status, known, drawer, stream, session, left, requests>>
  BY DEF Close, client, server
<1>2. TypeOK'
  BY <1>1 DEF ClientInv, TypeOK, Links
<1> QED
  BY <1>1, <1>2 DEF ClientInv, DrawerStopped, Connected, Chosen, Unserved, FirstGame, Asked, Ended

LEMMA ResetArrivesInv == ClientInv /\ ResetArrives => ClientInv'
<1> SUFFICES ASSUME ClientInv, ResetArrives PROVE ClientInv'
  OBVIOUS
<1>1. /\ link = "finsent" /\ link' = "down"
      /\ UNCHANGED <<screen, behaviour, status, known, drawer, stream, outbox, session, left, requests>>
  BY DEF ResetArrives, client, server
<1>2. TypeOK'
  BY <1>1 DEF ClientInv, TypeOK, Links
<1> QED
  BY <1>1, <1>2 DEF ClientInv, DrawerStopped, Connected, Chosen, Unserved, FirstGame, Asked, Ended

LEMMA NextClient == ClientInv /\ [Next]_vars => ClientInv'
<1> SUFFICES ASSUME ClientInv, [Next]_vars PROVE ClientInv'
  OBVIOUS
<1>1. CASE UserStep
  BY <1>1, MenuInv, SelectSizeInv, ClickAnswerInv, CloseLostInv, RetryInv, InterruptInv DEF UserStep
<1>2. CASE ClientStep
  BY <1>2, ConnectInv, SendConfInv, WaitForPlayersInv, FirstUnitInv, NextUnitInv DEF ClientStep
<1>3. CASE ServerStep
  BY <1>3, SeatInv, GameInv, CloseInv DEF ServerStep
<1>4. CASE Interrupt \/ ResetArrives
  BY <1>4, InterruptInv, ResetArrivesInv
<1>5. CASE UNCHANGED vars
  BY <1>5 DEF vars, client, server, ClientInv, TypeOK, DrawerStopped, Connected, Chosen, Unserved, FirstGame, Asked
<1> QED
  BY <1>1, <1>2, <1>3, <1>4, <1>5 DEF Next

\* The client and its connection are at any time as ClientInv says.
THEOREM ClientInvariance == Spec => []ClientInv
<1>1. Init => ClientInv
  BY InitClient
<1>2. ClientInv /\ [Next]_vars => ClientInv'
  BY NextClient
<1> QED
  BY <1>1, <1>2, PTL DEF Spec

\* Only sizes of rooms get into a request, and the number of missing players and
\* of questions to come stays in its bounds (main(), select_size(), send_conf()).
THEOREM ClientTypeCorrect == Spec => []TypeOK
<1>1. ClientInv => TypeOK
  BY DEF ClientInv
<1> QED
  BY <1>1, ClientInvariance, PTL

\* The thread that draws the progress bar is stopped on every way out of
\* wait_players().
THEOREM DrawerStoppedCorrect == Spec => []DrawerStopped
<1>1. ClientInv => DrawerStopped
  BY DEF ClientInv
<1> QED
  BY <1>1, ClientInvariance, PTL

-----------------------------------------------------------------------------
(* Who waits for whom.                                                     *)

\* A player who waits for the next unit has an answer under way or something to
\* read, or the server wants nothing more from him.
Followed ==
  screen = "ANSWERED" /\ link = "up" =>
    outbox # <<>> \/ stream # <<>> \/ session \in {"out", "over"}

\* A packet that is sent is there to be read.
LEMMA SentIsThere ==
  ASSUME ClientInv, NEW n \in Int, NEW w \in Words,
         stream' = stream \o WaitPacket(n) \/ stream' = stream \o GamePacket(w)
  PROVE  stream' # <<>>
<1>1. stream \in Seq(Words) /\ Len(stream) \in Nat
  BY LenProperties DEF ClientInv, TypeOK
<1>2. stream' \in Seq(Words) /\ Len(stream') > Len(stream)
  BY <1>1, PacketTypes, Longer
<1> QED
  BY <1>1, <1>2, EmptySeq

LEMMA NextFollowed == ClientInv /\ Followed /\ [Next]_vars => Followed'
<1> SUFFICES ASSUME ClientInv, Followed, [Next]_vars, screen' = "ANSWERED", link' = "up"
             PROVE  outbox' # <<>> \/ stream' # <<>> \/ session' \in {"out", "over"}
  BY DEF Followed
<1>1. CASE ClickAnswer
  <2>1. link = "up" /\ outbox' = Append(outbox, AnsPacket)
    BY <1>1 DEF ClickAnswer, SendToServer, Ends, ReadUnit, AfterSend
  <2>2. AnsPacket \in Packets /\ outbox \in Seq(Packets)
    BY DEF AnsPacket, Packets, ClientInv, TypeOK
  <2> QED
    BY <2>1, <2>2, AppendProperties
<1>2. ~(UserStep /\ ~ClickAnswer) /\ ~ClientStep /\ ~Interrupt
  <2>1. ~Menu /\ ~SelectSize /\ ~CloseLost /\ ~Retry /\ ~Stop /\ ~Interrupt
    BY DEF Menu, SelectSize, CloseLost, AfterLost, ToMenu, Retry, Retries, Windows, Stop, Interrupt, Ends
  <2>2. ~Connect /\ ~SendConf /\ ~WaitForPlayers
    BY DEF Connect, SendConf, SendToServer, Ends, WaitForPlayers, AfterWait
  <2>3. ~FirstUnit /\ ~NextUnit
    BY DEF FirstUnit, NextUnit, AfterUnit, ToMenu
  <2> QED
    BY <2>1, <2>2, <2>3 DEF UserStep, ClientStep
<1>3. CASE Seat \/ Joined \/ Begin
  <2>1. /\ left' \in Int /\ "level" \in Words
        /\ stream' = stream \o WaitPacket(left') \/ stream' = stream \o GamePacket("level")
    <3>1. ClientInv'
      BY <1>3, SeatInv, GameInv
    <3>2. left' \in Int
      BY <3>1, ClientAssumption DEF ClientInv, TypeOK
    <3>3. "level" \in Words
      BY DEF Words
    <3>4. stream' = stream \o WaitPacket(left') \/ stream' = stream \o GamePacket("level")
      BY <1>3 DEF Seat, Joined, Begin, Send
    <3> QED
      BY <3>2, <3>3, <3>4
  <2> QED
    BY <2>1, SentIsThere
<1>4. CASE JudgeNext
  <2>1. \/ session' = "over"
        \/ \E w \in {"ahead", "lost"} : stream' = stream \o GamePacket(w)
    BY <1>4 DEF JudgeNext, AfterLast, Send
  <2>2. {"ahead", "lost"} \subseteq Words /\ 0 \in Int
    BY DEF Words
  <2> QED
    BY <2>1, <2>2, SentIsThere
<1>5. ~Close /\ ~ResetArrives
  BY DEF Close, ResetArrives
<1>6. CASE UNCHANGED vars
  BY <1>6 DEF vars, client, server, Followed
<1> QED
  BY <1>1, <1>2, <1>3, <1>4, <1>5, <1>6 DEF Next, UserStep, ServerStep

\* After a request, and after an answer, a client and the server never wait for
\* each other, both in a recv() without a timeout (client_logic.c:19, room.c:185).
THEOREM NoMutualWaitCorrect == Spec => []NoMutualWait
<1>1. Init => Followed
  BY DEF Init, Followed
<1>2. Spec => []Followed
  BY <1>1, ClientInvariance, NextFollowed, PTL DEF Spec
<1>3. ClientInv /\ Followed => NoMutualWait
  <2> SUFFICES ASSUME ClientInv, Followed, link = "up", stream = <<>>, outbox = <<>>
               PROVE  /\ screen = "WAIT" => session # "none"
                      /\ screen = "ANSWERED" => session \in {"out", "over"}
    BY DEF NoMutualWait
  <2>1. Len(outbox) = 0
    OBVIOUS
  <2> QED
    BY <2>1 DEF ClientInv, Unserved, Followed
<1> QED
  BY <1>2, <1>3, ClientInvariance, PTL

-----------------------------------------------------------------------------
(* Where a click goes.                                                     *)

LEMMA MenuHit ==
  ASSUME NEW y \in Nat, DrawnMenu(y) # Nowhere
  PROVE  MenuChoice(y) = DrawnMenu(y)
<1>1. CASE y \in 2 .. 6
  <2>1. (y - 2) % 7 = y - 2 /\ (y - 2) \div 7 = 0
    BY <1>1
  <2> QED
    BY <1>1, <2>1 DEF DrawnMenu, MenuChoice, Box, SPACER, MENU_H, CREATE, ROOM_JOIN, APPLICATION_EXIT, Nowhere
<1>2. CASE y \in 9 .. 13
  <2>1. (y - 2) % 7 = y - 9 /\ (y - 2) \div 7 = 1
    BY <1>2
  <2> QED
    BY <1>2, <2>1 DEF DrawnMenu, MenuChoice, Box, SPACER, MENU_H, CREATE, ROOM_JOIN, APPLICATION_EXIT, Nowhere
<1>3. CASE y \in 16 .. 20
  <2>1. (y - 2) % 7 = y - 16 /\ (y - 2) \div 7 = 2
    BY <1>3
  <2> QED
    BY <1>3, <2>1 DEF DrawnMenu, MenuChoice, Box, SPACER, MENU_H, CREATE, ROOM_JOIN, APPLICATION_EXIT, Nowhere
<1> QED
  BY <1>1, <1>2, <1>3 DEF DrawnMenu, Box, SPACER, MENU_H

\* The box of a size is found by one division, and BACK is below the last.
LEMMA SizeHit ==
  ASSUME NEW y \in Nat
  PROVE  SizeChoice(y) = DrawnSize(y)
<1> DEFINE n == (y - 2) \div 5
<1>1. CHOICES \in Nat /\ CHOICES >= 1
  BY ClientAssumption DEF CHOICES
<1>2. CASE y >= 2
  <2>1. n \in Nat /\ 5 * n <= y - 2 /\ y - 2 < 5 * n + 5
    BY <1>2
  <2>2. \A k \in Nat : y \in 2 + 5 * k .. 2 + 5 * k + 5 - 1 <=> k = n
    BY <2>1
  <2>3. \A k \in Nat : Box(SPACER + SELECT_BOX_H * k, SELECT_BOX_H, y) <=> k = n
    BY <2>2 DEF Box, SPACER, SELECT_BOX_H
  <2> HIDE DEF n
  <2>4. CASE n \in 0 .. CHOICES - 1
    <3>1. (CHOOSE k \in 0 .. CHOICES - 1 : Box(SPACER + SELECT_BOX_H * k, SELECT_BOX_H, y)) = n
      BY <2>3, <2>4, <1>1
    <3>2. DrawnSize(y) = 2 + n
      <4>1. Box(SPACER + SELECT_BOX_H * n, SELECT_BOX_H, y) /\ ~Box(SPACER + SELECT_BOX_H * CHOICES, BACK_BOX_H, y)
        BY <2>1, <2>3, <2>4, <1>1 DEF SELECT_BOX_H, BACK_BOX_H
      <4> QED
        BY <2>4, <3>1, <4>1 DEF DrawnSize
    <3>3. SizeChoice(y) = n + 2
      <4>1. y >= SPACER /\ (y - SPACER) \div SELECT_BOX_H = n
        BY <1>2 DEF SPACER, SELECT_BOX_H, n
      <4>2. y - (SPACER + CHOICES * SELECT_BOX_H) \notin 0 .. BACK_BOX_H - 1
        BY <2>1, <2>4, <1>1 DEF SPACER, SELECT_BOX_H, BACK_BOX_H
      <4> QED
        BY <2>4, <4>1, <4>2 DEF SizeChoice
    <3> QED
      BY <2>1, <3>2, <3>3
  <2>5. CASE n \notin 0 .. CHOICES - 1
    <3>1. ~\E k \in 0 .. CHOICES - 1 : Box(SPACER + SELECT_BOX_H * k, SELECT_BOX_H, y)
      BY <2>3, <2>5, <1>1
    <3>2. DrawnSize(y) = IF Box(SPACER + SELECT_BOX_H * CHOICES, BACK_BOX_H, y) THEN BACK_TO_MAIN_MENU ELSE Nowhere
      BY <3>1 DEF DrawnSize
    <3>3. SizeChoice(y) = IF y - (SPACER + CHOICES * SELECT_BOX_H) \in 0 .. BACK_BOX_H - 1 THEN BACK_TO_MAIN_MENU ELSE Nowhere
      BY <2>5 DEF SizeChoice, SPACER, SELECT_BOX_H, n
    <3> QED
      BY <3>2, <3>3, <1>1 DEF Box, SPACER, SELECT_BOX_H, BACK_BOX_H
  <2> QED
    BY <2>4, <2>5
<1>3. CASE y < 2
  <2>1. SizeChoice(y) = Nowhere
    BY <1>1, <1>3 DEF SizeChoice, SPACER, SELECT_BOX_H, BACK_BOX_H
  <2>2. \A k \in Nat : ~Box(SPACER + SELECT_BOX_H * k, SELECT_BOX_H, y)
    BY <1>3 DEF Box, SPACER, SELECT_BOX_H
  <2>3. ~Box(SPACER + SELECT_BOX_H * CHOICES, BACK_BOX_H, y)
    BY <1>1, <1>3 DEF Box, SPACER, SELECT_BOX_H, BACK_BOX_H
  <2>4. DrawnSize(y) = Nowhere
    BY <1>1, <2>2, <2>3 DEF DrawnSize
  <2> QED
    BY <2>1, <2>4
<1> QED
  BY <1>2, <1>3

LEMMA AnswerHit ==
  ASSUME NEW y \in Nat, DrawnAnswer(y) # Nowhere
  PROVE  AnswerChoice(y) \in {DrawnAnswer(y), Nowhere}
<1>1. PICK n \in 0 .. 3 : Box(QUESTION_HEIGHT + SPACER + ANSWER_HEIGHT * n, ANSWER_HEIGHT, y)
  BY DEF DrawnAnswer
<1>2. y \in 8 + 4 * n .. 8 + 4 * n + 4 - 1
  BY <1>1 DEF Box, QUESTION_HEIGHT, SPACER, ANSWER_HEIGHT
<1>3. \A k \in 0 .. 3 : Box(QUESTION_HEIGHT + SPACER + ANSWER_HEIGHT * k, ANSWER_HEIGHT, y) => k = n
  BY <1>2 DEF Box, QUESTION_HEIGHT, SPACER, ANSWER_HEIGHT
<1>4. DrawnAnswer(y) = n
  BY <1>1, <1>3 DEF DrawnAnswer
<1>5. (y - 8) \div 4 = n
  BY <1>2
<1> QED
  BY <1>2, <1>4, <1>5 DEF AnswerChoice, QUESTION_HEIGHT, SPACER, ANSWER_HEIGHT

\* On a terminal of any height, with rooms of any size: a click on a box that
\* mainMenu(), select_size() or game_loop() drew counts as that box, or, on the
\* border of the first answer, as none.
THEOREM ClicksHitCorrect == Spec => []ClicksHit
<1>1. ClicksHit
  BY MenuHit, SizeHit, AnswerHit, ClientAssumption DEF ClicksHit, Rows
<1> QED
  BY <1>1, PTL

-----------------------------------------------------------------------------
(* Death by SIGPIPE.                                                       *)

\* send() kills the client only on a connection that was reset, and there was none
\* before a second request unless no server read the first.
THEOREM DiesOnlyOnReuseCorrect == Spec => DiesOnlyOnReuse
<1> DEFINE Reused == requests >= (IF screen = "CONF" THEN 1 ELSE 2) \/ session = "none"
<1>1. ASSUME ClientInv, Next, screen' = "KILLED" PROVE Reused
  <2>1. CASE SendConf
    BY <1>1, <2>1 DEF SendConf, ClientInv, Asked, TypeOK
  <2>2. CASE ClickAnswer
    <3>1. screen = "GAME" /\ link = "down"
      BY <1>1, <2>2 DEF ClickAnswer, SendToServer, SendPipe, Ends, ReadUnit
    <3> QED
      BY <1>1, <3>1 DEF ClientInv, TypeOK, FirstGame, Asked
  <2>3. CASE ServerStep \/ ResetArrives
    <3>1. screen = "KILLED" /\ link # "closed"
      BY <1>1, <2>3 DEF ServerStep, Seat, Joined, Begin, JudgeNext, Close, ResetArrives, client
    <3> QED
      BY <1>1, <3>1 DEF ClientInv, Connected, Ended
  <2>4. CASE Menu \/ SelectSize \/ CloseLost \/ Retry \/ Stop \/ Interrupt
    BY <1>1, <2>4 DEF Menu, SelectSize, CloseLost, AfterLost, ToMenu, Retry, Retries, Windows, Stop, Interrupt, Ends
  <2>5. CASE Connect \/ WaitForPlayers \/ FirstUnit \/ NextUnit
    BY <1>1, <2>5 DEF Connect, WaitForPlayers, AfterWait, FirstUnit, NextUnit, ToMenu, AfterUnit
  <2> QED
    BY <1>1, <2>1, <2>2, <2>3, <2>4, <2>5 DEF Next, UserStep, ClientStep
<1>2. ClientInv /\ [Next]_vars => [screen' = "KILLED" => Reused]_vars
  BY <1>1
<1> QED
  BY <1>2, ClientInvariance, PTL DEF Spec, DiesOnlyOnReuse

-----------------------------------------------------------------------------
(* The refinement of Talker: every step of the client, of its connection   *)
(* or of the server is a step of Talker, or none.                          *)

Nobody    == {"CONNECT", "CONN_ERR"} \cup Ended
Listening == {"WAIT", "WAIT_ERR", "FIRST", "ANSWERED"}

LEMMA Turns ==
  /\ screen \in Nobody => Turn = "nobody"
  /\ screen \in Listening => Turn = "listen"
  /\ screen \notin Nobody \cup Listening => Turn = "speak"
  BY DEF Turn, Nobody, Listening, Ended

LEMMA TurnsNext ==
  /\ screen' \in Nobody => Turn' = "nobody"
  /\ screen' \in Listening => Turn' = "listen"
  /\ screen' \notin Nobody \cup Listening => Turn' = "speak"
  /\ screen' = screen => Turn' = Turn
  BY DEF Turn, Nobody, Listening, Ended

LEMMA EmptyLengths ==
  /\ stream = <<>> => Len(stream) = 0
  /\ outbox = <<>> => Len(outbox) = 0
  /\ stream' = <<>> => Len(stream') = 0
  /\ outbox' = <<>> => Len(outbox') = 0
  OBVIOUS

\* Whatever ends the program hangs up.
LEMMA EndHangsUp ==
  ASSUME NEW how \in Ended, Ends(how), screen \notin Nobody
  PROVE  T!HangsUp
<1>1. Turn # "nobody" /\ Turn' = "nobody"
  BY Turns, TurnsNext DEF Ends, Nobody, Listening
<1>2. Len(outbox') = 0 /\ Len(stream') = 0
  BY EmptyLengths DEF Ends
<1> QED
  BY <1>1, <1>2 DEF T!HangsUp

\* Without a connection there is nothing to hang up.
LEMMA EndUnseen ==
  ASSUME ClientInv, NEW how \in Ended, Ends(how), screen \in Nobody
  PROVE  UNCHANGED <<Turn, Len(outbox), Len(stream)>>
<1>1. Turn = "nobody" /\ Turn' = "nobody"
  BY Turns, TurnsNext DEF Ends, Nobody
<1>2. stream = <<>> /\ outbox = <<>> /\ stream' = <<>> /\ outbox' = <<>>
  BY DEF ClientInv, Connected, Nobody, Ends
<1> QED
  BY <1>1, <1>2

LEMMA EndTalks ==
  ASSUME ClientInv, NEW how \in Ended, Ends(how)
  PROVE  [T!TalkNext]_(T!talk)
  BY EndHangsUp, EndUnseen DEF T!TalkNext, T!talk

\* Steps between two screens of the same turn, with nothing sent or read.
LEMMA Silent ==
  ASSUME UNCHANGED <<stream, outbox>>,
         \/ screen \in Nobody /\ screen' \in Nobody
         \/ screen \in Listening /\ screen' \in Listening
         \/ screen \notin Nobody \cup Listening /\ screen' \notin Nobody \cup Listening
  PROVE  [T!TalkNext]_(T!talk)
<1>1. Turn' = Turn
  BY Turns, TurnsNext
<1> QED
  BY <1>1 DEF T!talk

LEMMA ConnectTalks == ClientInv /\ Connect => [T!TalkNext]_(T!talk)
<1> SUFFICES ASSUME ClientInv, Connect PROVE [T!TalkNext]_(T!talk)
  OBVIOUS
<1>1. screen = "CONNECT" /\ UNCHANGED <<stream, outbox>> /\ screen' \in {"MENU", "CONN_ERR"}
  BY DEF Connect
<1>2. CASE screen' = "MENU"
  <2>1. Turn = "nobody" /\ Turn' = "speak"
    BY <1>1, <1>2, Turns, TurnsNext DEF Nobody, Listening, Ended
  <2> QED
    BY <1>1, <2>1 DEF T!Connects, T!TalkNext
<1>3. CASE screen' = "CONN_ERR"
  BY <1>1, <1>3, Silent DEF Nobody
<1> QED
  BY <1>1, <1>2, <1>3

\* A packet sent is heard of before the next; one that fails was not sent.
LEMMA SendTalks ==
  ASSUME ClientInv, NEW pkt \in Packets, NEW next \in Listening, NEW failed \in {"CONF_ERR", "GAME_ERR"},
         screen \in {"CONF", "GAME"}, SendToServer(pkt, next, failed)
  PROVE  [T!TalkNext]_(T!talk)
<1>1. link \in {"up", "fin", "finsent", "rst", "down"} /\ outbox \in Seq(Packets) /\ Turn = "speak"
  BY Turns DEF ClientInv, TypeOK, Connected, Links, Ended, Nobody, Listening
<1>2. CASE link = "down"
  BY <1>2, EndTalks DEF SendToServer, SendPipe, Ended
<1>3. CASE link = "rst"
  <2>1. screen' = failed /\ UNCHANGED <<stream, outbox>>
    BY <1>3 DEF SendToServer, SendPipe, SendOK
  <2> QED
    BY <2>1, Silent DEF Nobody, Listening, Ended
<1>4. CASE link \in {"up", "fin", "finsent"}
  <2>1. screen' = next /\ stream' = stream /\ outbox' \in {outbox, Append(outbox, pkt)}
    BY <1>4 DEF SendToServer, SendPipe, SendOK
  <2>2. Turn' = "listen"
    BY <2>1, TurnsNext
  <2>3. Len(outbox') \in {Len(outbox), Len(outbox) + 1}
    BY <1>1, <2>1, AppendProperties
  <2> QED
    BY <1>1, <2>1, <2>2, <2>3 DEF T!Speaks, T!TalkNext
<1> QED
  BY <1>1, <1>2, <1>3, <1>4

\* Reading is hearing; a connection that fails has nothing more to say.
LEMMA ReadTalks ==
  ASSUME ClientInv, Receive \/ ReceiveErr, outbox' = outbox,
         screen \in {"WAIT", "FIRST", "ANSWERED"}, screen' \notin Nobody
  PROVE  [T!TalkNext]_(T!talk)
<1>1. Turn = "listen" /\ Turn' \in {"speak", "listen"}
  BY Turns, TurnsNext DEF Listening
<1>2. Len(stream') < Len(stream) \/ (Len(stream) = 0 /\ Len(stream') = 0)
  <2>1. stream \in Seq(Words)
    BY DEF ClientInv, TypeOK
  <2>2. CASE Receive
    BY <2>1, <2>2, Takes, EmptyLengths DEF Receive
  <2>3. CASE ReceiveErr
    BY <2>3, EmptyLengths DEF ReceiveErr, RecvErrs
  <2> QED
    BY <2>2, <2>3
<1> QED
  BY <1>1, <1>2 DEF T!Hears, T!TalkNext

LEMMA ClientTalks == ClientInv /\ ClientStep => [T!TalkNext]_(T!talk)
<1> SUFFICES ASSUME ClientInv, ClientStep PROVE [T!TalkNext]_(T!talk)
  OBVIOUS
<1>1. CASE Connect
  BY <1>1, ConnectTalks
<1>2. CASE SendConf
  <2>1. JoinPacket \in Packets
    BY <1>2, ClientAssumption DEF SendConf, ClientInv, Chosen, JoinPacket, Packets, ROOM_JOIN
  <2> QED
    BY <1>2, <2>1, SendTalks DEF SendConf, Listening
<1>3. CASE WaitForPlayers
  BY <1>3, ReadTalks DEF WaitForPlayers, AfterWait, Nobody, Ended
<1>4. CASE FirstUnit
  BY <1>4, ReadTalks DEF FirstUnit, ToMenu, Nobody, Ended
<1>5. CASE NextUnit
  BY <1>5, ReadTalks DEF NextUnit, AfterUnit, Nobody, Ended
<1> QED
  BY <1>1, <1>2, <1>3, <1>4, <1>5 DEF ClientStep

LEMMA UserTalks == ClientInv /\ (UserStep \/ Interrupt) => [T!TalkNext]_(T!talk)
<1> SUFFICES ASSUME ClientInv, UserStep \/ Interrupt PROVE [T!TalkNext]_(T!talk)
  OBVIOUS
<1>1. CASE Menu
  <2>1. CASE Ends("END")
    BY <2>1, EndTalks DEF Ended
  <2>2. CASE ~Ends("END")
    BY <1>1, <2>2, Silent DEF Menu, Nobody, Listening, Ended
  <2> QED
    BY <2>1, <2>2
<1>2. CASE SelectSize \/ CloseLost \/ Retry
  BY <1>2, Silent DEF SelectSize, CloseLost, AfterLost, ToMenu, Retry, Retries, Windows, Nobody, Listening, Ended
<1>3. CASE ClickAnswer
  <2>1. CASE Ends("CRASHED")
    BY <2>1, EndTalks DEF Ended
  <2>2. CASE screen' = "GAME_ERR" /\ UNCHANGED <<drawer, link, stream, outbox>>
    BY <1>3, <2>2, Silent DEF ClickAnswer, Nobody, Listening, Ended
  <2>3. CASE SendToServer(AnsPacket, ReadUnit, "GAME_ERR")
    BY <1>3, <2>3, SendTalks DEF ClickAnswer, ReadUnit, Listening, AnsPacket, Packets
  <2> QED
    BY <1>3, <2>1, <2>2, <2>3 DEF ClickAnswer
<1>4. CASE Stop \/ Interrupt
  BY <1>4, EndTalks DEF Stop, Interrupt, Ended
<1> QED
  BY <1>1, <1>2, <1>3, <1>4 DEF UserStep

LEMMA ServerTalks == ClientInv /\ (ServerStep \/ ResetArrives) => [T!TalkNext]_(T!talk)
<1> SUFFICES ASSUME ClientInv, ServerStep \/ ResetArrives PROVE [T!TalkNext]_(T!talk)
  OBVIOUS
<1>1. screen' = screen /\ Turn' = Turn
  BY TurnsNext DEF ServerStep, Seat, Joined, Begin, JudgeNext, Close, ResetArrives, client
<1>2. stream \in Seq(Words) /\ outbox \in Seq(Packets) /\ left' \in Int
  <2>1. ClientInv'
    BY SeatInv, GameInv, CloseInv, ResetArrivesInv DEF ServerStep
  <2> QED
    BY <2>1, ClientAssumption DEF ClientInv, TypeOK
<1>3. {"level", "ahead", "lost"} \subseteq Words
  BY DEF Words
<1>4. ASSUME NEW pkt, pkt = WaitPacket(left') \/ \E w \in Words : pkt = GamePacket(w), Send(pkt)
      PROVE  Len(stream') > Len(stream)
  BY <1>2, <1>4, PacketTypes, Longer DEF Send
<1>5. CASE Seat \/ JudgeNext
  <2>1. outbox # <<>> /\ outbox' = Tail(outbox)
    BY <1>5 DEF Seat, JudgeNext
  <2>2. Len(outbox) > 0 /\ Len(outbox') = Len(outbox) - 1
    BY <1>2, <2>1, Reads
  <2>3. stream' = stream \/ Len(stream') > Len(stream)
    BY <1>3, <1>4, <1>5 DEF Seat, JudgeNext
  <2>4. Len(stream) \in Nat /\ Len(stream') >= Len(stream)
    BY <1>2, <2>3, LenProperties
  <2> QED
    BY <1>1, <2>2, <2>4 DEF T!ServerReads, T!TalkNext
<1>6. CASE Joined \/ Begin
  <2>1. Len(stream') > Len(stream) /\ outbox' = outbox
    BY <1>3, <1>4, <1>6 DEF Joined, Begin
  <2> QED
    BY <1>1, <2>1 DEF T!ServerSends, T!TalkNext
<1>7. CASE Close
  BY <1>1, <1>7, EmptyLengths DEF Close, T!ServerShuts, T!TalkNext
<1>8. CASE ResetArrives
  BY <1>1, <1>8 DEF ResetArrives, T!talk
<1> QED
  BY <1>5, <1>6, <1>7, <1>8 DEF ServerStep

\* The client implements Talker: after each packet it reads from the server before
\* it sends the next one.
THEOREM AlternatesCorrect == Spec => Alternates
<1>1. Init => T!TalkInit
  BY Turns DEF Init, Nobody, T!TalkInit
<1>2. ClientInv /\ [Next]_vars => [T!TalkNext]_(T!talk)
  <2> SUFFICES ASSUME ClientInv, [Next]_vars PROVE [T!TalkNext]_(T!talk)
    OBVIOUS
  <2>1. CASE UNCHANGED vars
    BY <2>1, TurnsNext DEF vars, client, T!talk
  <2> QED
    BY <2>1, ClientTalks, UserTalks, ServerTalks DEF Next
<1> QED
  BY <1>1, <1>2, ClientInvariance, PTL DEF Spec, Alternates, T!TalkSpec

=============================================================================
