------------------------------- MODULE Talker -------------------------------
(***************************************************************************)
(* What the server may count on from a client: after each packet it sends, *)
(* the client listens before it speaks again.  So a client never has more  *)
(* packets under way than it has read something from the server, plus one. *)
(***************************************************************************)
EXTENDS Integers

VARIABLES
  turn,      \* "nobody" without a connection, "speak", "listen"
  sent,      \* packets of the client that the server has not read
  heard      \* words of the server that the client has not read

talk == <<turn, sent, heard>>

TalkInit == turn = "nobody" /\ sent = 0 /\ heard = 0

Connects == turn = "nobody" /\ turn' = "speak" /\ UNCHANGED <<sent, heard>>

\* One packet; on a connection the server has closed it goes nowhere.
Speaks ==
  /\ turn = "speak" /\ turn' = "listen"
  /\ sent' \in {sent, sent + 1} /\ UNCHANGED heard

\* Something was read, or there is nothing to come; it may want to hear more.
Hears ==
  /\ turn = "listen" /\ turn' \in {"speak", "listen"}
  /\ heard' < heard \/ (heard = 0 /\ heard' = 0)
  /\ UNCHANGED sent

HangsUp == turn # "nobody" /\ turn' = "nobody" /\ sent' = 0 /\ heard' = 0

\* The server reads one packet, answers or announces, or closes.
ServerReads == sent > 0 /\ sent' = sent - 1 /\ heard' >= heard /\ UNCHANGED turn
ServerSends == heard' > heard /\ UNCHANGED <<turn, sent>>
ServerShuts == sent' = 0 /\ UNCHANGED <<turn, heard>>

TalkNext == \/ Connects \/ Speaks \/ Hears \/ HangsUp
            \/ ServerReads \/ ServerSends \/ ServerShuts

TalkSpec == TalkInit /\ [][TalkNext]_talk
=============================================================================
