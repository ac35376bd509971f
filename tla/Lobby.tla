------------------------------- MODULE Lobby --------------------------------
(***************************************************************************)
(* What a room promises its players, whatever happens on the connections:  *)
(* it gathers different clients until it holds as many as its size; the    *)
(* game starts with the one that fills it and nobody enters afterwards;    *)
(* who is out of play stays out; the game ends when the last question has  *)
(* been asked or when no more than one player is in play; then all seats   *)
(* are free.  The room can stop for good between games (closed) or with    *)
(* the whole server (dead).                                                *)
(***************************************************************************)
EXTENDS Integers, FiniteSets

CONSTANTS Clients, Sizes, Rounds

VARIABLES phase, size, seated, inplay, round

lobby == <<phase, size, seated, inplay, round>>

LobbyInit == phase = "idle" /\ size = 0 /\ seated = {} /\ inplay = {} /\ round = 0

\* The first client opens the room.
Open == /\ phase = "idle" /\ phase' \in {"open", "closing"}
        /\ \E c \in Clients : seated' = {c} /\ inplay' = {c}
        /\ size' \in Sizes /\ round' = 0

\* One more client; players found to have left are out of play.
Join == /\ phase = "open"
        /\ \E c \in Clients \ seated : /\ seated' = seated \cup {c}
                                       /\ inplay' \subseteq inplay \cup {c}
        /\ phase' = IF Cardinality(seated') = size THEN "playing" ELSE "open"
        /\ UNCHANGED <<size, round>>

\* Some players go out.
Drop == /\ phase = "playing"
        /\ inplay' \subseteq inplay
        /\ UNCHANGED <<phase, size, seated, round>>

EndOfRound == /\ phase = "playing" /\ round < Rounds
              /\ round' = round + 1
              /\ UNCHANGED <<phase, size, seated, inplay>>

Finish == /\ phase = "playing"
          /\ round = Rounds \/ Cardinality(inplay) <= 1
          /\ phase' = "idle" /\ size' = 0 /\ seated' = {} /\ inplay' = {} /\ round' = 0

\* The room stops for good: not while it plays.
Stop == \/ /\ phase \in {"idle", "open"} /\ phase' = "closing"
           /\ UNCHANGED <<size, seated, inplay, round>>
        \/ /\ phase = "closing" /\ phase' = "closed"
           /\ size' = 0 /\ seated' = {} /\ inplay' = {} /\ round' = 0

Crash == /\ phase' = "dead"
         /\ size' = 0 /\ seated' = {} /\ inplay' = {} /\ round' = 0

LobbyNext == Open \/ Join \/ Drop \/ EndOfRound \/ Finish \/ Stop \/ Crash

LobbySpec == LobbyInit /\ [][LobbyNext]_lobby
=============================================================================
