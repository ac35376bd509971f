------------------------------ MODULE MsgQueue ------------------------------
(***************************************************************************)
(* The System V message queue that the server's threads share: the main    *)
(* thread posts accepted sockets to the workers, the workers post requests *)
(* to the rooms.  Every msgrcv of the program selects either one type or   *)
(* MSG_ROOM = -2, "the first message of the lowest type not above 2", so   *)
(* the order of messages of different types never matters and the queue is *)
(* a FIFO per type.  The capacity of the queue is the business of the      *)
(* modules that bound it.                                                  *)
(***************************************************************************)
EXTENDS Integers, Sequences

MSG_JOIN   == 1      \* join-to-room request
MSG_CREATE == 2      \* 'create'-room request
MSG_WRK    == 3      \* accepted socket, for a worker

MsgTypes == {MSG_JOIN, MSG_CREATE, MSG_WRK}

\* A queue as msgget() creates it.
EmptyQueue == [t \in MsgTypes |-> <<>>]

\* msgsnd() of message m with type t.
MsgSnd(q, t, m) == [q EXCEPT ![t] = Append(@, m)]

\* What is left after msgrcv() has taken the first message of type t.
MsgRcv(q, t) == [q EXCEPT ![t] = Tail(@)]

\* msgrcv() with MSG_ROOM finds a message, and the type it takes first.
HasRoomMsg(q)  == q[MSG_JOIN] # <<>> \/ q[MSG_CREATE] # <<>>
RoomMsgType(q) == IF q[MSG_JOIN] # <<>> THEN MSG_JOIN ELSE MSG_CREATE
=============================================================================
