------------------------------- MODULE Server -------------------------------
(***************************************************************************)
(* The server process: the main thread that accepts connections            *)
(* (server.c), the pool of workers that read each client's request         *)
(* (worker.c), the pool of rooms, and the bounded message queue between    *)
(* them, which lives in the kernel and survives the process.               *)
(*                                                                         *)
(* What travels through the queue is a file descriptor.  A descriptor is   *)
(* closed by the room that seated it; then accept() may hand out the same  *)
(* number again, so whoever still held it would hold somebody else's       *)
(* connection.                                                             *)
(*                                                                         *)
(* A room is here what it is for the queue: it takes a first request, then *)
(* joins until it is full, plays, and closes its descriptors; what it does *)
(* with the connections is module Room.                                    *)
(***************************************************************************)
EXTENDS MsgQueue, Connection, FiniteSets

CONSTANTS
  Fds,          \* the descriptors accept() can hand out
  NoFd,         \* no descriptor
  Workers,      \* WNUM threads
  Rooms,        \* RNUM threads
  USER_COUNT,   \* most players in a room
  QUEUE_BYTES,  \* capacity of the queue, in units of 8 bytes (2048 by default)
  Garbage,      \* what can be in a worker's packet buffer before the first recv()
  LeaveModes,   \* how clients leave: "fin" in order, "rst" by a reset
  Endings       \* how the process ends: "handled" signal, "abrupt"

RoomSizes == 2 .. USER_COUNT

\* A request as the worker reads it: the type of the message it becomes, or a
\* type it does not know.  A packet of zeros has an empty name and counts as
\* REQ_DISCONNECT.
Request(t, n) == [type |-> t, size |-> n]
Requests   == {Request(MSG_JOIN, USER_COUNT)} \cup {Request(MSG_CREATE, n) : n \in RoomSizes}
Disconnect == Request(0, 0)
Unexpected == Request(4, 0)
NoRequest  == Request(-1, 0)

ASSUME ServerAssumption ==
  /\ NoFd \notin Fds
  /\ USER_COUNT \in Nat /\ USER_COUNT >= 2
  /\ QUEUE_BYTES \in Nat
  /\ Garbage \subseteq Requests \cup {Disconnect, Unexpected} /\ Garbage # {}
  /\ LeaveModes \subseteq {"fin", "rst"}
  /\ Endings \subseteq {"handled", "abrupt"}

VARIABLES
  phase,                    \* a step of init_server(), "up", a way through
                            \* server_finalize(), "down"
  mainpc, mainfd,           \* main: in accept() or msgsnd(), and `connection'
  wstate, wsock, wpack,     \* workers: `state', `socket', `pack'
  rstate, rsize, rseats,    \* rooms: `state', `room_size', `players'
  queue, queueUp,           \* the message queue; FALSE when it does not exist
  link, asked, unread       \* connections: state, what the client asked, not read yet

main   == <<mainpc, mainfd>>
worker == <<wstate, wsock, wpack>>
room   == <<rstate, rsize, rseats>>
conn   == <<link, asked, unread>>
vars   == <<phase, main, worker, room, queue, queueUp, conn>>

\* init_server() is about to call socket(), bind(), msgget(), unit_deque_init(),
\* malloc() for the pools; or it launches threads and waits for them.
Boot    == {"socket", "bind", "msgget", "units", "pools", "launch"}
Running == phase # "down"

\* server_finalize() waits for threads: called after accept() has failed, called by
\* the handler of a signal, or by a handler that interrupted the first of these.
Finalizing == {"failing", "joining", "again"}

-----------------------------------------------------------------------------
(* The queue is bounded: msgsnd() blocks until the message fits.           *)

ConSize  == 1    \* 8 bytes
JoinSize == 7    \* 56 bytes

Load == ConSize * Len(queue[MSG_WRK]) + JoinSize * (Len(queue[MSG_JOIN]) + Len(queue[MSG_CREATE]))
Fits(size) == Load + size <= QUEUE_BYTES

\* With IPC_NOWAIT a message that does not fit would be dropped.
PostNoWait(t, m, size) ==
  queue' = IF queueUp /\ Fits(size) THEN MsgSnd(queue, t, m) ELSE queue

\* msgsnd() of m with type t; it blocks while there is no room for it.  On a
\* queue that was removed it fails, which no caller looks at.
Post(t, m, size) ==
  \/ queueUp /\ Fits(size) /\ queue' = MsgSnd(queue, t, m)
  \/ ~queueUp /\ UNCHANGED queue

-----------------------------------------------------------------------------
(* The process starts and ends.                                            *)

\* Before threads are launched.
NoThreads ==
  /\ mainpc' = "accept" /\ mainfd' = NoFd
  /\ wstate' = [w \in Workers |-> "NEW"] /\ wsock' = [w \in Workers |-> NoFd]
  /\ wpack' = [w \in Workers |-> NoRequest]
  /\ rstate' = [r \in Rooms |-> "NEW"] /\ rsize' = [r \in Rooms |-> 0]
  /\ rseats' = [r \in Rooms |-> <<>>]

Init ==
  /\ phase = "down" /\ mainpc = "accept" /\ mainfd = NoFd
  /\ wstate = [w \in Workers |-> "NEW"] /\ wsock = [w \in Workers |-> NoFd]
  /\ wpack = [w \in Workers |-> NoRequest]
  /\ rstate = [r \in Rooms |-> "NEW"] /\ rsize = [r \in Rooms |-> 0]
  /\ rseats = [r \in Rooms |-> <<>>]
  /\ queue = EmptyQueue /\ queueUp = FALSE
  /\ link = [f \in Fds |-> "closed"]
  /\ asked = [f \in Fds |-> NoRequest] /\ unread = [f \in Fds |-> FALSE]

Start ==
  /\ phase = "down"
  /\ phase' = "socket"
  /\ UNCHANGED <<main, worker, room, queue, queueUp, conn>>

\* A process ends: the kernel closes its connections, and its variables are
\* those of the next process from here on.
ProcessEnds ==
  /\ phase' = "down"
  /\ link' = [f \in Fds |-> "closed"]
  /\ asked' = [f \in Fds |-> NoRequest] /\ unread' = [f \in Fds |-> FALSE]
  /\ NoThreads

RemoveQueue == queueUp' = FALSE /\ queue' = EmptyQueue
KeepQueue   == UNCHANGED <<queue, queueUp>>

\* The error exits of init_server(): from unit_deque_init() on there is a queue
\* to remove.
ErrorExit(undo) == ProcessEnds /\ undo

OpenSocket ==
  \/ /\ phase = "socket" /\ phase' = "bind"
     /\ UNCHANGED <<main, worker, room, queue, queueUp, conn>>
  \/ /\ phase \in {"socket", "bind"} /\ ErrorExit(KeepQueue)
  \/ /\ phase = "bind" /\ phase' = "msgget"
     /\ UNCHANGED <<main, worker, room, queue, queueUp, conn>>

\* msgget() with IPC_CREAT opens the queue that is there, or makes one.
OpenQueue ==
  /\ phase = "msgget"
  /\ \/ /\ phase' = "units" /\ queueUp' = TRUE
        /\ UNCHANGED <<main, worker, room, queue, conn>>
     \/ ErrorExit(KeepQueue)

\* Nothing else of these is seen from outside.
LoadUnits ==
  /\ phase = "units"
  /\ \/ /\ phase' = "pools"
        /\ UNCHANGED <<main, worker, room, queue, queueUp, conn>>
     \/ ErrorExit(RemoveQueue)

PoolsFailKeep == KeepQueue
PoolsFail     == RemoveQueue
MakePools ==
  /\ phase = "pools"
  /\ \/ /\ phase' = "launch"
        /\ UNCHANGED <<main, worker, room, queue, queueUp, conn>>
     \/ ErrorExit(PoolsFail)

\* A thread is made, in an order that does not matter; what pthread_create()
\* returns is not looked at, and a thread it cannot make stays "NEW".
Launch ==
  /\ phase = "launch"
  /\ \/ \E w \in Workers : /\ wstate[w] = "NEW"
                           /\ wstate' = [wstate EXCEPT ![w] = "START"]
                           /\ UNCHANGED rstate
     \/ \E r \in Rooms : /\ rstate[r] = "NEW"
                         /\ rstate' = [rstate EXCEPT ![r] = "START"]
                         /\ UNCHANGED wstate
  /\ UNCHANGED <<phase, main, wsock, wpack, rsize, rseats, queue, queueUp, conn>>

\* The loops that wait for `sync'.
WorkersInSync == \A w \in Workers : wstate[w] \notin {"NEW", "START"}
AllInSync     == WorkersInSync /\ \A r \in Rooms : rstate[r] \notin {"NEW", "START"}
InSync ==
  /\ phase = "launch" /\ AllInSync
  /\ phase' = "up"
  /\ UNCHANGED <<main, worker, room, queue, queueUp, conn>>

\* The process is killed: by a signal it has no handler for (SIGTERM is one:
\* server.c:36-39) or by SIGPIPE.
Abort ==
  /\ Running /\ "abrupt" \in Endings
  /\ ProcessEnds
  /\ UNCHANGED <<queue, queueUp>>

\* server_finalize(), up to the loops that wait for threads.  Before init_server()
\* has stored the queue's identifier it is 0, which may be the queue of an earlier
\* process.
Finalize(way) ==
  /\ phase' = way
  /\ RemoveQueue \/ (phase \in {"socket", "bind", "msgget"} /\ KeepQueue)
  /\ UNCHANGED <<main, worker, room, conn>>

\* A handled signal interrupts main wherever it is, but not in the handler, which
\* blocks the four signals.
Signal ==
  /\ "handled" \in Endings
  /\ phase \in Boot \cup {"up", "failing"}
  /\ Finalize("joining")

\* The same while main waits for threads after accept() has failed.  The thread it
\* waits for is not joined twice (EINVAL); to join one that was joined already is
\* undefined: it returns or crashes.
SignalAgain ==
  /\ "handled" \in Endings /\ phase = "failing"
  /\ \/ Finalize("again")
     \/ (\E r \in Rooms : rstate[r] = "EXIT") /\ ErrorExit(KeepQueue)

\* The threads server_finalize() waits for: Server.workers was overwritten with
\* the pool of rooms (server.c:108-109) and Server.rooms is empty.  To join what is
\* no thread yet crashes or returns.
AllJoined(skipped) == /\ \A r \in Rooms \ skipped : rstate[r] \in {"EXIT", "NEW"}
                      /\ \A w \in Workers : wstate[w] \in {"FIN", "NEW"}
Joined(skipped) == \A r \in Rooms \ skipped : rstate[r] \in {"EXIT", "NEW"}

\* The rest of server_finalize().
Exit ==
  /\ \/ phase \in Finalizing /\ Joined({})
     \/ phase = "again" /\ \E r \in Rooms : Joined({r})
  /\ ProcessEnds
  /\ UNCHANGED <<queue, queueUp>>

-----------------------------------------------------------------------------
(* loop_recv(), the main thread.                                           *)

\* A client connects and accept() returns it.
Accept(f) ==
  /\ phase = "up" /\ mainpc = "accept" /\ link[f] = "closed"
  /\ mainpc' = "post" /\ mainfd' = f
  /\ link' = [link EXCEPT ![f] = "up"]
  /\ UNCHANGED <<phase, worker, room, queue, queueUp, asked, unread>>

\* A client connects and there is no descriptor left: accept() fails and the
\* server shuts down.
AcceptFails ==
  /\ phase = "up" /\ mainpc = "accept" /\ \A f \in Fds : link[f] # "closed"
  /\ Finalize("failing")

\* The type of the messages main sends.
ConTypeJoin == MSG_JOIN
ConType     == MSG_WRK

PostConnection ==
  /\ phase = "up" /\ mainpc = "post"
  /\ Post(ConType, mainfd, ConSize)
  /\ mainpc' = "accept" /\ mainfd' = NoFd
  /\ UNCHANGED <<phase, worker, room, queueUp, conn>>

-----------------------------------------------------------------------------
(* worker_fsm().                                                           *)

\* The thread reads its arguments, which are on init_server()'s stack; its packet
\* buffer holds what was there.
WorkerBegin(w) ==
  /\ Running /\ wstate[w] = "START"
  /\ wstate' = [wstate EXCEPT ![w] = "WAIT"]
  /\ \E p \in Garbage : wpack' = [wpack EXCEPT ![w] = p]
  /\ UNCHANGED <<phase, main, wsock, room, queue, queueUp, conn>>

\* case WAIT.
WorkerTake(w) ==
  /\ Running /\ wstate[w] = "WAIT"
  /\ \/ /\ queueUp /\ queue[MSG_WRK] # <<>>
        /\ wsock' = [wsock EXCEPT ![w] = Head(queue[MSG_WRK])]
        /\ queue' = MsgRcv(queue, MSG_WRK)
        /\ wstate' = [wstate EXCEPT ![w] = "RECV"]
     \/ /\ ~queueUp
        /\ wstate' = [wstate EXCEPT ![w] = "FIN"]
        /\ UNCHANGED <<wsock, queue>>
  /\ UNCHANGED <<phase, main, wpack, room, queueUp, conn>>

\* The packet buffers after worker w has received p: each thread has its own.
OneBuffer(w, p) == [v \in Workers |-> p]
Buffers(w, p)   == [wpack EXCEPT ![w] = p]

\* case RECV: recv() blocks until there is a request or the client is gone.  At
\* the end of the stream it returns 0 and leaves in the buffer what was there.  It
\* fails on a reset connection, and on a number of an earlier process (EBADF).
WorkerRecv(w) ==
  /\ Running /\ wstate[w] = "RECV"
  /\ LET f == wsock[w]
     IN \/ /\ unread[f]
           /\ wpack' = Buffers(w, asked[f])
           /\ unread' = [unread EXCEPT ![f] = FALSE]
           /\ wstate' = [wstate EXCEPT ![w] = "PROC"]
           /\ UNCHANGED link
        \/ /\ ~unread[f] /\ RecvEOF(link[f])
           /\ wstate' = [wstate EXCEPT ![w] = "PROC"]
           /\ UNCHANGED <<wpack, unread, link>>
        \/ /\ ~unread[f] /\ RecvErr(link[f])
           /\ wstate' = [wstate EXCEPT ![w] = "ERROR"]
           /\ link' = [link EXCEPT ![f] = IF @ = "rst" THEN "down" ELSE @]
           /\ UNCHANGED <<wpack, unread>>
  /\ UNCHANGED <<phase, main, wsock, room, queue, queueUp, asked>>

\* The types of request the switch in case PROC has a case for, apart from
\* REQ_DISCONNECT.  For any other the state stays PROC: the loop spins.
IsRequest(p) == p.type \in {MSG_JOIN, MSG_CREATE}

\* A worker back in WAIT is done with the descriptor it had.
LetGo(w) == wsock' = [wsock EXCEPT ![w] = IF wstate'[w] = "WAIT" THEN NoFd ELSE @]

\* The state after a request was passed on.
PassOnAgain == "PROC"
AfterPost   == "WAIT"

\* case PROC, REQ_JOIN and REQ_CREATE: the request goes to the rooms.
WorkerPost(w) ==
  /\ Running /\ wstate[w] = "PROC" /\ IsRequest(wpack[w])
  /\ Post(wpack[w].type, [fd |-> wsock[w], size |-> wpack[w].size], JoinSize)
  /\ wstate' = [wstate EXCEPT ![w] = AfterPost]
  /\ LetGo(w)
  /\ UNCHANGED <<phase, main, wpack, room, queueUp, conn>>

AfterDrop  == "WAIT"

\* case PROC, REQ_DISCONNECT, and case ERROR: the descriptor is forgotten, not closed.
WorkerDrop(w) ==
  /\ Running
  /\ wstate[w] = "ERROR" \/ (wstate[w] = "PROC" /\ wpack[w] = Disconnect)
  /\ wstate' = [wstate EXCEPT ![w] = AfterDrop]
  /\ LetGo(w)
  /\ UNCHANGED <<phase, main, wpack, room, queue, queueUp, conn>>

-----------------------------------------------------------------------------
(* room_fsm(), as far as the queue and the descriptors go.                 *)

\* The message types a room takes once it has its first player.
JoinOrCreate == {MSG_JOIN, MSG_CREATE}
NextTypes    == {MSG_JOIN}

RoomBegin(r) ==
  /\ Running /\ rstate[r] = "START"
  /\ rstate' = [rstate EXCEPT ![r] = "INIT"]
  /\ UNCHANGED <<phase, main, worker, rsize, rseats, queue, queueUp, conn>>

\* case INIT.
RoomFirst(r) ==
  /\ Running /\ rstate[r] = "INIT" /\ queueUp /\ HasRoomMsg(queue)
  /\ LET t == RoomMsgType(queue)
         m == Head(queue[t])
     IN /\ queue' = MsgRcv(queue, t)
        /\ rseats' = [rseats EXCEPT ![r] = <<m.fd>>]
        /\ rsize' = [rsize EXCEPT ![r] = m.size]
        /\ rstate' = [rstate EXCEPT ![r] = IF SendOK(link[m.fd]) THEN "WAIT" ELSE "FIN"]
        /\ link' = [link EXCEPT ![m.fd] = AfterSend(@)]
  /\ UNCHANGED <<phase, main, worker, queueUp, asked, unread>>

\* One more player fills the room.
FilledBefore(r) == Len(rseats[r]) = rsize[r]
FillsUp(r)      == Len(rseats[r]) + 1 = rsize[r]

\* case WAIT.
RoomNext(r) ==
  /\ Running /\ rstate[r] = "WAIT" /\ queueUp
  /\ \E t \in NextTypes :
       /\ queue[t] # <<>>
       /\ queue' = MsgRcv(queue, t)
       /\ rseats' = [rseats EXCEPT ![r] = Append(@, Head(queue[t]).fd)]
  /\ rstate' = [rstate EXCEPT ![r] = IF FillsUp(r) THEN "GAME" ELSE "WAIT"]
  /\ UNCHANGED <<phase, main, worker, rsize, queueUp, conn>>

\* cases INIT and WAIT without a queue.
RoomGone(r) ==
  /\ Running /\ rstate[r] \in {"INIT", "WAIT"} /\ ~queueUp
  /\ rstate' = [rstate EXCEPT ![r] = "FIN"]
  /\ UNCHANGED <<phase, main, worker, rsize, rseats, queue, queueUp, conn>>

\* cases GAMEOVER, after any game, and FIN: the descriptors of the seats are
\* closed, and with them what was not read.
RoomClose(r) ==
  /\ Running /\ rstate[r] \in {"GAME", "FIN"}
  /\ LET Gone(f) == \E k \in DOMAIN rseats[r] : rseats[r][k] = f
     IN /\ link'   = [f \in Fds |-> IF Gone(f) THEN "closed" ELSE link[f]]
        /\ asked'  = [f \in Fds |-> IF Gone(f) THEN NoRequest ELSE asked[f]]
        /\ unread' = [f \in Fds |-> unread[f] /\ ~Gone(f)]
  /\ rstate' = [rstate EXCEPT ![r] = IF @ = "GAME" THEN "INIT" ELSE "EXIT"]
  /\ rseats' = [rseats EXCEPT ![r] = <<>>]
  /\ UNCHANGED <<phase, main, worker, rsize, queue, queueUp>>

-----------------------------------------------------------------------------
(* Clients.                                                                *)

\* A client at the menu makes its one request.
Ask(f) ==
  /\ link[f] = "up" /\ asked[f] = NoRequest
  /\ \E p \in Requests : asked' = [asked EXCEPT ![f] = p]
  /\ unread' = [unread EXCEPT ![f] = TRUE]
  /\ UNCHANGED <<phase, main, worker, room, queue, queueUp, link>>

Leave(f) ==
  /\ link[f] = "up"
  /\ \E mode \in LeaveModes : link' = [link EXCEPT ![f] = mode]
  /\ UNCHANGED <<phase, main, worker, room, queue, queueUp, asked, unread>>

-----------------------------------------------------------------------------
MainStep == PostConnection \/ Exit
BootStep == OpenSocket \/ OpenQueue \/ LoadUnits \/ MakePools \/ Launch \/ InSync
WorkerStep(w) == WorkerBegin(w) \/ WorkerTake(w) \/ WorkerRecv(w) \/ WorkerPost(w) \/ WorkerDrop(w)
RoomStep(r) == RoomBegin(r) \/ RoomFirst(r) \/ RoomNext(r) \/ RoomGone(r) \/ RoomClose(r)

Next == \/ Start \/ BootStep \/ Abort \/ Signal \/ SignalAgain \/ AcceptFails \/ MainStep
        \/ \E f \in Fds : Accept(f) \/ Ask(f) \/ Leave(f)
        \/ \E w \in Workers : WorkerStep(w)
        \/ \E r \in Rooms : RoomStep(r)

Spec == Init /\ [][Next]_vars

\* What a room does by itself.  The end of a game is not one of these: in a game the
\* thread blocks in recv() for as long as a player keeps silent (room.c:185).
RoomRuns(r) == RoomStep(r) /\ rstate[r] # "GAME"

\* Threads that can run do.
FairSpec == /\ Spec
            /\ WF_vars(MainStep)
            /\ \A w \in Workers : WF_vars(WorkerStep(w))
            /\ \A r \in Rooms : WF_vars(RoomRuns(r))

\* And a client that has connected asks or leaves.
AttentiveSpec == FairSpec /\ \A f \in Fds : WF_vars(asked[f] = NoRequest /\ (Ask(f) \/ Leave(f)))
=============================================================================
