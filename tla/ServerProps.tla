---------------------------- MODULE ServerProps -----------------------------
(***************************************************************************)
(* What is claimed of the server process (module Server).                  *)
(***************************************************************************)
EXTENDS Server

JoinMsgs == [fd : Fds, size : {0} \cup RoomSizes]

\* The types of the variables.
TypeOK ==
  /\ phase \in Boot \cup Finalizing \cup {"up", "down"}
  /\ mainpc \in {"accept", "post"} /\ mainfd \in Fds \cup {NoFd}
  /\ wstate \in [Workers -> {"NEW", "START", "WAIT", "RECV", "PROC", "ERROR", "FIN"}]
  /\ wsock \in [Workers -> Fds \cup {NoFd}]
  /\ wpack \in [Workers -> Requests \cup Garbage \cup {NoRequest}]
  /\ rstate \in [Rooms -> {"NEW", "START", "INIT", "WAIT", "GAME", "FIN", "EXIT"}]
  /\ rsize \in [Rooms -> {0} \cup RoomSizes]
  /\ rseats \in [Rooms -> Seq(Fds)]
  /\ queue[MSG_WRK] \in Seq(Fds)
  /\ queue[MSG_JOIN] \in Seq(JoinMsgs) /\ queue[MSG_CREATE] \in Seq(JoinMsgs)
  /\ queueUp \in BOOLEAN
  /\ link \in [Fds -> Links]
  /\ asked \in [Fds -> Requests \cup {NoRequest}]
  /\ unread \in [Fds -> BOOLEAN]

\* The places descriptor f can be in: main's hand, a worker's, a message, a seat.
MainPlaces(f) == {<<"main">> : x \in {y \in {mainfd} : y = f}}
WorkerPlaces(f) == {<<"worker", w>> : w \in {v \in Workers : wsock[v] = f}}
WrkPlaces(f) == {<<"wrk", k>> : k \in {j \in DOMAIN queue[MSG_WRK] : queue[MSG_WRK][j] = f}}
MsgPlaces(f) ==
  UNION {{<<"msg", t, k>> : k \in {j \in DOMAIN queue[t] : queue[t][j].fd = f}} :
         t \in {MSG_JOIN, MSG_CREATE}}
SeatPlaces(f) ==
  UNION {{<<"seat", r, k>> : k \in {j \in DOMAIN rseats[r] : rseats[r][j] = f}} : r \in Rooms}
Places(f) == MainPlaces(f) \cup WorkerPlaces(f) \cup WrkPlaces(f) \cup MsgPlaces(f) \cup SeatPlaces(f)

\* A descriptor is held by one thread or message at most, and a closed one by
\* nobody: no thread can read, write or close the connection of a client that
\* got the same number later.
OneHolder ==
  phase = "up" => \A f \in Fds : /\ Cardinality(Places(f)) <= 1
                                 /\ link[f] = "closed" => Places(f) = {}

\* A client that is there and has asked is not forgotten: its descriptor is on
\* its way to a room or on a seat.  (The workers forget descriptors without
\* closing them, worker.c:103-116, only of clients that left.)
NoForgottenClient ==
  phase = "up" => \A f \in Fds : (link[f] = "up" /\ asked[f] # NoRequest) => Places(f) # {}

\* A room is never fuller than its size, and it plays only when it is full.
RoomFilled ==
  Running => \A r \in Rooms : /\ rstate[r] = "WAIT" => Len(rseats[r]) < rsize[r]
                              /\ rstate[r] = "GAME" => Len(rseats[r]) = rsize[r]

\* Who creates a room gets a room of his own and of the size he asked for: he is
\* never seated in a room that another one opened.
CreateHonoured ==
  phase = "up" => \A r \in Rooms : \A k \in DOMAIN rseats[r] :
    LET p == asked[rseats[r][k]]
    IN /\ k > 1 => p.type # MSG_CREATE
       /\ p.type = MSG_CREATE => rsize[r] = p.size

\* A request on its way to the rooms is what the client asked.  Only for a client
\* that left without a word can it be another one's, left in the worker's buffer
\* (worker.c:57: recv() returned 0), though packet.h:20 has "REQ_DISCONNECT Client
\* disconnected (not real request)".
RequestsAreReal ==
  phase = "up" => \A t \in {MSG_JOIN, MSG_CREATE} : \A k \in DOMAIN queue[t] :
    LET m == queue[t][k]
    IN \/ asked[m.fd] = Request(t, m.size)
       \/ asked[m.fd] = NoRequest /\ link[m.fd] # "up"

\* A process that has opened the queue and ends by itself, at whichever error exit
\* or by server_finalize(), does not leave it to the next one.
NoQueueLeft ==
  [][(phase \in {"units", "pools", "launch", "up"} /\ phase' \in Finalizing \cup {"down"})
       => ~queueUp']_vars

\* The threads get pointers to local variables of init_server() (server.c:118, 126):
\* none has still to read them when it returns.
ArgsAlive ==
  phase = "up" => /\ \A w \in Workers : wstate[w] # "START"
                  /\ \A r \in Rooms : rstate[r] # "START"

-----------------------------------------------------------------------------
(* Liveness.                                                               *)


\* server_finalize() gets through: workers in recv() on a silent client and clients
\* that asked nothing do not keep it, for it waits for the rooms alone, and a room
\* ends without the queue.  Only a room in a game can hold it up, for as long as the
\* game goes on: for ever if a player keeps silent (room.c:185).
ShutdownCompletes ==
  phase \in Finalizing ~> (phase = "down" \/ \E r \in Rooms : [](rstate[r] = "GAME"))
=============================================================================
