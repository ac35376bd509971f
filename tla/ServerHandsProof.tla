-------------------------- MODULE ServerHandsProof --------------------------
(***************************************************************************)
(* Proofs about descriptors that change hands, for any number of them and  *)
(* of workers and rooms, as long as no process is killed: a descriptor has *)
(* one holder (OneHolder), a client that asked keeps one                   *)
(* (NoForgottenClient), and the request that arrives is the one made       *)
(* (RequestsAreReal, CreateHonoured).                                      *)
(*                                                                         *)
(* The hand of a holder is the sequence of descriptors it holds.  Every    *)
(* step takes the first one out of a hand, puts one at the end of a hand,  *)
(* or empties a hand, so that no descriptor is in two hands, or twice in   *)
(* one (Apart); accept() only returns a number that is in none (HeldOpen). *)
(***************************************************************************)
EXTENDS ServerProof, FiniteSetTheorems

AtMain      == <<"main", 0>>
AtWorker(w) == <<"worker", w>>
AtQueue(t)  == <<"queue", t>>
AtRoom(r)   == <<"room", r>>

Holders == {AtMain} \cup {AtWorker(w) : w \in Workers} \cup {AtQueue(t) : t \in MsgTypes}
             \cup {AtRoom(r) : r \in Rooms}

One(f)   == IF f = NoFd THEN <<>> ELSE <<f>>
FdsOf(s) == [k \in DOMAIN s |-> s[k].fd]

Hand == [h \in Holders |-> CASE h[1] = "main"   -> One(mainfd)
                             [] h[1] = "worker" -> One(wsock[h[2]])
                             [] h[1] = "queue"  -> IF h[2] = MSG_WRK THEN queue[MSG_WRK] ELSE FdsOf(queue[h[2]])
                             [] h[1] = "room"   -> rseats[h[2]]]

\* In hands F nothing is held twice; f is held in them.
Single(F)  == \A a, b \in Holders : \A i \in DOMAIN F[a], j \in DOMAIN F[b] :
                F[a][i] = F[b][j] => a = b /\ i = j
Held(F, f) == \E h \in Holders : \E i \in DOMAIN F[h] : F[h][i] = f

Apart    == Single(Hand)
HeldOpen == \A f \in Fds : Held(Hand, f) => link[f] # "closed"

\* When there is a queue, and what is left when there is none.
QueueLife ==
  /\ phase \in {"units", "pools", "launch", "up"} <=> queueUp
  /\ ~queueUp => queue = EmptyQueue
  /\ ~queueUp /\ phase \notin Finalizing => \A f \in Fds : link[f] = "closed"

\* A client that left without a word; one whose request, if any, is still unread.
Silent(f) == asked[f] = NoRequest /\ link[f] # "up"
Unread(f) == asked[f] = NoRequest <=> ~unread[f]

\* What is known of the request of a client, by where its descriptor is.
WorkerKnows(w) ==
  /\ wstate[w] = "RECV" => Unread(wsock[w])
  /\ wstate[w] = "PROC" => (asked[wsock[w]] = wpack[w] /\ wpack[w] # NoRequest) \/ Silent(wsock[w])
  /\ wstate[w] = "ERROR" => link[wsock[w]] # "up"
MessageKnown(t, m) == asked[m.fd] = Request(t, m.size) \/ Silent(m.fd)
SeatKnown(f, k, n) ==
  \/ Silent(f)
  \/ asked[f] \in Requests /\ asked[f].type = MSG_JOIN
  \/ k = 1 /\ asked[f] \in Requests /\ asked[f].size = n

ClosedClean   == \A f \in Fds : link[f] = "closed" => asked[f] = NoRequest /\ ~unread[f]
MainKnows     == mainfd \in Fds => Unread(mainfd)
QueueKnows    == \A k \in DOMAIN queue[MSG_WRK] : Unread(queue[MSG_WRK][k])
WorkersKnow   == \A w \in Workers : WorkerKnows(w)
MessagesKnown == \A t \in {MSG_JOIN, MSG_CREATE} : \A k \in DOMAIN queue[t] : MessageKnown(t, queue[t][k])
SeatsKnown    == \A r \in Rooms : \A k \in DOMAIN rseats[r] : SeatKnown(rseats[r][k], k, rsize[r])

RequestsInv == ClosedClean /\ MainKnows /\ QueueKnows /\ WorkersKnow /\ MessagesKnown /\ SeatsKnown

\* While there is a queue, a client that is there is in somebody's hand.
NoneDropped == queueUp => \A f \in Fds : link[f] = "up" => Held(Hand, f)

HandsInv == QueueLife /\ Apart /\ HeldOpen /\ NoneDropped

CareInv == ServerInv /\ HandsInv /\ RequestsInv

-----------------------------------------------------------------------------
(* Hands.                                                                  *)

\* Emptying hands, or taking the first descriptor out of them, makes no second holder.
LEMMA ShrinkSingle ==
  ASSUME NEW F \in [Holders -> Seq(Fds)], NEW G \in [Holders -> Seq(Fds)], Single(F),
         \A h \in Holders : G[h] = F[h] \/ G[h] = <<>> \/ (F[h] # <<>> /\ G[h] = Tail(F[h]))
  PROVE  /\ Single(G)
         /\ \A f : Held(G, f) => Held(F, f)
         /\ \A h \in Holders : F[h] # <<>> /\ G[h] # F[h] => ~Held(G, Head(F[h]))
<1> DEFINE at(h, i) == IF G[h] = F[h] THEN i ELSE i + 1
<1>1. \A h \in Holders : DOMAIN F[h] = 1 .. Len(F[h]) /\ Len(F[h]) \in Nat /\ DOMAIN G[h] = 1 .. Len(G[h])
  BY LenProperties
<1>2. \A h \in Holders : \A i \in DOMAIN G[h] :
        at(h, i) \in DOMAIN F[h] /\ G[h][i] = F[h][at(h, i)] /\ (G[h] # F[h] => at(h, i) > 1)
  <2> TAKE h \in Holders
  <2> TAKE i \in DOMAIN G[h]
  <2>1. CASE G[h] = F[h]
    BY <2>1
  <2>2. CASE G[h] = <<>>
    BY <1>1, <2>2
  <2>3. CASE G[h] # F[h] /\ F[h] # <<>> /\ G[h] = Tail(F[h])
    <3>1. Len(G[h]) = Len(F[h]) - 1 /\ \A k \in 1 .. Len(G[h]) : G[h][k] = F[h][k + 1]
      BY <2>3, HeadTailProperties, LenProperties
    <3>2. i \in 1 .. Len(G[h]) /\ Len(F[h]) \in Nat
      BY <1>1
    <3>3. i \in 1 .. Len(F[h]) - 1 /\ i \in Nat
      BY <3>1, <3>2
    <3>4. at(h, i) = i + 1
      BY <2>3
    <3>5. G[h][i] = F[h][i + 1]
      BY <3>1, <3>3
    <3>6. i + 1 \in 1 .. Len(F[h]) /\ i + 1 > 1
      BY <1>1, <3>3
    <3> QED
      BY <1>1, <2>3, <3>4, <3>5, <3>6
  <2> QED
    BY <2>1, <2>2, <2>3
<1>3. \A h \in Holders : \A i, j \in DOMAIN G[h] : at(h, i) = at(h, j) => i = j
  BY <1>1
<1>4. \A h \in Holders : F[h] # <<>> => 1 \in DOMAIN F[h] /\ Head(F[h]) = F[h][1]
  BY <1>1, HeadTailProperties, EmptySeq
<1> HIDE DEF at
<1>5. Single(G)
  BY <1>2, <1>3 DEF Single
<1>6. \A f : Held(G, f) => Held(F, f)
  BY <1>2 DEF Held
<1>7. ASSUME NEW h \in Holders, F[h] # <<>>, G[h] # F[h], Held(G, Head(F[h])) PROVE FALSE
  <2>1. PICK g \in Holders : \E i \in DOMAIN G[g] : G[g][i] = Head(F[h])
    BY <1>7 DEF Held
  <2>2. PICK i \in DOMAIN G[g] : G[g][i] = Head(F[h])
    BY <2>1
  <2>3. g = h /\ at(g, i) = 1
    BY <1>2, <1>4, <1>7, <2>2 DEF Single
  <2> QED
    BY <1>2, <1>7, <2>2, <2>3
<1> QED
  BY <1>5, <1>6, <1>7

\* Descriptor f is put at the end of hand b.
Grown(F, G, b, f) == G[b] = Append(F[b], f) /\ \A h \in Holders \ {b} : G[h] = F[h]

\* If nobody holds it that makes no second holder.
LEMMA GrowSingle ==
  ASSUME NEW F \in [Holders -> Seq(Fds)], NEW G \in [Holders -> Seq(Fds)], Single(F), NEW b \in Holders,
         NEW f \in Fds, ~Held(F, f), Grown(F, G, b, f)
  PROVE  /\ Single(G)
         /\ \A g : Held(G, g) <=> Held(F, g) \/ g = f
<1> USE DEF Grown
<1> DEFINE n == Len(F[b]) + 1
<1>1. F[b] \in Seq(Fds) /\ \A h \in Holders : DOMAIN F[h] = 1 .. Len(F[h]) /\ Len(F[h]) \in Nat
  BY LenProperties
<1>2. /\ Append(F[b], f) \in Seq(Fds) /\ DOMAIN Append(F[b], f) = 1 .. n
      /\ Append(F[b], f)[n] = f /\ \A i \in DOMAIN F[b] : Append(F[b], f)[i] = F[b][i]
  BY <1>1, AppendProperties, LenProperties
<1>3. /\ DOMAIN G[b] = DOMAIN F[b] \cup {n} /\ G[b][n] = f /\ n \notin DOMAIN F[b]
      /\ \A i \in DOMAIN F[b] : G[b][i] = F[b][i]
      /\ \A h \in Holders \ {b} : G[h] = F[h]
  BY <1>1, <1>2
<1> HIDE DEF n
<1>4. \A h \in Holders : \A i \in DOMAIN G[h] :
        IF h = b /\ i = n THEN G[h][i] = f ELSE i \in DOMAIN F[h] /\ G[h][i] = F[h][i] /\ F[h][i] # f
  BY <1>3 DEF Held
<1>5. Single(G)
  BY <1>4 DEF Single
<1>6. ASSUME NEW g PROVE Held(G, g) <=> Held(F, g) \/ g = f
  <2>1. Held(G, g) => Held(F, g) \/ g = f
    BY <1>4 DEF Held
  <2>2. Held(F, g) => Held(G, g)
    <3>1. \A h \in Holders : \A i \in DOMAIN F[h] : i \in DOMAIN G[h] /\ G[h][i] = F[h][i]
      BY <1>3
    <3> QED
      BY <3>1 DEF Held
  <2>3. Held(G, f)
    BY <1>3 DEF Held
  <2> QED
    BY <2>1, <2>2, <2>3
<1> QED
  BY <1>2, <1>5, <1>6

LEMMA MoveSingle ==
  ASSUME NEW F \in [Holders -> Seq(Fds)], NEW G \in [Holders -> Seq(Fds)], Single(F), NEW a \in Holders,
         NEW b \in Holders, a # b, F[a] # <<>>, G[a] = Tail(F[a]), G[b] = Append(F[b], Head(F[a])),
         \A h \in Holders \ {a, b} : G[h] = F[h]
  PROVE  Single(G) /\ \A f : Held(G, f) <=> Held(F, f)
<1> DEFINE M == [F EXCEPT ![a] = Tail(F[a])]
           f == Head(F[a])
<1>1. F[a] \in Seq(Fds) /\ f \in Fds /\ Tail(F[a]) \in Seq(Fds) /\ Tail(F[a]) # F[a] /\ Held(F, f)
  BY HeadTailProperties, LenProperties, EmptySeq DEF Held
<1>2. /\ M \in [Holders -> Seq(Fds)] /\ M[a] = Tail(F[a]) /\ M[b] = F[b]
      /\ \A h \in Holders : M[h] = F[h] \/ (F[h] # <<>> /\ M[h] = Tail(F[h]))
      /\ Grown(M, G, b, f)
  BY <1>1 DEF Grown
<1> HIDE DEF M, f
<1>3. Single(M) /\ ~Held(M, f) /\ \A g : Held(M, g) => Held(F, g)
  BY <1>1, <1>2, ShrinkSingle DEF f
<1>4. Single(G) /\ \A g : Held(G, g) <=> Held(M, g) \/ g = f
  BY <1>1, <1>2, <1>3, GrowSingle
<1>5. \A g : Held(F, g) => Held(M, g) \/ g = f
  <2>1. \A h \in Holders \ {a} : M[h] = F[h]
    BY DEF M
  <2>2. \A i \in DOMAIN F[a] : i = 1 \/ (i - 1 \in DOMAIN M[a] /\ F[a][i] = M[a][i - 1])
    BY <1>2, HeadTailProperties, LenProperties
  <2>3. F[a][1] = f
    BY DEF f
  <2>4. ASSUME NEW g, NEW h \in Holders, NEW i \in DOMAIN F[h], F[h][i] = g PROVE Held(M, g) \/ g = f
    <3>1. CASE h # a
      BY <2>1, <2>4, <3>1 DEF Held
    <3>2. CASE h = a
      BY <2>2, <2>3, <2>4, <3>2 DEF Held
    <3> QED
      BY <3>1, <3>2
  <2> QED
    BY <2>4 DEF Held
<1> QED
  BY <1>1, <1>3, <1>4, <1>5

\* What the hands are, by holder.
HandsAre ==
  /\ AtMain \in Holders /\ Hand[AtMain] = One(mainfd)
  /\ \A w \in Workers : AtWorker(w) \in Holders /\ Hand[AtWorker(w)] = One(wsock[w])
  /\ \A t \in MsgTypes : /\ AtQueue(t) \in Holders
                         /\ Hand[AtQueue(t)] = IF t = MSG_WRK THEN queue[t] ELSE FdsOf(queue[t])
  /\ \A r \in Rooms : AtRoom(r) \in Holders /\ Hand[AtRoom(r)] = rseats[r]

LEMMA HandValues == HandsAre
<1>1. /\ AtMain \in Holders
      /\ \A w \in Workers : AtWorker(w) \in Holders
      /\ \A t \in MsgTypes : AtQueue(t) \in Holders
      /\ \A r \in Rooms : AtRoom(r) \in Holders
  BY DEF Holders
<1> QED
  BY <1>1 DEF HandsAre, Hand, AtMain, AtWorker, AtQueue, AtRoom

\* Holders are different ones.
LEMMA HolderCases ==
  /\ \A h \in Holders : \/ h = AtMain
                        \/ \E w \in Workers : h = AtWorker(w)
                        \/ \E t \in MsgTypes : h = AtQueue(t)
                        \/ \E r \in Rooms : h = AtRoom(r)
  /\ \A v, w : (AtWorker(v) = AtWorker(w) => v = w) /\ AtWorker(w) # AtMain
  /\ \A t, u : (AtQueue(t) = AtQueue(u) => t = u) /\ AtQueue(t) # AtMain
  /\ \A r, s : (AtRoom(r) = AtRoom(s) => r = s) /\ AtRoom(r) # AtMain
  /\ \A w, t, r : AtWorker(w) # AtQueue(t) /\ AtWorker(w) # AtRoom(r) /\ AtQueue(t) # AtRoom(r)
  BY DEF Holders, AtMain, AtWorker, AtQueue, AtRoom

\* The descriptors of a sequence of requests.
LEMMA FdsOfType ==
  ASSUME NEW s \in Seq(Asks)
  PROVE  /\ FdsOf(s) \in Seq(Fds) /\ Len(FdsOf(s)) = Len(s) /\ DOMAIN FdsOf(s) = 1 .. Len(s)
         /\ \A k \in 1 .. Len(s) : FdsOf(s)[k] = s[k].fd
<1>1. DOMAIN s = 1 .. Len(s) /\ Len(s) \in Nat
  BY LenProperties
<1>2. \A k \in DOMAIN s : s[k] \in Asks
  BY ElementOfSeq, <1>1
<1>3. \A k \in DOMAIN s : s[k].fd \in Fds
  BY <1>2 DEF Asks
<1>4. FdsOf(s) \in [1 .. Len(s) -> Fds]
  BY <1>1, <1>3 DEF FdsOf
<1>5. FdsOf(s) \in Seq(Fds)
  BY <1>1, <1>4
<1> QED
  BY <1>1, <1>4, <1>5, LenProperties DEF FdsOf

LEMMA FdsOfShape ==
  ASSUME NEW s \in Seq(Asks)
  PROVE  /\ FdsOf(s) \in Seq(Fds)
         /\ \A m \in Asks : FdsOf(Append(s, m)) = Append(FdsOf(s), m.fd)
         /\ s # <<>> => FdsOf(s) # <<>> /\ Head(FdsOf(s)) = Head(s).fd /\ FdsOf(Tail(s)) = Tail(FdsOf(s))
<1>1. /\ FdsOf(s) \in Seq(Fds) /\ Len(FdsOf(s)) = Len(s) /\ Len(s) \in Nat
      /\ \A k \in 1 .. Len(s) : FdsOf(s)[k] = s[k].fd
  BY FdsOfType, LenProperties
<1>2. ASSUME NEW m \in Asks PROVE FdsOf(Append(s, m)) = Append(FdsOf(s), m.fd)
  <2>1. /\ Append(s, m) \in Seq(Asks) /\ Len(Append(s, m)) = Len(s) + 1
        /\ \A k \in 1 .. Len(s) + 1 : Append(s, m)[k] = IF k <= Len(s) THEN s[k] ELSE m
    BY <1>1, AppendProperties, LenProperties
  <2>2. /\ Append(FdsOf(s), m.fd) \in Seq(Fds) /\ Len(Append(FdsOf(s), m.fd)) = Len(s) + 1
        /\ \A k \in 1 .. Len(s) + 1 : Append(FdsOf(s), m.fd)[k] = IF k <= Len(s) THEN FdsOf(s)[k] ELSE m.fd
    BY <1>1, AppendProperties, LenProperties DEF Asks
  <2>3. /\ FdsOf(Append(s, m)) \in Seq(Fds) /\ Len(FdsOf(Append(s, m))) = Len(s) + 1
        /\ \A k \in 1 .. Len(s) + 1 : FdsOf(Append(s, m))[k] = Append(s, m)[k].fd
    BY <2>1, FdsOfType
  <2>4. \A k \in 1 .. Len(s) + 1 : FdsOf(Append(s, m))[k] = Append(FdsOf(s), m.fd)[k]
    BY <1>1, <2>1, <2>2, <2>3
  <2> QED
    BY <2>2, <2>3, <2>4, SeqEqual
<1>3. ASSUME s # <<>>
      PROVE  FdsOf(s) # <<>> /\ Head(FdsOf(s)) = Head(s).fd /\ FdsOf(Tail(s)) = Tail(FdsOf(s))
  <2>1. /\ Len(s) >= 1 /\ FdsOf(s) # <<>> /\ Head(s) = s[1] /\ Head(FdsOf(s)) = FdsOf(s)[1]
    BY <1>1, <1>3, EmptySeq, HeadTailProperties
  <2>2. /\ Tail(s) \in Seq(Asks) /\ Len(Tail(s)) = Len(s) - 1
        /\ \A k \in 1 .. Len(s) - 1 : Tail(s)[k] = s[k + 1]
    BY <1>3, HeadTailProperties
  <2>3. /\ Tail(FdsOf(s)) \in Seq(Fds) /\ Len(Tail(FdsOf(s))) = Len(s) - 1
        /\ \A k \in 1 .. Len(s) - 1 : Tail(FdsOf(s))[k] = FdsOf(s)[k + 1]
    BY <1>1, <2>1, HeadTailProperties
  <2>4. /\ FdsOf(Tail(s)) \in Seq(Fds) /\ Len(FdsOf(Tail(s))) = Len(s) - 1
        /\ \A k \in 1 .. Len(s) - 1 : FdsOf(Tail(s))[k] = Tail(s)[k].fd
    BY <2>2, FdsOfType
  <2>5. \A k \in 1 .. Len(s) - 1 : FdsOf(Tail(s))[k] = Tail(FdsOf(s))[k]
    BY <1>1, <2>2, <2>3, <2>4
  <2>6. FdsOf(Tail(s)) = Tail(FdsOf(s))
    BY <2>3, <2>4, <2>5, SeqEqual
  <2> QED
    BY <1>1, <2>1, <2>6
<1> QED
  BY <1>1, <1>2, <1>3

HandsTyped == Hand \in [Holders -> Seq(Fds)]

LEMMA HandType == ServerInv => HandsTyped
<1> SUFFICES ASSUME ServerInv, NEW h \in Holders PROVE Hand[h] \in Seq(Fds)
  BY DEF HandsTyped, Hand
<1>1. \A f \in Fds \cup {NoFd} : One(f) \in Seq(Fds)
  BY DEF One
<1>2. CASE h = AtMain
  BY <1>1, <1>2, HandValues DEF HandsAre, ServerInv, TypeOK
<1>3. ASSUME NEW w \in Workers, h = AtWorker(w) PROVE Hand[h] \in Seq(Fds)
  BY <1>1, <1>3, HandValues DEF HandsAre, ServerInv, TypeOK
<1>4. ASSUME NEW t \in MsgTypes, h = AtQueue(t) PROVE Hand[h] \in Seq(Fds)
  <2>1. t = MSG_WRK \/ queue[t] \in Seq(Asks)
    BY DEF MsgTypes, ServerInv, QueueShape
  <2> QED
    BY <1>4, <2>1, HandValues, FdsOfShape DEF HandsAre, ServerInv, QueueShape
<1>5. ASSUME NEW r \in Rooms, h = AtRoom(r) PROVE Hand[h] \in Seq(Fds)
  BY <1>5, HandValues DEF HandsAre, ServerInv, TypeOK
<1> QED
  BY <1>2, <1>3, <1>4, <1>5, HolderCases

-----------------------------------------------------------------------------
(* The hands in a step.                                                    *)

\* A descriptor goes from hand a to hand b, into hand b, or out of hands.
LEMMA Transfer ==
  ASSUME ServerInv, ServerInv', Apart, NEW a \in Holders, NEW b \in Holders, a # b, Hand[a] # <<>>,
         Hand'[a] = Tail(Hand[a]), Hand'[b] = Append(Hand[b], Head(Hand[a])),
         \A h \in Holders \ {a, b} : Hand'[h] = Hand[h]
  PROVE  Apart' /\ \A f : Held(Hand', f) <=> Held(Hand, f)
<1>0. HandsTyped /\ HandsTyped'
  BY HandType, PTL
<1>1. Hand \in [Holders -> Seq(Fds)] /\ Hand' \in [Holders -> Seq(Fds)]
  BY <1>0 DEF HandsTyped
<1>2. Single(Hand') /\ \A f : Held(Hand', f) <=> Held(Hand, f)
  BY <1>1, MoveSingle DEF Apart
<1> QED
  BY <1>2 DEF Apart, Single

LEMMA Gain ==
  ASSUME ServerInv, ServerInv', Apart, NEW b \in Holders, NEW f \in Fds, ~Held(Hand, f),
         Grown(Hand, Hand', b, f)
  PROVE  Apart' /\ \A g : Held(Hand', g) <=> Held(Hand, g) \/ g = f
<1>0. HandsTyped /\ HandsTyped'
  BY HandType, PTL
<1>1. Hand \in [Holders -> Seq(Fds)] /\ Hand' \in [Holders -> Seq(Fds)]
  BY <1>0 DEF HandsTyped
<1>2. Single(Hand') /\ \A g : Held(Hand', g) <=> Held(Hand, g) \/ g = f
  BY <1>1, GrowSingle DEF Apart
<1> QED
  BY <1>2 DEF Apart, Single

LEMMA Loss ==
  ASSUME ServerInv, ServerInv', Apart,
         \A h \in Holders : Hand'[h] = Hand[h] \/ Hand'[h] = <<>>
  PROVE  /\ Apart' /\ \A f : Held(Hand', f) => Held(Hand, f)
         /\ \A h \in Holders : Hand'[h] = <<>> =>
              \A f : (\E i \in DOMAIN Hand[h] : Hand[h][i] = f) => ~Held(Hand', f)
         /\ \A f : Held(Hand, f) /\ ~Held(Hand', f) =>
              \E h \in Holders : Hand'[h] = <<>> /\ \E i \in DOMAIN Hand[h] : Hand[h][i] = f
<1>0. HandsTyped /\ HandsTyped'
  BY HandType, PTL
<1>1. Hand \in [Holders -> Seq(Fds)] /\ Hand' \in [Holders -> Seq(Fds)]
  BY <1>0 DEF HandsTyped
<1>2. Single(Hand') /\ \A f : Held(Hand', f) => Held(Hand, f)
  BY <1>1, ShrinkSingle DEF Apart
<1>3. \A h \in Holders : \A i \in DOMAIN Hand'[h] :
         Hand'[h] # <<>> /\ i \in DOMAIN Hand[h] /\ Hand'[h][i] = Hand[h][i]
  <2>1. DOMAIN <<>> = {}
    OBVIOUS
  <2> QED
    BY <2>1
<1>4. ASSUME NEW h \in Holders, Hand'[h] = <<>>, NEW i \in DOMAIN Hand[h], Held(Hand', Hand[h][i]) PROVE FALSE
  <2>1. PICK g \in Holders : \E j \in DOMAIN Hand'[g] : Hand'[g][j] = Hand[h][i]
    BY <1>4 DEF Held
  <2>2. g = h
    BY <1>3, <1>4, <2>1 DEF Apart, Single
  <2> QED
    BY <1>3, <1>4, <2>1, <2>2
<1>5. \A f : Held(Hand, f) /\ ~Held(Hand', f) =>
        \E h \in Holders : Hand'[h] = <<>> /\ \E i \in DOMAIN Hand[h] : Hand[h][i] = f
  BY DEF Held
<1> QED
  BY <1>2, <1>4, <1>5 DEF Apart, Single

\* Nothing changes hands.
LEMMA Rest ==
  ASSUME UNCHANGED <<mainfd, wsock, queue, rseats>>, Apart
  PROVE  Apart' /\ Hand' = Hand
<1>1. Hand' = Hand
  BY DEF Hand
<1> QED
  BY <1>1 DEF Apart, Single

LEMMA BothHands == HandsAre /\ HandsAre'
  BY HandValues, PTL

LEMMA OneHand ==
  /\ \A f \in Fds : /\ One(f) # <<>> /\ Tail(One(f)) = <<>> /\ Head(One(f)) = f
                    /\ DOMAIN One(f) = {1} /\ One(f)[1] = f
                    /\ Append(<<>>, f) = One(f) /\ One(f) = <<f>>
  /\ One(NoFd) = <<>>
<1>1. \A f \in Fds : One(f) = <<f>>
  BY ServerAssumption DEF One
<1> QED
  BY <1>1 DEF One

\* The main thread's descriptor goes into the queue; without a queue it is lost.
LEMMA PostHands ==
  ASSUME ServerInv, ServerInv', Apart, PostConnection
  PROVE  /\ Apart' /\ \A f : Held(Hand', f) => Held(Hand, f)
         /\ queueUp => \A f : Held(Hand, f) => Held(Hand', f)
<1>1. /\ mainfd \in Fds /\ Post(MSG_WRK, mainfd, ConSize) /\ MSG_WRK \in MsgTypes /\ mainfd' = NoFd
      /\ UNCHANGED <<wsock, rseats, queueUp>> /\ QueueShape
  BY DEF PostConnection, ConType, ServerInv, ThreadShape, MsgTypes, worker, room
<1>2. /\ \/ queueUp /\ queue'[MSG_WRK] = Append(queue[MSG_WRK], mainfd)
         \/ ~queueUp /\ queue'[MSG_WRK] = queue[MSG_WRK]
      /\ \A u \in MsgTypes \ {MSG_WRK} : queue'[u] = queue[u]
  BY <1>1, PostShape
<1>3. /\ Hand[AtMain] = One(mainfd) /\ Hand'[AtMain] = <<>> /\ AtMain \in Holders
      /\ AtQueue(MSG_WRK) \in Holders /\ Hand[AtQueue(MSG_WRK)] = queue[MSG_WRK]
      /\ Hand'[AtQueue(MSG_WRK)] = queue'[MSG_WRK] /\ AtMain # AtQueue(MSG_WRK)
  BY <1>1, BothHands, HolderCases, OneHand DEF HandsAre
<1>4. \A h \in Holders \ {AtMain, AtQueue(MSG_WRK)} : Hand'[h] = Hand[h]
  BY <1>1, <1>2, BothHands, HolderCases DEF HandsAre
<1>5. CASE queueUp
  <2>1. /\ Hand[AtMain] # <<>> /\ Hand'[AtMain] = Tail(Hand[AtMain])
        /\ Hand'[AtQueue(MSG_WRK)] = Append(Hand[AtQueue(MSG_WRK)], Head(Hand[AtMain]))
    BY <1>1, <1>2, <1>3, <1>5, OneHand
  <2> QED
    BY <1>3, <1>4, <2>1, Transfer
<1>6. CASE ~queueUp
  <2>1. \A h \in Holders : Hand'[h] = Hand[h] \/ Hand'[h] = <<>>
    BY <1>2, <1>3, <1>4, <1>6
  <2> QED
    BY <1>6, <2>1, Loss
<1> QED
  BY <1>5, <1>6

\* A new descriptor is in nobody's hand.
LEMMA AcceptHands ==
  ASSUME ServerInv, ServerInv', Apart, HeldOpen, NEW f \in Fds, Accept(f)
  PROVE  Apart' /\ \A g : Held(Hand', g) <=> Held(Hand, g) \/ g = f
<1>1. /\ mainfd = NoFd /\ mainfd' = f /\ UNCHANGED <<wsock, rseats, queue>> /\ ~Held(Hand, f)
  BY DEF Accept, ServerInv, ThreadShape, HeldOpen, worker, room
<1>2. AtMain \in Holders /\ Hand[AtMain] = <<>> /\ Hand'[AtMain] = Append(<<>>, f)
  BY <1>1, BothHands, OneHand DEF HandsAre
<1>3. \A h \in Holders \ {AtMain} : Hand'[h] = Hand[h]
  BY <1>1, BothHands, HolderCases DEF HandsAre
<1>4. Grown(Hand, Hand', AtMain, f)
  BY <1>2, <1>3 DEF Grown
<1> QED
  BY <1>1, <1>2, <1>4, Gain

LEMMA TakeHands ==
  ASSUME ServerInv, ServerInv', Apart, NEW w \in Workers, WorkerTake(w), queueUp
  PROVE  Apart' /\ \A f : Held(Hand', f) <=> Held(Hand, f)
<1>1. /\ queue[MSG_WRK] # <<>> /\ queue' = MsgRcv(queue, MSG_WRK) /\ MSG_WRK \in MsgTypes /\ QueueShape
      /\ wsock' = [wsock EXCEPT ![w] = Head(queue[MSG_WRK])] /\ wsock[w] = NoFd
      /\ UNCHANGED <<mainfd, rseats>> /\ wsock \in [Workers -> Fds \cup {NoFd}]
  BY DEF WorkerTake, MsgTypes, ServerInv, ThreadShape, TypeOK, Holding, main, room
<1>2. /\ queue'[MSG_WRK] = Tail(queue[MSG_WRK]) /\ \A u \in MsgTypes \ {MSG_WRK} : queue'[u] = queue[u]
      /\ Head(queue[MSG_WRK]) \in Fds
  BY <1>1, TakeShape
<1>3. /\ AtQueue(MSG_WRK) \in Holders /\ Hand[AtQueue(MSG_WRK)] = queue[MSG_WRK]
      /\ Hand'[AtQueue(MSG_WRK)] = queue'[MSG_WRK] /\ AtWorker(w) # AtQueue(MSG_WRK)
      /\ AtWorker(w) \in Holders /\ Hand[AtWorker(w)] = <<>>
      /\ Hand'[AtWorker(w)] = Append(<<>>, Head(queue[MSG_WRK]))
  BY <1>1, <1>2, BothHands, HolderCases, OneHand DEF HandsAre
<1>4. \A h \in Holders \ {AtWorker(w), AtQueue(MSG_WRK)} : Hand'[h] = Hand[h]
  BY <1>1, <1>2, BothHands, HolderCases DEF HandsAre
<1> QED
  BY <1>1, <1>2, <1>3, <1>4, Transfer

\* The descriptor of a worker goes to the rooms, with the request, or is forgotten.
LEMMA WorkerPostHands ==
  ASSUME ServerInv, ServerInv', Apart, NEW w \in Workers, WorkerPost(w)
  PROVE  /\ Apart' /\ \A f : Held(Hand', f) => Held(Hand, f)
         /\ queueUp => \A f : Held(Hand, f) => Held(Hand', f)
<1> DEFINE t == wpack[w].type
           m == [fd |-> wsock[w], size |-> wpack[w].size]
<1>1. /\ wpack[w] \in Requests \cup Garbage \cup {NoRequest} /\ IsRequest(wpack[w])
      /\ Post(t, m, JoinSize) /\ wsock[w] \in Fds /\ QueueShape
      /\ wsock' = [wsock EXCEPT ![w] = NoFd] /\ wsock \in [Workers -> Fds \cup {NoFd}]
      /\ UNCHANGED <<mainfd, rseats>>
  BY DEF WorkerPost, AfterPost, LetGo, AfterDrop, ServerInv, TypeOK, ThreadShape, Holding, main, room
<1>2. m \in Asks /\ t \in MsgTypes /\ t # MSG_WRK /\ m.fd = wsock[w] /\ queue[t] \in Seq(Asks)
  BY <1>1, RequestTypes DEF Asks, IsRequest, MsgTypes, MSG_WRK, MSG_JOIN, MSG_CREATE, QueueShape
<1> HIDE DEF m, t
<1>3. /\ \/ queueUp /\ queue'[t] = Append(queue[t], m)
         \/ ~queueUp /\ queue'[t] = queue[t]
      /\ \A u \in MsgTypes \ {t} : queue'[u] = queue[u]
  BY <1>1, <1>2, PostShape
<1>4. /\ AtWorker(w) \in Holders /\ Hand[AtWorker(w)] = One(wsock[w]) /\ Hand'[AtWorker(w)] = <<>>
      /\ AtQueue(t) \in Holders /\ Hand[AtQueue(t)] = FdsOf(queue[t]) /\ Hand'[AtQueue(t)] = FdsOf(queue'[t])
      /\ AtWorker(w) # AtQueue(t)
  BY <1>1, <1>2, BothHands, HolderCases, OneHand DEF HandsAre
<1>5. \A h \in Holders \ {AtWorker(w), AtQueue(t)} : Hand'[h] = Hand[h]
  BY <1>1, <1>2, <1>3, BothHands, HolderCases DEF HandsAre
<1>6. CASE queueUp
  <2>1. /\ Hand[AtWorker(w)] # <<>> /\ Hand'[AtWorker(w)] = Tail(Hand[AtWorker(w)])
        /\ Head(Hand[AtWorker(w)]) = m.fd
    BY <1>1, <1>2, <1>4, OneHand
  <2>2. Hand'[AtQueue(t)] = Append(Hand[AtQueue(t)], m.fd)
    BY <1>2, <1>3, <1>4, <1>6, FdsOfShape
  <2> QED
    BY <1>4, <1>5, <2>1, <2>2, Transfer
<1>7. CASE ~queueUp
  <2>1. \A h \in Holders : Hand'[h] = Hand[h] \/ Hand'[h] = <<>>
    BY <1>3, <1>4, <1>5, <1>7
  <2> QED
    BY <1>7, <2>1, Loss
<1> QED
  BY <1>6, <1>7

LEMMA DropHands ==
  ASSUME ServerInv, ServerInv', Apart, NEW w \in Workers, WorkerDrop(w)
  PROVE  /\ Apart' /\ \A f : Held(Hand', f) => Held(Hand, f)
         /\ \A f : Held(Hand, f) => Held(Hand', f) \/ f = wsock[w]
<1>1. /\ wsock' = [wsock EXCEPT ![w] = NoFd] /\ wsock \in [Workers -> Fds \cup {NoFd}] /\ wsock[w] \in Fds
      /\ UNCHANGED <<mainfd, rseats, queue>>
  BY DEF WorkerDrop, LetGo, AfterDrop, ServerInv, TypeOK, ThreadShape, Holding, main, room
<1>2. AtWorker(w) \in Holders /\ Hand[AtWorker(w)] = One(wsock[w]) /\ Hand'[AtWorker(w)] = <<>>
  BY <1>1, BothHands, OneHand DEF HandsAre
<1>3. \A h \in Holders \ {AtWorker(w)} : Hand'[h] = Hand[h]
  BY <1>1, BothHands, HolderCases DEF HandsAre
<1>4. Apart' /\ \A f : Held(Hand', f) => Held(Hand, f)
  BY <1>2, <1>3, Loss
<1>5. \A f : Held(Hand, f) => Held(Hand', f) \/ f = wsock[w]
  BY <1>1, <1>2, <1>3, OneHand DEF Held
<1> QED
  BY <1>4, <1>5

\* A room seats the first descriptor of the messages of type t.
LEMMA SeatHands ==
  ASSUME ServerInv, ServerInv', Apart, NEW r \in Rooms, NEW t \in {MSG_JOIN, MSG_CREATE}, queue[t] # <<>>,
         queue' = MsgRcv(queue, t), rseats' = [rseats EXCEPT ![r] = Append(rseats[r], Head(queue[t]).fd)],
         UNCHANGED <<mainfd, wsock>>
  PROVE  Apart' /\ \A f : Held(Hand', f) <=> Held(Hand, f)
<1>1. /\ t \in MsgTypes /\ t # MSG_WRK /\ QueueShape /\ queue[t] \in Seq(Asks)
      /\ rseats \in [Rooms -> Seq(Fds)]
  BY DEF ServerInv, TypeOK, QueueShape, MsgTypes, MSG_WRK, MSG_JOIN, MSG_CREATE
<1>2. queue'[t] = Tail(queue[t]) /\ \A u \in MsgTypes \ {t} : queue'[u] = queue[u]
  BY <1>1, TakeShape
<1>3. /\ AtQueue(t) \in Holders /\ Hand[AtQueue(t)] = FdsOf(queue[t]) /\ Hand'[AtQueue(t)] = FdsOf(queue'[t])
      /\ AtRoom(r) \in Holders /\ Hand[AtRoom(r)] = rseats[r] /\ Hand'[AtRoom(r)] = rseats'[r]
      /\ AtRoom(r) # AtQueue(t)
  BY <1>1, BothHands, HolderCases DEF HandsAre
<1>4. \A h \in Holders \ {AtQueue(t), AtRoom(r)} : Hand'[h] = Hand[h]
  <2>1. \A s \in Rooms \ {r} : rseats'[s] = rseats[s]
    BY <1>1
  <2>2. \A s \in Rooms \ {r} : Hand'[AtRoom(s)] = Hand[AtRoom(s)]
    BY <2>1, BothHands DEF HandsAre
  <2>3. \A u \in MsgTypes \ {t} : Hand'[AtQueue(u)] = Hand[AtQueue(u)]
    BY <1>2, BothHands DEF HandsAre
  <2>4. Hand'[AtMain] = Hand[AtMain] /\ \A w \in Workers : Hand'[AtWorker(w)] = Hand[AtWorker(w)]
    BY BothHands DEF HandsAre
  <2> QED
    BY <2>2, <2>3, <2>4, HolderCases
<1>5. /\ Hand[AtQueue(t)] # <<>> /\ Hand'[AtQueue(t)] = Tail(Hand[AtQueue(t)])
      /\ Head(Hand[AtQueue(t)]) = Head(queue[t]).fd
  BY <1>1, <1>2, <1>3, FdsOfShape
<1>6. Hand'[AtRoom(r)] = Append(Hand[AtRoom(r)], Head(queue[t]).fd)
  BY <1>1, <1>3
<1> QED
  BY <1>3, <1>4, <1>5, <1>6, Transfer

LEMMA CloseHands ==
  ASSUME ServerInv, ServerInv', Apart, NEW r \in Rooms, RoomClose(r)
  PROVE  /\ Apart' /\ \A f : Held(Hand', f) => Held(Hand, f) /\ \A k \in DOMAIN rseats[r] : rseats[r][k] # f
         /\ \A f : Held(Hand, f) => Held(Hand', f) \/ \E k \in DOMAIN rseats[r] : rseats[r][k] = f
<1>1. /\ rseats' = [rseats EXCEPT ![r] = <<>>] /\ rseats \in [Rooms -> Seq(Fds)]
      /\ UNCHANGED <<mainfd, wsock, queue>>
  BY DEF RoomClose, ServerInv, TypeOK, main, worker
<1>2. AtRoom(r) \in Holders /\ Hand[AtRoom(r)] = rseats[r] /\ Hand'[AtRoom(r)] = <<>>
  BY <1>1, BothHands DEF HandsAre
<1>3. \A h \in Holders \ {AtRoom(r)} : Hand'[h] = Hand[h]
  BY <1>1, BothHands, HolderCases DEF HandsAre
<1>4. /\ Apart' /\ \A f : Held(Hand', f) => Held(Hand, f)
      /\ \A f : (\E i \in DOMAIN Hand[AtRoom(r)] : Hand[AtRoom(r)][i] = f) => ~Held(Hand', f)
  BY <1>2, <1>3, Loss
<1>5. \A f : Held(Hand, f) => Held(Hand', f) \/ \E k \in DOMAIN rseats[r] : rseats[r][k] = f
  BY <1>2, <1>3 DEF Held
<1> QED
  BY <1>2, <1>4, <1>5

\* No queue, no message in anybody's hand.
LEMMA QueueHands ==
  ASSUME ServerInv, ServerInv', Apart, RemoveQueue, UNCHANGED <<mainfd, wsock, rseats>>
  PROVE  Apart' /\ \A f : Held(Hand', f) => Held(Hand, f)
<1>1. \A t \in MsgTypes : queue'[t] = <<>>
  BY EmptyShape DEF RemoveQueue
<1>2. FdsOf(<<>>) = <<>>
  BY DEF FdsOf
<1>3. \A h \in Holders : Hand'[h] = Hand[h] \/ Hand'[h] = <<>>
  BY <1>1, <1>2, BothHands, HolderCases DEF HandsAre
<1> QED
  BY <1>3, Loss

LEMMA EndHands ==
  ASSUME ProcessEnds, queue' = EmptyQueue
  PROVE  Apart' /\ \A f : ~Held(Hand', f)
<1>1. \A t \in MsgTypes : queue'[t] = <<>>
  BY EmptyShape
<1>2. FdsOf(<<>>) = <<>> /\ One(NoFd) = <<>> /\ DOMAIN <<>> = {}
  BY DEF FdsOf, One
<1>3. /\ mainfd' = NoFd /\ wsock' = [w \in Workers |-> NoFd] /\ rseats' = [r \in Rooms |-> <<>>]
  BY DEF ProcessEnds, NoThreads
<1>4. \A h \in Holders : Hand'[h] = <<>>
  BY <1>1, <1>2, <1>3, BothHands, HolderCases DEF HandsAre
<1> QED
  BY <1>2, <1>4 DEF Apart, Single, Held

-----------------------------------------------------------------------------
(* One holder.                                                             *)

\* What is in a hand.
AllInHands ==
  /\ \A f \in Fds : mainfd = f => Held(Hand, f)
  /\ \A w \in Workers : wsock[w] \in Fds => Held(Hand, wsock[w])
  /\ \A k \in DOMAIN queue[MSG_WRK] : Held(Hand, queue[MSG_WRK][k])
  /\ \A t \in {MSG_JOIN, MSG_CREATE} : \A k \in DOMAIN queue[t] : Held(Hand, queue[t][k].fd)
  /\ \A r \in Rooms : \A k \in DOMAIN rseats[r] : Held(Hand, rseats[r][k])

LEMMA InHand == AllInHands
<1>1. \A t \in {MSG_JOIN, MSG_CREATE} : t \in MsgTypes /\ t # MSG_WRK /\ MSG_WRK \in MsgTypes
  BY DEF MsgTypes, MSG_WRK, MSG_JOIN, MSG_CREATE
<1>2. \A t \in {MSG_JOIN, MSG_CREATE} : \A k \in DOMAIN queue[t] :
        k \in DOMAIN FdsOf(queue[t]) /\ FdsOf(queue[t])[k] = queue[t][k].fd
  BY DEF FdsOf
<1> QED
  BY <1>1, <1>2, HandValues, OneHand DEF HandsAre, AllInHands, Held

\* The steps that are no thread's or client's, by what they do to the queue: the
\* process ends and leaves none, or it goes on and no descriptor moves.
Opened(p) == p \in {"units", "pools", "launch", "up"}
Ended == ProcessEnds /\ RemoveQueue
Goes  ==
  /\ phase' # "down" /\ UNCHANGED <<main, wsock, wpack, rsize, rseats, conn>>
  /\ \A w \in Workers : wstate'[w] # wstate[w] => wstate'[w] = "START"
  /\ \/ RemoveQueue /\ phase' \in Finalizing
     \/ KeepQueue /\ (Opened(phase') <=> Opened(phase)) /\ phase \notin Finalizing
     \/ phase = "msgget" /\ Opened(phase') /\ queueUp' = TRUE /\ UNCHANGED queue

LEMMA EndCases ==
  ASSUME "abrupt" \notin Endings, ServerInv, QueueLife, [Next]_vars
  PROVE  \/ Ended \/ Goes
         \/ PostConnection \/ \E f \in Fds : Accept(f) \/ Ask(f) \/ Leave(f)
         \/ \E w \in Workers : WorkerStep(w)
         \/ \E r \in Rooms : RoomStep(r)
         \/ UNCHANGED vars
<1>1. ProcessEnds /\ KeepQueue /\ ~queueUp => Ended
  BY DEF KeepQueue, RemoveQueue, Ended, QueueLife
<1>2. ~Abort
  BY DEF Abort
<1>3. Exit => Ended
  BY <1>1 DEF Exit, Finalizing, KeepQueue, QueueLife
<1>4. CASE Launch
  BY <1>4 DEF Launch, Goes, KeepQueue, Opened, Finalizing, ServerInv, TypeOK
<1>5. CASE OpenSocket
  BY <1>1, <1>5 DEF OpenSocket, ErrorExit, Goes, KeepQueue, Opened, Finalizing, worker, room, QueueLife
<1>6. CASE OpenQueue
  BY <1>1, <1>6 DEF OpenQueue, ErrorExit, Goes, Opened, Finalizing, worker, room, QueueLife
<1>7. CASE LoadUnits \/ MakePools
  BY <1>7 DEF LoadUnits, MakePools, PoolsFail, ErrorExit, Ended, Goes, KeepQueue, Opened, Finalizing,
     worker, room
<1>8. CASE InSync \/ Start
  BY <1>8 DEF InSync, Start, Goes, KeepQueue, Opened, Finalizing, worker, room
<1>9. CASE Signal \/ AcceptFails
  BY <1>9 DEF Signal, AcceptFails, Finalize, Finalizing, Boot, Goes, KeepQueue, Opened, worker, room
<1>10. CASE SignalAgain
  BY <1>1, <1>10 DEF SignalAgain, Finalize, Finalizing, ErrorExit, Goes, Opened, worker, room, QueueLife
<1> QED
  BY <1>2, <1>3, <1>4, <1>5, <1>6, <1>7, <1>8, <1>9, <1>10 DEF Next, BootStep, MainStep

LEMMA EndHandsInv ==
  ASSUME ServerInv, Ended
  PROVE  HandsInv'
<1>1. Apart' /\ \A f : ~Held(Hand', f)
  BY EndHands DEF Ended, RemoveQueue
<1>2. /\ phase' = "down" /\ queueUp' = FALSE /\ queue' = EmptyQueue /\ \A f \in Fds : link'[f] = "closed"
  BY DEF Ended, ProcessEnds, RemoveQueue
<1> QED
  BY <1>1, <1>2 DEF HandsInv, QueueLife, HeldOpen, NoneDropped, Held

LEMMA GoHandsInv ==
  ASSUME ServerInv, ServerInv', HandsInv, Goes
  PROVE  HandsInv'
<1>1. /\ UNCHANGED <<mainfd, wsock, rseats, link>> /\ phase' # "down"
  BY DEF Goes, main, conn
<1>2. Apart' /\ \A f : Held(Hand', f) => Held(Hand, f)
  BY <1>1, Rest, QueueHands DEF Goes, KeepQueue, HandsInv
<1>3. QueueLife'
  BY <1>1 DEF HandsInv, QueueLife, Goes, RemoveQueue, KeepQueue, Opened, Finalizing
<1>4. HeldOpen'
  BY <1>1, <1>2 DEF HandsInv, HeldOpen, Held
<1>5. NoneDropped'
  <2>1. CASE RemoveQueue
    BY <2>1 DEF RemoveQueue, NoneDropped
  <2>2. CASE KeepQueue
    <3>1. Hand' = Hand
      BY <1>1, <2>2, Rest DEF KeepQueue, HandsInv
    <3> QED
      BY <1>1, <2>2, <3>1 DEF KeepQueue, HandsInv, NoneDropped, Held
  <2>3. CASE phase = "msgget"
    <3>1. \A f \in Fds : link[f] = "closed"
      BY <2>3 DEF HandsInv, QueueLife, Finalizing
    <3> QED
      BY <1>1, <3>1 DEF NoneDropped
  <2> QED
    BY <2>1, <2>2, <2>3 DEF Goes
<1> QED
  BY <1>2, <1>3, <1>4, <1>5 DEF HandsInv

LEMMA MainHandsInv ==
  ASSUME ServerInv, ServerInv', HandsInv, PostConnection \/ \E f \in Fds : Accept(f) \/ Ask(f) \/ Leave(f)
  PROVE  HandsInv'
<1> USE ServerAssumption
<1>1. CASE PostConnection
  <2>1. /\ Apart' /\ \A f : Held(Hand', f) => Held(Hand, f)
        /\ queueUp => \A f : Held(Hand, f) => Held(Hand', f)
    BY <1>1, PostHands DEF HandsInv
  <2>2. UNCHANGED <<phase, queueUp, link>> /\ (~queueUp => queue' = queue)
    BY <1>1 DEF PostConnection, Post, conn
  <2> QED
    BY <2>1, <2>2 DEF HandsInv, QueueLife, HeldOpen, NoneDropped, Held
<1>2. ASSUME NEW f \in Fds, Accept(f) PROVE HandsInv'
  <2>1. Apart' /\ \A g : Held(Hand', g) <=> Held(Hand, g) \/ g = f
    BY <1>2, AcceptHands DEF HandsInv
  <2>2. /\ UNCHANGED <<phase, queueUp, queue>> /\ phase = "up" /\ link' = [link EXCEPT ![f] = "up"]
        /\ link \in [Fds -> Links]
    BY <1>2 DEF Accept, ServerInv, TypeOK
  <2> QED
    BY <2>1, <2>2 DEF HandsInv, QueueLife, HeldOpen, NoneDropped, Held
<1>3. ASSUME NEW f \in Fds, Ask(f) \/ Leave(f) PROVE HandsInv'
  <2>1. /\ UNCHANGED <<mainfd, wsock, rseats, phase, queueUp, queue>> /\ link[f] = "up"
        /\ link' = link \/ \E mode \in {"fin", "rst"} : link' = [link EXCEPT ![f] = mode]
        /\ link \in [Fds -> Links]
    BY <1>3 DEF Ask, Leave, ServerInv, TypeOK, main, worker, room
  <2>2. Apart' /\ Hand' = Hand
    BY <2>1, Rest DEF HandsInv
  <2>3. \A g \in Fds : /\ link'[g] = "closed" <=> link[g] = "closed"
                       /\ link'[g] = "up" => link[g] = "up"
    BY <2>1
  <2> QED
    BY <2>1, <2>2, <2>3 DEF HandsInv, QueueLife, HeldOpen, NoneDropped, Held
<1> QED
  BY <1>1, <1>2, <1>3

\* No client asks for what only an empty buffer asks.
LEMMA RequestValues ==
  /\ NoRequest \notin Requests /\ Disconnect \notin Requests \cup {NoRequest}
  /\ \A p \in Requests : p.type \in {MSG_JOIN, MSG_CREATE} /\ p = Request(p.type, p.size)
<1>1. \A p \in Requests : p.type \in {MSG_JOIN, MSG_CREATE} /\ p = Request(p.type, p.size)
  BY DEF Requests, Request
<1>2. NoRequest.type = -1 /\ Disconnect.type = 0
  BY DEF NoRequest, Disconnect, Request
<1> QED
  BY <1>1, <1>2 DEF MSG_JOIN, MSG_CREATE

LEMMA WorkerHandsInv ==
  ASSUME ServerInv, ServerInv', HandsInv, RequestsInv, NEW w \in Workers, WorkerStep(w)
  PROVE  HandsInv'
<1>0. /\ UNCHANGED <<phase, queueUp, mainfd, rseats>>
      /\ Apart /\ QueueLife /\ HeldOpen
  BY DEF WorkerStep, WorkerBegin, WorkerTake, WorkerRecv, WorkerPost, AfterPost, WorkerDrop, main, room,
     HandsInv
<1>1. CASE WorkerBegin(w) \/ (WorkerTake(w) /\ ~queueUp)
  <2>1. UNCHANGED <<wsock, queue, link>>
    BY <1>1 DEF WorkerBegin, WorkerTake, conn
  <2>2. Apart' /\ Hand' = Hand
    BY <1>0, <2>1, Rest
  <2> QED
    BY <1>0, <2>1, <2>2 DEF HandsInv, QueueLife, HeldOpen, NoneDropped, Held
<1>2. CASE WorkerTake(w) /\ queueUp
  <2>1. Apart' /\ \A f : Held(Hand', f) <=> Held(Hand, f)
    BY <1>0, <1>2, TakeHands
  <2>2. UNCHANGED link
    BY <1>2 DEF WorkerTake, conn
  <2> QED
    BY <1>0, <1>2, <2>1, <2>2 DEF HandsInv, QueueLife, HeldOpen, NoneDropped, Held
<1>3. CASE WorkerRecv(w)
  <2>1. /\ UNCHANGED <<wsock, queue>> /\ wsock[w] \in Fds
        /\ link' = link \/ link' = [link EXCEPT ![wsock[w]] = "down"]
        /\ link \in [Fds -> Links]
    BY <1>3 DEF WorkerRecv, ServerInv, ThreadShape, Holding, TypeOK
  <2>2. link[wsock[w]] # "closed"
    BY <1>0, <2>1, InHand DEF AllInHands, HeldOpen
  <2>3. \A g \in Fds : /\ link'[g] = "closed" <=> link[g] = "closed"
                       /\ link'[g] = "up" => link[g] = "up"
    BY <2>1, <2>2
  <2>4. Apart' /\ Hand' = Hand
    BY <1>0, <2>1, Rest
  <2>5. QueueLife'
    BY <1>0, <2>1, <2>3 DEF QueueLife
  <2> QED
    BY <1>0, <2>1, <2>3, <2>4, <2>5 DEF HandsInv, HeldOpen, NoneDropped, Held
<1>4. CASE WorkerPost(w)
  <2>1. /\ Apart' /\ \A f : Held(Hand', f) => Held(Hand, f)
        /\ queueUp => \A f : Held(Hand, f) => Held(Hand', f)
    BY <1>0, <1>4, WorkerPostHands
  <2>2. UNCHANGED link /\ (~queueUp => queue' = queue)
    BY <1>4 DEF WorkerPost, AfterPost, Post, conn
  <2> QED
    BY <1>0, <2>1, <2>2 DEF HandsInv, QueueLife, HeldOpen, NoneDropped, Held
<1>5. CASE WorkerDrop(w)
  <2>1. /\ Apart' /\ \A f : Held(Hand', f) => Held(Hand, f)
        /\ \A f : Held(Hand, f) => Held(Hand', f) \/ f = wsock[w]
    BY <1>0, <1>5, DropHands
  <2>2. /\ UNCHANGED <<link, queue>> /\ wsock[w] \in Fds /\ asked[wsock[w]] \in Requests \cup {NoRequest}
    BY <1>5 DEF WorkerDrop, conn, ServerInv, ThreadShape, Holding, TypeOK
  <2>3. link[wsock[w]] # "up"
    BY <1>5, <2>2, RequestValues DEF WorkerDrop, RequestsInv, WorkersKnow, WorkerKnows, Silent
  <2> QED
    BY <1>0, <2>1, <2>2, <2>3 DEF HandsInv, QueueLife, HeldOpen, NoneDropped, Held
<1> QED
  BY <1>1, <1>2, <1>3, <1>4, <1>5 DEF WorkerStep

\* The first or next player of room r.
LEMMA SeatStep ==
  ASSUME ServerInv, NEW r \in Rooms, RoomFirst(r) \/ RoomNext(r)
  PROVE  \E t \in {MSG_JOIN, MSG_CREATE} :
           /\ queue[t] # <<>> /\ queue' = MsgRcv(queue, t) /\ Head(queue[t]) \in Asks
           /\ rseats' = [rseats EXCEPT ![r] = Append(rseats[r], Head(queue[t]).fd)]
           /\ \/ /\ t = MSG_JOIN /\ link' = link /\ rsize' = rsize
              \/ /\ rseats[r] = <<>> /\ rsize' = [rsize EXCEPT ![r] = Head(queue[t]).size]
                 /\ link' = [link EXCEPT ![Head(queue[t]).fd] = AfterSend(@)]
<1>1. CASE RoomNext(r)
  <2>1. MSG_JOIN # MSG_WRK /\ MSG_JOIN \in MsgTypes
    BY DEF MSG_JOIN, MSG_WRK, MsgTypes
  <2>2. /\ queue[MSG_JOIN] # <<>> /\ queue' = MsgRcv(queue, MSG_JOIN)
        /\ rseats' = [rseats EXCEPT ![r] = Append(rseats[r], Head(queue[MSG_JOIN]).fd)]
        /\ link' = link /\ rsize' = rsize
    BY <1>1 DEF RoomNext, NextTypes, conn
  <2>3. Head(queue[MSG_JOIN]) \in Asks
    BY <2>1, <2>2, TakeShape DEF ServerInv
  <2> QED
    BY <2>2, <2>3
<1>2. CASE RoomFirst(r)
  <2> DEFINE t == RoomMsgType(queue)
  <2>1. t \in {MSG_JOIN, MSG_CREATE} /\ queue[t] # <<>> /\ t \in MsgTypes /\ t # MSG_WRK
    BY <1>2 DEF RoomFirst, HasRoomMsg, RoomMsgType, MsgTypes, MSG_WRK, MSG_JOIN, MSG_CREATE
  <2>2. /\ queue' = MsgRcv(queue, t) /\ rseats' = [rseats EXCEPT ![r] = <<Head(queue[t]).fd>>]
        /\ rsize' = [rsize EXCEPT ![r] = Head(queue[t]).size]
        /\ link' = [link EXCEPT ![Head(queue[t]).fd] = AfterSend(@)]
    BY <1>2 DEF RoomFirst
  <2>3. rseats[r] = <<>>
    BY <1>2 DEF RoomFirst, ServerInv, ThreadShape, Empty
  <2>4. Head(queue[t]) \in Asks
    BY <2>1, <2>2, TakeShape DEF ServerInv
  <2>5. <<Head(queue[t]).fd>> = Append(rseats[r], Head(queue[t]).fd)
    BY <2>3, <2>4, OneHand DEF Asks
  <2> HIDE DEF t
  <2> QED
    BY <2>1, <2>2, <2>3, <2>4, <2>5
<1> QED
  BY <1>1, <1>2

LEMMA RoomHandsInv ==
  ASSUME ServerInv, ServerInv', HandsInv, NEW r \in Rooms, RoomStep(r)
  PROVE  HandsInv'
<1>0. /\ UNCHANGED <<phase, queueUp, mainfd, wsock>> /\ link \in [Fds -> Links]
      /\ Apart /\ QueueLife /\ HeldOpen
  BY DEF RoomStep, RoomBegin, RoomFirst, RoomNext, RoomGone, RoomClose, main, worker, HandsInv, ServerInv,
     TypeOK
<1>1. CASE RoomBegin(r) \/ RoomGone(r)
  <2>1. UNCHANGED <<rseats, queue, link>>
    BY <1>1 DEF RoomBegin, RoomGone, conn
  <2>2. Apart' /\ Hand' = Hand
    BY <1>0, <2>1, Rest
  <2> QED
    BY <1>0, <2>1, <2>2 DEF HandsInv, QueueLife, HeldOpen, NoneDropped, Held
<1>2. CASE RoomFirst(r) \/ RoomNext(r)
  <2>1. PICK t \in {MSG_JOIN, MSG_CREATE} :
          /\ queue[t] # <<>> /\ queue' = MsgRcv(queue, t) /\ Head(queue[t]) \in Asks
          /\ rseats' = [rseats EXCEPT ![r] = Append(rseats[r], Head(queue[t]).fd)]
          /\ link' = link \/ link' = [link EXCEPT ![Head(queue[t]).fd] = AfterSend(@)]
    BY <1>2, SeatStep
  <2>2. Apart' /\ \A f : Held(Hand', f) <=> Held(Hand, f)
    BY <1>0, <2>1, SeatHands
  <2>3. \A g \in Fds : /\ link'[g] = "closed" <=> link[g] = "closed"
                       /\ link'[g] = "up" => link[g] = "up"
    BY <1>0, <2>1 DEF AfterSend, Asks
  <2>4. queueUp
    BY <1>2 DEF RoomFirst, RoomNext
  <2> QED
    BY <1>0, <2>2, <2>3, <2>4 DEF HandsInv, QueueLife, HeldOpen, NoneDropped, Held
<1>3. CASE RoomClose(r)
  <2>1. /\ Apart' /\ \A f : Held(Hand', f) => Held(Hand, f) /\ \A k \in DOMAIN rseats[r] : rseats[r][k] # f
        /\ \A f : Held(Hand, f) => Held(Hand', f) \/ \E k \in DOMAIN rseats[r] : rseats[r][k] = f
    BY <1>0, <1>3, CloseHands
  <2>2. UNCHANGED queue /\ \A f \in Fds : link'[f] = IF \E k \in DOMAIN rseats[r] : rseats[r][k] = f
                                                     THEN "closed" ELSE link[f]
    BY <1>3 DEF RoomClose
  <2>3. QueueLife'
    BY <1>0, <2>2 DEF QueueLife
  <2>4. HeldOpen'
    BY <1>0, <2>1, <2>2 DEF HeldOpen, Held
  <2>5. NoneDropped'
    BY <1>0, <2>1, <2>2 DEF HandsInv, NoneDropped, Held
  <2> QED
    BY <2>1, <2>3, <2>4, <2>5 DEF HandsInv
<1> QED
  BY <1>1, <1>2, <1>3 DEF RoomStep

-----------------------------------------------------------------------------
(* What is known of requests.                                              *)

LEMMA EndRequests ==
  ASSUME ServerInv, Ended
  PROVE  RequestsInv'
<1>1. /\ mainfd' = NoFd /\ wstate' = [w \in Workers |-> "NEW"] /\ rseats' = [r \in Rooms |-> <<>>]
      /\ asked' = [f \in Fds |-> NoRequest] /\ unread' = [f \in Fds |-> FALSE]
  BY DEF Ended, ProcessEnds, NoThreads
<1>2. \A t \in MsgTypes : queue'[t] = <<>>
  BY EmptyShape DEF Ended, RemoveQueue
<1>3. DOMAIN <<>> = {} /\ MSG_WRK \in MsgTypes /\ {MSG_JOIN, MSG_CREATE} \subseteq MsgTypes /\ NoFd \notin Fds
  BY ServerAssumption DEF MsgTypes
<1>4. QueueKnows' /\ MessagesKnown'
  BY <1>2, <1>3 DEF QueueKnows, MessagesKnown
<1>5. ClosedClean' /\ MainKnows' /\ WorkersKnow' /\ SeatsKnown'
  BY <1>1, <1>3 DEF ClosedClean, MainKnows, WorkersKnow, WorkerKnows, SeatsKnown
<1> QED
  BY <1>4, <1>5 DEF RequestsInv

LEMMA GoRequests ==
  ASSUME ServerInv, RequestsInv, Goes
  PROVE  RequestsInv'
<1>1. UNCHANGED <<mainfd, wsock, wpack, rsize, rseats, link, asked, unread>>
  BY DEF Goes, main, conn
<1>2. \A w \in Workers : wstate'[w] # wstate[w] => wstate'[w] = "START"
  BY DEF Goes
<1>3. \A t \in MsgTypes : queue'[t] = queue[t] \/ queue'[t] = <<>>
  BY EmptyShape DEF Goes, RemoveQueue, KeepQueue
<1>4. DOMAIN <<>> = {} /\ MSG_WRK \in MsgTypes /\ {MSG_JOIN, MSG_CREATE} \subseteq MsgTypes
  BY DEF MsgTypes
<1>5. QueueKnows' /\ MessagesKnown'
  BY <1>1, <1>3, <1>4 DEF RequestsInv, QueueKnows, MessagesKnown, MessageKnown, Silent, Unread
<1>6. WorkersKnow'
  BY <1>1, <1>2 DEF RequestsInv, WorkersKnow, WorkerKnows, Silent, Unread
<1>7. ClosedClean' /\ MainKnows' /\ SeatsKnown'
  BY <1>1 DEF RequestsInv, ClosedClean, MainKnows, SeatsKnown, SeatKnown, Silent, Unread
<1> QED
  BY <1>5, <1>6, <1>7 DEF RequestsInv

\* Descriptors are where they should be.
LEMMA Typed ==
  ASSUME ServerInv
  PROVE  /\ \A k \in DOMAIN queue[MSG_WRK] : queue[MSG_WRK][k] \in Fds
         /\ \A t \in {MSG_JOIN, MSG_CREATE} : \A k \in DOMAIN queue[t] : queue[t][k] \in Asks /\ queue[t][k].fd \in Fds
         /\ \A r \in Rooms : \A k \in DOMAIN rseats[r] : rseats[r][k] \in Fds
         /\ \A w \in Workers : wstate[w] \in Holding => wsock[w] \in Fds
<1>1. ASSUME NEW S, NEW s \in Seq(S), NEW k \in DOMAIN s PROVE s[k] \in S
  BY LenProperties, ElementOfSeq
<1>2. /\ queue[MSG_WRK] \in Seq(Fds) /\ queue[MSG_JOIN] \in Seq(Asks) /\ queue[MSG_CREATE] \in Seq(Asks)
      /\ \A r \in Rooms : rseats[r] \in Seq(Fds)
      /\ \A w \in Workers : wstate[w] \in Holding => wsock[w] \in Fds
  BY DEF ServerInv, TypeOK, QueueShape, ThreadShape
<1>3. \A k \in DOMAIN queue[MSG_WRK] : queue[MSG_WRK][k] \in Fds
  BY <1>1, <1>2
<1>4. \A t \in {MSG_JOIN, MSG_CREATE} : \A k \in DOMAIN queue[t] : queue[t][k] \in Asks
  BY <1>1, <1>2
<1>5. \A r \in Rooms : \A k \in DOMAIN rseats[r] : rseats[r][k] \in Fds
  BY <1>1, <1>2
<1> QED
  BY <1>2, <1>3, <1>4, <1>5 DEF Asks

\* What is known of the descriptors in hands stays known if what it is about does.
Lasts(g) ==
  /\ Unread(g) => Unread(g)'
  /\ Silent(g) => Silent(g)'
  /\ asked[g] # NoRequest => asked'[g] = asked[g]
  /\ link[g] # "up" => link'[g] # "up"

LEMMA WorkerLasts ==
  ASSUME NEW w \in Workers, WorkerKnows(w), Lasts(wsock[w]),
         wstate'[w] = wstate[w], wsock'[w] = wsock[w], wpack'[w] = wpack[w]
  PROVE  WorkerKnows(w)'
<1>1. CASE wstate[w] = "PROC"
  BY <1>1 DEF WorkerKnows, Lasts, Silent
<1>2. CASE wstate[w] # "PROC"
  BY <1>2 DEF WorkerKnows, Lasts, Unread
<1> QED
  BY <1>1, <1>2

LEMMA MessageLasts ==
  ASSUME NEW t \in {MSG_JOIN, MSG_CREATE}, NEW m, MessageKnown(t, m), Lasts(m.fd)
  PROVE  asked'[m.fd] = Request(t, m.size) \/ (asked'[m.fd] = NoRequest /\ link'[m.fd] # "up")
<1>1. Request(t, m.size) # NoRequest
  BY DEF Request, NoRequest, MSG_JOIN, MSG_CREATE
<1> QED
  BY <1>1 DEF MessageKnown, Lasts, Silent

LEMMA SeatLasts ==
  ASSUME NEW f, NEW k, NEW n, SeatKnown(f, k, n), Lasts(f)
  PROVE  \/ asked'[f] = NoRequest /\ link'[f] # "up"
         \/ asked'[f] \in Requests /\ asked'[f].type = MSG_JOIN
         \/ k = 1 /\ asked'[f] \in Requests /\ asked'[f].size = n
  BY RequestValues DEF SeatKnown, Lasts, Silent

\* Nobody works and nothing moves.
LEMMA StillKnown ==
  ASSUME ServerInv, RequestsInv, UNCHANGED <<wstate, wsock, wpack, queue, rseats, rsize>>,
         \A g \in Fds : Held(Hand, g) => Lasts(g)
  PROVE  QueueKnows' /\ WorkersKnow' /\ MessagesKnown' /\ SeatsKnown'
<1>1. QueueKnows'
  BY Typed, InHand DEF AllInHands, RequestsInv, QueueKnows, Lasts
<1>2. ASSUME NEW w \in Workers PROVE WorkerKnows(w)'
  <2>1. CASE wstate[w] \in Holding
    BY <2>1, Typed, InHand, WorkerLasts DEF AllInHands, RequestsInv, WorkersKnow
  <2>2. CASE wstate[w] \notin Holding
    BY <2>2 DEF WorkerKnows, Holding
  <2> QED
    BY <2>1, <2>2
<1>3. ASSUME NEW t \in {MSG_JOIN, MSG_CREATE}, NEW k \in DOMAIN queue[t] PROVE MessageKnown(t, queue[t][k])'
  <2> DEFINE m == queue[t][k]
  <2>1. MessageKnown(t, m) /\ Lasts(m.fd)
    BY Typed, InHand DEF AllInHands, RequestsInv, MessagesKnown
  <2> HIDE DEF m
  <2>2. asked'[m.fd] = Request(t, m.size) \/ (asked'[m.fd] = NoRequest /\ link'[m.fd] # "up")
    BY <2>1, MessageLasts
  <2> QED
    BY <2>2 DEF MessageKnown, Silent, m
<1>4. ASSUME NEW r \in Rooms, NEW k \in DOMAIN rseats[r] PROVE SeatKnown(rseats[r][k], k, rsize[r])'
  <2> DEFINE f == rseats[r][k]
             n == rsize[r]
  <2>1. SeatKnown(f, k, n) /\ Lasts(f)
    BY Typed, InHand DEF AllInHands, RequestsInv, SeatsKnown
  <2> HIDE DEF f, n
  <2>2. \/ asked'[f] = NoRequest /\ link'[f] # "up"
        \/ asked'[f] \in Requests /\ asked'[f].type = MSG_JOIN
        \/ k = 1 /\ asked'[f] \in Requests /\ asked'[f].size = n
    BY <2>1, SeatLasts
  <2> QED
    BY <2>2 DEF SeatKnown, Silent, f, n
<1> QED
  BY <1>1, <1>2, <1>3, <1>4 DEF WorkersKnow, MessagesKnown, SeatsKnown

LEMMA MainRequests ==
  ASSUME ServerInv, ServerInv', HandsInv, RequestsInv,
         PostConnection \/ \E f \in Fds : Accept(f) \/ Ask(f) \/ Leave(f)
  PROVE  RequestsInv'
<1> USE ServerAssumption
<1>0. /\ link \in [Fds -> Links] /\ asked \in [Fds -> Requests \cup {NoRequest}] /\ unread \in [Fds -> BOOLEAN]
  BY DEF ServerInv, TypeOK
<1>1. CASE PostConnection
  <2>1. /\ mainfd \in Fds /\ Post(MSG_WRK, mainfd, ConSize) /\ MSG_WRK \in MsgTypes /\ mainfd' = NoFd
        /\ UNCHANGED <<wstate, wsock, wpack, rseats, rsize, link, asked, unread>>
        /\ QueueShape
    BY <1>1 DEF PostConnection, ConType, ServerInv, ThreadShape, MsgTypes, worker, room, conn
  <2>2. /\ queue'[MSG_WRK] = Append(queue[MSG_WRK], mainfd) \/ queue'[MSG_WRK] = queue[MSG_WRK]
        /\ \A u \in MsgTypes \ {MSG_WRK} : queue'[u] = queue[u]
    BY <2>1, PostShape
  <2>3. \A k \in DOMAIN queue'[MSG_WRK] :
          \/ k \in DOMAIN queue[MSG_WRK] /\ queue'[MSG_WRK][k] = queue[MSG_WRK][k]
          \/ queue'[MSG_WRK][k] = mainfd
    <3>1. CASE queue'[MSG_WRK] = Append(queue[MSG_WRK], mainfd)
      <4>1. queue[MSG_WRK] \in Seq(Fds)
        BY <2>1 DEF QueueShape
      <4>2. /\ DOMAIN queue'[MSG_WRK] = 1 .. Len(queue[MSG_WRK]) + 1 /\ Len(queue[MSG_WRK]) \in Nat
            /\ DOMAIN queue[MSG_WRK] = 1 .. Len(queue[MSG_WRK])
        BY <2>1, <3>1, <4>1, AppendProperties, LenProperties
      <4>3. /\ \A k \in 1 .. Len(queue[MSG_WRK]) : queue'[MSG_WRK][k] = queue[MSG_WRK][k]
            /\ queue'[MSG_WRK][Len(queue[MSG_WRK]) + 1] = mainfd
        BY <2>1, <3>1, <4>1, AppendProperties
      <4> QED
        BY <4>2, <4>3
    <3>2. CASE queue'[MSG_WRK] = queue[MSG_WRK]
      BY <3>2
    <3> QED
      BY <2>2, <3>1, <3>2
  <2>4. QueueKnows'
    BY <2>1, <2>3 DEF RequestsInv, QueueKnows, MainKnows, Unread
  <2>5. MessagesKnown'
    <3>1. \A t \in {MSG_JOIN, MSG_CREATE} : t \in MsgTypes \ {MSG_WRK}
      BY DEF MsgTypes, MSG_JOIN, MSG_CREATE, MSG_WRK
    <3> QED
      BY <2>1, <2>2, <3>1 DEF RequestsInv, MessagesKnown, MessageKnown, Silent
  <2>6. ClosedClean' /\ MainKnows' /\ WorkersKnow' /\ SeatsKnown'
    BY <2>1 DEF RequestsInv, ClosedClean, MainKnows, WorkersKnow, WorkerKnows, SeatsKnown, SeatKnown, Silent,
       Unread
  <2> QED
    BY <2>4, <2>5, <2>6 DEF RequestsInv
<1>2. ASSUME NEW f \in Fds, Accept(f) PROVE RequestsInv'
  <2>1. /\ UNCHANGED <<wstate, wsock, wpack, queue, rseats, rsize, asked, unread>> /\ mainfd' = f
        /\ link[f] = "closed" /\ link' = [link EXCEPT ![f] = "up"]
    BY <1>2 DEF Accept, worker, room
  <2>2. \A g \in Fds : Held(Hand, g) => Lasts(g)
    BY <1>0, <2>1 DEF HandsInv, HeldOpen, Lasts, Unread, Silent
  <2>3. QueueKnows' /\ WorkersKnow' /\ MessagesKnown' /\ SeatsKnown'
    BY <2>1, <2>2, StillKnown
  <2>4. ClosedClean' /\ MainKnows'
    BY <1>0, <2>1 DEF RequestsInv, ClosedClean, MainKnows, Unread
  <2> QED
    BY <2>3, <2>4 DEF RequestsInv
<1>3. ASSUME NEW f \in Fds, Ask(f) \/ Leave(f) PROVE RequestsInv'
  <2>1. UNCHANGED <<mainfd, wstate, wsock, wpack, queue, rseats, rsize>> /\ link[f] = "up"
    BY <1>3 DEF Ask, Leave, main, worker, room
  <2>2. CASE Ask(f)
    <3>1. /\ asked[f] = NoRequest /\ asked'[f] \in Requests /\ unread'[f] = TRUE /\ link' = link
          /\ \A g \in Fds \ {f} : asked'[g] = asked[g] /\ unread'[g] = unread[g]
      BY <1>0, <2>2 DEF Ask
    <3>2. \A g \in Fds : Lasts(g)
      BY <2>1, <3>1, RequestValues DEF Lasts, Unread, Silent
    <3>3. QueueKnows' /\ WorkersKnow' /\ MessagesKnown' /\ SeatsKnown'
      BY <2>1, <3>2, StillKnown
    <3>4. ClosedClean' /\ MainKnows'
      BY <2>1, <3>1, <3>2 DEF RequestsInv, ClosedClean, MainKnows, Lasts
    <3> QED
      BY <3>3, <3>4 DEF RequestsInv
  <2>3. CASE Leave(f)
    <3>1. /\ link'[f] \in {"fin", "rst"} /\ asked' = asked /\ unread' = unread
          /\ \A g \in Fds \ {f} : link'[g] = link[g]
      BY <1>0, <2>3 DEF Leave
    <3>2. \A g \in Fds : Lasts(g)
      BY <2>1, <3>1 DEF Lasts, Unread, Silent
    <3>3. QueueKnows' /\ WorkersKnow' /\ MessagesKnown' /\ SeatsKnown'
      BY <2>1, <3>2, StillKnown
    <3>4. ClosedClean' /\ MainKnows'
      BY <2>1, <3>1, <3>2 DEF RequestsInv, ClosedClean, MainKnows, Lasts
    <3> QED
      BY <3>3, <3>4 DEF RequestsInv
  <2> QED
    BY <1>3, <2>2, <2>3
<1> QED
  BY <1>1, <1>2, <1>3

\* What a worker holds nobody else holds.
LEMMA WorkerAlone ==
  ASSUME ServerInv, Apart, NEW w \in Workers, wsock[w] \in Fds
  PROVE  /\ mainfd # wsock[w]
         /\ \A v \in Workers \ {w} : wsock[v] # wsock[w]
         /\ \A k \in DOMAIN queue[MSG_WRK] : queue[MSG_WRK][k] # wsock[w]
         /\ \A t \in {MSG_JOIN, MSG_CREATE} : \A k \in DOMAIN queue[t] : queue[t][k].fd # wsock[w]
         /\ \A r \in Rooms : \A k \in DOMAIN rseats[r] : rseats[r][k] # wsock[w]
<1> DEFINE f == wsock[w]
<1>1. /\ AtWorker(w) \in Holders /\ 1 \in DOMAIN Hand[AtWorker(w)] /\ Hand[AtWorker(w)][1] = f
  BY HandValues, OneHand DEF HandsAre
<1>2. \A h \in Holders : \A i \in DOMAIN Hand[h] : Hand[h][i] = f => h = AtWorker(w)
  BY <1>1 DEF Apart, Single
<1>3. mainfd # f
  BY <1>2, HandValues, OneHand, HolderCases DEF HandsAre
<1>4. \A v \in Workers \ {w} : wsock[v] # f
  BY <1>2, HandValues, OneHand, HolderCases DEF HandsAre
<1>5. MSG_WRK \in MsgTypes /\ \A t \in {MSG_JOIN, MSG_CREATE} : t \in MsgTypes \ {MSG_WRK}
  BY DEF MsgTypes, MSG_JOIN, MSG_CREATE, MSG_WRK
<1>6. \A k \in DOMAIN queue[MSG_WRK] : queue[MSG_WRK][k] # f
  BY <1>2, <1>5, HandValues, HolderCases DEF HandsAre
<1>7. \A t \in {MSG_JOIN, MSG_CREATE} : \A k \in DOMAIN queue[t] : queue[t][k].fd # f
  <2>1. \A t \in {MSG_JOIN, MSG_CREATE} : \A k \in DOMAIN queue[t] :
          k \in DOMAIN FdsOf(queue[t]) /\ FdsOf(queue[t])[k] = queue[t][k].fd
    BY DEF FdsOf
  <2> QED
    BY <1>2, <1>5, <2>1, HandValues, HolderCases DEF HandsAre
<1>8. \A r \in Rooms : \A k \in DOMAIN rseats[r] : rseats[r][k] # f
  BY <1>2, HandValues, HolderCases DEF HandsAre
<1> QED
  BY <1>3, <1>4, <1>6, <1>7, <1>8

LEMMA WorkerRequests ==
  ASSUME ServerInv, HandsInv, RequestsInv, NEW w \in Workers, WorkerStep(w)
  PROVE  RequestsInv'
<1>0. /\ link \in [Fds -> Links] /\ asked \in [Fds -> Requests \cup {NoRequest}] /\ unread \in [Fds -> BOOLEAN]
      /\ UNCHANGED <<mainfd, rseats, rsize, asked>>
      /\ \A v \in Workers \ {w} : wstate'[v] = wstate[v] /\ wsock'[v] = wsock[v] /\ wpack'[v] = wpack[v]
  BY DEF ServerInv, TypeOK, WorkerStep, WorkerBegin, WorkerTake, WorkerRecv, WorkerPost, AfterPost,
     WorkerDrop, main, room,
     conn, Buffers, LetGo, AfterDrop
<1>1. CASE WorkerRecv(w)
  <2> DEFINE f == wsock[w]
  <2>1. /\ f \in Fds /\ Unread(f) /\ UNCHANGED <<queue, wsock>> /\ wstate[w] = "RECV"
    BY <1>1 DEF WorkerRecv, ServerInv, ThreadShape, Holding, RequestsInv, WorkersKnow, WorkerKnows
  <2>2. /\ \A g \in Fds \ {f} : link'[g] = link[g] /\ unread'[g] = unread[g]
        /\ \/ /\ unread[f] /\ wpack'[w] = asked[f] /\ wstate'[w] = "PROC" /\ link' = link /\ unread'[f] = FALSE
           \/ /\ ~unread[f] /\ link[f] # "up" /\ wstate'[w] = "PROC" /\ link' = link /\ unread' = unread
           \/ /\ wstate'[w] = "ERROR" /\ link'[f] # "up" /\ unread' = unread
              /\ link'[f] = "closed" => link[f] = "closed"
    BY <1>0, <1>1, <2>1 DEF WorkerRecv, Buffers, RecvEOF, RecvErr, ServerInv, TypeOK
  <2>3. WorkerKnows(w)'
    BY <1>0, <2>1, <2>2 DEF WorkerKnows, Silent, Unread
  <2>4. \A g \in Fds \ {f} : Lasts(g)
    BY <1>0, <2>2 DEF Lasts, Unread, Silent
  <2>5. /\ f # mainfd /\ \A v \in Workers \ {w} : wsock[v] # f
        /\ \A k \in DOMAIN queue[MSG_WRK] : queue[MSG_WRK][k] # f
        /\ \A t \in {MSG_JOIN, MSG_CREATE} : \A k \in DOMAIN queue[t] : queue[t][k].fd # f
        /\ \A r \in Rooms : \A k \in DOMAIN rseats[r] : rseats[r][k] # f
    BY <2>1, WorkerAlone DEF HandsInv
  <2> HIDE DEF f
  <2>6. WorkersKnow'
    <3>1. ASSUME NEW v \in Workers \ {w} PROVE WorkerKnows(v)'
      <4>1. CASE wstate[v] \in Holding
        <5>1. wsock[v] \in Fds \ {f} /\ WorkerKnows(v)
          BY <2>5, <4>1, Typed DEF RequestsInv, WorkersKnow
        <5> QED
          BY <1>0, <2>4, <5>1, WorkerLasts
      <4>2. CASE wstate[v] \notin Holding
        BY <1>0, <4>2 DEF WorkerKnows, Holding
      <4> QED
        BY <4>1, <4>2
    <3> QED
      BY <2>3, <3>1 DEF WorkersKnow
  <2>7. QueueKnows' /\ MainKnows'
    BY <1>0, <2>1, <2>4, <2>5, Typed DEF RequestsInv, QueueKnows, MainKnows, Lasts
  <2>8. MessagesKnown' /\ SeatsKnown'
    <3>1. \A g \in Fds \ {f} : link'[g] = link[g]
      BY <2>2 DEF f
    <3> QED
      BY <1>0, <2>1, <2>5, <3>1, Typed DEF RequestsInv, MessagesKnown, MessageKnown, SeatsKnown, SeatKnown,
         Silent
  <2>9. ClosedClean'
    BY <1>0, <2>2 DEF RequestsInv, ClosedClean, f
  <2> QED
    BY <2>6, <2>7, <2>8, <2>9 DEF RequestsInv
<1>2. CASE ~WorkerRecv(w)
  <2>0. UNCHANGED <<link, unread>>
    BY <1>2 DEF WorkerStep, WorkerBegin, WorkerTake, WorkerPost, AfterPost, WorkerDrop, conn
  <2>1. ClosedClean' /\ MainKnows' /\ SeatsKnown'
    BY <1>0, <2>0 DEF RequestsInv, ClosedClean, MainKnows, SeatsKnown, SeatKnown, Silent, Unread
  <2>2. \A v \in Workers \ {w} : WorkerKnows(v)'
    BY <1>0, <2>0 DEF RequestsInv, WorkersKnow, WorkerKnows, Silent, Unread
  <2>3. CASE WorkerTake(w) /\ queueUp
    <3>1. /\ queue[MSG_WRK] # <<>> /\ queue' = MsgRcv(queue, MSG_WRK) /\ MSG_WRK \in MsgTypes /\ QueueShape
          /\ wsock'[w] = Head(queue[MSG_WRK]) /\ wstate'[w] = "RECV" /\ queue[MSG_WRK] \in Seq(Fds)
      BY <2>3 DEF WorkerTake, MsgTypes, ServerInv, TypeOK, QueueShape
    <3>2. /\ queue'[MSG_WRK] = Tail(queue[MSG_WRK])
          /\ \A u \in MsgTypes \ {MSG_WRK} : queue'[u] = queue[u]
      BY <3>1, TakeShape
    <3>3. /\ 1 \in DOMAIN queue[MSG_WRK] /\ Head(queue[MSG_WRK]) = queue[MSG_WRK][1]
          /\ \A k \in DOMAIN Tail(queue[MSG_WRK]) : /\ k + 1 \in DOMAIN queue[MSG_WRK]
                                                    /\ Tail(queue[MSG_WRK])[k] = queue[MSG_WRK][k + 1]
      BY <3>1, HeadTailProperties, LenProperties, EmptySeq
    <3>4. WorkerKnows(w)' /\ QueueKnows'
      BY <1>0, <2>0, <3>1, <3>2, <3>3 DEF RequestsInv, QueueKnows, WorkerKnows, Unread
    <3>5. \A t \in {MSG_JOIN, MSG_CREATE} : t \in MsgTypes \ {MSG_WRK}
      BY DEF MsgTypes, MSG_JOIN, MSG_CREATE, MSG_WRK
    <3>6. MessagesKnown'
      BY <1>0, <2>0, <3>2, <3>5 DEF RequestsInv, MessagesKnown, MessageKnown, Silent
    <3> QED
      BY <2>1, <2>2, <3>4, <3>6 DEF RequestsInv, WorkersKnow
  <2>4. CASE WorkerPost(w)
    <3> DEFINE t == wpack[w].type
               m == [fd |-> wsock[w], size |-> wpack[w].size]
    <3>1. /\ wpack[w] \in Requests \cup Garbage \cup {NoRequest} /\ IsRequest(wpack[w]) /\ WorkerKnows(w)
          /\ Post(t, m, JoinSize) /\ wsock[w] \in Fds /\ QueueShape /\ wstate[w] = "PROC" /\ wstate'[w] = "WAIT"
      BY <2>4 DEF WorkerPost, AfterPost, ServerInv, TypeOK, ThreadShape, Holding, RequestsInv, WorkersKnow
    <3>2. /\ m \in Asks /\ t \in {MSG_JOIN, MSG_CREATE} /\ wpack[w] = Request(t, wpack[w].size)
          /\ m.fd = wsock[w] /\ m.size = wpack[w].size
      BY <3>1, RequestTypes DEF Asks, IsRequest
    <3>3. MessageKnown(t, m)
      BY <3>1, <3>2 DEF WorkerKnows, MessageKnown
    <3>4. MSG_WRK \in MsgTypes /\ t \in MsgTypes \ {MSG_WRK} /\ queue[t] \in Seq(Asks)
          /\ \A u \in {MSG_JOIN, MSG_CREATE} : u \in MsgTypes
      BY <3>1, <3>2 DEF MsgTypes, MSG_JOIN, MSG_CREATE, MSG_WRK, QueueShape
    <3> HIDE DEF t, m
    <3>5. /\ queue'[t] = Append(queue[t], m) \/ queue'[t] = queue[t]
          /\ \A u \in MsgTypes \ {t} : queue'[u] = queue[u]
      BY <3>1, <3>2, <3>4, PostShape
    <3>6. \A k \in DOMAIN queue'[t] : \/ k \in DOMAIN queue[t] /\ queue'[t][k] = queue[t][k]
                                      \/ queue'[t][k] = m
      <4>1. DOMAIN queue[t] = 1 .. Len(queue[t]) /\ Len(queue[t]) \in Nat
        BY <3>4, LenProperties
      <4>2. CASE queue'[t] = Append(queue[t], m)
        <5>1. DOMAIN queue'[t] = 1 .. Len(queue[t]) + 1
          BY <3>2, <3>4, <4>2, AppendProperties, LenProperties
        <5>2. /\ \A k \in 1 .. Len(queue[t]) : queue'[t][k] = queue[t][k]
              /\ queue'[t][Len(queue[t]) + 1] = m
          BY <3>2, <3>4, <4>2, AppendProperties
        <5> QED
          BY <4>1, <5>1, <5>2
      <4> QED
        BY <3>5, <4>2
    <3>7. ASSUME NEW u \in {MSG_JOIN, MSG_CREATE}, NEW k \in DOMAIN queue'[u]
          PROVE  LET n == queue'[u][k] IN asked[n.fd] = Request(u, n.size) \/ Silent(n.fd)
      <4>1. CASE u = t
        BY <3>2, <3>3, <3>6, <3>7, <4>1 DEF RequestsInv, MessagesKnown, MessageKnown
      <4>2. CASE u # t
        BY <3>4, <3>5, <3>7, <4>2 DEF RequestsInv, MessagesKnown, MessageKnown
      <4> QED
        BY <4>1, <4>2
    <3>8. MessagesKnown'
      BY <1>0, <2>0, <3>7 DEF MessagesKnown, MessageKnown, Silent
    <3>9. QueueKnows'
      BY <1>0, <2>0, <3>4, <3>5 DEF RequestsInv, QueueKnows, Unread
    <3> QED
      BY <2>1, <2>2, <3>1, <3>8, <3>9 DEF RequestsInv, WorkersKnow, WorkerKnows
  <2>5. CASE WorkerBegin(w) \/ (WorkerTake(w) /\ ~queueUp) \/ WorkerDrop(w)
    <3>1. UNCHANGED queue /\ wstate'[w] \in {"WAIT", "FIN"}
      BY <2>5 DEF WorkerBegin, WorkerTake, WorkerDrop, AfterDrop, ServerInv, TypeOK
    <3>2. WorkerKnows(w)' /\ QueueKnows' /\ MessagesKnown'
      BY <1>0, <2>0, <3>1 DEF RequestsInv, WorkerKnows, QueueKnows, MessagesKnown, MessageKnown, Silent, Unread
    <3> QED
      BY <2>1, <2>2, <3>2 DEF RequestsInv, WorkersKnow
  <2> QED
    BY <1>2, <2>3, <2>4, <2>5 DEF WorkerStep
<1> QED
  BY <1>1, <1>2

LEMMA RoomRequests ==
  ASSUME ServerInv, ServerInv', HandsInv, RequestsInv, NEW r \in Rooms, RoomStep(r)
  PROVE  RequestsInv'
<1>0. /\ link \in [Fds -> Links] /\ asked \in [Fds -> Requests \cup {NoRequest}]
      /\ rseats \in [Rooms -> Seq(Fds)] /\ rsize \in [Rooms -> {0} \cup RoomSizes]
      /\ UNCHANGED <<mainfd, wstate, wsock, wpack>>
      /\ MSG_WRK \in MsgTypes /\ \A t \in {MSG_JOIN, MSG_CREATE} : t \in MsgTypes \ {MSG_WRK}
  BY DEF ServerInv, TypeOK, RoomStep, RoomBegin, RoomFirst, RoomNext, RoomGone, RoomClose, main, worker,
     MsgTypes,
     MSG_JOIN, MSG_CREATE, MSG_WRK
<1>1. CASE RoomBegin(r) \/ RoomGone(r)
  <2>1. UNCHANGED <<queue, rseats, rsize, link, asked, unread>>
    BY <1>1 DEF RoomBegin, RoomGone, conn
  <2>2. \A g \in Fds : Lasts(g)
    BY <2>1 DEF Lasts, Unread, Silent
  <2>3. QueueKnows' /\ WorkersKnow' /\ MessagesKnown' /\ SeatsKnown'
    BY <1>0, <2>1, <2>2, StillKnown
  <2> QED
    BY <1>0, <2>1, <2>3 DEF RequestsInv, ClosedClean, MainKnows, Unread
<1>2. CASE RoomFirst(r) \/ RoomNext(r)
  <2>1. PICK t \in {MSG_JOIN, MSG_CREATE} :
          /\ queue[t] # <<>> /\ queue' = MsgRcv(queue, t) /\ Head(queue[t]) \in Asks
          /\ rseats' = [rseats EXCEPT ![r] = Append(rseats[r], Head(queue[t]).fd)]
          /\ \/ /\ t = MSG_JOIN /\ link' = link /\ rsize' = rsize
             \/ /\ rseats[r] = <<>> /\ rsize' = [rsize EXCEPT ![r] = Head(queue[t]).size]
                /\ link' = [link EXCEPT ![Head(queue[t]).fd] = AfterSend(@)]
    BY <1>2, SeatStep
  <2> DEFINE m == Head(queue[t])
             n == Len(rseats[r]) + 1
  <2>2. UNCHANGED <<asked, unread>>
    BY <1>2 DEF RoomFirst, RoomNext, conn
  <2>3. \A g \in Fds : /\ link'[g] = "closed" <=> link[g] = "closed"
                       /\ link[g] # "up" => link'[g] # "up"
    BY <1>0, <2>1 DEF AfterSend, Asks
  <2>4. /\ QueueShape /\ queue[t] \in Seq(Asks) /\ queue'[t] = Tail(queue[t])
        /\ \A u \in MsgTypes \ {t} : queue'[u] = queue[u]
    BY <1>0, <2>1, TakeShape DEF ServerInv, QueueShape
  <2>5. /\ 1 \in DOMAIN queue[t] /\ m = queue[t][1]
        /\ \A k \in DOMAIN Tail(queue[t]) : k + 1 \in DOMAIN queue[t] /\ Tail(queue[t])[k] = queue[t][k + 1]
    BY <2>1, <2>4, HeadTailProperties, LenProperties, EmptySeq
  <2>6. MessageKnown(t, m) /\ m.fd \in Fds
    BY <2>1, <2>5 DEF RequestsInv, MessagesKnown, Asks
  <2>7. /\ DOMAIN rseats'[r] = DOMAIN rseats[r] \cup {n} /\ rseats'[r][n] = m.fd
        /\ \A k \in DOMAIN rseats[r] : rseats'[r][k] = rseats[r][k]
        /\ \A q \in Rooms \ {r} : rseats'[q] = rseats[q]
    <3>1. /\ rseats[r] \in Seq(Fds) /\ DOMAIN rseats[r] = 1 .. Len(rseats[r]) /\ Len(rseats[r]) \in Nat
      BY <1>0, LenProperties
    <3>2. rseats'[r] = Append(rseats[r], m.fd)
      BY <1>0, <2>1
    <3>3. /\ DOMAIN rseats'[r] = 1 .. n /\ rseats'[r][n] = m.fd
          /\ \A k \in 1 .. Len(rseats[r]) : rseats'[r][k] = rseats[r][k]
      BY <2>6, <3>1, <3>2, AppendProperties, LenProperties
    <3> QED
      BY <1>0, <2>1, <3>1, <3>3
  <2>8. rseats[r] = <<>> => n = 1 /\ DOMAIN rseats[r] = {}
    OBVIOUS
  <2>9. t = MSG_JOIN \/ (rseats[r] = <<>> /\ rsize'[r] = m.size)
    BY <1>0, <2>1
  <2>10. rseats[r] = <<>> \/ rsize'[r] = rsize[r]
    BY <2>1
  <2>11. \A q \in Rooms \ {r} : rsize'[q] = rsize[q]
    BY <1>0, <2>1
  <2> HIDE DEF m, n
  <2>12. \/ asked[m.fd] = NoRequest /\ link'[m.fd] # "up"
         \/ asked[m.fd] \in Requests /\ asked[m.fd].type = MSG_JOIN
         \/ n = 1 /\ asked[m.fd] \in Requests /\ asked[m.fd].size = rsize'[r]
    <3>1. CASE asked[m.fd] = Request(t, m.size)
      <4>1. /\ asked[m.fd] \in Requests /\ asked[m.fd].type = t /\ asked[m.fd].size = m.size
        BY <1>0, <2>6, <3>1 DEF Request, NoRequest, MSG_JOIN, MSG_CREATE
      <4> QED
        BY <2>8, <2>9, <4>1
    <3>2. CASE Silent(m.fd)
      BY <2>3, <2>6, <3>2 DEF Silent
    <3> QED
      BY <2>6, <3>1, <3>2 DEF MessageKnown
  <2>13. ASSUME NEW q \in Rooms, NEW k \in DOMAIN rseats[q]
         PROVE  \/ asked[rseats[q][k]] = NoRequest /\ link'[rseats[q][k]] # "up"
                \/ asked[rseats[q][k]] \in Requests /\ asked[rseats[q][k]].type = MSG_JOIN
                \/ k = 1 /\ asked[rseats[q][k]] \in Requests /\ asked[rseats[q][k]].size = rsize'[q]
    <3> DEFINE f == rseats[q][k]
    <3>1. SeatKnown(f, k, rsize[q]) /\ f \in Fds
      BY Typed DEF RequestsInv, SeatsKnown
    <3>2. rsize'[q] = rsize[q]
      BY <2>8, <2>10, <2>11, <2>13
    <3> HIDE DEF f
    <3>3. \/ asked[f] = NoRequest /\ link'[f] # "up"
          \/ asked[f] \in Requests /\ asked[f].type = MSG_JOIN
          \/ k = 1 /\ asked[f] \in Requests /\ asked[f].size = rsize'[q]
      BY <2>3, <3>1, <3>2 DEF SeatKnown, Silent
    <3> QED
      BY <3>3 DEF f
  <2>14. SeatsKnown'
    <3> SUFFICES ASSUME NEW q \in Rooms, NEW k \in DOMAIN rseats'[q]
                 PROVE  \/ asked[rseats'[q][k]] = NoRequest /\ link'[rseats'[q][k]] # "up"
                        \/ asked[rseats'[q][k]] \in Requests /\ asked[rseats'[q][k]].type = MSG_JOIN
                        \/ k = 1 /\ asked[rseats'[q][k]] \in Requests /\ asked[rseats'[q][k]].size = rsize'[q]
      BY <2>2 DEF SeatsKnown, SeatKnown, Silent
    <3>1. CASE q = r /\ k = n
      BY <2>7, <2>12, <3>1
    <3>2. CASE ~(q = r /\ k = n)
      <4>1. k \in DOMAIN rseats[q] /\ rseats'[q][k] = rseats[q][k]
        BY <2>7, <3>2
      <4> QED
        BY <2>13, <4>1
    <3> QED
      BY <3>1, <3>2
  <2>15. MessagesKnown'
    <3>1. ASSUME NEW u \in {MSG_JOIN, MSG_CREATE}, NEW k \in DOMAIN queue'[u]
          PROVE  LET x == queue'[u][k]
                 IN asked[x.fd] = Request(u, x.size) \/ (asked[x.fd] = NoRequest /\ link'[x.fd] # "up")
      <4>1. \E l \in DOMAIN queue[u] : queue'[u][k] = queue[u][l]
        BY <1>0, <2>4, <2>5, <3>1
      <4>2. PICK l \in DOMAIN queue[u] : queue'[u][k] = queue[u][l]
        BY <4>1
      <4>3. MessageKnown(u, queue[u][l]) /\ queue[u][l].fd \in Fds
        BY Typed DEF RequestsInv, MessagesKnown
      <4> QED
        BY <2>2, <2>3, <4>2, <4>3 DEF MessageKnown, Silent
    <3> QED
      BY <2>2, <3>1 DEF MessagesKnown, MessageKnown, Silent
  <2>16. \A g \in Fds : Lasts(g)
    BY <2>2, <2>3 DEF Lasts, Unread, Silent
  <2>17. WorkersKnow'
    <3> SUFFICES ASSUME NEW w \in Workers PROVE WorkerKnows(w)'
      BY DEF WorkersKnow
    <3>1. CASE wstate[w] \in Holding
      BY <1>0, <2>16, <3>1, Typed, WorkerLasts DEF RequestsInv, WorkersKnow
    <3>2. CASE wstate[w] \notin Holding
      BY <1>0, <3>2 DEF WorkerKnows, Holding
    <3> QED
      BY <3>1, <3>2
  <2>18. QueueKnows' /\ MainKnows' /\ ClosedClean'
    BY <1>0, <2>2, <2>3, <2>4 DEF RequestsInv, QueueKnows, MainKnows, ClosedClean, Unread
  <2> QED
    BY <2>14, <2>15, <2>17, <2>18 DEF RequestsInv
<1>3. CASE RoomClose(r)
  <2> DEFINE Gone(f) == \E k \in DOMAIN rseats[r] : rseats[r][k] = f
  <2>1. /\ \A f \in Fds : /\ link'[f] = IF Gone(f) THEN "closed" ELSE link[f]
                          /\ asked'[f] = IF Gone(f) THEN NoRequest ELSE asked[f]
                          /\ unread'[f] <=> unread[f] /\ ~Gone(f)
        /\ UNCHANGED <<queue, rsize>> /\ rseats' = [rseats EXCEPT ![r] = <<>>]
    BY <1>3 DEF RoomClose
  <2>2. \A f : Held(Hand', f) => ~Gone(f)
    BY <1>3, CloseHands DEF HandsInv
  <2> HIDE DEF Gone
  <2>3. \A g \in Fds : ~Gone(g) => link'[g] = link[g] /\ asked'[g] = asked[g] /\ (unread'[g] <=> unread[g])
    BY <2>1
  <2>4. \A g \in Fds : ~Gone(g) => Lasts(g)
    BY <2>3 DEF Lasts, Unread, Silent
  <2>5. /\ \A w \in Workers : wsock'[w] \in Fds => ~Gone(wsock'[w])
        /\ \A f \in Fds : mainfd' = f => ~Gone(f)
        /\ \A k \in DOMAIN queue'[MSG_WRK] : ~Gone(queue'[MSG_WRK][k])
        /\ \A t \in {MSG_JOIN, MSG_CREATE} : \A k \in DOMAIN queue'[t] : ~Gone(queue'[t][k].fd)
        /\ \A q \in Rooms : \A k \in DOMAIN rseats'[q] : ~Gone(rseats'[q][k])
    <3>1. AllInHands'
      BY InHand, PTL DEF HandsInv
    <3> QED
      BY <2>2, <3>1 DEF AllInHands, Held
  <2>6. ClosedClean'
    BY <2>1 DEF RequestsInv, ClosedClean
  <2>7. QueueKnows' /\ MainKnows'
    BY <1>0, <2>1, <2>4, <2>5, Typed DEF RequestsInv, QueueKnows, MainKnows, Lasts
  <2>8. WorkersKnow'
    <3> SUFFICES ASSUME NEW w \in Workers PROVE WorkerKnows(w)'
      BY DEF WorkersKnow
    <3>1. CASE wstate[w] \in Holding
      <4>1. wsock[w] \in Fds /\ ~Gone(wsock[w]) /\ WorkerKnows(w)
        BY <1>0, <2>5, <3>1, Typed DEF RequestsInv, WorkersKnow
      <4> QED
        BY <1>0, <2>4, <4>1, WorkerLasts
    <3>2. CASE wstate[w] \notin Holding
      BY <1>0, <3>2 DEF WorkerKnows, Holding
    <3> QED
      BY <3>1, <3>2
  <2>9. MessagesKnown'
    BY <2>1, <2>3, <2>5, Typed DEF RequestsInv, MessagesKnown, MessageKnown, Silent
  <2>10. SeatsKnown'
    <3>1. \A q \in Rooms : \A k \in DOMAIN rseats'[q] :
            q # r /\ k \in DOMAIN rseats[q] /\ rseats'[q][k] = rseats[q][k]
      BY <1>0, <2>1
    <3> QED
      BY <2>1, <2>3, <2>5, <3>1, Typed DEF RequestsInv, SeatsKnown, SeatKnown, Silent
  <2> QED
    BY <2>6, <2>7, <2>8, <2>9, <2>10 DEF RequestsInv
<1> QED
  BY <1>1, <1>2, <1>3 DEF RoomStep

-----------------------------------------------------------------------------
(* Theorems.                                                               *)

LEMMA InitCareInv == Init => CareInv
<1> SUFFICES ASSUME Init PROVE CareInv
  OBVIOUS
<1>1. \A t \in MsgTypes : queue[t] = <<>>
  BY DEF Init, EmptyQueue
<1>2. FdsOf(<<>>) = <<>> /\ One(NoFd) = <<>> /\ DOMAIN <<>> = {} /\ NoFd \notin Fds
      /\ MSG_WRK \in MsgTypes /\ \A t \in {MSG_JOIN, MSG_CREATE} : t \in MsgTypes
  BY ServerAssumption DEF FdsOf, One, MsgTypes
<1>3. /\ mainfd = NoFd /\ wsock = [w \in Workers |-> NoFd] /\ rseats = [r \in Rooms |-> <<>>]
      /\ wstate = [w \in Workers |-> "NEW"] /\ asked = [f \in Fds |-> NoRequest]
      /\ unread = [f \in Fds |-> FALSE] /\ link = [f \in Fds |-> "closed"]
      /\ queueUp = FALSE /\ queue = EmptyQueue /\ phase = "down"
  BY DEF Init
<1>4. \A h \in Holders : Hand[h] = <<>>
  BY <1>1, <1>2, <1>3, HandValues, HolderCases DEF HandsAre
<1>5. HandsInv
  BY <1>2, <1>3, <1>4 DEF HandsInv, QueueLife, Apart, Single, HeldOpen, NoneDropped, Held
<1>6. RequestsInv
  BY <1>1, <1>2, <1>3 DEF RequestsInv, ClosedClean, MainKnows, QueueKnows, WorkersKnow, WorkerKnows,
     MessagesKnown,
     SeatsKnown
<1> QED
  BY <1>5, <1>6, InitServerInv DEF CareInv

LEMMA NextCareInv ==
  ASSUME "abrupt" \notin Endings
  PROVE  CareInv /\ [Next]_vars => CareInv'
<1> SUFFICES ASSUME CareInv, [Next]_vars PROVE CareInv'
  OBVIOUS
<1>0. ServerInv /\ HandsInv /\ RequestsInv /\ QueueLife
  BY DEF CareInv, HandsInv
<1>1. ServerInv'
  BY <1>0, NextServerInv
<1>2. CASE Ended
  BY <1>0, <1>1, <1>2, EndHandsInv, EndRequests DEF CareInv
<1>3. CASE Goes
  BY <1>0, <1>1, <1>3, GoHandsInv, GoRequests DEF CareInv
<1>4. CASE PostConnection \/ \E f \in Fds : Accept(f) \/ Ask(f) \/ Leave(f)
  BY <1>0, <1>1, <1>4, MainHandsInv, MainRequests DEF CareInv
<1>5. ASSUME NEW w \in Workers, WorkerStep(w) PROVE CareInv'
  BY <1>0, <1>1, <1>5, WorkerHandsInv, WorkerRequests DEF CareInv
<1>6. ASSUME NEW r \in Rooms, RoomStep(r) PROVE CareInv'
  BY <1>0, <1>1, <1>6, RoomHandsInv, RoomRequests DEF CareInv
<1>7. CASE UNCHANGED vars
  <2>1. UNCHANGED <<phase, mainfd, wstate, wsock, wpack, rsize, rseats, queue, queueUp, link, asked, unread>>
    BY <1>7 DEF vars, main, worker, room, conn
  <2>2. Apart' /\ Hand' = Hand
    BY <1>0, <2>1, Rest DEF HandsInv
  <2>3. HandsInv'
    BY <1>0, <2>1, <2>2 DEF HandsInv, QueueLife, HeldOpen, NoneDropped, Held
  <2>4. \A g \in Fds : Lasts(g)
    BY <2>1 DEF Lasts, Unread, Silent
  <2>5. QueueKnows' /\ WorkersKnow' /\ MessagesKnown' /\ SeatsKnown'
    BY <1>0, <2>1, <2>4, StillKnown
  <2>6. RequestsInv'
    BY <1>0, <2>1, <2>5 DEF RequestsInv, ClosedClean, MainKnows, Unread
  <2> QED
    BY <1>1, <2>3, <2>6 DEF CareInv
<1> QED
  BY <1>0, <1>2, <1>3, <1>4, <1>5, <1>6, <1>7, EndCases

\* Descriptors and requests are cared for if no process is killed: one that is leaves
\* its queue, and in it descriptors of connections that are gone, to the next.
THEOREM CareInvariance ==
  ASSUME "abrupt" \notin Endings
  PROVE  Spec => []CareInv
  BY InitCareInv, NextCareInv, PTL DEF Spec

\* The place that position i of hand h is.
PlaceOf(h, i) ==
  CASE h[1] = "main"   -> <<"main">>
    [] h[1] = "worker" -> <<"worker", h[2]>>
    [] h[1] = "queue"  -> IF h[2] = MSG_WRK THEN <<"wrk", i>> ELSE <<"msg", h[2], i>>
    [] h[1] = "room"   -> <<"seat", h[2], i>>

LEMMA PlaceInHand ==
  ASSUME ServerInv, NEW f \in Fds, NEW p \in Places(f)
  PROVE  \E h \in Holders : \E i \in DOMAIN Hand[h] : Hand[h][i] = f /\ p = PlaceOf(h, i)
<1>1. CASE mainfd = f /\ p = <<"main">>
  <2>1. AtMain \in Holders /\ 1 \in DOMAIN Hand[AtMain] /\ Hand[AtMain][1] = f
    BY <1>1, HandValues, OneHand DEF HandsAre
  <2>2. PlaceOf(AtMain, 1) = p
    BY <1>1 DEF PlaceOf, AtMain
  <2> QED
    BY <2>1, <2>2
<1>2. ASSUME NEW w \in Workers, wsock[w] = f, p = <<"worker", w>>
      PROVE  \E h \in Holders : \E i \in DOMAIN Hand[h] : Hand[h][i] = f /\ p = PlaceOf(h, i)
  <2>1. AtWorker(w) \in Holders /\ 1 \in DOMAIN Hand[AtWorker(w)] /\ Hand[AtWorker(w)][1] = f
    BY <1>2, HandValues, OneHand DEF HandsAre
  <2>2. PlaceOf(AtWorker(w), 1) = p
    BY <1>2 DEF PlaceOf, AtWorker
  <2> QED
    BY <2>1, <2>2
<1>3. ASSUME NEW k \in DOMAIN queue[MSG_WRK], queue[MSG_WRK][k] = f, p = <<"wrk", k>>
      PROVE  \E h \in Holders : \E i \in DOMAIN Hand[h] : Hand[h][i] = f /\ p = PlaceOf(h, i)
  <2>1. /\ AtQueue(MSG_WRK) \in Holders /\ k \in DOMAIN Hand[AtQueue(MSG_WRK)] /\ Hand[AtQueue(MSG_WRK)][k] = f
    BY <1>3, HandValues DEF HandsAre, MsgTypes
  <2>2. PlaceOf(AtQueue(MSG_WRK), k) = p
    BY <1>3 DEF PlaceOf, AtQueue
  <2> QED
    BY <2>1, <2>2
<1>4. ASSUME NEW t \in {MSG_JOIN, MSG_CREATE}, NEW k \in DOMAIN queue[t], queue[t][k].fd = f,
             p = <<"msg", t, k>>
      PROVE  \E h \in Holders : \E i \in DOMAIN Hand[h] : Hand[h][i] = f /\ p = PlaceOf(h, i)
  <2>1. t \in MsgTypes /\ t # MSG_WRK
    BY DEF MsgTypes, MSG_JOIN, MSG_CREATE, MSG_WRK
  <2>2. k \in DOMAIN FdsOf(queue[t]) /\ FdsOf(queue[t])[k] = f
    BY <1>4 DEF FdsOf
  <2>3. AtQueue(t) \in Holders /\ k \in DOMAIN Hand[AtQueue(t)] /\ Hand[AtQueue(t)][k] = f
    BY <2>1, <2>2, HandValues DEF HandsAre
  <2>4. PlaceOf(AtQueue(t), k) = p
    BY <1>4, <2>1 DEF PlaceOf, AtQueue
  <2> QED
    BY <2>3, <2>4
<1>5. ASSUME NEW r \in Rooms, NEW k \in DOMAIN rseats[r], rseats[r][k] = f, p = <<"seat", r, k>>
      PROVE  \E h \in Holders : \E i \in DOMAIN Hand[h] : Hand[h][i] = f /\ p = PlaceOf(h, i)
  <2>1. AtRoom(r) \in Holders /\ k \in DOMAIN Hand[AtRoom(r)] /\ Hand[AtRoom(r)][k] = f
    BY <1>5, HandValues DEF HandsAre
  <2>2. PlaceOf(AtRoom(r), k) = p
    BY <1>5 DEF PlaceOf, AtRoom
  <2> QED
    BY <2>1, <2>2
<1>6. CASE p \in MsgPlaces(f)
  BY <1>4, <1>6 DEF MsgPlaces
<1>7. CASE p \in SeatPlaces(f)
  BY <1>5, <1>7 DEF SeatPlaces
<1>8. CASE p \in WrkPlaces(f)
  BY <1>3, <1>8 DEF WrkPlaces
<1>9. CASE p \in MainPlaces(f) \cup WorkerPlaces(f)
  BY <1>1, <1>2, <1>9 DEF MainPlaces, WorkerPlaces
<1> QED
  BY <1>6, <1>7, <1>8, <1>9 DEF Places

\* A descriptor is with one thread, message or seat, and with none once it is
\* closed: nobody can use the connection of a client that gets its number later
\* (server.c:182-205, worker.c:44-116, room.c:96-171, 326-384).
THEOREM OneHolderCorrect ==
  ASSUME "abrupt" \notin Endings
  PROVE  Spec => []OneHolder
<1>1. CareInv => OneHolder
  <2> SUFFICES ASSUME CareInv, NEW f \in Fds
               PROVE  Cardinality(Places(f)) <= 1 /\ (link[f] = "closed" => Places(f) = {})
    BY DEF OneHolder
  <2>1. ServerInv /\ Apart /\ HeldOpen
    BY DEF CareInv, HandsInv
  <2>2. \A p \in Places(f) : Held(Hand, f)
    BY <2>1, PlaceInHand DEF Held
  <2>3. \A p, q \in Places(f) : p = q
    BY <2>1, PlaceInHand DEF Apart, Single
  <2>4. Places(f) = {} \/ \E p : Places(f) = {p}
    BY <2>3
  <2>5. Cardinality(Places(f)) <= 1
    <3>1. CASE Places(f) = {}
      BY <3>1, FS_EmptySet
    <3>2. ASSUME NEW p, Places(f) = {p} PROVE Cardinality(Places(f)) <= 1
      BY <3>2, FS_Singleton
    <3> QED
      BY <2>4, <3>1, <3>2
  <2> QED
    BY <2>1, <2>2, <2>5 DEF HeldOpen
<1> QED
  BY <1>1, CareInvariance, PTL

\* A client that is there and has asked is in somebody's hand: what the workers
\* forget are the descriptors of clients that left (worker.c:103-116).
THEOREM NoForgottenClientCorrect ==
  ASSUME "abrupt" \notin Endings
  PROVE  Spec => []NoForgottenClient
<1>1. CareInv => NoForgottenClient
  <2> SUFFICES ASSUME CareInv, phase = "up", NEW f \in Fds, link[f] = "up" PROVE Places(f) # {}
    BY DEF NoForgottenClient
  <2>1. PICK h \in Holders : \E i \in DOMAIN Hand[h] : Hand[h][i] = f
    BY DEF CareInv, HandsInv, QueueLife, NoneDropped, Held
  <2>2. CASE h = AtMain
    <3>1. mainfd = f
      BY <2>1, <2>2, HandValues DEF HandsAre, One
    <3>2. <<"main">> \in MainPlaces(f)
      BY <3>1 DEF MainPlaces
    <3> QED
      BY <3>2 DEF Places
  <2>3. ASSUME NEW w \in Workers, h = AtWorker(w) PROVE Places(f) # {}
    <3>1. Hand[h] = One(wsock[w])
      BY <2>3, HandValues DEF HandsAre
    <3>2. wsock[w] = f
      BY <2>1, <3>1 DEF One
    <3>3. <<"worker", w>> \in WorkerPlaces(f)
      BY <3>2 DEF WorkerPlaces
    <3> QED
      BY <3>3 DEF Places
  <2>4. ASSUME NEW t \in MsgTypes, h = AtQueue(t) PROVE Places(f) # {}
    <3>1. CASE t = MSG_WRK
      <4>1. PICK k \in DOMAIN queue[MSG_WRK] : queue[MSG_WRK][k] = f
        BY <2>1, <2>4, <3>1, HandValues DEF HandsAre
      <4>2. <<"wrk", k>> \in WrkPlaces(f)
        BY <4>1 DEF WrkPlaces
      <4> QED
        BY <4>2 DEF Places
    <3>2. CASE t # MSG_WRK
      <4>1. Hand[h] = FdsOf(queue[t])
        BY <2>4, <3>2, HandValues DEF HandsAre
      <4>2. PICK k \in DOMAIN queue[t] : queue[t][k].fd = f
        BY <2>1, <4>1 DEF FdsOf
      <4>3. t \in {MSG_JOIN, MSG_CREATE} /\ <<"msg", t, k>> \in MsgPlaces(f)
        BY <3>2, <4>2 DEF MsgTypes, MsgPlaces
      <4> QED
        BY <4>3 DEF Places
    <3> QED
      BY <3>1, <3>2
  <2>5. ASSUME NEW r \in Rooms, h = AtRoom(r) PROVE Places(f) # {}
    <3>1. PICK k \in DOMAIN rseats[r] : rseats[r][k] = f
      BY <2>1, <2>5, HandValues DEF HandsAre
    <3>2. <<"seat", r, k>> \in SeatPlaces(f)
      BY <3>1 DEF SeatPlaces
    <3> QED
      BY <3>2 DEF Places
  <2> QED
    BY <2>2, <2>3, <2>4, <2>5, HolderCases
<1> QED
  BY <1>1, CareInvariance, PTL

\* The request that arrives at the rooms is the one the client made, unless he left
\* without a word and the worker's buffer still held another's (worker.c:57-101).
THEOREM RequestsAreRealCorrect ==
  ASSUME "abrupt" \notin Endings
  PROVE  Spec => []RequestsAreReal
<1>1. CareInv => RequestsAreReal
  BY DEF CareInv, RequestsInv, MessagesKnown, MessageKnown, Silent, RequestsAreReal
<1> QED
  BY <1>1, CareInvariance, PTL

\* Who creates a room sits on its first seat, in a room of the size he asked for
\* (room.c:96-171).
THEOREM CreateHonouredCorrect ==
  ASSUME "abrupt" \notin Endings
  PROVE  Spec => []CreateHonoured
<1>1. CareInv => CreateHonoured
  <2> SUFFICES ASSUME CareInv, NEW r \in Rooms, NEW k \in DOMAIN rseats[r]
               PROVE  /\ k > 1 => asked[rseats[r][k]].type # MSG_CREATE
                      /\ asked[rseats[r][k]].type = MSG_CREATE => rsize[r] = asked[rseats[r][k]].size
    BY DEF CreateHonoured
  <2>1. SeatKnown(rseats[r][k], k, rsize[r])
    BY DEF CareInv, RequestsInv, SeatsKnown
  <2> QED
    BY <2>1 DEF SeatKnown, Silent, NoRequest, Request, MSG_JOIN, MSG_CREATE
<1> QED
  BY <1>1, CareInvariance, PTL
=============================================================================
