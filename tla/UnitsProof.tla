------------------------------ MODULE UnitsProof ------------------------------
(***************************************************************************)
(* Proofs about the questions, for any number of files of any length and   *)
(* any number of answers: what is loaded is what the files hold            *)
(* (LoadsWhatIsThere), the list is one ring (Ring), nobody looks at a node *)
(* that is gone (NoDangling), and every node is freed (AllFreed).          *)
(*                                                                         *)
(* Nodes come in the order of their allocation, so the list is a chain     *)
(* 1, 2, ..., spare while files are read and a ring 1, ..., last, 1        *)
(* afterwards; what unit_deque_free() has left of it is an arc of that     *)
(* ring, from tmp to the node it was entered at.                           *)
(***************************************************************************)
EXTENDS Units, WellFoundedInduction, TLAPS

\* Before the ring is closed: nodes 1 .. spare in a chain, the last one empty.
Building == pc \in {"scan", "read"}

Chain ==
  /\ spare \in Nodes /\ heap = 1 .. spare /\ first = 1
  /\ last = IF spare = 1 THEN UNSET ELSE spare - 1
  /\ \A n \in 1 .. spare - 1 : next[n] = n + 1 /\ prev[n + 1] = n

\* The files read so far hold fewer units than pieces.
Counted ==
  /\ Len(loaded) <= pos
  /\ pc = "scan" => spare <= 1 + files * MaxPieces
  /\ pc = "read" => files > 0 /\ spare <= 1 + (files - 1) * MaxPieces + Len(loaded)

\* The successor in the ring 1, ..., last, 1.
Succ(n) == IF n = last THEN 1 ELSE n + 1

Closed ==
  /\ last \in Nodes /\ heap = 1 .. last /\ cur \in heap
  /\ \A n \in heap : next[n] = Succ(n) /\ prev[Succ(n)] = n

\* The nodes from a to b in that ring.
Arc(a, b) == IF a <= b THEN a .. b ELSE (a .. last) \cup (1 .. b)

Dismantled ==
  /\ last \in Nodes /\ tmp \in 1 .. last
  /\ \E p \in 1 .. last : /\ heap = Arc(tmp, p) /\ next[p] = NULL
                          /\ \A n \in heap \ {p} : next[n] = Succ(n)

\* What has been loaded from the pieces read so far, and where the loop stands.
Reading ==
  /\ \A i \in DOMAIN loaded : loaded[i] <= pos
  /\ \A i, j \in DOMAIN loaded : i < j => loaded[i] < loaded[j]
  /\ {loaded[i] : i \in DOMAIN loaded} = {s \in UnitsOf(pieces) : s + ANS_COUNT + 1 <= pos}
  /\ IF eof THEN pos = Len(pieces) ELSE \E g \in 0 .. pos : pos = g * FIELDS

UnitsInv ==
  /\ TypeOK
  /\ pc = "start" => last = UNSET /\ pos = 0 /\ loaded = <<>>
  /\ Building => Chain
  /\ Building => Counted
  /\ pc = "read" => Reading
  /\ pc = "loaded" => Closed
  /\ pc = "freeing" => Dismantled
  /\ pc = "freed" => heap = {}

-----------------------------------------------------------------------------
(* Arithmetic.                                                             *)

\* Multiples of a number are that number apart.
LEMMA Multiples ==
  ASSUME NEW F \in Nat, F > 0, NEW g \in Nat, NEW h \in Nat
  PROVE  /\ h > g => h * F >= g * F + F
         /\ g * F + F = (g + 1) * F /\ g * F \in Nat
<1>1. g * F + F = (g + 1) * F /\ g * F \in Nat
  OBVIOUS
<1>2. ASSUME h > g PROVE h * F >= g * F + F
  <2>1. PICK d \in Nat : h = (g + 1) + d
    BY <1>2
  <2>2. h * F = (g + 1) * F + d * F /\ d * F \in Nat
    BY <2>1
  <2> QED
    BY <1>1, <2>2
<1> QED
  BY <1>1, <1>2

\* A set of numbers that is not empty has a least one and, below a bound, a greatest.
LEMMA LeastGreatest ==
  ASSUME NEW S \in SUBSET Nat, S # {}
  PROVE  /\ \E m \in S : \A n \in S : m <= n
         /\ \A b \in Nat : S \subseteq 0 .. b => \E m \in S : \A n \in S : n <= m
<1>1. ASSUME NEW R \in SUBSET Nat, R # {} PROVE \E m \in R : \A n \in R : m <= n
  <2>1. PICK m \in R : \A n \in R : ~(<<n, m>> \in OpToRel(<, Nat))
    BY <1>1, NatLessThanWellFounded, WFMin
  <2>2. \A n \in R : ~(n < m)
    BY <2>1 DEF OpToRel
  <2> QED
    BY <2>2
<1>2. ASSUME NEW b \in Nat, S \subseteq 0 .. b PROVE \E m \in S : \A n \in S : n <= m
  <2> DEFINE R == {b - n : n \in S}
  <2>1. R \in SUBSET Nat /\ R # {}
    <3>1. R \in SUBSET Nat
      BY <1>2
    <3>2. PICK n \in S : TRUE
      OBVIOUS
    <3>3. b - n \in R
      BY <3>2
    <3> QED
      BY <3>1, <3>3
  <2>2. PICK r \in R : \A n \in R : r <= n
    BY <2>1, <1>1
  <2>3. PICK m \in S : r = b - m
    BY <2>2
  <2>4. ASSUME NEW n \in S PROVE n <= m
    <3>1. b - m <= b - n
      BY <2>2, <2>3
    <3> QED
      BY <1>2, <3>1
  <2> QED
    BY <2>4
<1> QED
  BY <1>1, <1>2

-----------------------------------------------------------------------------
(* Reading.                                                                *)

LEMMA FilesAre ==
  /\ <<>> \in Files
  /\ \A f \in Files : /\ Len(f) \in 0 .. MaxPieces /\ DOMAIN f = 1 .. Len(f)
                      /\ f \in [1 .. Len(f) -> PieceKinds]
<1>1. <<>> \in [1 .. 0 -> PieceKinds]
  OBVIOUS
<1>2. 0 \in 0 .. MaxPieces
  BY UnitsAssumption
<1>3. ASSUME NEW n \in 0 .. MaxPieces, NEW f \in [1 .. n -> PieceKinds]
      PROVE  Len(f) = n /\ DOMAIN f = 1 .. n
  BY UnitsAssumption
<1> QED
  BY <1>1, <1>2, <1>3 DEF Files

LEMMA NodesAre == \A n \in Nodes : n \in Nat \ {0} /\ 1 .. n \subseteq Nodes
<1>1. 1 + MaxFiles * MaxPieces \in Nat
  BY UnitsAssumption
<1> QED
  BY <1>1 DEF Nodes

\* calloc() returns the node behind the chain, and there is one.
LEMMA FreshNext ==
  ASSUME NEW n \in Nodes, n + 1 \in Nodes, heap = 1 .. n
  PROVE  Fresh = n + 1
<1>1. Nodes \subseteq Nat
  BY DEF Nodes
<1>2. n + 1 \in Nodes \ heap /\ \A m \in Nodes \ heap : n + 1 <= m
  BY <1>1 DEF Nodes
<1>3. \A a \in Nodes \ heap : (\A m \in Nodes \ heap : a <= m) => a = n + 1
  BY <1>1, <1>2
<1> QED
  BY <1>2, <1>3 DEF Fresh

\* The only unit that may end among the next six pieces begins with the first.
LEMMA NextStart ==
  ASSUME TypeOK, NEW g \in Nat, pos = g * FIELDS, NEW s \in UnitsOf(pieces),
         pos < s + ANS_COUNT + 1, s + ANS_COUNT + 1 <= pos + FIELDS
  PROVE  s = pos + 1
<1>1. FIELDS \in Nat /\ FIELDS > 0 /\ FIELDS = ANS_COUNT + 2 /\ ANS_COUNT \in Nat
  BY UnitsAssumption DEF FIELDS
<1>2. PICK h \in Nat : s = h * FIELDS + 1
  BY FilesAre DEF UnitsOf, TypeOK
<1> DEFINE F == FIELDS
<1>3. /\ h > g => h * F >= g * F + F
      /\ g > h => g * F >= h * F + F
      /\ g * F \in Nat /\ h * F \in Nat
  BY <1>1, Multiples
<1>4. g * F < h * F + F /\ h * F + F <= g * F + F
  BY <1>1, <1>2, <1>3
<1>5. h = g
  BY <1>1, <1>3, <1>4
<1> QED
  BY <1>2, <1>5

\* The loop accepts six pieces exactly if the reference does.
LEMMA AcceptsUnits ==
  ASSUME TypeOK, NEW g \in Nat, pos = g * FIELDS
  PROVE  IsUnit <=> pos + 1 \in UnitsOf(pieces)
<1> DEFINE n == Len(pieces)
<1>1. n \in Nat /\ DOMAIN pieces = 1 .. n /\ pos \in 0 .. n
  BY FilesAre, UnitsAssumption DEF TypeOK
<1>2. FIELDS = ANS_COUNT + 2 /\ ANS_COUNT \in Nat
  BY UnitsAssumption DEF FIELDS
<1>3. pos + FIELDS <= n => g \in 0 .. n
  <2>1. g * FIELDS >= g
    <3>1. g * FIELDS = g + g * (ANS_COUNT + 1) /\ g * (ANS_COUNT + 1) \in Nat
      BY <1>2
    <3> QED
      BY <3>1
  <2> QED
    BY <1>1, <1>2, <2>1
<1>4. (\A k \in 2 .. ANS_COUNT + 1 : FitsAns(pieces[pos + k]))
      <=> \A k \in (pos + 1) + 1 .. (pos + 1) + ANS_COUNT : pieces[k] \in {"digit", "other", "short"}
  <2>1. ASSUME \A k \in 2 .. ANS_COUNT + 1 : FitsAns(pieces[pos + k]),
               NEW k \in (pos + 1) + 1 .. (pos + 1) + ANS_COUNT
        PROVE  pieces[k] \in {"digit", "other", "short"}
    <3>1. k - pos \in 2 .. ANS_COUNT + 1 /\ pos + (k - pos) = k
      BY <1>1, <1>2
    <3> QED
      BY <2>1, <3>1 DEF FitsAns
  <2>2. ASSUME \A k \in (pos + 1) + 1 .. (pos + 1) + ANS_COUNT : pieces[k] \in {"digit", "other", "short"},
               NEW k \in 2 .. ANS_COUNT + 1
        PROVE  FitsAns(pieces[pos + k])
    <3>1. pos + k \in (pos + 1) + 1 .. (pos + 1) + ANS_COUNT
      BY <1>1, <1>2
    <3> QED
      BY <2>2, <3>1 DEF FitsAns
  <2> QED
    BY <2>1, <2>2
<1>5. pos + FIELDS = (pos + 1) + ANS_COUNT + 1 /\ pos + 1 = g * FIELDS + 1
  BY <1>1, <1>2
<1>6. pos + FIELDS <= n => pos + 1 \in DOMAIN pieces
  BY <1>1, <1>2
<1> QED
  BY <1>3, <1>4, <1>5, <1>6 DEF IsUnit, UnitsOf, FitsQuest, NamesAnswer

-----------------------------------------------------------------------------
(* UnitsInv holds in the initial state and is kept by every step.          *)

LEMMA InitUnits == Init => UnitsInv
<1> SUFFICES ASSUME Init PROVE UnitsInv
  OBVIOUS
<1>1. TypeOK
  BY FilesAre, UnitsAssumption DEF Init, TypeOK, Nodes
<1> QED
  BY <1>1 DEF Init, UnitsInv, Building

LEMMA StartInv == UnitsInv /\ Start => UnitsInv'
<1> SUFFICES ASSUME UnitsInv, Start PROVE UnitsInv'
  OBVIOUS
<1>1. 1 \in Nodes
  BY UnitsAssumption DEF Nodes
<1>2. TypeOK'
  BY <1>1 DEF UnitsInv, TypeOK, Start, input, Files
<1>3. pc' = "scan" => Chain'
  BY <1>1 DEF UnitsInv, TypeOK, Start, Chain, Building, input
<1>4. pc' = "scan" => Counted'
  BY UnitsAssumption DEF UnitsInv, TypeOK, Start, Counted, Building, input
<1> QED
  BY <1>2, <1>3, <1>4 DEF UnitsInv, Start, Building

LEMMA OpenFileInv == UnitsInv /\ OpenFile => UnitsInv'
<1> SUFFICES ASSUME UnitsInv, OpenFile PROVE UnitsInv'
  OBVIOUS
<1>1. pc = "scan" /\ pc' = "read" /\ pos' = 0 /\ loaded' = <<>> /\ eof' = FALSE
  BY DEF OpenFile
<1>2. TypeOK'
  <2>1. 0 \in 0 .. Len(pieces')
    BY FilesAre DEF OpenFile
  <2>2. files' \in 0 .. MaxFiles /\ pos' \in 0 .. Len(pieces') /\ eof' \in BOOLEAN /\ loaded' \in Seq(1 .. MaxPieces)
    <3>1. files' = files + 1 /\ files < MaxFiles /\ files \in 0 .. MaxFiles /\ MaxFiles \in Nat
      BY UnitsAssumption DEF UnitsInv, TypeOK, OpenFile
    <3>2. pos' = 0 /\ eof' = FALSE /\ loaded' = <<>>
      BY DEF OpenFile
    <3>3. eof' \in BOOLEAN
      BY <3>2
    <3>4. loaded' \in Seq(1 .. MaxPieces)
      BY <3>2
    <3>5. files' \in 0 .. MaxFiles
      BY <3>1
    <3> QED
      BY <2>1, <3>2, <3>3, <3>4, <3>5
  <2>3. pc' = "read" /\ pieces' \in Files /\ newline' \in BOOLEAN /\ UNCHANGED <<heap, next, prev, first, last, spare, cur, tmp>>
    BY DEF OpenFile, list
  <2> QED
    BY <2>2, <2>3 DEF UnitsInv, TypeOK
<1>3. Chain'
  BY <1>1 DEF UnitsInv, Chain, OpenFile, list, Building
<1>4. Counted'
  BY <1>1, UnitsAssumption DEF UnitsInv, TypeOK, Counted, OpenFile, list, Building, Nodes
<1>5. Reading'
  <2>1. \A s \in UnitsOf(pieces') : ~(s + ANS_COUNT + 1 <= 0)
    BY UnitsAssumption, FilesAre, <1>2 DEF UnitsOf, TypeOK
  <2>2. 0 = 0 * FIELDS
    BY UnitsAssumption DEF FIELDS
  <2> QED
    BY <1>1, <2>1, <2>2 DEF Reading, UnitsOf
<1> QED
  BY <1>1, <1>2, <1>3, <1>4, <1>5 DEF UnitsInv, Building

\* The loop over a file takes one turn.
LEMMA TurnReads ==
  ASSUME UnitsInv, ReadUnit, pc' = "read"
  PROVE  Reading'
<1>1. Reading /\ TypeOK /\ ~eof
  BY DEF UnitsInv, ReadUnit
<1>2. PICK g \in Nat : pos = g * FIELDS
  BY <1>1 DEF Reading
<1> DEFINE n == Len(pieces)
<1>3. FIELDS = ANS_COUNT + 2 /\ ANS_COUNT \in Nat /\ FIELDS \in Nat
  BY UnitsAssumption DEF FIELDS
<1>4. n \in Nat /\ pos \in 0 .. n /\ loaded \in Seq(1 .. MaxPieces)
  BY <1>1, FilesAre, UnitsAssumption DEF TypeOK
<1>5. /\ pieces' = pieces
      /\ pos' = IF pos + FIELDS <= n THEN pos + FIELDS ELSE n
      /\ eof' <=> (pos + FIELDS > n \/ (pos + FIELDS = n /\ ~newline))
      /\ \/ ~IsUnit /\ loaded' = loaded
         \/ IsUnit /\ loaded' = Append(loaded, pos + 1)
  BY <1>1 DEF ReadUnit, UnitsInv, Feof
<1>6. \A s \in UnitsOf(pieces) : s \in Nat /\ s + ANS_COUNT + 1 <= n
  BY <1>1, FilesAre DEF UnitsOf, TypeOK
<1>7. \A s \in UnitsOf(pieces) : /\ s + ANS_COUNT + 1 <= pos => s + ANS_COUNT + 1 <= pos'
                                 /\ (s + ANS_COUNT + 1 <= pos' /\ ~(s + ANS_COUNT + 1 <= pos)) => s = pos + 1
  <2> TAKE s \in UnitsOf(pieces)
  <2>1. pos <= pos' /\ pos' <= pos + FIELDS /\ pos' \in Nat
    BY <1>3, <1>4, <1>5
  <2>2. pos < s + ANS_COUNT + 1 /\ s + ANS_COUNT + 1 <= pos + FIELDS => s = pos + 1
    BY <1>1, <1>2, NextStart
  <2> QED
    BY <1>3, <1>4, <1>6, <2>1, <2>2
<1>8. IF eof' THEN pos' = n ELSE \E h \in 0 .. pos' : pos' = h * FIELDS
  <2>1. CASE eof'
    BY <1>3, <1>4, <1>5, <2>1
  <2>2. CASE ~eof'
    <3>1. pos' = pos + FIELDS
      BY <1>3, <1>4, <1>5, <2>2
    <3>2. pos' = (g + 1) * FIELDS
      BY <1>2, <1>3, <3>1, Multiples
    <3>3. g + 1 \in 0 .. pos'
      <4>1. (g + 1) * FIELDS = (g + 1) + (g + 1) * (ANS_COUNT + 1) /\ (g + 1) * (ANS_COUNT + 1) \in Nat
        BY <1>3
      <4> QED
        BY <3>2, <4>1
    <3> QED
      BY <2>2, <3>2, <3>3
  <2> QED
    BY <2>1, <2>2
<1>9. CASE IsUnit
  <2>1. pos' = pos + FIELDS /\ pos + 1 \in UnitsOf(pieces)
    BY <1>1, <1>2, <1>5, <1>9, AcceptsUnits DEF IsUnit
  <2>2. /\ DOMAIN loaded' = DOMAIN loaded \cup {Len(loaded) + 1}
        /\ loaded'[Len(loaded) + 1] = pos + 1
        /\ \A i \in DOMAIN loaded : loaded'[i] = loaded[i] /\ i \in 1 .. Len(loaded)
        /\ Len(loaded) \in Nat
    BY <1>4, <1>5, <1>9
  <2>3. {loaded'[i] : i \in DOMAIN loaded'} = {loaded[i] : i \in DOMAIN loaded} \cup {pos + 1}
    BY <2>2
  <2>4. {loaded'[i] : i \in DOMAIN loaded'} = {s \in UnitsOf(pieces) : s + ANS_COUNT + 1 <= pos'}
    <3>1. (pos + 1) + ANS_COUNT + 1 <= pos'
      BY <1>3, <1>4, <2>1
    <3>2. {loaded[i] : i \in DOMAIN loaded} = {s \in UnitsOf(pieces) : s + ANS_COUNT + 1 <= pos}
      BY <1>1 DEF Reading
    <3> QED
      BY <1>7, <2>1, <2>3, <3>1, <3>2
  <2>5. \A i \in DOMAIN loaded : loaded[i] <= pos /\ loaded[i] \in Nat
    BY <1>1, <1>4, UnitsAssumption DEF Reading
  <2>6. \A i, j \in DOMAIN loaded' : i < j => loaded'[i] < loaded'[j]
    <3>1. \A i, j \in DOMAIN loaded : i < j => loaded[i] < loaded[j]
      BY <1>1 DEF Reading
    <3> QED
      BY <1>4, <2>2, <2>5, <3>1
  <2>7. \A i \in DOMAIN loaded' : loaded'[i] <= pos'
    BY <1>3, <1>4, <2>1, <2>2, <2>5
  <2> QED
    BY <1>5, <1>8, <2>4, <2>6, <2>7 DEF Reading
<1>10. CASE ~IsUnit
  <2>1. pos + 1 \notin UnitsOf(pieces)
    BY <1>1, <1>2, <1>10, AcceptsUnits
  <2>2. {s \in UnitsOf(pieces) : s + ANS_COUNT + 1 <= pos'} = {s \in UnitsOf(pieces) : s + ANS_COUNT + 1 <= pos}
    BY <1>7, <2>1
  <2>3. \A i \in DOMAIN loaded : loaded[i] <= pos'
    <3>1. \A i \in DOMAIN loaded : loaded[i] <= pos /\ loaded[i] \in Nat
      BY <1>1, <1>4, UnitsAssumption DEF Reading
    <3>2. pos <= pos' /\ pos' \in Nat
      BY <1>3, <1>4, <1>5
    <3> QED
      BY <1>4, <3>1, <3>2
  <2> QED
    BY <1>1, <1>5, <1>8, <1>10, <2>2, <2>3 DEF Reading
<1> QED
  BY <1>9, <1>10

LEMMA ReadUnitInv == UnitsInv /\ ReadUnit => UnitsInv'
<1> SUFFICES ASSUME UnitsInv, ReadUnit PROVE UnitsInv'
  OBVIOUS
<1>1. pc = "read" /\ TypeOK /\ Chain /\ Counted
  BY DEF UnitsInv, ReadUnit, Building
<1> DEFINE n == Len(pieces)
<1>2. /\ ANS_COUNT \in Nat /\ FIELDS = ANS_COUNT + 2 /\ MaxPieces \in Nat /\ MaxFiles \in Nat
      /\ n \in 0 .. MaxPieces /\ pos \in 0 .. n /\ files \in 1 .. MaxFiles /\ spare \in Nodes
      /\ loaded \in Seq(1 .. MaxPieces) /\ Len(loaded) \in Nat
  BY <1>1, FilesAre, UnitsAssumption DEF TypeOK, FIELDS, Counted, Chain
<1>3. pos' \in 0 .. n /\ eof' \in BOOLEAN
  BY <1>2 DEF ReadUnit, Feof
<1>4. CASE ~IsUnit /\ pc' = "read"
  <2>1. UNCHANGED <<pc, files, pieces, newline, loaded, heap, next, prev, first, last, spare, cur, tmp>>
    BY <1>1, <1>4 DEF ReadUnit, list
  <2>2. pos <= pos'
    BY <1>2 DEF ReadUnit
  <2>3. TypeOK'
    BY <1>1, <1>3, <2>1 DEF TypeOK, Files
  <2>4. Chain' /\ Counted' /\ Reading'
    <3>1. Chain'
      BY <1>1, <2>1 DEF Chain, Nodes
    <3>2. Counted'
      BY <1>1, <1>2, <1>3, <2>1, <2>2 DEF Counted
    <3> QED
      BY <1>1, <2>1, <3>1, <3>2, TurnReads
  <2> QED
    BY <1>1, <2>1, <2>3, <2>4 DEF UnitsInv, Building
<1>5. CASE IsUnit /\ pc' = "read"
  <2>1. pos' = pos + FIELDS /\ pos + FIELDS <= n
    BY <1>5, <1>2 DEF ReadUnit, IsUnit
  <2>2. /\ loaded' = Append(loaded, pos + 1) /\ last' = spare /\ spare' = Fresh /\ heap' = heap \cup {Fresh}
        /\ next' = [next EXCEPT ![spare] = Fresh] /\ prev' = [prev EXCEPT ![Fresh] = spare]
        /\ UNCHANGED <<pc, files, pieces, newline, first, cur, tmp>>
    BY <1>1, <1>5 DEF ReadUnit
  <2>3. Len(loaded) + 1 <= MaxPieces /\ spare <= 1 + (files - 1) * MaxPieces + Len(loaded)
    BY <1>1, <1>2, <2>1 DEF Counted
  <2>4. 1 + (files - 1) * MaxPieces + MaxPieces <= 1 + MaxFiles * MaxPieces
    <3>1. (files - 1) * MaxPieces + MaxPieces = files * MaxPieces
      BY <1>2
    <3>2. files * MaxPieces <= MaxFiles * MaxPieces
      BY <1>2
    <3> QED
      BY <1>2, <3>1, <3>2
  <2>5. spare + 1 \in Nodes
    <3>1. (files - 1) * MaxPieces \in Nat /\ MaxFiles * MaxPieces \in Nat
      BY <1>2
    <3> HIDE DEF n
    <3> QED
      BY <1>2, <2>3, <2>4, <3>1 DEF Nodes
  <2>6. Fresh = spare + 1
    BY <1>1, <1>2, <2>5, FreshNext DEF Chain
  <2>7. TypeOK'
    <3>1. pos + 1 \in 1 .. MaxPieces
      BY <1>2, <2>1
    <3>2. loaded' \in Seq(1 .. MaxPieces)
      BY <1>2, <2>2, <3>1
    <3> QED
      BY <1>1, <1>2, <1>3, <2>2, <2>5, <2>6, <3>2 DEF TypeOK, Files
  <2>8. Chain'
    BY <1>1, <1>2, <2>2, <2>5, <2>6 DEF Chain, TypeOK, Nodes
  <2>9. Counted'
    <3>1. Len(loaded') = Len(loaded) + 1
      BY <1>2, <2>2
    <3>2. (files - 1) * MaxPieces \in Int /\ spare \in Int
      BY <1>2 DEF Nodes
    <3> QED
      BY <1>1, <1>2, <2>1, <2>2, <2>3, <2>6, <3>1, <3>2 DEF Counted
  <2> QED
    BY <1>1, <1>5, <2>7, <2>8, <2>9, TurnReads DEF UnitsInv, Building
<1>6. CASE pc' = "failed"
  <2>1. TypeOK'
    BY <1>1, <1>2, <1>3, <1>6 DEF ReadUnit, TypeOK, Files
  <2> QED
    BY <1>6, <2>1 DEF UnitsInv, Building
<1>7. CASE pc' = "undefined"
  <2>1. UNCHANGED <<files, pieces, newline, loaded, heap, next, prev, first, last, spare, cur, tmp>>
    BY <1>7 DEF ReadUnit, list
  <2>2. TypeOK'
    BY <1>1, <1>3, <1>7, <2>1 DEF TypeOK, Files
  <2> QED
    BY <1>7, <2>2 DEF UnitsInv, Building
<1> QED
  BY <1>1, <1>4, <1>5, <1>6, <1>7 DEF ReadUnit

LEMMA EndFileInv == UnitsInv /\ EndFile => UnitsInv'
<1> SUFFICES ASSUME UnitsInv, EndFile PROVE UnitsInv'
  OBVIOUS
<1>1. /\ pc = "read" /\ pc' = "scan" /\ TypeOK /\ Chain /\ Counted
      /\ pieces' = <<>> /\ newline' = TRUE /\ pos' = 0 /\ loaded' = <<>>
      /\ UNCHANGED <<files, eof, heap, next, prev, first, last, spare, cur, tmp>>
  BY DEF EndFile, list, UnitsInv, Building
<1>2. TypeOK'
  BY <1>1, FilesAre, UnitsAssumption DEF TypeOK
<1>3. Chain'
  BY <1>1 DEF Chain, Nodes
<1>4. Counted'
  <2>1. /\ Len(loaded) <= MaxPieces /\ Len(loaded) \in Nat /\ MaxPieces \in Nat /\ files \in Nat
        /\ spare \in Nat /\ spare <= 1 + (files - 1) * MaxPieces + Len(loaded)
    BY <1>1, FilesAre, UnitsAssumption DEF TypeOK, Counted, Chain, Nodes
  <2>2. (files - 1) * MaxPieces + MaxPieces = files * MaxPieces /\ (files - 1) * MaxPieces \in Int
    BY <2>1
  <2> QED
    BY <1>1, <2>1, <2>2 DEF Counted
<1> QED
  BY <1>1, <1>2, <1>3, <1>4 DEF UnitsInv, Building

LEMMA LoopListInv == UnitsInv /\ LoopList => UnitsInv'
<1> SUFFICES ASSUME UnitsInv, LoopList PROVE UnitsInv'
  OBVIOUS
<1>1. /\ pc = "scan" /\ TypeOK /\ Chain /\ heap' = heap \ {spare}
      /\ UNCHANGED <<files, pieces, newline, pos, eof, loaded, first, last, spare, tmp>>
  BY DEF LoopList, input, UnitsInv, Building
<1>2. Nodes \subseteq Nat \ {0} /\ spare \in Nodes /\ heap = 1 .. spare
  BY <1>1 DEF Nodes, Chain
<1>3. CASE last # UNSET
  <2>1. /\ last = spare - 1 /\ spare > 1 /\ last \in Nodes /\ first = 1 /\ heap' = 1 .. last
    BY <1>1, <1>2, <1>3 DEF Chain, TypeOK, UNSET
  <2>2. /\ next' = [next EXCEPT ![last] = 1] /\ prev' = [prev EXCEPT ![1] = last]
        /\ cur' = last /\ pc' = "loaded"
    BY <1>3, <2>1 DEF LoopList, CloseRing
  <2>3. TypeOK'
    BY <1>1, <1>2, <2>1, <2>2 DEF TypeOK, Files
  <2>4. \A k \in 1 .. last : next'[k] = Succ(k)' /\ prev'[Succ(k)'] = k
    <3>1. ASSUME NEW k \in 1 .. last PROVE next'[k] = Succ(k)' /\ prev'[Succ(k)'] = k
      <4>1. k \in Nodes /\ 1 \in Nodes /\ last' = last
        BY <1>1, <2>1, NodesAre
      <4>2. CASE k = last
        BY <1>1, <2>2, <4>1, <4>2 DEF Succ, TypeOK
      <4>3. CASE k # last
        <5>1. k \in 1 .. spare - 1 /\ k + 1 # 1 /\ k + 1 \in 1 .. last /\ k + 1 \in Nodes
          BY <1>2, <2>1, <4>3, NodesAre
        <5>2. next[k] = k + 1 /\ prev[k + 1] = k
          BY <1>1, <5>1 DEF Chain
        <5> QED
          BY <1>1, <2>2, <4>1, <4>3, <5>1, <5>2 DEF Succ, TypeOK
      <4> QED
        BY <4>2, <4>3
    <3> QED
      BY <3>1
  <2>5. Closed'
    BY <1>1, <1>2, <2>1, <2>2, <2>4 DEF Closed
  <2> QED
    BY <2>2, <2>3, <2>5 DEF UnitsInv, Building
<1>4. CASE last = UNSET
  <2>1. pc' = "undefined" /\ UNCHANGED <<next, prev, cur>>
    BY <1>4 DEF LoopList
  <2>2. TypeOK'
    BY <1>1, <2>1 DEF TypeOK, Files
  <2> QED
    BY <2>1, <2>2 DEF UnitsInv, Building
<1> QED
  BY <1>3, <1>4

LEMMA WalkInv == UnitsInv /\ Walk => UnitsInv'
<1> SUFFICES ASSUME UnitsInv, Walk PROVE UnitsInv'
  OBVIOUS
<1>1. /\ pc = "loaded" /\ pc' = "loaded" /\ TypeOK /\ Closed /\ cur' = next[cur]
      /\ UNCHANGED <<files, pieces, newline, pos, eof, loaded, heap, next, prev, first, last, spare, tmp>>
  BY DEF Walk, input, list, UnitsInv
<1>2. cur' \in heap
  BY <1>1 DEF Closed, Succ, Nodes
<1>3. TypeOK'
  BY <1>1, <1>2 DEF TypeOK, Files
<1>4. Closed'
  BY <1>1, <1>2 DEF Closed, Succ
<1> QED
  BY <1>1, <1>3, <1>4 DEF UnitsInv, Building

\* Entered at p, the ring becomes the arc from its successor to p.
LEMMA BeginFreeInv == UnitsInv /\ BeginFree => UnitsInv'
<1> SUFFICES ASSUME UnitsInv, BeginFree PROVE UnitsInv'
  OBVIOUS
<1>1. /\ pc = "loaded" /\ pc' = "freeing" /\ TypeOK /\ Closed /\ cur' = NULL
      /\ UNCHANGED <<files, pieces, newline, pos, eof, loaded, heap, prev, first, last, spare>>
  BY DEF BeginFree, input, UnitsInv
<1>2. PICK p \in heap : tmp' = next[p] /\ next' = [next EXCEPT ![p] = NULL]
  BY DEF BeginFree
<1>3. last \in Nat /\ last \in Nodes /\ heap = 1 .. last /\ p \in 1 .. last /\ heap \subseteq Nodes
  BY <1>1, <1>2 DEF Closed, Nodes, TypeOK
<1>4. tmp' = Succ(p) /\ tmp' \in 1 .. last
  BY <1>1, <1>2, <1>3 DEF Closed, Succ
<1>5. heap = Arc(tmp', p)
  <2>1. CASE p = last
    BY <1>3, <1>4, <2>1 DEF Arc, Succ
  <2>2. CASE p # last
    <3>1. tmp' = p + 1 /\ ~(p + 1 <= p)
      BY <1>3, <1>4, <2>2 DEF Succ
    <3>2. 1 .. last = (p + 1 .. last) \cup (1 .. p)
      BY <1>3
    <3> QED
      BY <1>3, <3>1, <3>2 DEF Arc
  <2> QED
    BY <2>1, <2>2
<1>6. next'[p] = NULL /\ \A k \in heap \ {p} : next'[k] = Succ(k)
  BY <1>1, <1>2, <1>3 DEF Closed, TypeOK
<1>7. TypeOK'
  BY <1>1, <1>2, <1>3, <1>4 DEF TypeOK, Files
<1>8. Dismantled'
  BY <1>1, <1>3, <1>4, <1>5, <1>6 DEF Dismantled, Arc, Succ
<1> QED
  BY <1>1, <1>7, <1>8 DEF UnitsInv, Building

LEMMA FreeNodeInv == UnitsInv /\ FreeNode => UnitsInv'
<1> SUFFICES ASSUME UnitsInv, FreeNode PROVE UnitsInv'
  OBVIOUS
<1>1. /\ pc = "freeing" /\ pc' = "freeing" /\ TypeOK /\ Dismantled /\ next[tmp] # NULL
      /\ tmp' = next[tmp] /\ heap' = heap \ {tmp}
      /\ UNCHANGED <<files, pieces, newline, pos, eof, loaded, next, prev, first, last, spare, cur>>
  BY DEF FreeNode, input, UnitsInv, Without
<1>2. PICK p \in 1 .. last : /\ heap = Arc(tmp, p) /\ next[p] = NULL
                             /\ \A n \in heap \ {p} : next[n] = Succ(n)
  BY <1>1 DEF Dismantled
<1>3. last \in Nat /\ last \in Nodes /\ tmp \in 1 .. last /\ p # tmp
  BY <1>1, <1>2 DEF Dismantled, Nodes
<1>4. tmp \in heap /\ tmp' = Succ(tmp) /\ tmp' \in 1 .. last
  BY <1>1, <1>2, <1>3 DEF Arc, Succ
<1>5. heap' = Arc(tmp', p)
  BY <1>1, <1>2, <1>3, <1>4 DEF Arc, Succ
<1>6. TypeOK'
  BY <1>1, <1>3, <1>4 DEF TypeOK, Files, Nodes
<1>7. Dismantled'
  BY <1>1, <1>2, <1>3, <1>4, <1>5 DEF Dismantled, Arc, Succ
<1> QED
  BY <1>1, <1>6, <1>7 DEF UnitsInv, Building

LEMMA FreeLastInv == UnitsInv /\ FreeLast => UnitsInv'
<1> SUFFICES ASSUME UnitsInv, FreeLast PROVE UnitsInv'
  OBVIOUS
<1>1. /\ pc = "freeing" /\ pc' = "freed" /\ TypeOK /\ Dismantled /\ next[tmp] = NULL /\ heap' = heap \ {tmp}
      /\ UNCHANGED <<files, pieces, newline, pos, eof, loaded, next, prev, first, last, spare, cur, tmp>>
  BY DEF FreeLast, input, UnitsInv
<1>2. PICK p \in 1 .. last : /\ heap = Arc(tmp, p) /\ next[p] = NULL
                             /\ \A n \in heap \ {p} : next[n] = Succ(n)
  BY <1>1 DEF Dismantled
<1>3. last \in Nat /\ tmp \in 1 .. last /\ tmp \in heap
  BY <1>1, <1>2 DEF Dismantled, Nodes, Arc
<1>4. tmp = p
  BY <1>1, <1>2, <1>3 DEF Succ, NULL
<1>5. heap' = {}
  BY <1>1, <1>2, <1>3, <1>4 DEF Arc
<1>6. TypeOK'
  BY <1>1 DEF TypeOK, Files
<1> QED
  BY <1>1, <1>5, <1>6 DEF UnitsInv, Building

LEMMA NextUnits == UnitsInv /\ [Next]_vars => UnitsInv'
<1>1. UnitsInv /\ UNCHANGED vars => UnitsInv'
  <2> SUFFICES ASSUME UnitsInv, UNCHANGED vars PROVE UnitsInv'
    OBVIOUS
  <2>1. UNCHANGED <<pc, files, pieces, newline, pos, eof, loaded, heap, next, prev, first, last, spare, cur, tmp>>
    BY DEF vars, input, list
  <2>2. TypeOK' /\ (pc' = "start" => last' = UNSET /\ pos' = 0 /\ loaded' = <<>>)
    BY <2>1 DEF UnitsInv, TypeOK, Files
  <2>3. Building' => Chain' /\ Counted'
    BY <2>1 DEF UnitsInv, Building, Chain, Counted
  <2>4. pc' = "read" => Reading'
    BY <2>1 DEF UnitsInv, Reading, UnitsOf
  <2>5. pc' = "loaded" => Closed'
    BY <2>1 DEF UnitsInv, Closed, Succ
  <2>6. pc' = "freeing" => Dismantled'
    BY <2>1 DEF UnitsInv, Dismantled, Succ, Arc
  <2> QED
    BY <2>1, <2>2, <2>3, <2>4, <2>5, <2>6 DEF UnitsInv
<1> QED
  BY <1>1, StartInv, OpenFileInv, ReadUnitInv, EndFileInv, LoopListInv, WalkInv, BeginFreeInv, FreeNodeInv,
     FreeLastInv DEF Next

-----------------------------------------------------------------------------
(* The theorems.                                                           *)

\* The list is a chain while the files are read, a ring afterwards and an arc of it
\* while it is freed, and no file is half loaded (unit.c:13-152).
THEOREM UnitsInvariance == Spec => []UnitsInv
  BY InitUnits, NextUnits, PTL DEF Spec

\* Types, for any number of files of any length: the nodes suffice (unit.c:18, 92).
THEOREM UnitsTypeCorrect == Spec => []TypeOK
  BY UnitsInvariance, PTL DEF UnitsInv

\* At the end of a file what was loaded is what the file holds, in its order
\* (unit.c:54-101).
THEOREM LoadsWhatIsThereCorrect == Spec => []LoadsWhatIsThere
<1>1. UnitsInv => LoadsWhatIsThere
  <2> SUFFICES ASSUME UnitsInv, pc = "read", eof PROVE LoadsWhatIsThere
    BY DEF LoadsWhatIsThere
  <2>1. Reading /\ pos = Len(pieces)
    BY DEF UnitsInv, Reading
  <2>2. \A s \in UnitsOf(pieces) : s + ANS_COUNT + 1 <= Len(pieces)
    BY DEF UnitsOf
  <2> QED
    BY <2>1, <2>2 DEF Reading, LoadsWhatIsThere
<1> QED
  BY <1>1, UnitsInvariance, PTL

\* The list is one ring in both directions: no part of it is closed under next
\* (unit.c:95-117).
THEOREM RingCorrect == Spec => []Ring
<1>1. UnitsInv => Ring
  <2> SUFFICES ASSUME UnitsInv, pc = "loaded" PROVE Ring
    BY DEF Ring
  <2>1. last \in Nat \ {0} /\ heap = 1 .. last /\ \A n \in heap : next[n] = Succ(n) /\ prev[Succ(n)] = n
    BY DEF UnitsInv, Closed, Nodes
  <2>2. heap # {} /\ \A n \in heap : next[n] \in heap /\ prev[next[n]] = n
    BY <2>1 DEF Succ
  <2>3. ASSUME NEW part \in SUBSET heap, part # {}, \A n \in part : next[n] \in part, part # heap PROVE FALSE
    <3>1. PICK m \in part : \A n \in part : n <= m
      <4>1. part \in SUBSET Nat /\ part \subseteq 0 .. last
        BY <2>1
      <4> QED
        BY <2>1, <2>3, <4>1, LeastGreatest
    <3>2. m = last /\ 1 \in part
      BY <2>1, <2>3, <3>1 DEF Succ
    <3>3. PICK k \in heap \ part : \A n \in heap \ part : k <= n
      <4>1. heap \ part # {}
        BY <2>3
      <4>2. heap \ part \in SUBSET Nat
        BY <2>1
      <4> QED
        BY <4>1, <4>2, LeastGreatest
    <3>4. k - 1 \in part /\ k - 1 # last
      BY <2>1, <3>2, <3>3
    <3> QED
      BY <2>1, <2>3, <3>3, <3>4 DEF Succ
  <2> QED
    BY <2>2, <2>3 DEF Ring
<1> QED
  BY <1>1, UnitsInvariance, PTL

\* Rooms on their way along the list and unit_deque_free() look at allocated nodes
\* only (room.c:129-133, unit.c:144-148).
THEOREM NoDanglingCorrect == Spec => []NoDangling
<1>1. UnitsInv => NoDangling
  <2>1. ASSUME UnitsInv, pc = "freeing" PROVE tmp \in heap /\ next[tmp] \in heap \cup {NULL}
    BY <2>1 DEF UnitsInv, Dismantled, Arc, Succ, Nodes
  <2> QED
    BY <2>1 DEF UnitsInv, Closed, NoDangling
<1> QED
  BY <1>1, UnitsInvariance, PTL

\* unit_deque_free() frees every node (unit.c:125-152).
THEOREM AllFreedCorrect == Spec => []AllFreed
<1>1. UnitsInv => AllFreed
  BY DEF UnitsInv, AllFreed
<1> QED
  BY <1>1, UnitsInvariance, PTL
=============================================================================
