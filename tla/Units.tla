-------------------------------- MODULE Units --------------------------------
(***************************************************************************)
(* The questions: unit_deque_init() reads them from the files of ./units   *)
(* into a circular doubly linked list, the rooms walk along it, and        *)
(* unit_deque_free() takes it apart.                                       *)
(*                                                                         *)
(* A file is the sequence of pieces fgets() makes of it: its lines, or, as *)
(* fgets() reads at most 403 characters, several pieces of a longer line,  *)
(* all but the last of them long and the last of any length.  A piece is   *)
(* its length class, and for the shortest whether it is a digit that names *)
(* an answer.  The heap is the set of nodes allocated.                     *)
(***************************************************************************)
EXTENDS Integers, Sequences

CONSTANTS
  ANS_COUNT,   \* answers of a question (const.h:14)
  PieceKinds,  \* the pieces that occur in files
  MaxPieces,   \* bound: pieces of a file
  MaxFiles     \* bound: files

\* "digit" 1..4 and "other" single characters (2 with the newline), "short" fits
\* an answer (at most 81), "mid" a question (at most 201), "long" nothing.
ASSUME UnitsAssumption ==
  /\ ANS_COUNT \in Nat /\ MaxPieces \in Nat /\ MaxFiles \in Nat
  /\ PieceKinds \subseteq {"digit", "other", "short", "mid", "long"}

FIELDS == ANS_COUNT + 2            \* question, answers, number of the right one
NULL   == 0
UNSET  == -1                       \* a local variable before its first assignment
Nodes  == 1 .. 1 + MaxFiles * MaxPieces     \* more than the units of all files

VARIABLES
  pc,                  \* where the program is
  files,               \* files read so far
  pieces, newline,     \* the file being read, and whether it ends with a newline
  pos, eof,            \* pieces read, feof()
  loaded,              \* units of this file: number of the first piece of each
  heap, next, prev,    \* nodes allocated, their links
  first, last, spare,  \* locals; spare is the code's next
  cur,                 \* where a room is in the list
  tmp                  \* tmp2 of unit_deque_free()

input == <<files, pieces, newline, pos, eof, loaded>>
list  == <<heap, next, prev, first, last, spare>>
vars  == <<pc, input, list, cur, tmp>>

-----------------------------------------------------------------------------
(* Reading a unit.                                                         *)

FitsQuest(p)   == p \in {"digit", "other", "short", "mid"}
FitsAns(p)     == p \in {"digit", "other", "short"}
NamesAnswer(p) == p = "digit"

\* The six pieces behind pos make a unit.
IsUnit ==
  /\ pos + FIELDS <= Len(pieces)
  /\ FitsQuest(pieces[pos + 1])
  /\ \A k \in 2 .. ANS_COUNT + 1 : FitsAns(pieces[pos + k])
  /\ NamesAnswer(pieces[pos + FIELDS])

\* feof() after n more pieces are asked for: it takes a read beyond the end, or a
\* last line without a newline.
FeofNoNewline(n) == pos + n = Len(pieces) /\ ~newline
Feof(n) == pos + n > Len(pieces) \/ (pos + n = Len(pieces) /\ ~newline)

Files == UNION {[1 .. n -> PieceKinds] : n \in 0 .. MaxPieces}

\* The node calloc() returns.
NoNode == NULL
Fresh == CHOOSE n \in Nodes \ heap : \A m \in Nodes \ heap : n <= m

Init ==
  /\ pc = "start" /\ files = 0
  /\ pieces = <<>> /\ newline = TRUE /\ pos = 0 /\ eof = TRUE /\ loaded = <<>>
  /\ heap = {} /\ next = [n \in Nodes |-> NULL] /\ prev = next
  /\ first = UNSET /\ last = UNSET /\ spare = UNSET
  /\ cur = NULL /\ tmp = NULL

\* The first node; "failed" is a return of NULL, "undefined" what happens to a
\* server that goes on after undefined behaviour: here without a directory, when
\* the uninitialised last is returned.
Start ==
  /\ pc = "start"
  /\ \/ pc' = "failed" /\ UNCHANGED <<heap, first, spare>>
     \/ /\ pc' \in {"scan", "undefined"}
        /\ heap' = {1} /\ first' = 1 /\ spare' = 1
  /\ UNCHANGED <<input, next, prev, last, cur, tmp>>

\* readdir() finds one more file that can be opened.
OpenFile ==
  /\ pc = "scan" /\ files < MaxFiles
  /\ files' = files + 1
  /\ pieces' \in Files /\ newline' \in BOOLEAN
  /\ pos' = 0 /\ eof' = FALSE /\ loaded' = <<>>
  /\ pc' = "read"
  /\ UNCHANGED <<list, cur, tmp>>

\* A question or an answer is asked for that the file does not have: input keeps what
\* the fgets() before left, or is not set at all, and loses its last character again.
AsksBeyond == pos + FIELDS - 1 > Len(pieces)

\* One turn of the loop over a file: what does not make a unit is dropped and its
\* node used again.  Once input is empty input[strlen(input) - 1] is written before
\* the array; whether that harms anything is the compiler's choice.
ReadUnit ==
  /\ pc = "read" /\ ~eof
  /\ pos' = IF pos + FIELDS <= Len(pieces) THEN pos + FIELDS ELSE Len(pieces)
  /\ eof' = Feof(FIELDS)
  /\ \/ /\ ~IsUnit
        /\ pc' = "read" \/ (AsksBeyond /\ pc' = "undefined")
        /\ UNCHANGED <<list, loaded>>
     \/ /\ IsUnit
        /\ loaded' = Append(loaded, pos + 1)
        /\ last' = spare /\ spare' = Fresh
        /\ heap' = heap \cup {Fresh}
        /\ next' = [next EXCEPT ![spare] = Fresh]
        /\ prev' = [prev EXCEPT ![Fresh] = spare]
        /\ UNCHANGED <<pc, first>>
     \/ /\ IsUnit                      \* calloc() fails; the list is not a ring yet
        /\ pc' = "failed" /\ last' = spare /\ heap' = heap \ {spare}
        /\ UNCHANGED <<loaded, next, prev, first, spare>>
  /\ UNCHANGED <<files, pieces, newline, cur, tmp>>

EndFile ==
  /\ pc = "read" /\ eof
  /\ pc' = "scan"
  /\ pieces' = <<>> /\ newline' = TRUE /\ pos' = 0 /\ loaded' = <<>>
  /\ UNCHANGED <<files, eof, list, cur, tmp>>

\* The end of the list.
LinkForward  == next' = [next EXCEPT ![last] = first] /\ UNCHANGED prev
LinkBackward == prev' = [prev EXCEPT ![first] = last] /\ UNCHANGED next
CloseRing    == next' = [next EXCEPT ![last] = first] /\ prev' = [prev EXCEPT ![first] = last]

\* No more files: the spare node is freed and the list closed.  Without any unit
\* the only node is gone and last is not initialised.
LoopList ==
  /\ pc = "scan"
  /\ heap' = heap \ {spare}
  /\ \/ /\ last # UNSET
        /\ CloseRing /\ cur' = last /\ pc' = "loaded"
     \/ /\ last = UNSET
        /\ pc' = "undefined" /\ UNCHANGED <<next, prev, cur>>
  /\ UNCHANGED <<input, first, last, spare, tmp>>

\* A room draws a question: it goes 1..5 units ahead, one at a time.
Walk ==
  /\ pc = "loaded"
  /\ cur' = next[cur]
  /\ UNCHANGED <<pc, input, list, tmp>>

-----------------------------------------------------------------------------
(* unit_deque_free(), from any unit of the list.                           *)

BeginFree ==
  /\ pc = "loaded"
  /\ \E point \in heap : tmp' = next[point] /\ next' = [next EXCEPT ![point] = NULL]
  /\ pc' = "freeing" /\ cur' = NULL
  /\ UNCHANGED <<input, heap, prev, first, last, spare>>

\* What free() leaves allocated.
Forget(n)  == heap
Without(n) == heap \ {n}

\* The loop stops at the node without a successor.

FreeNode ==
  /\ pc = "freeing" /\ next[tmp] # NULL
  /\ tmp' = next[tmp] /\ heap' = Without(tmp)
  /\ UNCHANGED <<pc, input, next, prev, first, last, spare, cur>>

\* The node the list was entered at.
FreeLast ==
  /\ pc = "freeing" /\ next[tmp] = NULL
  /\ heap' = heap \ {tmp}
  /\ pc' = "freed"
  /\ UNCHANGED <<input, next, prev, first, last, spare, cur, tmp>>

Next == \/ Start \/ OpenFile \/ ReadUnit \/ EndFile \/ LoopList
        \/ Walk \/ BeginFree \/ FreeNode \/ FreeLast

Spec == Init /\ [][Next]_vars

\* The loops go on; that a write before input does harm is not counted on.
Turn     == ReadUnit /\ pc' # "undefined"
FairSpec == Spec /\ WF_vars(Turn \/ EndFile) /\ WF_vars(FreeNode \/ FreeLast)

-----------------------------------------------------------------------------
(* What is claimed of the list.                                            *)

\* The types of the variables; nodes are allocated as often as there are units in
\* the files, and one more.
TypeOK ==
  /\ pc \in {"start", "scan", "read", "loaded", "freeing", "freed", "failed", "undefined"}
  /\ files \in 0 .. MaxFiles /\ pieces \in Files /\ newline \in BOOLEAN
  /\ pos \in 0 .. Len(pieces) /\ eof \in BOOLEAN /\ loaded \in Seq(1 .. MaxPieces)
  /\ heap \subseteq Nodes
  /\ next \in [Nodes -> Nodes \cup {NULL}] /\ prev \in [Nodes -> Nodes \cup {NULL}]
  /\ {first, last, spare} \subseteq Nodes \cup {UNSET}
  /\ {cur, tmp} \subseteq Nodes \cup {NULL}

\* The reference: a file holds a unit in every six pieces that are one; the place
\* of none depends on the others being good.
UnitsOf(file) ==
  {s \in DOMAIN file :
     /\ \E g \in 0 .. Len(file) : s = g * FIELDS + 1
     /\ s + ANS_COUNT + 1 <= Len(file)
     /\ file[s] \in {"digit", "other", "short", "mid"}
     /\ \A k \in s + 1 .. s + ANS_COUNT : file[k] \in {"digit", "other", "short"}
     /\ file[s + ANS_COUNT + 1] = "digit"}

\* What is loaded from a file is what is in it, in its order, whether it ends with
\* a newline or not (unit.c:54: with one the loop runs once more, and nothing is
\* left to read).
LoadsWhatIsThere ==
  pc = "read" /\ eof =>
    /\ \A i, j \in DOMAIN loaded : i < j => loaded[i] < loaded[j]
    /\ {loaded[i] : i \in DOMAIN loaded} = UnitsOf(pieces)

\* The list is one ring of all nodes, in both directions.
Ring ==
  pc = "loaded" =>
    /\ heap # {}
    /\ \A n \in heap : next[n] \in heap /\ prev[next[n]] = n
    /\ \A part \in SUBSET heap : (part # {} /\ \A n \in part : next[n] \in part) => part = heap

\* Nobody looks at a node that is not allocated: rooms on their way along the list
\* and unit_deque_free(), which reads a successor before it frees a node.
NoDangling ==
  /\ pc = "loaded" => cur \in heap
  /\ pc = "freeing" => tmp \in heap /\ next[tmp] \in heap \cup {NULL}

\* Every node is freed.
AllFreed == pc = "freed" => heap = {}

\* Every file is read to its end and the list is taken apart to its end.
LoopsEnd == /\ pc = "read" ~> pc # "read"
            /\ pc = "freeing" ~> pc = "freed"
=============================================================================
