----------------------------- MODULE FreeNodes ------------------------------
(***************************************************************************)
(* The free list both versions of the free-list allocator keep inside the  *)
(* buffer: a sequence of blocks [addr, size], linked from head on.  A heap *)
(* h is a record with the list and its length in "block_count".            *)
(***************************************************************************)
EXTENDS Buffer, Sequences, FiniteSets, SequencesExt, Functions

NodeSize == 2      (* sizeof of a node: a pointer and a size *)

Extent(b) == b.addr .. b.addr + b.size - 1

(* The index of the first node that satisfies P, 0 when there is none. *)
FirstNode(list, P(_)) ==
  IF \E i \in DOMAIN list : P(list[i])
  THEN CHOOSE i \in DOMAIN list : P(list[i]) /\ \A j \in 1 .. i - 1 : ~P(list[j])
  ELSE 0

(* node_insert(): b becomes the node number i. *)
NodeInsert(h, i, b) ==
  [h EXCEPT !.list = InsertAt(@, i, b), !.block_count = @ + 1]

NodeRemove(h, i) ==
  [h EXCEPT !.list = RemoveAt(@, i), !.block_count = @ - 1]

(* Mutant of MergeNext: the blocks need not touch. *)
MergeNextLoose(h, i) ==
  IF {i, i + 1} \subseteq DOMAIN h.list
  THEN [NodeRemove(h, i + 1) EXCEPT !.list[i].size = @ + h.list[i + 1].size]
  ELSE h

(* Node i swallows node i + 1 if that one begins where it ends. *)
MergeNext(h, i) ==
  IF /\ {i, i + 1} \subseteq DOMAIN h.list
     /\ h.list[i].addr + h.list[i].size = h.list[i + 1].addr
  THEN [NodeRemove(h, i + 1) EXCEPT !.list[i].size = @ + h.list[i + 1].size]
  ELSE h

(* Mutant of MergeIfAdjacent: forgets the node before. *)
MergeIfNextAdjacent(h, i) == MergeNext(h, i)

(* Node i merges with the one behind it, and with the one before it. *)
MergeIfAdjacent(h, i) == MergeNext(MergeNext(h, i), i - 1)

FreeUnits(h) == SizeUpTo(h.list, Len(h.list))

(* free(): b goes in front of the first node above p, and nowhere when there
   is none; "leaked", which is not in the code, remembers it.              *)
PutFree(h, p, b) ==
  LET Above(n) == p < n.addr
      i == FirstNode(h.list, Above)
  IN  IF h.list = << >> THEN [h EXCEPT !.list = <<b>>, !.block_count = 1]
      ELSE IF i = 0 THEN [h EXCEPT !.leaked = @ \cup {b}]
      ELSE MergeIfAdjacent(NodeInsert(h, i, b), i)
=============================================================================
