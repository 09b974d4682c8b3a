-------------------------------- MODULE Tlsf --------------------------------
(***************************************************************************)
(* The two-level segregated fit allocator of src/common/memory/tlsf.cpp.   *)
(*                                                                         *)
(* A free block is in the list of its size class: the power of two below   *)
(* its size (first level) and the 2^L2Log2 equal parts up to the next one  *)
(* (second level).  Two levels of bitmaps say which lists have a block.    *)
(* The index of a list is the pair of its levels; a bitmap is the set of   *)
(* the bits that are on.  Each block has a node, and the nodes without one *)
(* are on a stack.  An assert that fails stops the program.                *)
(***************************************************************************)
EXTENDS Integers, SequencesExt

CONSTANTS
  Var,         (* the client's Allocation variables                        *)
  Requests,    (* the sizes it asks for                                    *)
  L2Log2,      (* L2_LOG2_BINCOUNT, 3 in the code                          *)
  Bits,        (* the width of sizes and offsets, 32 in the code           *)
  MaxAllocs    (* m_maxAllocs                                              *)

(* On these constants.  Allocators assumes it. *)
TlsfAssumption ==
  /\ L2Log2 \in Nat \ {0} /\ Bits \in Nat /\ L2Log2 < Bits
  /\ MaxAllocs \in Nat \ {0, 1}
  /\ Requests \subseteq 1 .. 2 ^ Bits - 2 ^ (Bits - 1 - L2Log2)

NULL == -1                     (* NULLPTR and INVALID_INDEX *)
MinSize == 2 ^ L2Log2         (* MIN_SIZE_ALLOWED          *)
Total == 2 ^ Bits - 1
Node == 0 .. MaxAllocs - 1
FirstLevel == 0 .. Bits - 1 - L2Log2
SecondLevel == 0 .. 2 ^ L2Log2 - 1

-----------------------------------------------------------------------------
(* Size classes. *)
Msb(m) == Max({b \in 0 .. Bits - 1 : 2 ^ b <= m})

(* indexRounddown(): the class a block of that size belongs to. *)
Class(size) ==
  LET l1 == Msb(size)
  IN  <<l1 - L2Log2, (size - 2 ^ l1) \div 2 ^ (l1 - L2Log2)>>

(* indexRoundup(): the first class all of whose blocks are large enough. *)
RoundUp(size) == Class(size + 2 ^ (Msb(size) - L2Log2) - 1)

(* Mutant of Find: the second level goes on where it was. *)
FindOn(t, c) ==
  LET here == {l \in t.l2[c[1]] : c[1] \in t.l1 /\ l >= c[2]}
      higher == {h \in t.l1 : h > c[1] /\ \E l \in t.l2[h] : l >= c[2]}
  IN  IF here # {} THEN {<<c[1], Min(here)>>}
      ELSE {<<h, Min({l \in t.l2[h] : l >= c[2]})>> : h \in {Min(higher) : x \in higher}}

(* findSuitableFreelist(): the first class from c on with a bit that is on; a
   set of one class, or of none.                                           *)
Find(t, c) ==
  LET here == {l \in t.l2[c[1]] : c[1] \in t.l1 /\ l >= c[2]}
      higher == {h \in t.l1 : h > c[1] /\ t.l2[h] # {}}
  IN  IF here # {} THEN {<<c[1], Min(here)>>}
      ELSE {<<h, Min(t.l2[h])>> : h \in {Min(higher) : x \in higher}}

-----------------------------------------------------------------------------
(* Nodes and lists. *)
Unused == [offset |-> NULL, size |-> 0, next |-> NULL, prev |-> NULL,
           aoPrevious |-> NULL, aoNext |-> NULL, allocated |-> FALSE]

(* m_emptyNodeStack up to its top.  Its bottom is never taken. *)
HasNode(t) == Len(t.store) > 1

(* insertNode(): a node for a free block, at the head of its list. *)
InsertNode(t, size, offset) ==
  LET c == Class(size)
      head == t.heads[c]
      i == Last(t.store)
      nodes == [t.nodes EXCEPT
        ![i] = [@ EXCEPT !.next = head, !.prev = NULL, !.size = size, !.offset = offset]]
      marked == IF head # NULL THEN [t EXCEPT !.nodes = [nodes EXCEPT ![head].prev = i]]
                ELSE [t EXCEPT !.nodes = nodes, !.l1 = @ \cup {c[1]}, !.l2[c[1]] = @ \cup {c[2]}]
  IN  [marked EXCEPT !.store = Front(@), !.heads[c] = i]

(* Mutant of EmptyList: the first level's bit stays on. *)
EmptyListL2(t, c) == [t EXCEPT !.heads[c] = NULL, !.l2[c[1]] = @ \ {c[2]}]

(* The last block of a class is taken: the bits go off. *)
EmptyList(t, c) ==
  [t EXCEPT !.heads[c] = NULL,
            !.l2[c[1]] = @ \ {c[2]},
            !.l1 = IF t.l2[c[1]] \ {c[2]} = {} THEN @ \ {c[1]} ELSE @]

(* The head of list c is taken, and next follows it. *)
TakeHead(t, c, next) ==
  IF next = NULL THEN EmptyList(t, c)
  ELSE [t EXCEPT !.heads[c] = next, !.nodes[next].prev = NULL]

(* A node that is not the head leaves its list. *)
TakeInner(t, n) ==
  LET linked == IF n.next = NULL THEN t ELSE [t EXCEPT !.nodes[n.next].prev = n.prev]
  IN  [linked EXCEPT !.nodes[n.prev].next = n.next]

(* removeNode(): a free block leaves its list, and its node is put back. *)
RemoveNode(t, i) ==
  LET n == t.nodes[i]
      out == IF n.prev = NULL THEN TakeHead(t, Class(n.size), n.next) ELSE TakeInner(t, n)
  IN  [out EXCEPT !.nodes[i] = Unused, !.store = Append(@, i)]

(* Its asserts. *)
Removable(t, i) ==
  LET n == t.nodes[i]
  IN  /\ ~n.allocated /\ n.offset # NULL
      /\ n.prev = NULL => t.heads[Class(n.size)] = i

(* validate(): the neighbours of the allocated blocks. *)
Validated(t) ==
  \A i \in Node : t.nodes[i].offset # NULL /\ t.nodes[i].allocated =>
    LET n == t.nodes[i] IN
    /\ n.aoNext # NULL /\ t.nodes[n.aoNext].offset # NULL =>
         /\ t.nodes[n.aoNext].aoPrevious = i
         /\ n.offset + n.size = t.nodes[n.aoNext].offset
    /\ n.aoPrevious # NULL /\ t.nodes[n.aoPrevious].offset # NULL =>
         /\ t.nodes[n.aoPrevious].aoNext = i
         /\ t.nodes[n.aoPrevious].offset + t.nodes[n.aoPrevious].size = n.offset

-----------------------------------------------------------------------------
VARIABLES
  tlsf,    (* the allocator: levels l1 and l2, heads, nodes, store          *)
  ptr,     (* the client's Allocations                                      *)
  fault    (* "none", or what stopped the program: no "memory", no "nodes",
              or an "assert" about the allocator itself                     *)

vars == <<tlsf, ptr, fault>>

Running == fault = "none"

(* An Allocation that was not made yet. *)
NoAllocation == [offset |-> NULL, nodeIndex |-> NULL]

Init ==
  /\ tlsf = InsertNode([l1 |-> {},
                        l2 |-> [l \in FirstLevel |-> {}],
                        heads |-> [c \in FirstLevel \X SecondLevel |-> NULL],
                        nodes |-> [i \in Node |-> Unused],
                        store |-> [k \in 1 .. MaxAllocs |-> MaxAllocs - k]],
                       Total, 0)
  /\ ptr = [v \in Var |-> NoAllocation]
  /\ fault = "none"

Rounded(s) == Max({s, MinSize})

(* What is left of node h after size: too small, or a block of its own. *)
Rest(t, h, size) == t.nodes[h].size - size

(* The head of a list is cut, and the rest becomes a free block behind it. *)
Split(t, h, size) ==
  LET i == Last(t.store)
      n == t.nodes[h]
      free == InsertNode(t, Rest(t, h, size), n.offset + size)
      linked == IF n.aoNext = NULL THEN free
                ELSE [free EXCEPT !.nodes[n.aoNext].aoPrevious = i]
  IN  IF Rest(t, h, size) < MinSize THEN t
      ELSE [linked EXCEPT !.nodes[h].size = size, !.nodes[h].aoNext = i,
                          !.nodes[i].aoPrevious = h, !.nodes[i].aoNext = n.aoNext]

(* allocate(): an assert stops the program when no list has a block, or no
   node is left for the rest of one.                                       *)
Refuse(v, s) ==
  /\ Running
  /\ ptr[v] = NoAllocation
  /\ LET found == Find(tlsf, RoundUp(Rounded(s)))
     IN  \/ found = {} /\ fault' = "memory"
         \/ /\ \E c \in found : Rest(tlsf, tlsf.heads[c], Rounded(s)) >= MinSize
            /\ ~HasNode(tlsf)
            /\ fault' = "nodes"
  /\ UNCHANGED <<tlsf, ptr>>

(* Otherwise it takes the head of the list that was found, cut to size. *)
Allocate(v, s) ==
  /\ Running
  /\ ptr[v] = NoAllocation
  /\ \E c \in Find(tlsf, RoundUp(Rounded(s))) :
       LET h == tlsf.heads[c]
           taken == TakeHead(tlsf, c, tlsf.nodes[h].next)
           sound == tlsf.nodes[h].size >= Rounded(s) /\ ~tlsf.nodes[h].allocated
       IN  /\ Rest(tlsf, h, Rounded(s)) >= MinSize => HasNode(tlsf)
           /\ tlsf' = [Split(taken, h, Rounded(s)) EXCEPT !.nodes[h].allocated = TRUE]
           /\ ptr' = [ptr EXCEPT ![v] = [offset |-> tlsf.nodes[h].offset, nodeIndex |-> h]]
           /\ fault' = IF sound /\ Validated(tlsf') THEN "none" ELSE "assert"

FreeNeighbour(t, n) == n # NULL /\ ~t.nodes[n].allocated

(* free(): the block grows over the free block before it. *)
MergePrevious(t, i) ==
  LET n == t.nodes[i]
      p == n.aoPrevious
      prev == t.nodes[p]
      grown == [RemoveNode(t, p) EXCEPT
        !.nodes[i] = [@ EXCEPT !.size = n.size + prev.size, !.offset = prev.offset,
                               !.aoPrevious = prev.aoPrevious]]
  IN  IF ~FreeNeighbour(t, p) THEN t
      ELSE IF prev.aoPrevious = NULL THEN grown
      ELSE [grown EXCEPT !.nodes[prev.aoPrevious].aoNext = i]

(* And over the free block behind it. *)
MergeNext(t, i) ==
  LET n == t.nodes[i]
      x == n.aoNext
      next == t.nodes[x]
      grown == [RemoveNode(t, x) EXCEPT
        !.nodes[i] = [@ EXCEPT !.size = n.size + next.size, !.aoNext = next.aoNext]]
  IN  IF ~FreeNeighbour(t, x) THEN t
      ELSE IF next.aoNext = NULL THEN grown
      ELSE [grown EXCEPT !.nodes[next.aoNext].aoPrevious = i]

(* Then its node is put back, taken again by insertNode(), and linked. *)
PutFree(t, i) ==
  LET n == t.nodes[i]
      back == [t EXCEPT !.store = Append(@, i)]
      j == Last(back.store)
  IN  [InsertNode(back, n.size, n.offset) EXCEPT
         !.nodes[j] = [@ EXCEPT !.aoPrevious = n.aoPrevious, !.aoNext = n.aoNext,
                                !.allocated = FALSE]]

Free(v) ==
  /\ Running
  /\ ptr[v] # NoAllocation
  /\ LET i == ptr[v].nodeIndex
         before == tlsf.nodes[i].aoPrevious
         merged == MergePrevious(tlsf, i)
         behind == merged.nodes[i].aoNext
         sound ==
           /\ tlsf.nodes[i].allocated
           /\ FreeNeighbour(tlsf, before) =>
                Removable(tlsf, before) /\ tlsf.nodes[before].offset < tlsf.nodes[i].offset
           /\ FreeNeighbour(merged, behind) =>
                Removable(merged, behind) /\ merged.nodes[behind].offset > merged.nodes[i].offset
           /\ Len(MergeNext(merged, i).store) < MaxAllocs
     IN  /\ tlsf' = PutFree(MergeNext(merged, i), i)
         /\ ptr' = [ptr EXCEPT ![v] = NoAllocation]
         /\ fault' = IF sound /\ Validated(tlsf') THEN "none" ELSE "assert"

Next == \E v \in Var : Free(v) \/ \E s \in Requests : Allocate(v, s) \/ Refuse(v, s)

-----------------------------------------------------------------------------
Pointer == Node \cup {NULL}

(* No assert about the allocator's own structures ever fails. *)
TypeOK ==
  /\ tlsf.l1 \subseteq FirstLevel
  /\ tlsf.l2 \in [FirstLevel -> SUBSET SecondLevel]
  /\ tlsf.heads \in [FirstLevel \X SecondLevel -> Pointer]
  /\ tlsf.nodes \in [Node -> [offset : 0 .. Total \cup {NULL}, size : 0 .. Total,
                              next : Pointer, prev : Pointer, aoPrevious : Pointer,
                              aoNext : Pointer, allocated : BOOLEAN]]
  /\ tlsf.store \in Seq(Node)
  /\ \A v \in Var : ptr[v] = NoAllocation \/ ptr[v] \in [offset : 0 .. Total, nodeIndex : Node]
  /\ fault \in {"none", "memory", "nodes"}

Live == {i \in Node : tlsf.nodes[i].offset # NULL}
FreeNodes == {i \in Live : ~tlsf.nodes[i].allocated}
ClassOf(i) == Class(tlsf.nodes[i].size)

(* The blocks tile the buffer in the order of their neighbour links, no two
   free blocks are neighbours, and the allocated ones are the client's.    *)
Tiled ==
  /\ \E i \in Live : tlsf.nodes[i].offset = 0 /\ tlsf.nodes[i].aoPrevious = NULL
  /\ \A i \in Live : LET n == tlsf.nodes[i] IN
       /\ n.size >= MinSize
       /\ IF n.aoNext = NULL THEN n.offset + n.size = Total
          ELSE LET x == tlsf.nodes[n.aoNext] IN
               /\ n.aoNext \in Live /\ x.aoPrevious = i /\ n.offset + n.size = x.offset
               /\ n.allocated \/ x.allocated
  /\ \A i, j \in Live : i # j => tlsf.nodes[i].offset # tlsf.nodes[j].offset
  /\ \A v, w \in Var : v # w /\ ptr[v] # NoAllocation => ptr[v] # ptr[w]
  /\ {[offset |-> tlsf.nodes[i].offset, nodeIndex |-> i] : i \in Live \ FreeNodes}
       = {ptr[v] : v \in Var} \ {NoAllocation}

(* The list of class c: its nodes up to the n-th. *)
Listed(c) ==
  LET upto[n \in 0 .. MaxAllocs] ==
        IF n = 0 THEN {tlsf.heads[c]} \ {NULL}
        ELSE upto[n - 1] \cup ({tlsf.nodes[i].next : i \in upto[n - 1]} \ {NULL})
  IN  upto[MaxAllocs]

(* Lists, bitmaps and the stack of nodes agree with the blocks: a free block is
   in the list of its class and in no other, links go both ways, a bit is on
   exactly where a list is not empty, and a node without a block is on the
   stack, once.                                                            *)
ListsAgree ==
  /\ \A c \in FirstLevel \X SecondLevel :
       /\ Listed(c) = {i \in FreeNodes : ClassOf(i) = c}
       /\ c[2] \in tlsf.l2[c[1]] <=> tlsf.heads[c] # NULL
  /\ \A l \in FirstLevel : l \in tlsf.l1 <=> tlsf.l2[l] # {}
  /\ \A i \in FreeNodes : LET n == tlsf.nodes[i] IN
       /\ n.prev = NULL <=> tlsf.heads[ClassOf(i)] = i
       /\ n.next # NULL => tlsf.nodes[n.next].prev = i
  /\ Node \ Live = ToSet(tlsf.store)
  /\ IsInjective(tlsf.store)

(* allocate() takes a block of the smallest class whose blocks are all large
   enough, and runs out of memory only when no such block is free.         *)
NotAfter(c, d) == c[1] < d[1] \/ (c[1] = d[1] /\ c[2] <= d[2])
Fitting(s) == {i \in FreeNodes : NotAfter(RoundUp(Rounded(s)), ClassOf(i))}
FitStep ==
  \A v \in Var, s \in Requests :
    /\ Refuse(v, s) /\ fault' = "memory" => Fitting(s) = {}
    /\ Allocate(v, s) =>
         LET h == ptr'[v].nodeIndex
         IN  h \in Fitting(s) /\ \A i \in Fitting(s) : NotAfter(ClassOf(h), ClassOf(i))

(* The units of v's block, from the beginning of the buffer. *)
BlockOf(v) ==
  IF ptr[v] = NoAllocation THEN {}
  ELSE ptr[v].offset .. ptr[v].offset + tlsf.nodes[ptr[v].nodeIndex].size - 1
=============================================================================
