--------------------------- MODULE BuddyAllocator ---------------------------
(***************************************************************************)
(* The buddy allocator of src/common/memory/buddy_alloc.h, in a build      *)
(* without asserts: buddy_allocator_init() asserts of its header's size    *)
(* (16) that it is no power of two.  A unit is such a header.              *)
(*                                                                         *)
(* "mem" is the sequence of the blocks in the order of their addresses:    *)
(* buddy_block_next() of block i is block i + 1, and "tail" comes after    *)
(* the last.  The code takes for the buddy of a block the one behind it.   *)
(***************************************************************************)
EXTENDS BufferClient, Sequences, SequencesExt

CONSTANT BuddyAlign    (* the alignment, at least that of a header *)

ASSUME BuddyAssumption ==
  /\ \E k \in 0 .. Size : Size = BuddyAlign * 2 ^ k
  /\ BuddyAlign \in {2 ^ k : k \in 0 .. Size} /\ Base % BuddyAlign = 0

BuddyInit == mem = <<[size |-> Size, is_free |-> TRUE]>>

(* Where block i begins, and where the last one ends. *)
BlockAt(bs, i) == Base + SizeUpTo(bs, i - 1)

(* Mutant of SizeRequired: the header is forgotten. *)
SizeRequiredBare(n) == CHOOSE s \in {2 ^ k : k \in 0 .. n} : s >= n /\ s < 2 * n

(* buddy_block_size_required() *)
SizeRequired(n) ==
  LET sizes == {BuddyAlign * 2 ^ k : k \in 0 .. n}
      size == align_forward(n + 1, BuddyAlign)
  IN  CHOOSE s \in sizes : s >= size /\ \A t \in sizes : t >= size => s <= t

(* What n turns of a loop make of the state s.  A turn of a loop that is over
   changes nothing.                                                        *)
Turns(Turn(_), s, n) ==
  LET after[k \in 0 .. n] == IF k = 0 THEN s ELSE Turn(after[k - 1])
  IN  after[n]

(* Block i is cut in two. *)
Halved(bs, i) ==
  LET half == bs[i].size \div 2
  IN  InsertAt([bs EXCEPT ![i].size = half], i + 1, [size |-> half, is_free |-> TRUE])

(* A turn of the loop of buddy_block_split(): the right half is cut again. *)
SplitTurn(l, n) ==
  IF n < l.bs[l.i].size THEN [bs |-> Halved(l.bs, l.i), i |-> l.i + 1] ELSE l

(* buddy_block_split() to the size n.  A result is the blocks and the index of
   the one found, 0 for NULL.                                              *)
BlockSplit(bs, i, n) ==
  LET l == Turns(LAMBDA x : SplitTurn(x, n), [bs |-> bs, i |-> i], Size)
  IN  [bs |-> l.bs, found |-> IF n <= l.bs[l.i].size THEN l.i ELSE 0]

(* Block i and the one behind it are both free, and of one size. *)
Buddies(bs, i) == bs[i].is_free /\ bs[i + 1].is_free /\ bs[i].size = bs[i + 1].size

Joined(bs, i) == RemoveAt([bs EXCEPT ![i].size = 2 * @], i + 1)

(* Block i is free and large enough, and better than the best so far. *)
Better(bs, i, best, n) ==
  bs[i].is_free /\ n <= bs[i].size /\ (best = 0 \/ bs[i].size <= bs[best].size)
BetterBuddy(bs, i, best, n) == Better(bs, i, best, n) /\ (best = 0 \/ bs[i].size < bs[best].size)

(* A turn of the loop of buddy_block_find_best(): it joins buddies as it goes,
   and takes the smallest free block that is large enough.                 *)
ScanTurn(l, n) ==
  LET joined == Joined(l.bs, l.i)
      left == IF Better(l.bs, l.i, l.best, n) THEN l.i ELSE l.best
      right == IF BetterBuddy(l.bs, l.i + 1, left, n) THEN l.i + 1 ELSE left
  IN  IF l.i >= Len(l.bs) THEN l
      ELSE IF Buddies(l.bs, l.i)
      THEN [bs |-> joined, i |-> l.i + 1,
            best |-> IF Better(joined, l.i, l.best, n) THEN l.i ELSE l.best]
      ELSE [bs |-> l.bs, best |-> right,
            i |-> IF l.bs[l.i].size <= l.bs[l.i + 1].size THEN l.i + 2 ELSE l.i + 1]

ScanBest(bs, n) ==
  Turns(LAMBDA x : ScanTurn(x, n), [bs |-> bs, i |-> 1, best |-> 0], Len(bs))

FindBestBlock(bs, n) ==
  LET scan == ScanBest(bs, n)
  IN  IF Len(bs) = 1 /\ bs[1].is_free THEN BlockSplit(bs, 1, n)
      ELSE IF scan.best # 0 THEN BlockSplit(scan.bs, scan.best, n)
      ELSE [bs |-> scan.bs, found |-> 0]

(* A turn of the inner loop of buddy_block_coalescence(); "again" says whether
   it joined buddies that were not the last.                               *)
PassTurn(l) ==
  IF l.i >= Len(l.bs) THEN l
  ELSE IF Buddies(l.bs, l.i)
  THEN [bs |-> Joined(l.bs, l.i), i |-> l.i + 1, again |-> l.again \/ l.i + 1 < Len(l.bs)]
  ELSE [l EXCEPT !.i = IF l.bs[l.i].size < l.bs[l.i + 1].size THEN l.i + 1 ELSE l.i + 2]

(* One pass, if there is to be another one. *)
CoalescePass(l) ==
  IF l.again THEN Turns(PassTurn, [bs |-> l.bs, i |-> 1, again |-> FALSE], Len(l.bs)) ELSE l

(* buddy_block_coalescence(): each pass but the last joins two blocks. *)
Coalesced(bs) == Turns(CoalescePass, [bs |-> bs, i |-> 1, again |-> TRUE], Len(bs)).bs

(* buddy_allocator_alloc(): it joins all it can before it gives up. *)
BuddyAlloc(v) ==
  /\ ~Live(v)
  /\ \E n \in Requests :
       LET size == SizeRequired(n)
           first == FindBestBlock(mem, size)
           r == IF first.found # 0 THEN first ELSE FindBestBlock(Coalesced(first.bs), size)
       IN  IF r.found = 0 THEN mem' = r.bs /\ UNCHANGED <<ptr, want>>
           ELSE /\ mem' = [r.bs EXCEPT ![r.found].is_free = FALSE]
                /\ Keep(v, BlockAt(r.bs, r.found) + BuddyAlign, n, BuddyAlign)
  /\ UNCHANGED fault

(* buddy_allocator_free() *)
BuddyFree(v) ==
  /\ Live(v)
  /\ \E i \in DOMAIN mem :
       /\ BlockAt(mem, i) = ptr[v] - BuddyAlign
       /\ mem' = Coalesced([mem EXCEPT ![i].is_free = TRUE])
  /\ Forget({v})
  /\ UNCHANGED fault

BuddyNext == \E v \in Var : BuddyAlloc(v) \/ BuddyFree(v)

(* The blocks tile the buffer, and the ones in use are the client's, with room
   for what it asked for.                                                  *)
BuddySound ==
  /\ BlockAt(mem, Len(mem) + 1) = End
  /\ \A v \in Var : Live(v) =>
       \E i \in DOMAIN mem :
         /\ BlockAt(mem, i) + BuddyAlign = ptr[v]
         /\ ~mem[i].is_free
         /\ mem[i].size >= BuddyAlign + want[v].size
  /\ Cardinality({i \in DOMAIN mem : ~mem[i].is_free}) = Cardinality({v \in Var : Live(v)})
=============================================================================
