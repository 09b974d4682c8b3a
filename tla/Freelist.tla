------------------------------ MODULE Freelist ------------------------------
(***************************************************************************)
(* The first version of the free-list allocator, freelist_alloc.h in       *)
(* src/common/memory.  A unit is 8 bytes: the smallest alignment, and half *)
(* of a header or of a node.  The client asks for whole units.             *)
(***************************************************************************)
EXTENDS BufferClient, FreeNodes

FlHeader == 2      (* sizeof(Freelist_Allocation_Header) *)

(* freelist_free_all() writes the first node at the start of the buffer. *)
ASSUME FlNodeAssumption == Size >= NodeSize

(* freelist_free_all(), also called by freelist_init().  "header" holds the
   allocation headers by the pointer they precede; "leaked" is not in the code:
   the blocks freelist_free() did not put on the list.                     *)
FlEmpty ==
  [list |-> << [addr |-> Base, size |-> Size] >>, used |-> 0, block_count |-> 1,
   header |-> << >>, leaked |-> {}]

FlPadding(b, align) == PaddingFor(b.addr, align, FlHeader)

(* The block a pointer belongs to, and how much of it is the client's. *)
FlBlock(m, p) ==
  [addr |-> p - FlHeader - m.header[p].alignment_padding, size |-> m.header[p].block_size]
FlRoom(m, p) == m.header[p].block_size - FlHeader - m.header[p].alignment_padding

(* freelist_find_first(), and freelist_find_best(), which stops there, too. *)
FlFind(m, n, align) ==
  LET Fits(b) == b.size >= n + FlPadding(b, align) IN FirstNode(m.list, Fits)

(* Does a rest of that size become a node of its own? *)
FlSplits(rest) == rest > FlHeader /\ rest > NodeSize

(* freelist_alloc_align(): the heap after the call, and what it returns. *)
FlAllocAlign(m, asked, align) ==
  LET n == AtLeast(asked, NodeSize)
      i == FlFind(m, n, align)
      node == m.list[i]
      need == n + FlPadding(node, align)
      p == node.addr + FlPadding(node, align)
      rest == [addr |-> node.addr + need, size |-> node.size - need]
      taken == IF FlSplits(rest.size) THEN need ELSE node.size
      split == IF FlSplits(rest.size) THEN NodeInsert(m, i + 1, rest) ELSE m
  IN  IF i = 0 THEN [mem |-> m, p |-> NULL]
      ELSE [p |-> p,
            mem |-> [NodeRemove(split, i) EXCEPT
              !.used = @ + taken,
              !.header = Extended(@, p, [block_size |-> taken,
                                         alignment_padding |-> p - FlHeader - node.addr])]]

(* freelist_free() and freelist_coalescence(). *)
FlFreed(m, p) ==
  PutFree([m EXCEPT !.used = @ - m.header[p].block_size,
                    !.header = Restrict(@, DOMAIN @ \ {p})],
          p, FlBlock(m, p))

(* The node right behind the block of p, 0 if there is none. *)
FlBehind(m, p) == LET Follows(b) == b.addr = p + FlRoom(m, p) IN FirstNode(m.list, Follows)

(* Mutant of FlGrown: the counter takes what was asked, not what was gained. *)
FlGrownExtra(m, p, extra) ==
  LET i == FlBehind(m, p)
      node == m.list[i]
      rest == [addr |-> node.addr + extra, size |-> node.size - extra]
      gained == IF rest.size >= FlHeader THEN extra ELSE node.size
      cut == IF rest.size >= FlHeader THEN [m EXCEPT !.list[i] = rest] ELSE NodeRemove(m, i)
  IN  [cut EXCEPT !.header[p].block_size = @ + gained, !.used = @ + extra]

(* freelist_realloc_sized(), growing in place by "extra" units. *)
FlGrown(m, p, extra) ==
  LET i == FlBehind(m, p)
      node == m.list[i]
      rest == [addr |-> node.addr + extra, size |-> node.size - extra]
      gained == IF rest.size >= FlHeader THEN extra ELSE node.size
      cut == IF rest.size >= FlHeader THEN [m EXCEPT !.list[i] = rest] ELSE NodeRemove(m, i)
  IN  [cut EXCEPT !.header[p].block_size = @ + gained, !.used = @ + gained]

(* freelist_realloc_sized(), growing: in place, or by an allocation, a copy and
   a release.                                                              *)
FlGrow(m, p, n, align) ==
  LET extra == n - FlRoom(m, p)
      moved == FlAllocAlign(m, n, align)
  IN  IF FlBehind(m, p) # 0 /\ m.list[FlBehind(m, p)].size >= extra
      THEN [mem |-> FlGrown(m, p, extra), p |-> p]
      ELSE IF moved.p = NULL THEN moved
      ELSE [mem |-> FlFreed(moved.mem, p), p |-> moved.p]

(* freelist_realloc_sized(), shrinking: what is too small for a node goes to
   the node right behind the block, or stays where it is.                  *)
FlShrunk(m, p, spare) ==
  LET i == FlBehind(m, p)
      from == p + FlRoom(m, p) - spare
      Above(b) == b.addr >= from
      at == FirstNode(m.list, Above)
      pos == IF at = 0 THEN Len(m.list) + 1 ELSE at
      less == [m EXCEPT !.used = @ - spare, !.header[p].block_size = @ - spare]
  IN  IF spare >= NodeSize
      THEN MergeIfAdjacent(NodeInsert(less, pos, [addr |-> from, size |-> spare]), pos)
      ELSE IF i = 0 THEN m
      ELSE [less EXCEPT !.list[i] = [addr |-> from, size |-> @.size + spare]]

(* freelist_realloc() of p to n # 0 units, with its asserts: a header's worth
   of memory is free before, and used and free memory add up after.        *)
FlRealloc(m, p, n, align) ==
  LET old == FlRoom(m, p)
      r == IF n > old THEN FlGrow(m, p, n, align)
           ELSE [mem |-> FlShrunk(m, p, old - n), p |-> p]
  IN  IF p % align # 0 THEN [mem |-> m, p |-> NULL, fault |-> "assert"]
      ELSE IF n = old THEN [mem |-> m, p |-> p, fault |-> "none"]
      ELSE IF FreeUnits(m) < FlHeader THEN [mem |-> m, p |-> NULL, fault |-> "assert"]
      ELSE IF n > old /\ n - old > FreeUnits(m) - FlHeader
      THEN [mem |-> m, p |-> NULL, fault |-> "none"]
      ELSE [mem |-> r.mem, p |-> r.p,
            fault |-> IF FreeUnits(r.mem) + r.mem.used = Size THEN "none" ELSE "assert"]

FreelistInit == mem = FlEmpty

FreelistAlloc(v) ==
  /\ ~Live(v)
  /\ \E n \in Requests, align \in Alignments :
       LET r == FlAllocAlign(mem, n, align)
       IN  mem' = r.mem /\ Keep(v, r.p, n, align)
  /\ UNCHANGED fault

(* freelist_free(), and freelist_realloc() to 0. *)
FreelistFree(v) ==
  /\ Live(v)
  /\ mem' = FlFreed(mem, ptr[v])
  /\ Forget({v})
  /\ UNCHANGED fault

FreelistRealloc(v) ==
  /\ Live(v)
  /\ \E n \in Requests :
       LET r == FlRealloc(mem, ptr[v], n, want[v].align)
       IN  /\ mem' = r.mem
           /\ fault' = r.fault
           /\ Keep(v, r.p, n, want[v].align)

FreelistFreeAll ==
  /\ mem' = FlEmpty
  /\ Forget(Var)
  /\ UNCHANGED fault

FreelistNext ==
  \/ \E v \in Var : FreelistAlloc(v) \/ FreelistFree(v) \/ FreelistRealloc(v)
  \/ FreelistFreeAll

(* Free nodes, blocks and what was leaked tile the buffer; the list ascends
   with no two nodes that touch (validate_freelist_order()); the counters tell
   how much is in blocks and how many nodes there are; each variable has a
   block with room for what it asked for.                                  *)
FreelistSound ==
  LET blocks == {FlBlock(mem, p) : p \in DOMAIN mem.header}
      all == Range(mem.list) \cup blocks \cup mem.leaked
  IN  /\ \A b, c \in all : b # c => Extent(b) \cap Extent(c) = {}
      /\ UNION {Extent(b) : b \in all} = Unit
      /\ \A i \in 1 .. Len(mem.list) - 1 :
           mem.list[i].addr + mem.list[i].size < mem.list[i + 1].addr
      /\ mem.used = Cardinality(UNION {Extent(b) : b \in blocks})
      /\ mem.block_count = Len(mem.list)
      /\ DOMAIN mem.header = {ptr[v] : v \in Var} \ {NULL}
      /\ \A v \in Var : Live(v) => FlRoom(mem, ptr[v]) >= want[v].size
=============================================================================
