------------------------------ MODULE Freelist2 ------------------------------
(***************************************************************************)
(* Freelist2 of src/common/memory/freelist2_alloc.h: a free-list allocator *)
(* over one buffer whose blocks carry a header, with a hash table from the *)
(* start of each block to the pointer it gave out, and a defragmenter that *)
(* moves blocks down and corrects the variables that own them; with the    *)
(* handles of src/common/memory/handle.h among its clients.                *)
(*                                                                         *)
(* Addresses and sizes count units of 8 bytes: the smallest alignment, and *)
(* the greatest common divisor of the header's 48 and the node's 16 bytes. *)
(* The client asks for whole units.                                        *)
(***************************************************************************)
EXTENDS FreeNodes

CONSTANT MaxStale
  (* bound: the client calls free_all() only where at most so many stale copies
     are then left in the hash table                                        *)

VARIABLES
  fl,          (* the allocator: its struct and what it wrote to the buffer *)
  stale,       (* what the hash table may hold besides fl.table             *)
  ptr,         (* the client's variables                                    *)
  want,        (* the size the client asked for, per variable               *)
  home,        (* where each variable lies: outside the buffer (itself), or in
                  the first word of the block of another one                *)
  phase        (* "client", or "defragment" while that loop runs            *)

vars == <<fl, stale, ptr, want, home, phase>>

HeaderSize == 6    (* sizeof(Freelist2_Allocation_Header) *)

(* The struct: "list" is the free list from head on, "header" the allocation
   headers by the pointer they precede, which also stands for the header in
   "child_header".  An owner, the address of a variable, is the variable itself
   or, where it lies in a block, the pointer to that block.
   Two fields are not in the code: "leaked" holds the blocks freelist2_free()
   did not put on the list, and "fault" says what stopped the program, if
   anything did.                                                           *)
Empty ==
  [list |-> << [addr |-> Base, size |-> Size] >>, used |-> 0, block_count |-> 1,
   table |-> << >>, header |-> << >>, leaked |-> {}, fault |-> "none"]

Fault(h, f) == [h EXCEPT !.fault = f]

(* What a client's variable is called is not an address in the buffer. *)
ASSUME OwnerAssumption == Var \cap (Unit \cup {NULL}) = {}

(* free_all() writes the first node at the start of the buffer. *)
ASSUME NodeAssumption == Size >= NodeSize

-----------------------------------------------------------------------------
(* The hash table.  free_all() does not clear it, and ht_add() of a key that is
   still there may store the key again, in front of its first copy.  fl.table
   has the pointer entered last for the start of each block; "stale" has, as
   <<start, pointer>>, every other copy that may be left, one that was in fact
   overwritten included.  ht_find_entry() finds any copy of a key, as a resize
   puts a wrapped one first.                                               *)
Forgotten == {e[1] : e \in stale}
EntriesOf(table, starts) == {<<s, table[s]>> : s \in starts \cap DOMAIN table}

HtGet(s) ==
  LET found == {e[2] : e \in {d \in stale \cup EntriesOf(fl.table, {s}) : d[1] = s}}
  IN  IF found = {} THEN {NULL} ELSE found

(* ht_remove_key() takes the copy it finds: of a key with several, the one that
   was entered last may stay.                                              *)
HtDel == stale' = stale \cup EntriesOf(fl.table, Forgotten \ DOMAIN fl'.table)

Padding(a, align) == PaddingFor(a, align, HeaderSize)

(* Where a block starts, given the pointer into it. *)
Start(h, p) == p - HeaderSize - h.header[p].alignment_padding
Room(h, p) == h.header[p].block_size - HeaderSize - h.header[p].alignment_padding
Block(h, p) == [addr |-> Start(h, p), size |-> h.header[p].block_size]

(* find_best() stops at the first node that fits, as find_first() does. *)
FindBest(h, size, align) ==
  LET Fits(b) == b.size >= size + Padding(b.addr, align) IN FirstNode(h.list, Fits)

(* What is left of node b when "need" units are cut off its front: a node of
   its own if it can hold more than a header, else nothing.                *)
Splits(b, need) == b.size - need > HeaderSize
TakenExactly(b, need) == need                                    (* mutant *)
Taken(b, need) == IF Splits(b, need) THEN need ELSE b.size
RestWhole(b, need) == [addr |-> b.addr + need, size |-> b.size]  (* mutant *)
Rest(b, need) == [addr |-> b.addr + need, size |-> b.size - need]

(* alloc_align() where node i fits; the pointer it returns is AllocPtr. *)
AllocPtr(h, i, align) == h.list[i].addr + Padding(h.list[i].addr, align)

AllocAlign(h, i, size, align) ==
  LET node == h.list[i]
      need == size + Padding(node.addr, align)
      p == AllocPtr(h, i, align)
      split == IF Splits(node, need) THEN NodeInsert(h, i + 1, Rest(node, need)) ELSE h
  IN  [NodeRemove(split, i) EXCEPT
         !.used = @ + Taken(node, need),
         !.table = Extended(@, node.addr, p),
         !.header = Extended(@, p, [block_size |-> Taken(node, need),
                                    alignment_padding |-> p - HeaderSize - node.addr,
                                    alignment_requirement |-> align,
                                    pOwner |-> NULL, child_header |-> NULL])]

(* free(): the block leaves the table and goes to the list. *)
FreeBlock(h, p) ==
  LET b == Block(h, p)
      taken == [h EXCEPT !.used = @ - b.size,
                         !.table = Restrict(@, DOMAIN @ \ {b.addr}),
                         !.header = Restrict(@, DOMAIN @ \ {p})]
  IN  IF b.addr \notin DOMAIN h.table THEN Fault(h, "assert")
      ELSE PutFree(taken, p, b)

(* The assert of remaining_space(). *)
Accounted(h) == FreeUnits(h) = Size - h.used

(* realloc_sized(), growing in place: the node right behind the block gives
   what is missing.                                                        *)
Behind(h, p) == LET Follows(n) == n.addr = p + Room(h, p) IN FirstNode(h.list, Follows)

GrowsInPlace(h, p, extra) ==
  Behind(h, p) # 0 /\ h.list[Behind(h, p)].size >= extra

(* Mutant of GrowInPlace: does not count what the block gained. *)
GrowUncounted(h, p, extra) ==
  LET i == Behind(h, p)
      node == h.list[i]
      cut == IF Splits(node, extra) THEN [h EXCEPT !.list[i] = Rest(node, extra)]
                                    ELSE NodeRemove(h, i)
  IN  [cut EXCEPT !.header[p].block_size = @ + Taken(node, extra)]

GrowInPlace(h, p, extra) ==
  LET i == Behind(h, p)
      node == h.list[i]
      cut == IF Splits(node, extra) THEN [h EXCEPT !.list[i] = Rest(node, extra)]
                                    ELSE NodeRemove(h, i)
  IN  [cut EXCEPT !.used = @ + Taken(node, extra),
                  !.header[p].block_size = @ + Taken(node, extra)]

(* realloc_sized(), growing elsewhere: allocate, copy, free the old block.  It
   frees after it allocated; the new header inherits the owner.            *)
GrowByMoving(h, p, i, n, align) ==
  LET q == AllocPtr(h, i, align)
      freed == FreeBlock(AllocAlign(h, i, n, align), p)
  IN  IF freed.fault # "none" THEN freed
      ELSE [freed EXCEPT !.header[q].pOwner = h.header[p].pOwner]

(* realloc_sized(), shrinking: a remainder too small for a node goes to the
   node right behind the block, or stays in the block when there is none.  *)
Shrink(h, p, spare) ==
  LET i == Behind(h, p)
      Above(n) == n.addr >= p + Room(h, p) - spare
      at == FirstNode(h.list, Above)
      less == [h EXCEPT !.used = @ - spare, !.header[p].block_size = @ - spare]
      node == [addr |-> p + Room(h, p) - spare, size |-> spare]
      pos == IF at = 0 THEN Len(h.list) + 1 ELSE at
  IN  IF spare >= NodeSize THEN MergeIfAdjacent(NodeInsert(less, pos, node), pos)
      ELSE IF i = 0 THEN h
      ELSE [less EXCEPT !.list[i] = [addr |-> @.addr - spare, size |-> @.size + spare]]

(* realloc() of p to n # 0 units: what becomes of the heap, and what the call
   returns.  Before it grows a block the code asserts that a header's worth of
   memory is free; it returns NULL where the free memory is less than it needs
   besides that header.                                                    *)
ReallocResult(h, p, n) ==
  LET old == Room(h, p)
      align == h.header[p].alignment_requirement
      i == FindBest(h, AtLeast(n, NodeSize), align)
      refused == n > old /\ n - old > FreeUnits(h) - HeaderSize
      done == IF n < old THEN [fl |-> Shrink(h, p, old - n), p |-> p]
              ELSE IF GrowsInPlace(h, p, n - old)
                   THEN [fl |-> GrowInPlace(h, p, n - old), p |-> p]
              ELSE IF i = 0 THEN [fl |-> h, p |-> NULL]
              ELSE [fl |-> GrowByMoving(h, p, i, AtLeast(n, NodeSize), align),
                    p |-> AllocPtr(h, i, align)]
  IN  IF n = old THEN [fl |-> h, p |-> p]
      ELSE IF ~Accounted(h) \/ (n > old /\ FreeUnits(h) < HeaderSize)
           THEN [fl |-> Fault(h, "assert"), p |-> NULL]
      ELSE IF refused THEN [fl |-> h, p |-> NULL]
      ELSE IF ~Accounted(done.fl) THEN [fl |-> Fault(done.fl, "assert"), p |-> done.p]
      ELSE done

-----------------------------------------------------------------------------
(* The client.  It keeps each pointer in a variable, uses no pointer it freed,
   and keeps the old pointer when realloc() returns NULL.                  *)
Init ==
  /\ fl = Empty
  /\ stale = {}
  /\ ptr = [v \in Var |-> NULL]
  /\ want = [v \in Var |-> 0]
  /\ home = [v \in Var |-> v]
  /\ phase = "client"

Running == fl.fault = "none" /\ phase = "client"

Alloc(v) ==
  /\ Running
  /\ ptr[v] = NULL
  /\ \E n \in Requests, align \in Alignments :
       LET size == AtLeast(n, NodeSize)
           i == FindBest(fl, size, align)
       IN  /\ i # 0
           /\ fl' = AllocAlign(fl, i, size, align)
           /\ ptr' = [ptr EXCEPT ![v] = AllocPtr(fl, i, align)]
           /\ want' = [want EXCEPT ![v] = n]
  /\ UNCHANGED <<stale, home, phase>>

(* The address of v, and what lies in the block of v. *)
Place(v) == IF home[v] = v THEN v ELSE ptr[home[v]]
Outside(v) == ptr[v] # NULL /\ home[v] = v
Inside(v) == {w \in Var \ {v} : home[w] = v}

(* set_allocation_owner() where the table has the pointer: an owner inside the
   buffer is itself managed, and its header gets to know its child.        *)
Owned(h, p, owner) ==
  LET owned == [h EXCEPT !.header[p].pOwner = owner]
  IN  IF owner \in Unit THEN [owned EXCEPT !.header[owner].child_header = p]
      ELSE owned

Ownable(v) == Running /\ Outside(v) /\ ptr[v] \in HtGet(Start(fl, ptr[v]))

(* Its assert, where the table has another pointer or none. *)
SetOwnerFails(v) ==
  /\ Running
  /\ Outside(v)
  /\ HtGet(Start(fl, ptr[v])) # {ptr[v]}
  /\ fl' = Fault(fl, "assert")
  /\ UNCHANGED <<stale, ptr, want, home, phase>>

(* The owner of the block of v is v, as the tests and EmplaceHandle() do it. *)
SetOwner(v) ==
  /\ Ownable(v)
  /\ fl' = Owned(fl, ptr[v], v)
  /\ UNCHANGED <<stale, ptr, want, home, phase>>

(* ImmutableArray: what the object in the block of w allocated a moment ago is
   owned by the first word of that object.                                 *)
SetInnerOwner(v, w) ==
  /\ Ownable(v)
  /\ v # w /\ Outside(w)
  /\ fl.header[ptr[v]].pOwner = NULL
  /\ Inside(v) = {} /\ Inside(w) = {}
  /\ fl' = Owned(fl, ptr[v], ptr[w])
  /\ home' = [home EXCEPT ![v] = w]
  /\ UNCHANGED <<stale, ptr, want, phase>>

(* Handle(Handle &&): w takes over the block of v, and v is NULL. *)
MoveHandle(v, w) ==
  /\ Ownable(v)
  /\ ptr[w] = NULL
  /\ fl' = Owned(fl, ptr[v], w)
  /\ ptr' = [ptr EXCEPT ![w] = ptr[v], ![v] = NULL]
  /\ want' = [want EXCEPT ![w] = want[v], ![v] = 0]
  /\ home' = [x \in Var |-> IF x \in Inside(v) THEN w ELSE home[x]]
  /\ UNCHANGED <<stale, phase>>

(* free(), and realloc(..., 0). *)
Free(v) ==
  /\ Running
  /\ Outside(v) /\ Inside(v) = {}
  /\ fl' = FreeBlock(fl, ptr[v])
  /\ HtDel
  /\ ptr' = [ptr EXCEPT ![v] = NULL]
  /\ want' = [want EXCEPT ![v] = 0]
  /\ UNCHANGED <<home, phase>>

(* Handle::free() of an ImmutableArray, which first frees what it owns. *)
FreeHandle(v, w) ==
  /\ Running
  /\ w \in Inside(v)
  /\ fl' = FreeBlock(FreeBlock(fl, ptr[w]), ptr[v])
  /\ HtDel
  /\ ptr' = [ptr EXCEPT ![v] = NULL, ![w] = NULL]
  /\ want' = [want EXCEPT ![v] = 0, ![w] = 0]
  /\ home' = [home EXCEPT ![w] = w]
  /\ UNCHANGED phase

(* realloc() of a live pointer; that of NULL is Alloc.  When the block moved,
   realloc_sized() writes the new pointer to the owner.  It tells neither the
   header of an owner inside the buffer nor a child: nothing that lies inside
   another object, or holds one, is reallocated.                           *)
Realloc(v) ==
  /\ Running
  /\ Outside(v) /\ Inside(v) = {}
  /\ \E n \in Requests :
       LET r == ReallocResult(fl, ptr[v], n)
       IN  /\ fl' = r.fl
           /\ ptr' = IF r.p = NULL THEN ptr ELSE [ptr EXCEPT ![v] = r.p]
           /\ want' = IF r.p = NULL THEN want ELSE [want EXCEPT ![v] = n]
  /\ HtDel
  /\ UNCHANGED <<home, phase>>

(* free_all(): a new struct, but the hash table keeps all it holds. *)
FreeAll ==
  /\ Running
  /\ fl' = Empty
  /\ stale' = stale \cup EntriesOf(fl.table, DOMAIN fl.table)
  /\ Cardinality(stale') <= MaxStale
  /\ ptr' = [v \in Var |-> NULL]
  /\ want' = [v \in Var |-> 0]
  /\ home' = [v \in Var |-> v]
  /\ UNCHANGED phase

-----------------------------------------------------------------------------
(* defragment(): move the block behind the first node down, until one node is
   left and it reaches the end.                                            *)
Defragmented == Len(fl.list) = 1 /\ Extent(fl.list[1]) \subseteq Unit
                                 /\ fl.list[1].addr + fl.list[1].size = End

Defragment ==
  /\ Running
  /\ fl' = IF fl.list = << >> THEN Fault(fl, "null") ELSE fl
  /\ phase' = "defragment"
  /\ UNCHANGED <<stale, ptr, want, home>>

(* Mutant of Retabled: the moved block is not entered again. *)
RetabledNot(old, new, q) == Restrict(fl.table, DOMAIN fl.table \ {old})

(* The table once the block at "old" has moved to "new", with pointer q. *)
Retabled(old, new, q) == Extended(Restrict(fl.table, DOMAIN fl.table \ {old}), new, q)

(* Mutant of Related: the child is not told. *)
RelatedUp(headers, hd, q) ==
  IF hd.pOwner \in Unit THEN [headers EXCEPT ![hd.pOwner].child_header = q] ELSE headers

(* The headers once the block with the header hd has moved to q: its owner, if
   inside the buffer, and its child are told.                              *)
Related(headers, hd, q) ==
  LET up == IF hd.pOwner \in Unit THEN [headers EXCEPT ![hd.pOwner].child_header = q] ELSE headers
  IN  IF hd.child_header = NULL THEN up ELSE [up EXCEPT ![hd.child_header].pOwner = q]

(* One turn of the loop, for the block p behind node 1. *)
Moved(p) ==
  LET cur == fl.list[1]
      hd == fl.header[p]
      q == align_forward(cur.addr + HeaderSize, hd.alignment_requirement)
      padding == q - HeaderSize - cur.addr
      size == hd.block_size - hd.alignment_padding + padding
      rest == [addr |-> cur.addr + size, size |-> cur.size + hd.block_size - size]
      new == [hd EXCEPT !.block_size = size, !.alignment_padding = padding]
  IN  [q |-> q, rest |-> rest,
       fl |-> [fl EXCEPT
         !.used = @ + padding - hd.alignment_padding,
         !.header = Extended(Restrict(Related(@, hd, q), DOMAIN @ \ {p}), q, new),
         !.table = Retabled(Start(fl, p), cur.addr, q),
         !.list[1] = rest]]

(* The turn goes by what the table has for the block behind node 1: nothing,
   which fails an assert, another block, whose padding fails the next, or an
   address with no header in front.                                        *)
DefragmentMove ==
  /\ phase = "defragment"
  /\ fl.fault = "none"
  /\ ~Defragmented
  /\ LET next == fl.list[1].addr + fl.list[1].size
     IN  \E p \in HtGet(next) :
       LET owner == fl.header[p].pOwner
           fault == CASE p = NULL -> "assert"
                      [] p \notin DOMAIN fl.header -> "garbage"
                      [] Start(fl, p) # next -> "assert"
                      [] owner = NULL -> "null"
                      [] Moved(p).rest.size < NodeSize -> "overwrite"
                      [] Len(fl.list) = 1 -> "null"
                      [] OTHER -> "none"
       IN  IF fault # "none"
           THEN fl' = Fault(fl, fault) /\ ptr' = ptr
           ELSE /\ ptr' = [v \in Var |-> IF Place(v) = owner THEN Moved(p).q ELSE ptr[v]]
                /\ fl' = MergeIfAdjacent(Moved(p).fl, 2)
  /\ HtDel
  /\ UNCHANGED <<want, home, phase>>

DefragmentDone ==
  /\ phase = "defragment"
  /\ fl.fault = "none"
  /\ Defragmented
  /\ phase' = "client"
  /\ UNCHANGED <<fl, stale, ptr, want, home>>

Next ==
  \/ \E v \in Var : Alloc(v) \/ SetOwner(v) \/ SetOwnerFails(v) \/ Free(v) \/ Realloc(v)
  \/ \E v, w \in Var : SetInnerOwner(v, w) \/ MoveHandle(v, w) \/ FreeHandle(v, w)
  \/ FreeAll
  \/ Defragment
  \/ DefragmentMove
  \/ DefragmentDone

Spec == Init /\ [][Next]_vars

(* The loop of defragment() runs; nobody has to call the allocator. *)
FairSpec == Spec /\ WF_vars(DefragmentMove) /\ WF_vars(DefragmentDone)

-----------------------------------------------------------------------------
Address == 0 .. End
BlockRecord == [addr : Address, size : Address]

TypeOK ==
  /\ fl.list \in Seq(BlockRecord)
  /\ fl.used \in 0 .. Size
  /\ fl.block_count \in 0 .. Size
  /\ fl.leaked \subseteq BlockRecord
  /\ DOMAIN fl.table \subseteq Unit
  /\ Range(fl.table) \subseteq Unit
  /\ DOMAIN fl.header \subseteq Unit
  /\ Range(fl.header) \subseteq
       [block_size : 0 .. Size, alignment_padding : 0 .. Size,
        alignment_requirement : Alignments,
        pOwner : Var \cup Unit \cup {NULL}, child_header : Unit \cup {NULL}]
  /\ fl.fault \in {"none", "assert", "null", "overwrite", "garbage"}
  /\ stale \subseteq Unit \X Unit
  /\ ptr \in [Var -> Unit \cup {NULL}]
  /\ want \in [Var -> Requests \cup {0}]
  /\ home \in [Var -> Var]
  /\ phase \in {"client", "defragment"}

Blocks == {Block(fl, p) : p \in DOMAIN fl.header}

(* The free nodes, the allocated blocks and the leaked ones tile the buffer:
   no two overlap and nothing lies between them, whatever was split, merged,
   absorbed or moved.                                                      *)
Tiled ==
  LET all == Range(fl.list) \cup Blocks \cup fl.leaked
  IN  /\ \A b, c \in all : b # c => Extent(b) \cap Extent(c) = {}
      /\ UNION {Extent(b) : b \in all} = Unit

(* freelist2_validate_order() of the tests: the list ascends, and two nodes
   next to each other have been merged.                                    *)
Ordered ==
  \A i \in 1 .. Len(fl.list) - 1 :
    fl.list[i].addr + fl.list[i].size < fl.list[i + 1].addr

(* What the struct counts is what the buffer holds: used, block_count, and the
   table, in which a lookup by the start of a block finds its pointer, and no
   other unless a block had that start when free_all() was called; a start that
   is in no use finds nothing, with the same exception.                    *)
Bookkeeping ==
  /\ fl.used = Cardinality(UNION {Extent(b) : b \in Blocks})
  /\ fl.block_count = Len(fl.list)
  /\ \A p \in DOMAIN fl.header : p \in HtGet(Start(fl, p))
  /\ \A s \in Unit \ Forgotten : \A p \in HtGet(s) \ {NULL} :
       p \in DOMAIN fl.header /\ Start(fl, p) = s

(* Each variable of the client points to a block of its own that is aligned and
   large enough, also after realloc() and defragment() moved it; the header's
   owner is that variable, where it lies now, and no block is without one.  A
   header knows the child of its block, wherever the two have moved.       *)
PointersFollow ==
  /\ DOMAIN fl.header = Range(ptr) \ {NULL}
  /\ \A v, w \in Var : v # w /\ ptr[v] # NULL => ptr[v] # ptr[w]
  /\ \A v \in Var : ptr[v] # NULL =>
       LET p == ptr[v]
           hd == fl.header[p]
       IN  /\ p % hd.alignment_requirement = 0
           /\ Room(fl, p) >= want[v]
           /\ hd.pOwner = Place(v) \/ (home[v] = v /\ hd.pOwner = NULL)
           /\ {hd.child_header} \ {NULL} = {ptr[w] : w \in Inside(v)}

(* Freelist2 implements Heap: no call disturbs the block of another pointer. *)
Abstract == INSTANCE Heap WITH
  block <- [v \in Var |-> IF ptr[v] = NULL THEN {} ELSE Extent(Block(fl, ptr[v]))]

Refinement == Abstract!HSpec

(* What the tests prepare before they call defragment(): every block has an
   owner, an alignment that no free node is smaller than, and a start that no
   free_all() left in the table; no block was leaked, and the last free node
   reaches the end of the buffer.                                          *)
Defragmentable ==
  /\ fl.leaked = {}
  /\ fl.list # << >> /\ Last(fl.list).addr + Last(fl.list).size = End
  /\ \A p \in DOMAIN fl.header :
       /\ fl.header[p].pOwner # NULL
       /\ fl.header[p].alignment_requirement <= NodeSize
       /\ Start(fl, p) \notin Forgotten

(* Then defragment() comes to its end and leaves a single node there ("verify
   only one freenode left after defragmentation", line 774).               *)
DefragmentEnds ==
  (phase = "defragment" /\ Defragmentable) ~> (phase = "client" /\ Defragmented)

(* freelist2_validate_used_memory() of the tests: "Verify used + free memory
   equals total memory".                                                   *)
UsedMemoryAdds == Accounted(fl)

(* "continue while there are more freeblocks or we haven't reached the end of
   managed memory store" (line 646): the loop can start from any free list that
   is not empty, and ends with one node.  It dereferences no NULL there, when
   every block has an owner.                                               *)
AllOwned == \A p \in DOMAIN fl.header : fl.header[p].pOwner # NULL
DefragmentHasNode ==
  phase = "defragment" /\ fl.list # << >> /\ AllOwned => fl.fault # "null"
=============================================================================
