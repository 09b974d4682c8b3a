--------------------------- MODULE Freelist2_proofs ---------------------------
(***************************************************************************)
(* Proofs about Freelist2, for every buffer, set of variables, request and *)
(* alignment: the nodes, the blocks and the leaked blocks tile the buffer, *)
(* the struct's counts are right, each variable points to its own block    *)
(* wherever it was moved, and every step is one of Heap or a stutter.      *)
(***************************************************************************)
EXTENDS Freelist2, FreeNodes_proofs

Header ==
  [block_size : Nat, alignment_padding : Nat, alignment_requirement : Alignments,
   pOwner : Var \cup Unit \cup {NULL}, child_header : Unit \cup {NULL}]
Faults == {"none", "assert", "null", "overwrite", "garbage"}

Shaped(h) ==
  /\ DOMAIN h = {"list", "used", "block_count", "table", "header", "leaked", "fault"}
  /\ h.list \in Seq(Node) /\ h.used \in Int /\ h.block_count \in Nat
  /\ h.table \in Partial(Unit, Unit) /\ h.header \in Partial(Unit, Header)
  /\ h.leaked \in SUBSET Node /\ h.fault \in Faults

(* The addresses of a block, and of all blocks. *)
Cells(h, p) == Extent(Block(h, p))
Held(h) == UNION {Cells(h, p) : p \in DOMAIN h.header}

(* A block lies in the buffer and is found by the table. *)
Placed(h, p) ==
  /\ h.header[p].block_size > HeaderSize + h.header[p].alignment_padding
  /\ Base <= Start(h, p)
  /\ Start(h, p) + h.header[p].block_size <= End
  /\ p % h.header[p].alignment_requirement = 0
  /\ Start(h, p) \in DOMAIN h.table
  /\ h.table[Start(h, p)] = p

(* What the table was last told of every address is of a block that starts
   there now.                                                              *)
Keyed(h) == \A a \in DOMAIN h.table : \E p \in DOMAIN h.header : Start(h, p) = a

(* A leaked block is not in the table. *)
Adrift(h, l) ==
  /\ l \in Node /\ l.size > 0 /\ Base <= l.addr /\ After(l) <= End
  /\ l.addr \notin DOMAIN h.table

(* Every address belongs to a node, to a block or to a leaked block, and to one
   only.                                                                   *)
Covered(h) ==
  \A a \in Unit : \/ a \in FreeSet(h.list)
                  \/ \E p \in DOMAIN h.header : a \in Cells(h, p)
                  \/ \E l \in h.leaked : a \in Extent(l)
Disjoint(h) ==
  /\ \A p \in DOMAIN h.header : Cells(h, p) \cap FreeSet(h.list) = {}
  /\ \A p, q \in DOMAIN h.header : p # q => Cells(h, p) \cap Cells(h, q) = {}
  /\ \A l \in h.leaked : Extent(l) \cap FreeSet(h.list) = {}
  /\ \A l \in h.leaked, p \in DOMAIN h.header : Extent(l) \cap Cells(h, p) = {}
  /\ \A l, m \in h.leaked : l # m => Extent(l) \cap Extent(m) = {}

(* The heap between calls: "Heap" says that the nodes are counted. *)
HeapInv(h) ==
  /\ Shaped(h)
  /\ Linked(h.list) /\ Heap(h)
  /\ \A p \in DOMAIN h.header : Placed(h, p)
  /\ \A l \in h.leaked : Adrift(h, l)
  /\ Covered(h) /\ Disjoint(h) /\ Keyed(h)
  /\ h.used = Cardinality(Held(h))

(* What the client needs besides PointersFollow: an inner variable and the one
   it lies in are both in use, and there is one level of nesting.          *)
Nested ==
  \A v \in Var : home[v] # v =>
    ptr[v] # NULL /\ ptr[home[v]] # NULL /\ home[home[v]] = home[v]

ClientInv ==
  /\ ptr \in [Var -> Unit \cup {NULL}]
  /\ want \in [Var -> Requests \cup {0}]
  /\ home \in [Var -> Var]
  /\ phase \in {"client", "defragment"}
  /\ Nested
  /\ PointersFollow
  /\ phase = "defragment" /\ fl.fault = "none" => fl.list # << >>

IInv == HeapInv(fl) /\ ClientInv

-----------------------------------------------------------------------------
(* What is known of a heap and of a block in it. *)
LEMMA ShapeIs ==
  ASSUME NEW h, Shaped(h)
  PROVE  /\ DOMAIN h = {"list", "used", "block_count", "table", "header", "leaked", "fault"}
         /\ h.list \in Seq(Node) /\ h.used \in Int /\ h.block_count \in Nat
         /\ h.table \in Partial(Unit, Unit) /\ h.header \in Partial(Unit, Header)
         /\ h.leaked \in SUBSET Node /\ h.fault \in Faults
         /\ DOMAIN h.table \subseteq Unit /\ DOMAIN h.header \subseteq Unit
         /\ \A a \in DOMAIN h.table : h.table[a] \in Unit
  BY PartialIs DEF Shaped

LEMMA HeaderIs ==
  ASSUME NEW h, Shaped(h), NEW p \in DOMAIN h.header
  PROVE  /\ p \in Unit /\ p \in Nat /\ h.header[p] \in Header
         /\ h.header[p].block_size \in Nat /\ h.header[p].alignment_padding \in Nat
         /\ h.header[p].alignment_requirement \in Alignments
         /\ h.header[p].pOwner \in Var \cup Unit \cup {NULL}
         /\ h.header[p].child_header \in Unit \cup {NULL}
         /\ Start(h, p) \in Int /\ Start(h, p) = p - 6 - h.header[p].alignment_padding
         /\ Room(h, p) = h.header[p].block_size - 6 - h.header[p].alignment_padding
         /\ Block(h, p) = [addr |-> Start(h, p), size |-> h.header[p].block_size]
         /\ \A a : a \in Cells(h, p) <=>
              a \in Int /\ Start(h, p) <= a /\ a < Start(h, p) + h.header[p].block_size
  <1>1. h.header \in Partial(Unit, Header)
    BY ShapeIs
  <1>2. DOMAIN h.header \subseteq Unit /\ h.header[p] \in Header
    BY <1>1, PartialIs
  <1>3. p \in Unit /\ p \in Nat
    BY <1>2, Bounds
  <1>4. /\ h.header[p].block_size \in Nat /\ h.header[p].alignment_padding \in Nat
        /\ h.header[p].alignment_requirement \in Alignments
        /\ h.header[p].pOwner \in Var \cup Unit \cup {NULL}
        /\ h.header[p].child_header \in Unit \cup {NULL}
    BY <1>2 DEF Header
  <1>5. Start(h, p) \in Int /\ Start(h, p) = p - 6 - h.header[p].alignment_padding
    BY <1>3, <1>4 DEF Start, HeaderSize
  <1>6. \A a : a \in Cells(h, p) <=>
          a \in Int /\ Start(h, p) <= a /\ a < Start(h, p) + h.header[p].block_size
    BY <1>4, <1>5, ExtentIs DEF Cells, Block
  <1>7. QED
    BY <1>2, <1>3, <1>4, <1>5, <1>6 DEF Room, Block, HeaderSize

LEMMA PlacedIs ==
  ASSUME NEW h, Shaped(h), NEW p \in DOMAIN h.header, Placed(h, p)
  PROVE  /\ p \in Cells(h, p) /\ Start(h, p) \in Cells(h, p) /\ Cells(h, p) \subseteq Unit
         /\ Start(h, p) \in Unit /\ Start(h, p) \in Nat
         /\ Room(h, p) \in Nat /\ Room(h, p) > 0
         /\ p + Room(h, p) = Start(h, p) + h.header[p].block_size
         /\ IsFiniteSet(Cells(h, p)) /\ Cardinality(Cells(h, p)) = h.header[p].block_size
  <1>1. /\ p \in Nat
        /\ h.header[p].block_size \in Nat /\ h.header[p].alignment_padding \in Nat
        /\ Start(h, p) \in Int /\ Start(h, p) = p - 6 - h.header[p].alignment_padding
        /\ Room(h, p) = h.header[p].block_size - 6 - h.header[p].alignment_padding
        /\ \A a : a \in Cells(h, p) <=>
             a \in Int /\ Start(h, p) <= a /\ a < Start(h, p) + h.header[p].block_size
    BY HeaderIs
  <1>2. /\ h.header[p].block_size > 6 + h.header[p].alignment_padding
        /\ Base <= Start(h, p) /\ Start(h, p) + h.header[p].block_size <= End
    BY DEF Placed, HeaderSize
  <1>3. /\ p \in Cells(h, p) /\ Start(h, p) \in Cells(h, p)
        /\ Room(h, p) \in Nat /\ Room(h, p) > 0
        /\ p + Room(h, p) = Start(h, p) + h.header[p].block_size
    BY <1>1, <1>2
  <1>4. Cells(h, p) \subseteq Unit
    BY <1>1, <1>2, Bounds
  <1>5. Start(h, p) \in Nat /\ Start(h, p) \in Unit
    BY <1>1, <1>2, <1>3, <1>4, Bounds
  <1>6. /\ Cells(h, p) = Start(h, p) .. Start(h, p) + h.header[p].block_size - 1
        /\ Start(h, p) + h.header[p].block_size - 1 \in Int
    BY <1>1 DEF Cells, Extent, Block
  <1>7. IsFiniteSet(Cells(h, p)) /\ Cardinality(Cells(h, p)) = h.header[p].block_size
    <2> DEFINE lo == Start(h, p)
               hi == Start(h, p) + h.header[p].block_size - 1
    <2>1. lo \in Int /\ hi \in Int /\ ~(lo > hi) /\ hi - lo + 1 = h.header[p].block_size
      BY <1>1, <1>2
    <2>2. Cells(h, p) = lo .. hi
      BY <1>6
    <2> HIDE DEF lo, hi
    <2>3. QED
      BY <2>1, <2>2, FS_Interval
  <1>8. QED
    BY <1>3, <1>4, <1>5, <1>7

-----------------------------------------------------------------------------
(* One block changes: "p" is where it was, "q" where it is, either of which may
   be no block, and the nodes and the block change addresses.             *)
Part(h, p) == IF p \in DOMAIN h.header THEN Cells(h, p) ELSE {}
Same(g, h, r) ==
  /\ g.header[r].block_size = h.header[r].block_size
  /\ g.header[r].alignment_padding = h.header[r].alignment_padding
  /\ g.header[r].alignment_requirement = h.header[r].alignment_requirement
SameEntry(g, h, a) ==
  /\ a \in DOMAIN g.table <=> a \in DOMAIN h.table
  /\ a \in DOMAIN h.table => g.table[a] = h.table[a]

LEMMA SameIs ==
  ASSUME NEW h, Shaped(h), NEW g, Shaped(g), NEW r \in DOMAIN h.header \cap DOMAIN g.header,
         Same(g, h, r)
  PROVE  Start(g, r) = Start(h, r) /\ Room(g, r) = Room(h, r) /\ Cells(g, r) = Cells(h, r)
  BY DEF Same, Start, Room, Cells, Block

LEMMA HeldIs ==
  ASSUME NEW h, HeapInv(h)
  PROVE  /\ Held(h) \subseteq Unit /\ IsFiniteSet(Held(h))
         /\ Cardinality(Held(h)) \in Nat /\ Cardinality(Held(h)) <= Size
  <1>1. \A p \in DOMAIN h.header : Cells(h, p) \subseteq Unit
    BY PlacedIs DEF HeapInv
  <1>2. Held(h) \in SUBSET Unit
    BY <1>1 DEF Held
  <1>3. QED
    BY <1>2, UnitFinite, FS_Subset, FS_CardinalityType

(* The addresses and the entries of the other blocks are not touched. *)
LEMMA OthersStay ==
  ASSUME NEW h, HeapInv(h), NEW g, Shaped(g), NEW p, NEW r \in DOMAIN h.header \ {p},
         r \in DOMAIN g.header, Same(g, h, r),
         \A a \in Unit \ (FreeSet(h.list) \cup Part(h, p)) : SameEntry(g, h, a)
  PROVE  /\ Placed(g, r) /\ Cells(g, r) = Cells(h, r)
         /\ Cells(h, r) \cap (FreeSet(h.list) \cup Part(h, p)) = {}
  <1>1. Shaped(h) /\ Placed(h, r) /\ Disjoint(h)
    BY DEF HeapInv
  <1>2. Start(h, r) \in Cells(h, r) /\ Start(h, r) \in Unit
    BY <1>1, PlacedIs
  <1>3. Cells(h, r) \cap (FreeSet(h.list) \cup Part(h, p)) = {}
    BY <1>1 DEF Disjoint, Part
  <1>4. SameEntry(g, h, Start(h, r))
    BY <1>2, <1>3
  <1>5. Start(g, r) = Start(h, r) /\ Cells(g, r) = Cells(h, r)
    BY <1>1, SameIs
  <1>6. Placed(g, r)
    BY <1>1, <1>4, <1>5 DEF Placed, Same, SameEntry
  <1>7. QED
    BY <1>3, <1>5, <1>6

LEMMA AdriftStays ==
  ASSUME NEW h, HeapInv(h), NEW g, Shaped(g), NEW p, NEW l \in h.leaked,
         \A a \in Unit \ (FreeSet(h.list) \cup Part(h, p)) : SameEntry(g, h, a)
  PROVE  /\ Adrift(g, l) /\ Extent(l) \cap (FreeSet(h.list) \cup Part(h, p)) = {}
         /\ Extent(l) \subseteq Unit /\ l.addr \in Extent(l)
  <1>1. Disjoint(h) /\ Adrift(h, l)
    BY DEF HeapInv
  <1>2. /\ l.addr \in Nat /\ l.size \in Nat /\ l.size > 0 /\ Base <= l.addr
        /\ l.addr + l.size <= End
    BY <1>1 DEF Adrift, Node, After
  <1>3. /\ \A a : a \in Extent(l) <=> a \in Int /\ l.addr <= a /\ a < l.addr + l.size
    BY <1>2, ExtentIs
  <1>4. l.addr \in Extent(l) /\ Extent(l) \subseteq Unit
    BY <1>2, <1>3, Bounds
  <1>5. Extent(l) \cap (FreeSet(h.list) \cup Part(h, p)) = {}
    BY <1>1 DEF Disjoint, Part
  <1>6. SameEntry(g, h, l.addr)
    BY <1>4, <1>5
  <1>7. QED
    BY <1>1, <1>4, <1>5, <1>6 DEF Adrift, SameEntry

(* No key of the table is the address of a node, or of a block but its start. *)
LEMMA KeysIs ==
  ASSUME NEW h, HeapInv(h), NEW a \in DOMAIN h.table
  PROVE  /\ a \notin FreeSet(h.list)
         /\ \A p : a \in Part(h, p) => p \in DOMAIN h.header /\ Start(h, p) = a
  <1>1. Shaped(h) /\ Disjoint(h) /\ \A p \in DOMAIN h.header : Placed(h, p)
    BY DEF HeapInv
  <1>2. PICK r \in DOMAIN h.header : Start(h, r) = a
    BY DEF HeapInv, Keyed
  <1>3. a \in Cells(h, r)
    BY <1>1, <1>2, PlacedIs
  <1>4. a \notin FreeSet(h.list)
    BY <1>1, <1>3 DEF Disjoint
  <1>5. ASSUME NEW p, a \in Part(h, p)
        PROVE  p \in DOMAIN h.header /\ Start(h, p) = a
    <2>1. p \in DOMAIN h.header /\ a \in Cells(h, p)
      BY <1>5 DEF Part
    <2>2. p = r
      BY <1>1, <1>3, <2>1 DEF Disjoint
    <2>3. QED
      BY <1>2, <2>1, <2>2
  <1>6. QED
    BY <1>4, <1>5

(* The keys among the addresses that change. *)
Rekeyed(g, h, p, q) ==
  \A a \in DOMAIN g.table :
    a \in FreeSet(h.list) \cup Part(h, p) => q \in DOMAIN g.header /\ Start(g, q) = a

LEMMA KeyedIs ==
  ASSUME NEW h, HeapInv(h), NEW g, Shaped(g), NEW p, NEW q,
         DOMAIN g.header \ {q} = DOMAIN h.header \ {p},
         \A r \in DOMAIN g.header \ {q} : Same(g, h, r),
         \A a \in Unit \ (FreeSet(h.list) \cup Part(h, p)) : SameEntry(g, h, a),
         Rekeyed(g, h, p, q)
  PROVE  Keyed(g)
  <1>1. Shaped(h) /\ \A r \in DOMAIN h.header : Placed(h, r)
    BY DEF HeapInv
  <1>2. ASSUME NEW a \in DOMAIN g.table
        PROVE  \E r \in DOMAIN g.header : Start(g, r) = a
    <2>1. a \in Unit
      BY ShapeIs
    <2>2. CASE a \in FreeSet(h.list) \cup Part(h, p)
      BY <2>2 DEF Rekeyed
    <2>3. CASE a \notin FreeSet(h.list) \cup Part(h, p)
      <3>1. a \in DOMAIN h.table
        BY <2>1, <2>3 DEF SameEntry
      <3>2. PICK r \in DOMAIN h.header : Start(h, r) = a
        BY <3>1 DEF HeapInv, Keyed
      <3>3. a \in Cells(h, r)
        BY <1>1, <3>2, PlacedIs
      <3>4. r # p
        BY <2>3, <3>3 DEF Part
      <3>5. r \in DOMAIN g.header /\ Same(g, h, r)
        BY <3>4
      <3>6. Start(g, r) = Start(h, r)
        BY <1>1, <3>5, SameIs
      <3>7. QED
        BY <3>2, <3>5, <3>6
    <2>4. QED
      BY <2>2, <2>3
  <1>3. QED
    BY <1>2 DEF Keyed

(* Where the table is the same, and so is the start of the block. *)
LEMMA KeysStay ==
  ASSUME NEW h, HeapInv(h), NEW g, NEW p, DOMAIN g.table \subseteq DOMAIN h.table,
         p \in DOMAIN h.header => p \in DOMAIN g.header /\ Start(g, p) = Start(h, p)
  PROVE  Rekeyed(g, h, p, p)
  BY KeysIs DEF Rekeyed

LEMMA Rebuilt ==
  ASSUME NEW h, HeapInv(h), NEW g, Shaped(g), Linked(g.list), Heap(g), g.leaked = h.leaked,
         NEW p, NEW q, DOMAIN g.header \ {q} = DOMAIN h.header \ {p},
         \A r \in DOMAIN g.header \ {q} : Same(g, h, r),
         \A a \in Unit \ (FreeSet(h.list) \cup Part(h, p)) : SameEntry(g, h, a),
         q \in DOMAIN g.header => Placed(g, q),
         FreeSet(g.list) \cup Part(g, q) = FreeSet(h.list) \cup Part(h, p),
         Part(g, q) \cap FreeSet(g.list) = {},
         Rekeyed(g, h, p, q),
         g.used = h.used - Cardinality(Part(h, p)) + Cardinality(Part(g, q))
  PROVE  HeapInv(g)
  <1> DEFINE P == DOMAIN h.header \ {p}
             R == UNION {Cells(h, r) : r \in P}
             both == FreeSet(h.list) \cup Part(h, p)
  <1>1. Shaped(h) /\ Covered(h) /\ Disjoint(h) /\ h.used = Cardinality(Held(h))
    BY DEF HeapInv
  <1>2. \A r \in P : /\ r \in DOMAIN g.header /\ Placed(g, r) /\ Cells(g, r) = Cells(h, r)
                     /\ Cells(h, r) \cap both = {}
    <2>1. ASSUME NEW r \in P
          PROVE  /\ r \in DOMAIN g.header /\ Placed(g, r) /\ Cells(g, r) = Cells(h, r)
                 /\ Cells(h, r) \cap both = {}
      <3>1. r \in DOMAIN h.header \ {p} /\ r \in DOMAIN g.header /\ Same(g, h, r)
        OBVIOUS
      <3>2. QED
        BY <3>1, OthersStay
    <2>2. QED
      BY <2>1
  <1>3. \A l \in g.leaked : Adrift(g, l) /\ Extent(l) \cap both = {}
    BY AdriftStays
  <1>4. /\ Part(g, q) \subseteq both /\ FreeSet(g.list) \subseteq both
        /\ \A r \in DOMAIN g.header : r = q \/ r \in P
        /\ q \in DOMAIN g.header => Part(g, q) = Cells(g, q)
    BY DEF Part
  <1>5. \A r \in DOMAIN g.header : Placed(g, r)
    BY <1>2, <1>4
  <1>6. Covered(g)
    <2>1. ASSUME NEW a \in Unit
          PROVE  \/ a \in FreeSet(g.list)
                 \/ \E r \in DOMAIN g.header : a \in Cells(g, r)
                 \/ \E l \in g.leaked : a \in Extent(l)
      <3>1. CASE a \in both
        <4>1. a \in FreeSet(g.list) \/ a \in Part(g, q)
          BY <3>1
        <4>2. QED
          BY <4>1 DEF Part
      <3>2. CASE \E r \in P : a \in Cells(h, r)
        BY <1>2, <3>2
      <3>3. CASE \E l \in h.leaked : a \in Extent(l)
        BY <3>3
      <3>4. \/ a \in FreeSet(h.list)
            \/ \E r \in DOMAIN h.header : a \in Cells(h, r)
            \/ \E l \in h.leaked : a \in Extent(l)
        BY <1>1 DEF Covered
      <3>5. (\E r \in DOMAIN h.header : a \in Cells(h, r))
              => a \in Part(h, p) \/ \E r \in P : a \in Cells(h, r)
        BY DEF Part
      <3>6. QED
        BY <3>1, <3>2, <3>3, <3>4, <3>5
    <2>2. QED
      BY <2>1 DEF Covered
  <1>7. Disjoint(g)
    <2>1. \A r \in DOMAIN g.header : Cells(g, r) \cap FreeSet(g.list) = {}
      BY <1>2, <1>4
    <2>2. ASSUME NEW r \in DOMAIN g.header, NEW t \in DOMAIN g.header, r # t
          PROVE  Cells(g, r) \cap Cells(g, t) = {}
      <3>1. CASE r \in P /\ t \in P
        BY <1>1, <1>2, <2>2, <3>1 DEF Disjoint
      <3>2. CASE r \in P /\ t = q
        BY <1>2, <1>4, <3>2
      <3>3. CASE r = q /\ t \in P
        BY <1>2, <1>4, <3>3
      <3>4. QED
        BY <1>4, <2>2, <3>1, <3>2, <3>3
    <2>3. \A l \in g.leaked : Extent(l) \cap FreeSet(g.list) = {}
      BY <1>3, <1>4
    <2>4. ASSUME NEW l \in g.leaked, NEW r \in DOMAIN g.header
          PROVE  Extent(l) \cap Cells(g, r) = {}
      <3>1. CASE r \in P
        BY <1>1, <1>2, <3>1 DEF Disjoint
      <3>2. CASE r = q
        BY <1>3, <1>4, <3>2
      <3>3. QED
        BY <1>4, <3>1, <3>2
    <2>5. \A l, m \in g.leaked : l # m => Extent(l) \cap Extent(m) = {}
      BY <1>1 DEF Disjoint
    <2>6. QED
      BY <2>1, <2>2, <2>3, <2>4, <2>5 DEF Disjoint
  <1>8. g.used = Cardinality(Held(g))
    <2>1. Held(h) = R \cup Part(h, p) /\ R \cap Part(h, p) = {}
      BY <1>2 DEF Held, Part
    <2>2. Held(g) = R \cup Part(g, q)
      <3>1. \A a \in Held(g) : a \in R \/ a \in Part(g, q)
        BY <1>2, <1>4 DEF Held
      <3>2. \A a \in R : a \in Held(g)
        BY <1>2 DEF Held
      <3>3. \A a \in Part(g, q) : a \in Held(g)
        BY DEF Held, Part
      <3>4. QED
        BY <3>1, <3>2, <3>3
    <2>3. R \cap Part(g, q) = {}
      BY <1>2, <1>4
    <2>4. IsFiniteSet(R) /\ IsFiniteSet(Part(h, p)) /\ IsFiniteSet(Part(g, q))
      <3>1. IsFiniteSet(Held(h))
        BY HeldIs
      <3>2. R \in SUBSET Held(h) /\ Part(h, p) \in SUBSET Held(h)
        BY <2>1
      <3>3. Part(g, q) = {} \/ Part(g, q) \subseteq Unit
        BY <1>4, PlacedIs DEF Part
      <3>4. QED
        BY <3>1, <3>2, <3>3, FS_Subset, FS_EmptySet, UnitFinite
    <2> HIDE DEF R
    <2>5. /\ Cardinality(Held(h)) = Cardinality(R) + Cardinality(Part(h, p))
          /\ Cardinality(Held(g)) = Cardinality(R) + Cardinality(Part(g, q))
      <3>1. \A S, T : IsFiniteSet(S) /\ IsFiniteSet(T) /\ S \cap T = {} =>
              Cardinality(S \cup T) = Cardinality(S) + Cardinality(T)
        <4>1. ASSUME NEW S, NEW T, IsFiniteSet(S), IsFiniteSet(T), S \cap T = {}
              PROVE  Cardinality(S \cup T) = Cardinality(S) + Cardinality(T)
          <5>1. /\ Cardinality(S \cup T) = Cardinality(S) + Cardinality(T) - Cardinality(S \cap T)
                /\ Cardinality(S \cap T) = 0
            BY <4>1, FS_Union, FS_EmptySet
          <5>2. Cardinality(S) \in Nat /\ Cardinality(T) \in Nat
            BY <4>1, FS_CardinalityType
          <5>3. QED
            BY <5>1, <5>2
        <4>2. QED
          BY <4>1
      <3>2. QED
        BY <2>1, <2>2, <2>3, <2>4, <3>1
    <2>6. Cardinality(R) \in Nat /\ Cardinality(Part(h, p)) \in Nat /\ Cardinality(Part(g, q)) \in Nat
      BY <2>4, FS_CardinalityType
    <2>7. QED
      BY <1>1, <2>5, <2>6
  <1>9. Keyed(g)
    BY KeyedIs
  <1>10. QED
    BY <1>3, <1>5, <1>6, <1>7, <1>8, <1>9 DEF HeapInv

(* A block is leaked. *)
LEMMA Leaked ==
  ASSUME NEW h, HeapInv(h), NEW g, Shaped(g), Linked(g.list), Heap(g),
         NEW p \in DOMAIN h.header, g.leaked = h.leaked \cup {Block(h, p)},
         DOMAIN g.header = DOMAIN h.header \ {p},
         \A r \in DOMAIN g.header : Same(g, h, r),
         \A a \in Unit \ (FreeSet(h.list) \cup Part(h, p)) : SameEntry(g, h, a),
         DOMAIN g.table \subseteq DOMAIN h.table \ {Start(h, p)},
         FreeSet(g.list) = FreeSet(h.list),
         g.used = h.used - Cardinality(Cells(h, p))
  PROVE  HeapInv(g)
  <1> DEFINE P == DOMAIN h.header \ {p}
             b == Block(h, p)
  <1>1. Shaped(h) /\ Covered(h) /\ Disjoint(h) /\ h.used = Cardinality(Held(h)) /\ Placed(h, p)
    BY DEF HeapInv
  <1>2. \A r \in P : Placed(g, r) /\ Cells(g, r) = Cells(h, r)
    <2>1. ASSUME NEW r \in P
          PROVE  Placed(g, r) /\ Cells(g, r) = Cells(h, r)
      <3>1. r \in DOMAIN h.header \ {p} /\ r \in DOMAIN g.header /\ Same(g, h, r)
        OBVIOUS
      <3>2. QED
        BY <3>1, OthersStay
    <2>2. QED
      BY <2>1
  <1>3. \A l \in h.leaked : Adrift(g, l)
    BY AdriftStays
  <1>4. Adrift(g, b) /\ Extent(b) = Cells(h, p)
    <2>1. /\ b = [addr |-> Start(h, p), size |-> h.header[p].block_size]
          /\ h.header[p].block_size \in Nat /\ h.header[p].alignment_padding \in Nat
      BY <1>1, HeaderIs
    <2>2. Start(h, p) \in Nat
      BY <1>1, PlacedIs
    <2>3. /\ h.header[p].block_size > 6 + h.header[p].alignment_padding
          /\ Base <= Start(h, p) /\ Start(h, p) + h.header[p].block_size <= End
      BY <1>1 DEF Placed, HeaderSize
    <2> HIDE DEF b
    <2>4. /\ b \in Node /\ b.addr = Start(h, p) /\ b.size = h.header[p].block_size
      BY <2>1, <2>2 DEF Node
    <2>5. Adrift(g, b)
      BY <2>1, <2>3, <2>4 DEF Adrift, After
    <2>6. QED
      BY <2>5 DEF b, Cells
  <1> HIDE DEF b
  <1>5. Covered(g)
    <2>1. ASSUME NEW a \in Unit
          PROVE  \/ a \in FreeSet(g.list)
                 \/ \E r \in DOMAIN g.header : a \in Cells(g, r)
                 \/ \E l \in g.leaked : a \in Extent(l)
      <3>1. \/ a \in FreeSet(h.list)
            \/ \E r \in DOMAIN h.header : a \in Cells(h, r)
            \/ \E l \in h.leaked : a \in Extent(l)
        BY <1>1 DEF Covered
      <3>2. CASE \E r \in DOMAIN h.header : a \in Cells(h, r)
        <4>1. CASE \E r \in P : a \in Cells(h, r)
          BY <1>2, <4>1
        <4>2. CASE a \in Cells(h, p)
          <5>1. b \in g.leaked /\ a \in Extent(b)
            BY <1>4, <4>2 DEF b
          <5>2. QED
            BY <5>1
        <4>3. QED
          BY <3>2, <4>1, <4>2
      <3>3. QED
        BY <3>1, <3>2
    <2>2. QED
      BY <2>1 DEF Covered
  <1>6. \A l \in g.leaked : l = b \/ l \in h.leaked
    BY DEF b
  <1>7. Disjoint(g)
    <2>1. \A r \in DOMAIN g.header : Cells(g, r) \cap FreeSet(g.list) = {}
      BY <1>1, <1>2 DEF Disjoint
    <2>2. \A r, t \in DOMAIN g.header : r # t => Cells(g, r) \cap Cells(g, t) = {}
      BY <1>1, <1>2 DEF Disjoint
    <2>3. \A l \in g.leaked : Extent(l) \cap FreeSet(g.list) = {}
      BY <1>1, <1>4, <1>6 DEF Disjoint
    <2>4. \A l \in g.leaked, r \in DOMAIN g.header : Extent(l) \cap Cells(g, r) = {}
      <3>1. ASSUME NEW r \in DOMAIN g.header
            PROVE  Extent(b) \cap Cells(g, r) = {} /\ \A l \in h.leaked : Extent(l) \cap Cells(g, r) = {}
        BY <1>1, <1>2, <1>4 DEF Disjoint
      <3>2. QED
        BY <1>6, <3>1
    <2>5. \A l, m \in g.leaked : l # m => Extent(l) \cap Extent(m) = {}
      BY <1>1, <1>4, <1>6 DEF Disjoint
    <2>6. QED
      BY <2>1, <2>2, <2>3, <2>4, <2>5 DEF Disjoint
  <1>8. g.used = Cardinality(Held(g))
    <2>1. /\ Held(h) = Held(g) \cup Cells(h, p) /\ Held(g) \cap Cells(h, p) = {}
      <3>1. Held(g) = UNION {Cells(h, r) : r \in P}
        BY <1>2 DEF Held
      <3>2. QED
        BY <1>1, <3>1 DEF Held, Disjoint
    <2>2. IsFiniteSet(Held(h)) /\ Held(g) \in SUBSET Held(h)
      BY <2>1, HeldIs
    <2>3. IsFiniteSet(Held(g)) /\ IsFiniteSet(Cells(h, p))
      BY <1>1, <2>2, PlacedIs, FS_Subset
    <2>4. Cardinality(Held(h))
            = Cardinality(Held(g)) + Cardinality(Cells(h, p)) - Cardinality(Held(g) \cap Cells(h, p))
      BY <2>1, <2>3, FS_Union
    <2>5. Cardinality(Held(g) \cap Cells(h, p)) = 0
      BY <2>1, FS_EmptySet
    <2>6. Cardinality(Held(g)) \in Nat /\ Cardinality(Cells(h, p)) \in Nat
      BY <2>3, FS_CardinalityType
    <2>7. QED
      BY <1>1, <2>4, <2>5, <2>6
  <1>9. (\A l \in g.leaked : Adrift(g, l)) /\ \A r \in DOMAIN g.header : Placed(g, r)
    BY <1>2, <1>3, <1>4, <1>6
  <1>10. Keyed(g)
    <2>1. Rekeyed(g, h, p, p)
      BY KeysIs DEF Rekeyed
    <2>2. DOMAIN g.header \ {p} = DOMAIN h.header \ {p}
      OBVIOUS
    <2>3. QED
      BY <2>1, <2>2, KeyedIs
  <1>11. QED
    BY <1>5, <1>7, <1>8, <1>9, <1>10 DEF HeapInv

-----------------------------------------------------------------------------
(* The searches of the free list. *)
LEMMA PaddingIs ==
  ASSUME NEW a \in Nat, NEW align \in Alignments
  PROVE  /\ Padding(a, align) \in Nat /\ Padding(a, align) >= 6
         /\ align_forward(a + HeaderSize, align) = a + Padding(a, align)
         /\ (a + Padding(a, align)) % align = 0
  <1> DEFINE x == a + HeaderSize
             y == align_forward(x, align)
  <1>1. x \in Nat /\ x = a + 6 /\ align \in {1, 2, 4, 8, 16}
    BY HeapAssumption DEF HeaderSize
  <1> HIDE DEF x
  <1>2. y \in Nat /\ y >= x /\ y % align = 0
    <2>1. CASE align = 1
      BY <1>1, <2>1 DEF align_forward
    <2>2. CASE align = 2
      BY <1>1, <2>2 DEF align_forward
    <2>3. CASE align = 4
      BY <1>1, <2>3 DEF align_forward
    <2>4. CASE align = 8
      BY <1>1, <2>4 DEF align_forward
    <2>5. CASE align = 16
      BY <1>1, <2>5 DEF align_forward
    <2>6. QED
      BY <1>1, <2>1, <2>2, <2>3, <2>4, <2>5
  <1>3. Padding(a, align) = y - a
    BY DEF Padding, PaddingFor, x
  <1> HIDE DEF y
  <1>4. Padding(a, align) \in Nat /\ Padding(a, align) >= 6 /\ a + Padding(a, align) = y
    BY <1>1, <1>2, <1>3
  <1>5. QED
    BY <1>2, <1>4 DEF x, y

LEMMA NodeOf ==
  ASSUME NEW h, HeapInv(h)
  PROVE  /\ Len(h.list) \in Nat /\ DOMAIN h.list = 1 .. Len(h.list) /\ h.list \in Seq(Node)
         /\ \A i \in 1 .. Len(h.list) :
              /\ h.list[i] \in Node /\ h.list[i].addr \in Nat /\ h.list[i].size \in Nat
              /\ h.list[i].size >= 2 /\ Base <= h.list[i].addr
              /\ h.list[i].addr + h.list[i].size <= End
              /\ After(h.list[i]) = h.list[i].addr + h.list[i].size
  <1>1. Sorted(h.list)
    BY DEF HeapInv, Linked
  <1>2. /\ Len(h.list) \in Nat /\ DOMAIN h.list = 1 .. Len(h.list) /\ h.list \in Seq(Node)
        /\ \A i \in 1 .. Len(h.list) :
             /\ h.list[i] \in Node /\ h.list[i].addr \in Nat /\ h.list[i].size \in Nat
             /\ h.list[i].size >= 2 /\ Base <= h.list[i].addr /\ After(h.list[i]) <= End
             /\ After(h.list[i]) = h.list[i].addr + h.list[i].size
    BY <1>1, NodesIn
  <1>3. QED
    BY <1>2

LEMMA FindBestIs ==
  ASSUME NEW h, HeapInv(h), NEW size, NEW align, FindBest(h, size, align) # 0
  PROVE  /\ FindBest(h, size, align) \in 1 .. Len(h.list)
         /\ h.list[FindBest(h, size, align)].size
              >= size + Padding(h.list[FindBest(h, size, align)].addr, align)
  <1> DEFINE list == h.list
             Big(b) == b.size >= size + Padding(b.addr, align)
             i == FirstNode(list, Big)
             S == {k \in 1 .. Len(list) : Big(list[k])}
  <1>1. Len(list) \in Nat /\ DOMAIN list = 1 .. Len(list)
    BY NodeOf
  <1>2. FindBest(h, size, align) = i
    BY DEF FindBest
  <1>3. \E k \in DOMAIN list : Big(list[k])
    BY <1>2 DEF FirstNode
  <1>4. S \in SUBSET Nat /\ S # {}
    BY <1>1, <1>3
  <1>5. PICK m \in S : \A x \in Nat : x < m => x \notin S
    BY <1>4, LeastIndex
  <1>6. m \in DOMAIN list /\ Big(list[m]) /\ \A j \in 1 .. m - 1 : ~Big(list[j])
    BY <1>1, <1>5
  <1>7. i = CHOOSE k \in DOMAIN list : Big(list[k]) /\ \A j \in 1 .. k - 1 : ~Big(list[j])
    BY <1>3 DEF FirstNode
  <1>8. i \in DOMAIN list /\ Big(list[i])
    BY <1>6, <1>7
  <1>9. QED
    BY <1>1, <1>2, <1>8

LEMMA BehindIs ==
  ASSUME NEW h, HeapInv(h), NEW p, Behind(h, p) # 0
  PROVE  /\ Behind(h, p) \in 1 .. Len(h.list)
         /\ h.list[Behind(h, p)].addr = p + Room(h, p)
  <1> DEFINE list == h.list
             Follows(n) == n.addr = p + Room(h, p)
             i == FirstNode(list, Follows)
             S == {k \in 1 .. Len(list) : Follows(list[k])}
  <1>1. Len(list) \in Nat /\ DOMAIN list = 1 .. Len(list)
    BY NodeOf
  <1>2. Behind(h, p) = i
    BY DEF Behind
  <1>3. \E k \in DOMAIN list : Follows(list[k])
    BY <1>2 DEF FirstNode
  <1>4. S \in SUBSET Nat /\ S # {}
    BY <1>1, <1>3
  <1>5. PICK m \in S : \A x \in Nat : x < m => x \notin S
    BY <1>4, LeastIndex
  <1>6. m \in DOMAIN list /\ Follows(list[m]) /\ \A j \in 1 .. m - 1 : ~Follows(list[j])
    BY <1>1, <1>5
  <1>7. i = CHOOSE k \in DOMAIN list : Follows(list[k]) /\ \A j \in 1 .. k - 1 : ~Follows(list[j])
    BY <1>3 DEF FirstNode
  <1>8. i \in DOMAIN list /\ Follows(list[i])
    BY <1>6, <1>7
  <1>9. QED
    BY <1>1, <1>2, <1>8

-----------------------------------------------------------------------------
(* The front of node i is cut off, and a rest that is worth it stays. *)
Cut(list, i, need) ==
  IF Splits(list[i], need) THEN [list EXCEPT ![i] = Rest(list[i], need)] ELSE RemoveAt(list, i)

LEMMA TakenIs ==
  ASSUME NEW b \in Node, NEW need \in Nat, need <= b.size
  PROVE  /\ Taken(b, need) \in Nat /\ Taken(b, need) >= need /\ Taken(b, need) <= b.size
         /\ Splits(b, need) => /\ Taken(b, need) = need /\ Rest(b, need) \in Node
                              /\ Rest(b, need).addr = b.addr + need
                              /\ Rest(b, need).size = b.size - need
                              /\ Rest(b, need).size > 6
         /\ ~Splits(b, need) => Taken(b, need) = b.size
  <1>1. b.addr \in Nat /\ b.size \in Nat
    BY DEF Node
  <1>2. QED
    BY <1>1 DEF Taken, Splits, Rest, HeaderSize, Node

LEMMA CutIs ==
  ASSUME NEW list, Linked(list), NEW i \in 1 .. Len(list),
         NEW need \in Nat, need > 0, need <= list[i].size
  PROVE  /\ Linked(Cut(list, i, need))
         /\ Len(Cut(list, i, need)) = IF Splits(list[i], need) THEN Len(list) ELSE Len(list) - 1
         /\ \A a : a \in FreeSet(Cut(list, i, need)) <=>
              /\ a \in FreeSet(list)
              /\ ~(list[i].addr <= a /\ a < list[i].addr + Taken(list[i], need))
         /\ \A a \in Int : list[i].addr <= a /\ a < list[i].addr + Taken(list[i], need)
              => a \in FreeSet(list)
  <1> DEFINE stays == Splits(list[i], need)
             t == Taken(list[i], need)
  <1>1. Cut(list, i, need) = CutFront(list, i, need, stays)
    BY DEF Cut, CutFront, RestOf, Rest
  <1>2. list[i].size \in Nat
    BY NodesIn DEF Linked
  <1>3. /\ stays \in BOOLEAN /\ (stays => list[i].size - need >= 2)
        /\ t = IF stays THEN need ELSE list[i].size
    BY <1>2 DEF Splits, Taken, HeaderSize
  <1> HIDE DEF stays, t
  <1>4. /\ Linked(CutFront(list, i, need, stays))
        /\ Len(CutFront(list, i, need, stays)) = IF stays THEN Len(list) ELSE Len(list) - 1
        /\ \A a : a \in FreeSet(CutFront(list, i, need, stays)) <=>
             a \in FreeSet(list) /\ ~(list[i].addr <= a /\ a < list[i].addr + t)
        /\ \A a \in Int : list[i].addr <= a /\ a < list[i].addr + t => a \in FreeSet(list)
    BY <1>3, CutFrontIs
  <1>5. QED
    BY <1>1, <1>4 DEF stays, t

-----------------------------------------------------------------------------
(* The calls. *)

(* What reads no address: owners, children and faults. *)
LEMMA Relinked ==
  ASSUME NEW h, HeapInv(h), NEW g, DOMAIN g = DOMAIN h,
         \A f \in DOMAIN h \ {"header", "fault"} : g[f] = h[f],
         g.fault \in Faults, g.header \in Partial(Unit, Header),
         DOMAIN g.header = DOMAIN h.header, \A r \in DOMAIN h.header : Same(g, h, r)
  PROVE  HeapInv(g)
  <1>1. Shaped(h) /\ Linked(h.list) /\ Heap(h)
    BY DEF HeapInv
  <1>2. /\ g.list = h.list /\ g.used = h.used /\ g.block_count = h.block_count
        /\ g.table = h.table /\ g.leaked = h.leaked
    BY <1>1 DEF Shaped
  <1>3. Shaped(g) /\ Linked(g.list) /\ Heap(g)
    BY <1>1, <1>2 DEF Shaped, Heap
  <1>4. NULL \notin DOMAIN h.header /\ NULL \notin DOMAIN g.header
    BY <1>1, ShapeIs, Bounds DEF NULL
  <1>5. Part(h, NULL) = {} /\ Part(g, NULL) = {} /\ Cardinality({}) = 0
    BY <1>4, FS_EmptySet DEF Part
  <1>6. h.used \in Int
    BY <1>1 DEF Shaped
  <1>7. \A a : SameEntry(g, h, a)
    BY <1>2 DEF SameEntry
  <1>8. /\ DOMAIN g.header \ {NULL} = DOMAIN h.header \ {NULL}
        /\ \A r \in DOMAIN g.header \ {NULL} : Same(g, h, r)
    OBVIOUS
  <1>9. /\ FreeSet(g.list) \cup Part(g, NULL) = FreeSet(h.list) \cup Part(h, NULL)
        /\ Part(g, NULL) \cap FreeSet(g.list) = {}
        /\ g.used = h.used - Cardinality(Part(h, NULL)) + Cardinality(Part(g, NULL))
    BY <1>2, <1>5, <1>6
  <1>10. Rekeyed(g, h, NULL, NULL)
    BY <1>2, <1>4, KeysStay
  <1>11. QED
    BY <1>2, <1>3, <1>4, <1>7, <1>8, <1>9, <1>10, Rebuilt

LEMMA AllocAlignIs ==
  ASSUME NEW h, HeapInv(h), NEW i \in 1 .. Len(h.list), NEW size \in Nat, size > 0,
         NEW align \in Alignments,
         h.list[i].size >= size + Padding(h.list[i].addr, align),
         NEW q, q = AllocPtr(h, i, align), NEW g, g = AllocAlign(h, i, size, align)
  PROVE  /\ HeapInv(g) /\ g.fault = h.fault
         /\ q \in Unit /\ q \notin DOMAIN h.header
         /\ DOMAIN g.header = DOMAIN h.header \cup {q}
         /\ \A r \in DOMAIN h.header : g.header[r] = h.header[r]
         /\ g.header[q].alignment_requirement = align
         /\ g.header[q].pOwner = NULL /\ g.header[q].child_header = NULL
         /\ Room(g, q) >= size
  <1> DEFINE node == h.list[i]
             pad == Padding(node.addr, align)
             need == size + pad
             t == Taken(node, need)
             hd == [block_size |-> t, alignment_padding |-> q - HeaderSize - node.addr,
                    alignment_requirement |-> align, pOwner |-> NULL, child_header |-> NULL]
  <1>1. Shaped(h) /\ Linked(h.list) /\ Heap(h) /\ Disjoint(h)
    BY DEF HeapInv
  <1>2. /\ node \in Node /\ node.addr \in Nat /\ node.size \in Nat
        /\ Base <= node.addr /\ node.addr + node.size <= End
        /\ Len(h.list) \in Nat /\ h.list \in Seq(Node)
    BY NodeOf
  <1>3. /\ pad \in Nat /\ pad >= 6 /\ q = node.addr + pad /\ q % align = 0
    BY <1>2, PaddingIs DEF AllocPtr
  <1>4. node.size >= need
    OBVIOUS
  <1>5. need \in Nat /\ need > 0 /\ need <= node.size /\ need = size + pad
    BY <1>2, <1>3, <1>4
  <1> HIDE DEF need, pad
  <1>6. /\ t \in Nat /\ t >= need /\ t <= node.size
        /\ Splits(node, need) => Rest(node, need) \in Node
    BY <1>2, <1>5, TakenIs
  <1>7. /\ Linked(Cut(h.list, i, need))
        /\ Len(Cut(h.list, i, need)) = IF Splits(node, need) THEN Len(h.list) ELSE Len(h.list) - 1
        /\ \A a : a \in FreeSet(Cut(h.list, i, need)) <=>
             a \in FreeSet(h.list) /\ ~(node.addr <= a /\ a < node.addr + t)
        /\ \A a \in Int : node.addr <= a /\ a < node.addr + t => a \in FreeSet(h.list)
    BY <1>1, <1>5, CutIs
  <1>8. /\ g.list = Cut(h.list, i, need)
        /\ g.block_count = IF Splits(node, need) THEN h.block_count ELSE h.block_count - 1
        /\ g.used = h.used + t
        /\ g.table = Extended(h.table, node.addr, q)
        /\ g.header = Extended(h.header, q, hd)
        /\ g.leaked = h.leaked /\ g.fault = h.fault /\ DOMAIN g = DOMAIN h
    <2> DEFINE split == IF Splits(node, need) THEN NodeInsert(h, i + 1, Rest(node, need)) ELSE h
               rem == NodeRemove(split, i)
    <2>1. g = [rem EXCEPT !.used = @ + t, !.table = Extended(@, node.addr, q),
                          !.header = Extended(@, q, hd)]
      BY DEF AllocAlign, need, pad
    <2>2. /\ DOMAIN split = DOMAIN h
          /\ split.list = IF Splits(node, need) THEN InsertAt(h.list, i + 1, Rest(node, need)) ELSE h.list
          /\ split.block_count = IF Splits(node, need) THEN h.block_count + 1 ELSE h.block_count
          /\ \A f \in DOMAIN h \ ListFields : split[f] = h[f]
      BY <1>1 DEF NodeInsert, Heap, ListFields
    <2> HIDE DEF split
    <2>3. /\ DOMAIN rem = DOMAIN h
          /\ rem.list = RemoveAt(split.list, i) /\ rem.block_count = split.block_count - 1
          /\ \A f \in DOMAIN h \ ListFields : rem[f] = h[f]
      BY <1>1, <2>2 DEF NodeRemove, Heap, ListFields
    <2>4. rem.list = Cut(h.list, i, need)
      <3>1. CASE Splits(node, need)
        <4>1. RemoveAt(InsertAt(h.list, i + 1, Rest(node, need)), i)
                = [h.list EXCEPT ![i] = Rest(node, need)]
          BY <1>2, <1>6, <3>1, Replaced
        <4>2. QED
          BY <2>2, <2>3, <3>1, <4>1 DEF Cut
      <3>2. CASE ~Splits(node, need)
        BY <2>2, <2>3, <3>2 DEF Cut
      <3>3. QED
        BY <3>1, <3>2
    <2> HIDE DEF rem, hd, t, node
    <2>5. /\ rem.used = h.used /\ rem.table = h.table /\ rem.header = h.header
          /\ rem.leaked = h.leaked /\ rem.fault = h.fault
          /\ DOMAIN rem = {"list", "used", "block_count", "table", "header", "leaked", "fault"}
      BY <1>1, <2>3 DEF Shaped, ListFields
    <2>6. /\ g.list = rem.list /\ g.block_count = rem.block_count /\ g.used = rem.used + t
          /\ g.table = Extended(rem.table, node.addr, q) /\ g.header = Extended(rem.header, q, hd)
          /\ g.leaked = rem.leaked /\ g.fault = rem.fault /\ DOMAIN g = DOMAIN rem
      BY <2>1, <2>5
    <2>7. g.block_count = IF Splits(node, need) THEN h.block_count ELSE h.block_count - 1
      <3>1. g.block_count = split.block_count - 1
        BY <2>3, <2>6
      <3>2. split.block_count = IF Splits(node, need) THEN h.block_count + 1 ELSE h.block_count
        BY <2>2
      <3>3. h.block_count \in Nat
        BY <1>1 DEF Shaped
      <3>4. QED
        BY <3>1, <3>2, <3>3
    <2>8. g.list = Cut(h.list, i, need) /\ DOMAIN g = DOMAIN h
      BY <2>3, <2>4, <2>6
    <2>9. QED
      BY ONLY <2>5, <2>6, <2>7, <2>8
  <1>9. /\ hd \in Header /\ hd.block_size = t /\ hd.alignment_padding = pad - 6
        /\ pad - 6 \in Nat
    <2>1. q - HeaderSize - node.addr = pad - 6 /\ pad - 6 \in Nat
      BY <1>2, <1>3 DEF HeaderSize
    <2>2. QED
      BY <1>6, <2>1 DEF Header
  <1>10. node.addr \in Unit /\ q \in Unit /\ node.addr \in FreeSet(h.list) /\ q \in FreeSet(h.list)
    <2>1. node.addr < node.addr + t /\ node.addr <= q /\ q < node.addr + t /\ q \in Int
      BY SMTT(30), <1>2, <1>3, <1>5, <1>6
    <2>2. node.addr \in FreeSet(h.list) /\ q \in FreeSet(h.list)
      BY <1>2, <1>7, <2>1
    <2>3. Base <= q /\ q < End /\ node.addr < End
      <3>1. /\ Base \in Nat /\ End \in Nat /\ node.addr \in Nat /\ node.size \in Nat
            /\ Base <= node.addr /\ node.addr + node.size <= End
        BY <1>2, Bounds
      <3>2. t \in Nat /\ t <= node.size
        BY <1>6
      <3> HIDE DEF t, node
      <3>3. QED
        BY ONLY <2>1, <3>1, <3>2
    <2>4. QED
      BY <1>2, <2>1, <2>2, <2>3, Bounds
  <1>11. q \notin DOMAIN h.header
    <2>1. \A r \in DOMAIN h.header : r \in Cells(h, r) /\ Cells(h, r) \cap FreeSet(h.list) = {}
      BY <1>1, PlacedIs DEF HeapInv, Disjoint
    <2>2. QED
      BY <1>10, <2>1
  <1> HIDE DEF hd, t, node
  <1>12. /\ g.header \in Partial(Unit, Header) /\ DOMAIN g.header = DOMAIN h.header \cup {q}
         /\ g.header[q] = hd /\ \A r \in DOMAIN h.header : g.header[r] = h.header[r]
    <2>1. h.header \in Partial(Unit, Header)
      BY <1>1, ShapeIs
    <2>2. g.header = Extended(h.header, q, hd) /\ hd \in Header /\ q \in Unit
      BY <1>8, <1>9, <1>10
    <2>3. /\ g.header \in Partial(Unit, Header) /\ DOMAIN g.header = DOMAIN h.header \cup {q}
          /\ g.header[q] = hd /\ \A r \in DOMAIN h.header \ {q} : g.header[r] = h.header[r]
      <3>1. /\ DOMAIN g.header = DOMAIN h.header \cup {q}
            /\ \A r \in DOMAIN h.header \cup {q} : g.header[r] = IF r = q THEN hd ELSE h.header[r]
        BY ONLY <2>2 DEF Extended
      <3>2. QED
        BY ONLY <2>1, <2>2, <3>1, ExtendedIs
    <2>4. QED
      BY <1>11, <2>3
  <1>13. /\ g.table \in Partial(Unit, Unit) /\ DOMAIN g.table = DOMAIN h.table \cup {node.addr}
         /\ g.table[node.addr] = q /\ \A a \in DOMAIN h.table \ {node.addr} : g.table[a] = h.table[a]
    <2>1. h.table \in Partial(Unit, Unit)
      BY <1>1, ShapeIs
    <2>2. g.table = Extended(h.table, node.addr, q) /\ node.addr \in Unit /\ q \in Unit
      BY <1>8, <1>10
    <2>3. /\ DOMAIN g.table = DOMAIN h.table \cup {node.addr}
          /\ \A a \in DOMAIN h.table \cup {node.addr} :
               g.table[a] = IF a = node.addr THEN q ELSE h.table[a]
      BY ONLY <2>2 DEF Extended
    <2>4. QED
      BY ONLY <2>1, <2>2, <2>3, ExtendedIs
  <1>14. Shaped(g) /\ Linked(g.list) /\ Heap(g)
    <2>1. h.used \in Int /\ h.block_count = Len(h.list) /\ h.leaked \in SUBSET Node /\ h.fault \in Faults
          /\ DOMAIN h = {"list", "used", "block_count", "table", "header", "leaked", "fault"}
      BY <1>1 DEF Shaped, Heap
    <2>2. g.used \in Int
      BY <1>6, <1>8, <2>1
    <2>3. g.list \in Seq(Node) /\ Linked(g.list)
      BY <1>7, <1>8 DEF Linked, Sorted
    <2>4. g.block_count = Len(g.list) /\ g.block_count \in Nat
      <3>1. g.block_count = Len(g.list)
        BY <1>2, <1>7, <1>8, <2>1
      <3>2. QED
        BY <2>3, <3>1, LenProperties
    <2>5. QED
      BY <1>8, <1>12, <1>13, <2>1, <2>2, <2>3, <2>4 DEF Shaped, Heap
  <1>15. /\ Start(g, q) = node.addr /\ Room(g, q) = t - pad /\ g.header[q].block_size = t
         /\ g.header[q].alignment_padding = pad - 6 /\ g.header[q].alignment_requirement = align
    <2>1. /\ g.header[q].block_size = t /\ g.header[q].alignment_padding = pad - 6
          /\ g.header[q].alignment_requirement = align
      BY <1>9, <1>12 DEF hd
    <2>2. Start(g, q) = q - 6 - (pad - 6) /\ Room(g, q) = t - 6 - (pad - 6)
      BY <2>1 DEF Start, Room, HeaderSize
    <2>3. QED
      BY <1>2, <1>3, <1>6, <2>1, <2>2
  <1>16. Placed(g, q)
    <2>1. t > 6 + (pad - 6) /\ Base <= node.addr /\ node.addr + t <= End
      <3>1. t > pad
        BY <1>3, <1>5, <1>6
      <3>2. node.addr + t <= node.addr + node.size
        BY <1>2, <1>6
      <3>3. node.addr + t \in Nat /\ node.addr + node.size \in Nat /\ End \in Nat
        BY SMTT(30), <1>2, <1>6, Bounds
      <3>4. QED
        BY <1>2, <1>3, <1>6, <3>1, <3>2, <3>3
    <2>2. QED
      BY <1>3, <1>13, <1>15, <2>1 DEF Placed, HeaderSize
  <1>17. Part(h, q) = {} /\ Cardinality({}) = 0 /\ Part(g, q) = Cells(g, q)
    BY <1>11, <1>12, FS_EmptySet DEF Part
  <1>18. \A a : a \in Cells(g, q) <=> a \in Int /\ node.addr <= a /\ a < node.addr + t
    BY SMTT(30), <1>12, <1>14, <1>15, HeaderIs
  <1>19. Cardinality(Cells(g, q)) = t
    BY <1>12, <1>14, <1>15, <1>16, PlacedIs
  <1>20. /\ FreeSet(g.list) \cup Part(g, q) = FreeSet(h.list) \cup Part(h, q)
         /\ Part(g, q) \cap FreeSet(g.list) = {}
    <2>1. \A a \in FreeSet(h.list) : a \in Int
      BY <1>2, FreeSetIs
    <2>2. \A a : a \in FreeSet(g.list) <=>
            a \in FreeSet(h.list) /\ ~(node.addr <= a /\ a < node.addr + t)
      BY <1>7, <1>8
    <2>3. /\ FreeSet(g.list) \cup Cells(g, q) = FreeSet(h.list)
          /\ Cells(g, q) \cap FreeSet(g.list) = {}
      BY ONLY <1>7, <1>18, <2>1, <2>2
    <2>4. QED
      BY <1>17, <2>3
  <1>21. g.used = h.used - Cardinality(Part(h, q)) + Cardinality(Part(g, q))
    <2>1. h.used \in Int
      BY <1>1 DEF Shaped
    <2>2. QED
      BY <1>6, <1>8, <1>17, <1>19, <2>1
  <1>22. \A a \in Unit \ (FreeSet(h.list) \cup Part(h, q)) : SameEntry(g, h, a)
    BY <1>10, <1>13 DEF SameEntry
  <1>23. /\ DOMAIN g.header \ {q} = DOMAIN h.header \ {q}
         /\ \A r \in DOMAIN g.header \ {q} : Same(g, h, r)
    BY <1>12 DEF Same
  <1>24. HeapInv(g)
    <2>1. Rekeyed(g, h, q, q)
      BY <1>12, <1>13, <1>15, <1>17, KeysIs DEF Rekeyed
    <2>2. QED
      BY <1>8, <1>14, <1>16, <1>20, <1>21, <1>22, <1>23, <2>1, Rebuilt
  <1>25. Room(g, q) >= size
    BY <1>3, <1>5, <1>6, <1>15
  <1>26. g.header[q].pOwner = NULL /\ g.header[q].child_header = NULL
    BY <1>12 DEF hd
  <1>27. QED
    BY <1>8, <1>10, <1>11, <1>12, <1>15, <1>24, <1>25, <1>26

LEMMA BlockFits ==
  ASSUME NEW h, HeapInv(h), NEW p \in DOMAIN h.header
  PROVE  /\ Fits(Block(h, p)) /\ Block(h, p).addr = Start(h, p)
         /\ Block(h, p).size = h.header[p].block_size
         /\ After(Block(h, p)) = Start(h, p) + h.header[p].block_size
         /\ Extent(Block(h, p)) = Cells(h, p) /\ Extent(Block(h, p)) \cap FreeSet(h.list) = {}
         /\ p \in Nat /\ Start(h, p) + 6 <= p /\ p < After(Block(h, p))
  <1> DEFINE b == Block(h, p)
  <1>1. Shaped(h) /\ Placed(h, p) /\ Disjoint(h)
    BY DEF HeapInv
  <1>2. /\ b = [addr |-> Start(h, p), size |-> h.header[p].block_size]
        /\ h.header[p].block_size \in Nat /\ h.header[p].alignment_padding \in Nat
        /\ Start(h, p) = p - 6 - h.header[p].alignment_padding /\ p \in Nat
    BY <1>1, HeaderIs
  <1>3. Start(h, p) \in Nat
    BY <1>1, PlacedIs
  <1>4. /\ h.header[p].block_size > 6 + h.header[p].alignment_padding
        /\ Base <= Start(h, p) /\ Start(h, p) + h.header[p].block_size <= End
    BY <1>1 DEF Placed, HeaderSize
  <1>5. Extent(b) = Cells(h, p) /\ Extent(b) \cap FreeSet(h.list) = {}
    BY <1>1 DEF Cells, Disjoint
  <1> HIDE DEF b
  <1>6. /\ b \in Node /\ b.addr = Start(h, p) /\ b.size = h.header[p].block_size
        /\ After(b) = Start(h, p) + h.header[p].block_size
    BY <1>2, <1>3 DEF Node, After
  <1>7. h.header[p].block_size >= 2
    BY <1>2, <1>4
  <1>8. Start(h, p) + 6 <= p /\ p < Start(h, p) + h.header[p].block_size
    BY <1>2, <1>3, <1>4
  <1>9. Fits(b)
    BY <1>4, <1>6, <1>7 DEF Fits, NodeSize
  <1>10. QED
    BY <1>2, <1>5, <1>6, <1>8, <1>9 DEF b

LEMMA FreeBlockIs ==
  ASSUME NEW h, HeapInv(h), NEW p \in DOMAIN h.header, NEW g, g = FreeBlock(h, p)
  PROVE  /\ HeapInv(g) /\ g.fault = h.fault
         /\ DOMAIN g.header = DOMAIN h.header \ {p}
         /\ \A r \in DOMAIN g.header : g.header[r] = h.header[r]
  <1> DEFINE b == Block(h, p)
             table == Restrict(h.table, DOMAIN h.table \ {b.addr})
             header == Restrict(h.header, DOMAIN h.header \ {p})
             taken == [h EXCEPT !.used = @ - b.size, !.table = table, !.header = header]
             k == PutFree(taken, p, b)
  <1>1. Shaped(h) /\ Linked(h.list) /\ Heap(h) /\ Placed(h, p)
    BY DEF HeapInv
  <1>2. /\ Fits(b) /\ b.addr = Start(h, p) /\ b.size = h.header[p].block_size
        /\ After(b) = Start(h, p) + h.header[p].block_size
        /\ Extent(b) = Cells(h, p) /\ Extent(b) \cap FreeSet(h.list) = {}
        /\ p \in Nat /\ Start(h, p) + 6 <= p /\ p < After(b)
    BY BlockFits
  <1>3. g = k
    <2>1. b.addr \in DOMAIN h.table
      BY <1>1, <1>2 DEF Placed
    <2>2. QED
      BY <2>1 DEF FreeBlock
  <1>4. /\ DOMAIN table = DOMAIN h.table \ {b.addr} /\ \A a \in DOMAIN table : table[a] = h.table[a]
        /\ DOMAIN header = DOMAIN h.header \ {p} /\ \A r \in DOMAIN header : header[r] = h.header[r]
    BY DEF Restrict
  <1>5. table \in Partial(Unit, Unit) /\ header \in Partial(Unit, Header)
    <2>1. h.table \in Partial(Unit, Unit) /\ h.header \in Partial(Unit, Header)
      BY <1>1 DEF Shaped
    <2>2. QED
      BY <2>1, RestrictIs
  <1> HIDE DEF table, header, b
  <1>6. /\ taken.list = h.list /\ taken.used = h.used - b.size /\ taken.block_count = h.block_count
        /\ taken.table = table /\ taken.header = header /\ taken.leaked = h.leaked
        /\ taken.fault = h.fault /\ DOMAIN taken = DOMAIN h
        /\ DOMAIN h = {"list", "used", "block_count", "table", "header", "leaked", "fault"}
    BY <1>1 DEF Shaped
  <1> HIDE DEF taken
  <1>7. Heap(taken) /\ Linked(taken.list) /\ "leaked" \in DOMAIN taken
    BY <1>1, <1>6 DEF Heap
  <1>8. b.addr <= p /\ p < After(b) /\ p \in Nat
    <2>1. Start(h, p) \in Nat
      BY <1>1, PlacedIs
    <2>2. QED
      BY <1>2, <2>1
  <1>9. /\ Keeps(k, taken, ListFields \cup {"leaked"}) /\ Heap(k) /\ Linked(k.list)
        /\ \/ /\ k.leaked = taken.leaked
              /\ FreeSet(k.list) = FreeSet(taken.list) \cup Extent(b)
           \/ /\ k.leaked = taken.leaked \cup {b}
              /\ FreeSet(k.list) = FreeSet(taken.list)
    BY <1>2, <1>6, <1>7, <1>8, PutFreeIs
  <1> HIDE DEF k
  <1>10. /\ k.used = h.used - b.size /\ k.table = table /\ k.header = header /\ k.fault = h.fault
         /\ DOMAIN k = {"list", "used", "block_count", "table", "header", "leaked", "fault"}
    BY <1>6, <1>9 DEF Keeps, ListFields
  <1>11. b \in Node /\ b.size \in Nat /\ h.used \in Int /\ h.leaked \in SUBSET Node
    BY <1>1, <1>2 DEF Fits, Node, Shaped
  <1>12. Shaped(k)
    <2>1. k.list \in Seq(Node) /\ k.block_count = Len(k.list)
      BY <1>9 DEF Linked, Sorted, Heap
    <2>2. k.block_count \in Nat
      BY <2>1, LenProperties
    <2>3. k.used \in Int /\ k.leaked \in SUBSET Node
      BY <1>6, <1>9, <1>10, <1>11
    <2>4. h.fault \in Faults
      BY <1>1 DEF Shaped
    <2>5. QED
      BY <1>5, <1>10, <2>1, <2>2, <2>3, <2>4 DEF Shaped
  <1>13. \A r \in DOMAIN k.header : Same(k, h, r)
    BY <1>4, <1>10 DEF Same
  <1>14. \A a \in Unit \ (FreeSet(h.list) \cup Part(h, p)) : SameEntry(k, h, a)
    <2>1. b.addr \in Part(h, p)
      BY <1>1, <1>2, PlacedIs DEF Part
    <2>2. QED
      BY <1>4, <1>10, <2>1 DEF SameEntry
  <1>15. Part(h, p) = Cells(h, p) /\ Part(k, p) = {} /\ Cardinality({}) = 0
    BY <1>4, <1>10, FS_EmptySet DEF Part
  <1>16. Cardinality(Cells(h, p)) = b.size
    BY <1>1, <1>2, PlacedIs
  <1>17. HeapInv(k)
    <2>1. CASE k.leaked = taken.leaked /\ FreeSet(k.list) = FreeSet(taken.list) \cup Extent(b)
      <3>1. k.leaked = h.leaked /\ p \notin DOMAIN k.header
        BY <1>4, <1>6, <1>10, <2>1
      <3>2. /\ FreeSet(k.list) \cup Part(k, p) = FreeSet(h.list) \cup Part(h, p)
            /\ Part(k, p) \cap FreeSet(k.list) = {}
        BY <1>2, <1>6, <1>15, <2>1
      <3>3. k.used = h.used - Cardinality(Part(h, p)) + Cardinality(Part(k, p))
        BY <1>10, <1>11, <1>15, <1>16
      <3>4. DOMAIN k.header \ {p} = DOMAIN h.header \ {p}
        BY <1>4, <1>10
      <3>5. Rekeyed(k, h, p, p)
        BY <1>2, <1>4, <1>10, KeysIs DEF Rekeyed
      <3>6. QED
        BY <1>9, <1>12, <1>13, <1>14, <3>1, <3>2, <3>3, <3>4, <3>5, Rebuilt
    <2>2. CASE k.leaked = taken.leaked \cup {b} /\ FreeSet(k.list) = FreeSet(taken.list)
      <3>1. k.leaked = h.leaked \cup {Block(h, p)} /\ FreeSet(k.list) = FreeSet(h.list)
        BY <1>6, <2>2 DEF b
      <3>2. /\ DOMAIN k.table \subseteq DOMAIN h.table \ {Start(h, p)}
            /\ DOMAIN k.header = DOMAIN h.header \ {p}
        BY <1>2, <1>4, <1>10
      <3>3. k.used = h.used - Cardinality(Cells(h, p))
        BY <1>10, <1>16
      <3>4. QED
        BY <1>9, <1>12, <1>13, <1>14, <3>1, <3>2, <3>3, Leaked
    <2>3. QED
      BY <1>9, <2>1, <2>2
  <1>18. QED
    BY <1>3, <1>4, <1>10, <1>17

(* A block grows or shrinks at its end. *)
LEMMA Resized ==
  ASSUME NEW h, HeapInv(h), NEW p \in DOMAIN h.header, NEW x \in Nat,
         x > 6 + h.header[p].alignment_padding, Start(h, p) + x <= End,
         NEW g, DOMAIN g = DOMAIN h, Linked(g.list), Heap(g),
         g.used = h.used - h.header[p].block_size + x,
         g.table = h.table, g.leaked = h.leaked, g.fault = h.fault,
         g.header = [h.header EXCEPT ![p].block_size = x],
         \A a : a \in FreeSet(h.list) \cup Cells(h, p) <=>
           a \in FreeSet(g.list) \/ (a \in Int /\ Start(h, p) <= a /\ a < Start(h, p) + x),
         \A a \in FreeSet(g.list) : ~(Start(h, p) <= a /\ a < Start(h, p) + x)
  PROVE  /\ HeapInv(g) /\ DOMAIN g.header = DOMAIN h.header
         /\ \A r \in DOMAIN h.header \ {p} : g.header[r] = h.header[r]
         /\ g.header[p] = [h.header[p] EXCEPT !.block_size = x]
         /\ Room(g, p) = x - 6 - h.header[p].alignment_padding
  <1> DEFINE hd == [h.header[p] EXCEPT !.block_size = x]
  <1>1. Shaped(h) /\ Placed(h, p)
    BY DEF HeapInv
  <1>2. /\ h.header[p] \in Header /\ h.header[p].block_size \in Nat
        /\ h.header[p].alignment_padding \in Nat /\ Start(h, p) \in Int
        /\ Start(h, p) = p - 6 - h.header[p].alignment_padding /\ p \in Unit
    BY <1>1, HeaderIs
  <1>3. /\ hd \in Header /\ hd.block_size = x
        /\ hd.alignment_padding = h.header[p].alignment_padding
        /\ hd.alignment_requirement = h.header[p].alignment_requirement
    BY <1>2 DEF Header
  <1>4. g.header = [h.header EXCEPT ![p] = hd]
    OBVIOUS
  <1> HIDE DEF hd
  <1>5. /\ DOMAIN g.header = DOMAIN h.header /\ g.header[p] = hd
        /\ \A r \in DOMAIN h.header \ {p} : g.header[r] = h.header[r]
    BY <1>4
  <1>6. g.header \in Partial(Unit, Header)
    <2>1. h.header \in Partial(Unit, Header)
      BY <1>1 DEF Shaped
    <2>2. QED
      BY <1>3, <1>4, <2>1, UpdatedIs
  <1>7. Shaped(g)
    <2>1. g.list \in Seq(Node) /\ g.block_count = Len(g.list)
      BY DEF Linked, Sorted, Heap
    <2>2. g.block_count \in Nat
      BY <2>1, LenProperties
    <2>3. /\ h.used \in Int /\ h.leaked \in SUBSET Node /\ h.fault \in Faults
          /\ h.table \in Partial(Unit, Unit)
          /\ DOMAIN h = {"list", "used", "block_count", "table", "header", "leaked", "fault"}
      BY <1>1 DEF Shaped
    <2>4. g.used \in Int
      BY <1>2, <2>3
    <2>5. QED
      BY <1>6, <2>1, <2>2, <2>3, <2>4 DEF Shaped
  <1>8. /\ Start(g, p) = Start(h, p) /\ g.header[p].block_size = x
        /\ Room(g, p) = x - 6 - h.header[p].alignment_padding
    BY <1>3, <1>5 DEF Start, Room, HeaderSize
  <1>9. Placed(g, p)
    BY <1>1, <1>3, <1>5, <1>8 DEF Placed, HeaderSize
  <1>10. \A a : a \in Cells(g, p) <=> a \in Int /\ Start(h, p) <= a /\ a < Start(h, p) + x
    <2>1. p \in DOMAIN g.header
      BY <1>5
    <2>2. QED
      BY <1>7, <1>8, <2>1, HeaderIs
  <1>11. /\ Part(h, p) = Cells(h, p) /\ Part(g, p) = Cells(g, p)
         /\ Cardinality(Cells(h, p)) = h.header[p].block_size
         /\ Cardinality(Cells(g, p)) = x
    <2>1. p \in DOMAIN g.header
      BY <1>5
    <2>2. QED
      BY ZenonT(60), <1>1, <1>7, <1>8, <1>9, <2>1, PlacedIs DEF Part
  <1>12. /\ FreeSet(g.list) \cup Part(g, p) = FreeSet(h.list) \cup Part(h, p)
         /\ Part(g, p) \cap FreeSet(g.list) = {}
    BY <1>10, <1>11
  <1>13. g.used = h.used - Cardinality(Part(h, p)) + Cardinality(Part(g, p))
    BY <1>11
  <1>14. /\ DOMAIN g.header \ {p} = DOMAIN h.header \ {p}
         /\ \A r \in DOMAIN g.header \ {p} : Same(g, h, r)
         /\ \A a \in Unit \ (FreeSet(h.list) \cup Part(h, p)) : SameEntry(g, h, a)
    BY <1>5 DEF Same, SameEntry
  <1>15. HeapInv(g)
    <2>1. Rekeyed(g, h, p, p)
      BY <1>5, <1>8, KeysStay
    <2>2. QED
      BY <1>7, <1>9, <1>12, <1>13, <1>14, <2>1, Rebuilt
  <1>16. QED
    BY <1>5, <1>8, <1>15 DEF hd

(* Only the size of the block of p changes. *)
Reshaped(g, h, p) ==
  /\ DOMAIN g.header = DOMAIN h.header
  /\ \A r \in DOMAIN h.header \ {p} : g.header[r] = h.header[r]
  /\ \E x \in Nat : g.header[p] = [h.header[p] EXCEPT !.block_size = x]

LEMMA GrowInPlaceIs ==
  ASSUME NEW h, HeapInv(h), NEW p \in DOMAIN h.header, NEW extra \in Nat, extra > 0,
         GrowsInPlace(h, p, extra), NEW g, g = GrowInPlace(h, p, extra)
  PROVE  /\ HeapInv(g) /\ g.fault = h.fault /\ Reshaped(g, h, p)
         /\ Room(g, p) >= Room(h, p) + extra
  <1> DEFINE i == Behind(h, p)
             node == h.list[i]
             t == Taken(node, extra)
             bs == h.header[p].block_size
             x == bs + t
             cut == IF Splits(node, extra) THEN [h EXCEPT !.list[i] = Rest(node, extra)]
                                           ELSE NodeRemove(h, i)
  <1>1. Shaped(h) /\ Linked(h.list) /\ Heap(h) /\ Placed(h, p)
    BY DEF HeapInv
  <1>2. /\ i \in 1 .. Len(h.list) /\ node.addr = p + Room(h, p) /\ node.size >= extra
    BY BehindIs DEF GrowsInPlace
  <1>3. /\ node \in Node /\ node.addr \in Nat /\ node.size \in Nat
        /\ node.addr + node.size <= End /\ Len(h.list) \in Nat
    BY <1>2, NodeOf
  <1>4. /\ bs \in Nat /\ h.header[p].alignment_padding \in Nat /\ Start(h, p) \in Nat
        /\ bs > 6 + h.header[p].alignment_padding /\ p + Room(h, p) = Start(h, p) + bs
        /\ Room(h, p) = bs - 6 - h.header[p].alignment_padding
        /\ \A a : a \in Cells(h, p) <=> a \in Int /\ Start(h, p) <= a /\ a < Start(h, p) + bs
    BY <1>1, HeaderIs, PlacedIs DEF Placed, HeaderSize
  <1>5. t \in Nat /\ t >= extra /\ t <= node.size
    BY <1>2, <1>3, TakenIs
  <1>6. /\ Linked(Cut(h.list, i, extra))
        /\ Len(Cut(h.list, i, extra)) = IF Splits(node, extra) THEN Len(h.list) ELSE Len(h.list) - 1
        /\ \A a : a \in FreeSet(Cut(h.list, i, extra)) <=>
             a \in FreeSet(h.list) /\ ~(node.addr <= a /\ a < node.addr + t)
        /\ \A a \in Int : node.addr <= a /\ a < node.addr + t => a \in FreeSet(h.list)
    BY <1>1, <1>2, CutIs
  <1> HIDE DEF t
  <1>7. g = [cut EXCEPT !.used = @ + t, !.header[p].block_size = @ + t]
    BY DEF GrowInPlace, t
  <1>8. /\ cut.list = Cut(h.list, i, extra) /\ DOMAIN cut = DOMAIN h
        /\ cut.block_count = IF Splits(node, extra) THEN h.block_count ELSE h.block_count - 1
        /\ \A f \in DOMAIN h \ ListFields : cut[f] = h[f]
    BY <1>1 DEF NodeRemove, Cut, Heap, ListFields
  <1> HIDE DEF cut, i, node
  <1>9. /\ cut.used = h.used /\ cut.table = h.table /\ cut.header = h.header
        /\ cut.leaked = h.leaked /\ cut.fault = h.fault
        /\ DOMAIN cut = {"list", "used", "block_count", "table", "header", "leaked", "fault"}
    BY <1>1, <1>8 DEF Shaped, ListFields
  <1>10. /\ g.list = cut.list /\ g.used = cut.used + t /\ g.block_count = cut.block_count
         /\ g.table = cut.table /\ g.leaked = cut.leaked /\ g.fault = cut.fault
         /\ DOMAIN g = DOMAIN cut
         /\ g.header = [cut.header EXCEPT ![p].block_size = @ + t]
    BY <1>7, <1>9
  <1>11. g.header = [h.header EXCEPT ![p].block_size = x]
    BY <1>9, <1>10
  <1>12. g.list = Cut(h.list, i, extra) /\ DOMAIN g = DOMAIN h
    BY <1>8, <1>10
  <1>13. Linked(g.list) /\ Heap(g)
    <2>1. h.block_count = Len(h.list)
      BY <1>1 DEF Heap
    <2>2. g.block_count = Len(g.list)
      BY <1>6, <1>8, <1>10, <2>1
    <2>3. QED
      BY <1>6, <1>9, <1>10, <1>12, <2>2 DEF Heap
  <1>14. g.used = h.used - bs + x /\ x \in Nat /\ x > 6 + h.header[p].alignment_padding
    <2>1. h.used \in Int /\ g.used = h.used + t
      BY <1>1, <1>9, <1>10 DEF Shaped
    <2>2. QED
      BY <1>4, <1>5, <2>1
  <1>15. Start(h, p) + x <= End
    <2> DEFINE s == Start(h, p)
               m == node.addr
               z == node.size
    <2>1. /\ s \in Nat /\ bs \in Nat /\ m = s + bs /\ z \in Nat /\ m + z <= End
          /\ t \in Nat /\ t <= z
      BY <1>2, <1>3, <1>4, <1>5
    <2>2. End \in Nat
      BY Bounds
    <2> HIDE DEF s, m, z, bs
    <2>3. s + (bs + t) <= End
      BY ONLY <2>1, <2>2
    <2>4. QED
      BY <2>3 DEF s
  <1>16. /\ \A a : a \in FreeSet(h.list) \cup Cells(h, p) <=>
              a \in FreeSet(g.list) \/ (a \in Int /\ Start(h, p) <= a /\ a < Start(h, p) + x)
         /\ \A a \in FreeSet(g.list) : ~(Start(h, p) <= a /\ a < Start(h, p) + x)
    <2> DEFINE s == Start(h, p)
               m == node.addr
    <2>1. s \in Nat /\ m = s + bs /\ bs \in Nat /\ t \in Nat /\ x = bs + t
      BY <1>2, <1>4, <1>5
    <2>2. \A a \in FreeSet(h.list) : a \in Int /\ a \notin Cells(h, p)
      <3>1. h.list \in Seq(Node)
        BY <1>1 DEF Shaped
      <3>2. Cells(h, p) \cap FreeSet(h.list) = {}
        BY DEF HeapInv, Disjoint
      <3>3. QED
        BY <3>1, <3>2, FreeSetIs
    <2>3. /\ \A a : a \in FreeSet(g.list) <=> a \in FreeSet(h.list) /\ ~(m <= a /\ a < m + t)
          /\ \A a \in Int : m <= a /\ a < m + t => a \in FreeSet(h.list)
      BY <1>6, <1>12
    <2>4. \A a : a \in Cells(h, p) <=> a \in Int /\ s <= a /\ a < s + bs
      BY <1>4
    <2> HIDE DEF s, m, x, bs
    <2>5. /\ \A a : a \in FreeSet(h.list) \cup Cells(h, p) <=>
               a \in FreeSet(g.list) \/ (a \in Int /\ s <= a /\ a < s + x)
          /\ \A a \in FreeSet(g.list) : ~(s <= a /\ a < s + x)
      BY ONLY <2>1, <2>2, <2>3, <2>4
    <2>6. QED
      BY <2>5 DEF s
  <1>17. g.table = h.table /\ g.leaked = h.leaked /\ g.fault = h.fault
    BY <1>9, <1>10
  <1> HIDE DEF x
  <1>18. /\ HeapInv(g) /\ DOMAIN g.header = DOMAIN h.header
         /\ \A r \in DOMAIN h.header \ {p} : g.header[r] = h.header[r]
         /\ g.header[p] = [h.header[p] EXCEPT !.block_size = x]
         /\ Room(g, p) = x - 6 - h.header[p].alignment_padding
    BY <1>11, <1>12, <1>13, <1>14, <1>15, <1>16, <1>17, Resized
  <1>19. Room(g, p) >= Room(h, p) + extra
    BY <1>4, <1>5, <1>18 DEF x
  <1>20. Reshaped(g, h, p)
    BY <1>14, <1>18 DEF Reshaped
  <1>21. QED
    BY <1>17, <1>18, <1>19, <1>20

(* Where the rest of a block that shrinks goes: among the nodes, or to the node
   right behind the block.                                                 *)
Among(list, x) ==
  LET Above(m) == m.addr >= x
      at == FirstNode(list, Above)
  IN  IF at = 0 THEN Len(list) + 1 ELSE at

LEMMA AmongIs ==
  ASSUME NEW list, Linked(list), NEW x \in Nat
  PROVE  /\ Among(list, x) \in 1 .. Len(list) + 1 /\ Among(list, x) \in Nat \ {0}
         /\ \A j \in 1 .. Among(list, x) - 1 : ~(list[j].addr >= x)
         /\ Among(list, x) <= Len(list) => list[Among(list, x)].addr >= x
  <1> DEFINE pos == Among(list, x)
             Above(m) == m.addr >= x
             at == FirstNode(list, Above)
  <1>1. Len(list) \in Nat /\ DOMAIN list = 1 .. Len(list)
    BY NodesIn DEF Linked
  <1>3. \/ at = 0 /\ \A j \in 1 .. Len(list) : ~(list[j].addr >= x)
        \/ /\ at \in 1 .. Len(list) /\ list[at].addr >= x
           /\ \A j \in 1 .. at - 1 : ~(list[j].addr >= x)
    <2>1. CASE ~ \E k \in DOMAIN list : Above(list[k])
      BY <1>1, <2>1 DEF FirstNode
    <2>2. CASE \E k \in DOMAIN list : Above(list[k])
      <3> DEFINE S == {k \in 1 .. Len(list) : Above(list[k])}
      <3>1. S \in SUBSET Nat /\ S # {}
        BY <1>1, <2>2
      <3>2. PICK m \in S : \A y \in Nat : y < m => y \notin S
        BY <3>1, LeastIndex
      <3>3. m \in DOMAIN list /\ Above(list[m]) /\ \A j \in 1 .. m - 1 : ~Above(list[j])
        BY <1>1, <3>2
      <3>4. at = CHOOSE k \in DOMAIN list : Above(list[k]) /\ \A j \in 1 .. k - 1 : ~Above(list[j])
        BY <2>2 DEF FirstNode
      <3>5. at \in DOMAIN list /\ Above(list[at]) /\ \A j \in 1 .. at - 1 : ~Above(list[j])
        BY <3>3, <3>4
      <3>6. QED
        BY <1>1, <3>5
    <2>3. QED
      BY <2>1, <2>2
  <1>4. pos = IF at = 0 THEN Len(list) + 1 ELSE at
    BY DEF Among
  <1> HIDE DEF at, pos
  <1>5. /\ pos \in 1 .. Len(list) + 1 /\ pos \in Nat \ {0}
        /\ \A j \in 1 .. pos - 1 : ~(list[j].addr >= x)
        /\ pos <= Len(list) => list[pos].addr >= x
    <2>1. CASE at = 0
      BY <1>1, <1>3, <1>4, <2>1
    <2>2. CASE at # 0
      BY <1>1, <1>3, <1>4, <2>2
    <2>3. QED
      BY <2>1, <2>2
  <1>6. QED
    BY <1>5 DEF pos

LEMMA SpareIs ==
  ASSUME NEW h, Heap(h), Linked(h.list), NEW b, Fits(b), Extent(b) \cap FreeSet(h.list) = {},
         NEW n, Fits(n), b.addr <= n.addr, After(n) = After(b),
         NEW pos, pos = Among(h.list, n.addr)
  PROVE  /\ Keeps(MergeIfAdjacent(NodeInsert(h, pos, n), pos), h, ListFields)
         /\ Heap(MergeIfAdjacent(NodeInsert(h, pos, n), pos))
         /\ Linked(MergeIfAdjacent(NodeInsert(h, pos, n), pos).list)
         /\ FreeSet(MergeIfAdjacent(NodeInsert(h, pos, n), pos).list) = FreeSet(h.list) \cup Extent(n)
  <1> DEFINE list == h.list
  <1>1. /\ Len(list) \in Nat /\ DOMAIN list = 1 .. Len(list) /\ list \in Seq(Node)
        /\ \A j \in 1 .. Len(list) : list[j].addr \in Nat /\ list[j].size \in Nat
                                     /\ list[j].size >= 2 /\ After(list[j]) = list[j].addr + list[j].size
    BY NodesIn DEF Linked
  <1>2. /\ n.addr \in Nat /\ n.size \in Nat /\ n.size >= 2 /\ After(n) = n.addr + n.size
        /\ b.addr \in Nat /\ n.addr < After(b)
    BY DEF Fits, Node, NodeSize, After
  <1>5. /\ pos \in 1 .. Len(list) + 1 /\ pos \in Nat \ {0}
        /\ \A j \in 1 .. pos - 1 : ~(list[j].addr >= n.addr)
        /\ pos <= Len(list) => list[pos].addr >= n.addr
    <2>1. Linked(h.list) /\ n.addr \in Nat /\ pos = Among(h.list, n.addr)
      BY <1>2
    <2>2. QED
      BY ONLY <2>1, AmongIs
  <1> DEFINE ins == NodeInsert(h, pos, n)
             g == MergeIfAdjacent(ins, pos)
  <1>6. \A j \in 1 .. pos - 1 : After(list[j]) <= n.addr
    <2>1. ASSUME NEW j \in 1 .. pos - 1
          PROVE  After(list[j]) <= n.addr
      <3>1. j \in 1 .. Len(list)
        BY <1>1, <1>5
      <3>2. list[j].addr <= n.addr
        BY SMTT(30), <1>1, <1>2, <1>5, <3>1
      <3>3. After(list[j]) <= b.addr
        BY <1>2, <3>1, <3>2, Beside
      <3>4. After(list[j]) \in Nat
        BY <1>1, <3>1
      <3>5. QED
        BY <1>2, <3>3, <3>4
    <2>2. QED
      BY <2>1
  <1>7. \A j \in pos .. Len(list) : After(n) <= list[j].addr
    <2>1. ASSUME NEW j \in pos .. Len(list)
          PROVE  After(n) <= list[j].addr
      <3>1. j \in 1 .. Len(list) /\ pos \in 1 .. Len(list) /\ pos <= Len(list) /\ (pos = j \/ pos < j)
        BY <1>1, <1>5
      <3>2. list[j].addr >= n.addr
        <4>1. CASE pos = j
          BY <1>1, <1>5, <3>1, <4>1
        <4>2. CASE pos < j
          <5>1. After(list[pos]) <= list[j].addr
            BY <3>1, <4>2 DEF Linked, Sorted
          <5>2. /\ list[pos].addr \in Nat /\ list[pos].size \in Nat /\ list[j].addr \in Nat
                /\ After(list[pos]) = list[pos].addr + list[pos].size /\ list[pos].addr >= n.addr
            BY <1>1, <1>5, <3>1
          <5>3. \A x, y, z, e \in Nat : x >= e /\ x + y <= z => z >= e
            OBVIOUS
          <5>4. QED
            BY SMTT(30), <1>2, <5>1, <5>2, <5>3
        <4>3. QED
          BY <3>1, <4>1, <4>2
      <3>3. list[j].addr # n.addr
        <4>1. n.addr \in Extent(b)
          <5>1. b.size \in Nat
            BY DEF Fits, Node
          <5>2. After(b) = b.addr + b.size
            BY DEF After
          <5>3. \A a : a \in Extent(b) <=> a \in Int /\ b.addr <= a /\ a < b.addr + b.size
            BY <1>2, <5>1, ExtentIs
          <5>4. n.addr < b.addr + b.size
            BY <1>2, <5>2
          <5>5. QED
            BY <1>2, <5>3, <5>4
        <4>2. list[j].addr \in FreeSet(list)
          <5>1. list[j].addr <= list[j].addr /\ list[j].addr < After(list[j]) /\ list[j].addr \in Int
            BY SMTT(30), <1>1, <3>1
          <5>2. \A a : a \in FreeSet(list) <=>
                   a \in Int /\ \E k \in 1 .. Len(list) : list[k].addr <= a /\ a < After(list[k])
            BY <1>1, FreeSetIs
          <5>3. QED
            BY <3>1, <5>1, <5>2
        <4>3. QED
          BY <4>1, <4>2
      <3>4. n.addr < list[j].addr
        BY <1>1, <1>2, <3>1, <3>2, <3>3
      <3>5. QED
        BY <1>2, <3>1, <3>4, Beside
    <2>2. QED
      BY <2>1
  <1>8. /\ Keeps(ins, h, ListFields) /\ Heap(ins)
        /\ Sorted(ins.list) /\ Apart(ins.list, {pos - 1, pos})
        /\ FreeSet(ins.list) = FreeSet(list) \cup Extent(n)
    BY <1>5, <1>6, <1>7, NodeInsertIs
  <1> HIDE DEF ins
  <1>9. /\ Keeps(g, ins, ListFields) /\ Heap(g) /\ Linked(g.list)
        /\ FreeSet(g.list) = FreeSet(ins.list)
    BY <1>5, <1>8, MergeIfAdjacentIs
  <1> HIDE DEF g
  <1>10. Keeps(g, h, ListFields)
    BY <1>8, <1>9 DEF Keeps
  <1>11. QED
    BY <1>8, <1>9, <1>10 DEF g, ins

(* The node right behind the block moves down to its new end. *)
LEMMA AbsorbedIs ==
  ASSUME NEW h, HeapInv(h), NEW p \in DOMAIN h.header, NEW spare \in Nat, spare > 0,
         spare < h.header[p].block_size, NEW i \in 1 .. Len(h.list),
         h.list[i].addr = Start(h, p) + h.header[p].block_size,
         NEW n \in Node, n.addr = h.list[i].addr - spare, n.size = h.list[i].size + spare
  PROVE  /\ Linked([h.list EXCEPT ![i] = n])
         /\ Len([h.list EXCEPT ![i] = n]) = Len(h.list)
         /\ \A a : a \in FreeSet([h.list EXCEPT ![i] = n]) <=>
              \/ a \in FreeSet(h.list)
              \/ a \in Int /\ h.list[i].addr - spare <= a /\ a < h.list[i].addr
  <1> DEFINE list == h.list
             b == Block(h, p)
             m == h.list[i]
  <1>1. Linked(list)
    BY DEF HeapInv
  <1>2. /\ Len(list) \in Nat /\ list \in Seq(Node)
        /\ \A j \in 1 .. Len(list) : list[j].addr \in Nat /\ list[j].size \in Nat
             /\ list[j].size >= 2 /\ After(list[j]) = list[j].addr + list[j].size
             /\ After(list[j]) \in Nat
    <2>1. /\ Len(list) \in Nat /\ list \in Seq(Node)
          /\ \A j \in 1 .. Len(list) : list[j].addr \in Nat /\ list[j].size \in Nat
               /\ list[j].size >= 2 /\ After(list[j]) = list[j].addr + list[j].size
      BY <1>1, NodesIn DEF Linked
    <2>2. \A x, y \in Nat : x + y \in Nat
      OBVIOUS
    <2>3. QED
      BY ONLY <2>1, <2>2
  <1>3. /\ Fits(b) /\ b.addr = Start(h, p) /\ After(b) = m.addr
        /\ Extent(b) \cap FreeSet(list) = {}
        /\ p \in Nat /\ b.addr <= p /\ p < After(b)
    <2>1. /\ Fits(b) /\ b.addr = Start(h, p) /\ After(b) = Start(h, p) + h.header[p].block_size
          /\ Extent(b) \cap FreeSet(list) = {} /\ p \in Nat /\ Start(h, p) + 6 <= p /\ p < After(b)
      BY BlockFits
    <2>2. Start(h, p) \in Nat
      BY PlacedIs DEF HeapInv
    <2>3. QED
      BY <2>1, <2>2
  <1>4. /\ b.addr \in Nat /\ b.addr < m.addr - spare /\ m.addr \in Nat /\ m.size \in Nat
        /\ m.addr - spare \in Nat
    <2> DEFINE bs == h.header[p].block_size
    <2>1. b.addr \in Nat /\ bs \in Nat
      BY <1>3, HeaderIs DEF Fits, Node, HeapInv
    <2>2. m.addr \in Nat /\ m.size \in Nat
      BY <1>2
    <2>3. m.addr = b.addr + bs /\ spare < bs /\ spare \in Nat
      BY <1>3
    <2> HIDE DEF bs, b, m
    <2>4. QED
      BY ONLY <2>1, <2>2, <2>3
  <1>5. /\ n \in Node /\ n.addr = m.addr - spare /\ n.size = m.size + spare
        /\ After(n) = m.addr + m.size /\ After(n) = After(m)
    <2>1. n.addr = m.addr - spare /\ n.size = m.size + spare
      OBVIOUS
    <2>2. n \in Node
      OBVIOUS
    <2>3. After(n) = m.addr + m.size /\ After(m) = m.addr + m.size
      <3>1. After(n) = n.addr + n.size /\ After(m) = m.addr + m.size
        BY DEF After
      <3> HIDE DEF m
      <3>2. QED
        BY <1>4, <2>1, <3>1
    <2>4. QED
      BY <2>1, <2>2, <2>3
  <1>6. Fits(n)
    <2>1. Fits(m)
      BY <1>1 DEF Linked, Sorted
    <2>2. Base <= b.addr /\ Base \in Nat
      BY <1>3, Bounds DEF Fits
    <2>3. n.size >= 2 /\ Base <= n.addr
      <3> HIDE DEF m
      <3>1. m.size >= 2
        BY <2>1 DEF Fits, NodeSize
      <3>2. QED
        BY ONLY <1>4, <1>5, <2>2, <3>1, spare \in Nat
    <2>4. After(n) <= End
      BY <1>5, <2>1 DEF Fits
    <2>5. QED
      BY <1>5, <2>3, <2>4 DEF Fits, NodeSize
  <1> HIDE DEF b
  <1>7. \A j \in 1 .. Len(list) : j < i => After(list[j]) <= b.addr
    <2>1. ASSUME NEW j \in 1 .. Len(list), j < i
          PROVE  After(list[j]) <= b.addr
      <3>1. After(list[j]) <= m.addr
        BY <1>1, <2>1 DEF Linked, Sorted
      <3>2. list[j].addr < After(b)
        <4>1. /\ list[j].addr \in Nat /\ list[j].size \in Nat /\ list[j].size >= 2
              /\ After(list[j]) = list[j].addr + list[j].size
          BY <1>2
        <4>2. \A x, y, z \in Nat : y >= 2 /\ x + y <= z => x < z
          OBVIOUS
        <4>3. QED
          BY <1>3, <1>4, <3>1, <4>1, <4>2
      <3>3. ~(p < list[j].addr)
        <4>1. p < list[j].addr => After(b) <= list[j].addr
          BY <1>1, <1>3, Beside
        <4>2. QED
          BY SMTT(30), <1>2, <1>3, <1>4, <3>2, <4>1
      <3>4. list[j].addr <= p
        <4>1. list[j].addr \in Nat /\ p \in Nat
          BY <1>2, <1>3
        <4>2. QED
          BY ONLY <3>3, <4>1
      <3>5. QED
        BY <1>1, <1>3, <3>4, Beside
    <2>2. QED
      BY <2>1
  <1>8. \A j \in 1 .. Len(list) : j < i => After(list[j]) < n.addr
    <2>1. \A j \in 1 .. Len(list) : After(list[j]) \in Nat
      BY <1>2
    <2>2. b.addr < n.addr
      BY <1>4, <1>5
    <2>3. n.addr \in Nat
      BY <1>4, <1>5
    <2>4. QED
      BY <1>4, <1>7, <2>1, <2>2, <2>3
  <1>9. \A j \in 1 .. Len(list) : i < j => After(n) <= list[j].addr
    BY <1>1, <1>5 DEF Linked, Sorted
  <1>10. i < Len(list) => After(n) < list[i + 1].addr
    <2>1. \A j \in 1 .. Len(list) - 1 : After(list[j]) < list[j + 1].addr
      BY <1>1 DEF Linked, Apart
    <2>2. ASSUME i < Len(list)
          PROVE  i \in 1 .. Len(list) - 1
      BY <1>2, <2>2
    <2>3. QED
      BY <1>5, <2>1, <2>2
  <1>11. i > 1 => i - 1 \in 1 .. Len(list) /\ i - 1 < i
    BY <1>2
  <1> DEFINE new == [list EXCEPT ![i] = n]
  <1>12. /\ Sorted(new) /\ Apart(new, {}) /\ Len(new) = Len(list)
         /\ FreeSet(new) = (FreeSet(list) \ Extent(m)) \cup Extent(n)
    <2>1. \A j \in 1 .. Len(list) : j < i => After(list[j]) <= n.addr
      <3>1. \A j \in 1 .. Len(list) : After(list[j]) \in Nat
        BY <1>2
      <3>2. n.addr \in Nat
        BY <1>4, <1>5
      <3>3. QED
        BY <1>8, <3>1, <3>2
    <2>2. i > 1 => After(list[i - 1]) < n.addr
      BY <1>8, <1>11
    <2>3. QED
      BY SMTT(30), <1>1, <1>6, <1>9, <1>10, <2>1, <2>2, ReplaceLinked
  <1>13. \A a : a \in Extent(m) <=> a \in Int /\ m.addr <= a /\ a < m.addr + m.size
    <2>1. m.addr \in Int /\ m.size \in Int
      BY <1>4
    <2> HIDE DEF m
    <2>2. QED
      BY ONLY <2>1, ExtentIs
  <1>14. \A a : a \in Extent(n) <=> a \in Int /\ m.addr - spare <= a /\ a < m.addr + m.size
    <2>1. \A a : a \in Extent(n) <=> a \in Int /\ n.addr <= a /\ a < n.addr + n.size
      <3>1. n.addr \in Int /\ n.size \in Int
        BY DEF Node
      <3>2. QED
        BY ONLY <3>1, ExtentIs
    <2>2. n.addr = m.addr - spare /\ n.addr + n.size = m.addr + m.size
      <3> HIDE DEF m
      <3>1. QED
        BY <1>4, <1>5
    <2>3. QED
      BY <2>1, <2>2
  <1>15. Extent(m) \subseteq FreeSet(list)
    BY DEF FreeSet
  <1>16. Linked(new)
    BY <1>12 DEF Linked
  <1>17. ASSUME NEW a
         PROVE  a \in FreeSet(new) <=>
                  a \in FreeSet(list) \/ (a \in Int /\ m.addr - spare <= a /\ a < m.addr)
    <2> HIDE DEF new, m
    <2>1. a \in FreeSet(new) <=> (a \in FreeSet(list) /\ a \notin Extent(m)) \/ a \in Extent(n)
      BY <1>12
    <2>2. a \in Extent(m) => a \in FreeSet(list)
      BY <1>15
    <2>3. CASE a \in Int
      BY SMTT(30), <1>4, <1>13, <1>14, <2>1, <2>2, <2>3
    <2>4. CASE a \notin Int
      BY <1>13, <1>14, <2>1, <2>4
    <2>5. QED
      BY <2>3, <2>4
  <1> HIDE DEF new
  <1>18. QED
    BY <1>12, <1>16, <1>17 DEF new

LEMMA ShrinkIs ==
  ASSUME NEW h, HeapInv(h), NEW p \in DOMAIN h.header, NEW spare \in Nat, spare > 0,
         spare < Room(h, p), NEW g, g = Shrink(h, p, spare)
  PROVE  /\ HeapInv(g) /\ g.fault = h.fault /\ Reshaped(g, h, p)
         /\ Room(g, p) >= Room(h, p) - spare
  <1> DEFINE i == Behind(h, p)
             s == Start(h, p)
             bs == h.header[p].block_size
             pad == h.header[p].alignment_padding
             x == bs - spare
             less == [h EXCEPT !.used = @ - spare, !.header[p].block_size = @ - spare]
             n == [addr |-> p + Room(h, p) - spare, size |-> spare]
             b == Block(h, p)
             pos == Among(h.list, p + Room(h, p) - spare)
  <1>1. Shaped(h) /\ Linked(h.list) /\ Heap(h) /\ Placed(h, p)
    BY DEF HeapInv
  <1>2. /\ bs \in Nat /\ pad \in Nat /\ s \in Nat /\ p \in Nat
        /\ bs > 6 + pad /\ p + Room(h, p) = s + bs /\ Room(h, p) = bs - 6 - pad
        /\ s + bs <= End /\ End \in Nat /\ Base <= s /\ Base \in Nat
        /\ \A a : a \in Cells(h, p) <=> a \in Int /\ s <= a /\ a < s + bs
    BY <1>1, HeaderIs, PlacedIs, Bounds DEF Placed, HeaderSize
  <1>3. /\ less.list = h.list /\ less.used = h.used - spare /\ less.block_count = h.block_count
        /\ less.table = h.table /\ less.leaked = h.leaked /\ less.fault = h.fault
        /\ less.header = [h.header EXCEPT ![p].block_size = bs - spare]
        /\ DOMAIN less = DOMAIN h
        /\ DOMAIN h = {"list", "used", "block_count", "table", "header", "leaked", "fault"}
        /\ h.used \in Int /\ h.block_count = Len(h.list)
    BY <1>1 DEF Shaped, Heap
  <1> HIDE DEF less
  <1>4. g = IF spare >= NodeSize THEN MergeIfAdjacent(NodeInsert(less, pos, n), pos)
            ELSE IF i = 0 THEN h
            ELSE [less EXCEPT !.list[i] = [addr |-> @.addr - spare, size |-> @.size + spare]]
    BY DEF Shrink, less, Among
  <1> HIDE DEF pos, i
  <1>5. /\ x \in Nat /\ x > 6 + pad /\ s + x <= End /\ x < bs /\ x = bs - spare
        /\ p + Room(h, p) - spare = s + x
        /\ x - 6 - pad = Room(h, p) - spare
    <2> DEFINE room == Room(h, p)
    <2>1. room = bs - 6 - pad /\ spare < room /\ p + room = s + bs /\ s + bs <= End
      BY <1>2
    <2>2. bs \in Nat /\ pad \in Nat /\ s \in Nat /\ p \in Nat /\ End \in Nat
      BY <1>2
    <2> HIDE DEF room, bs, pad, s
    <2>3. QED
      BY ONLY <2>1, <2>2, spare \in Nat, spare > 0 DEF room
  <1> HIDE DEF bs, s, pad, x
  <1>6. ASSUME DOMAIN g = DOMAIN h, Linked(g.list), Heap(g),
               g.used = less.used, g.table = h.table, g.leaked = h.leaked, g.fault = h.fault,
               g.header = less.header,
               \A a : a \in FreeSet(g.list) <=>
                 a \in FreeSet(h.list) \/ (a \in Int /\ s + x <= a /\ a < s + bs)
        PROVE  /\ HeapInv(g) /\ g.fault = h.fault /\ Reshaped(g, h, p)
               /\ Room(g, p) >= Room(h, p) - spare
    <2>1. g.used = h.used - bs + x
      BY <1>2, <1>3, <1>5, <1>6
    <2>2. g.header = [h.header EXCEPT ![p].block_size = x]
      BY <1>3, <1>5, <1>6
    <2>3. \A a \in FreeSet(h.list) : a \in Int /\ a \notin Cells(h, p)
      <3>1. h.list \in Seq(Node)
        BY <1>1 DEF Shaped
      <3>2. Cells(h, p) \cap FreeSet(h.list) = {}
        BY DEF HeapInv, Disjoint
      <3>3. QED
        BY <3>1, <3>2, FreeSetIs
    <2>4. /\ \A a : a \in FreeSet(h.list) \cup Cells(h, p) <=>
               a \in FreeSet(g.list) \/ (a \in Int /\ s <= a /\ a < s + x)
          /\ \A a \in FreeSet(g.list) : ~(s <= a /\ a < s + x)
      <3>1. \A a : a \in FreeSet(g.list) <=>
              a \in FreeSet(h.list) \/ (a \in Int /\ s + x <= a /\ a < s + bs)
        BY <1>6
      <3>2. /\ \A a : a \in Cells(h, p) <=> a \in Int /\ s <= a /\ a < s + bs
            /\ s \in Nat /\ x \in Nat /\ bs \in Nat /\ x < bs
        BY <1>2, <1>5
      <3>3. QED
        BY ONLY <2>3, <3>1, <3>2
    <2>5. /\ HeapInv(g) /\ DOMAIN g.header = DOMAIN h.header
          /\ \A r \in DOMAIN h.header \ {p} : g.header[r] = h.header[r]
          /\ g.header[p] = [h.header[p] EXCEPT !.block_size = x]
          /\ Room(g, p) = x - 6 - pad
      <3>1. x \in Nat /\ x > 6 + h.header[p].alignment_padding /\ Start(h, p) + x <= End
        BY <1>5 DEF pad, s
      <3>2. g.used = h.used - h.header[p].block_size + x
        BY <2>1 DEF bs
      <3>3. /\ \A a : a \in FreeSet(h.list) \cup Cells(h, p) <=>
                 a \in FreeSet(g.list) \/ (a \in Int /\ Start(h, p) <= a /\ a < Start(h, p) + x)
            /\ \A a \in FreeSet(g.list) : ~(Start(h, p) <= a /\ a < Start(h, p) + x)
        BY <2>4 DEF s
      <3>4. QED
        BY <1>6, <2>2, <3>1, <3>2, <3>3, Resized DEF pad
    <2>6. Room(g, p) >= Room(h, p) - spare
      <3>1. Room(g, p) = Room(h, p) - spare /\ Room(g, p) \in Int
        BY <1>2, <1>5, <2>5
      <3>2. QED
        BY <3>1
    <2>7. QED
      BY <1>5, <1>6, <2>5, <2>6 DEF Reshaped
  <1>7. CASE spare >= NodeSize
    <2>1. g = MergeIfAdjacent(NodeInsert(less, pos, n), pos)
      BY <1>4, <1>7
    <2>2. n.addr = s + x /\ n.size = spare /\ n \in Node /\ After(n) = s + bs
      <3>1. n.addr = s + x /\ n.size = spare
        BY <1>5
      <3>2. s + x \in Nat /\ s + x + spare = s + bs
        BY ONLY <1>2, <1>5, spare \in Nat
      <3>3. QED
        BY <3>1, <3>2 DEF Node, After
    <2>3. pos = Among(less.list, n.addr)
      BY <1>3 DEF pos
    <2> HIDE DEF n
    <2>4. Fits(n)
      <3>1. Base <= s + x /\ s + bs <= End
        BY ONLY <1>2, <1>5
      <3>2. QED
        BY <1>7, <2>2, <3>1 DEF Fits
    <2>5. /\ Fits(b) /\ Extent(b) \cap FreeSet(less.list) = {}
          /\ b.addr <= n.addr /\ After(n) = After(b)
      <3>1. /\ Fits(b) /\ b.addr = s /\ After(b) = s + bs /\ Extent(b) \cap FreeSet(h.list) = {}
        BY BlockFits DEF s, bs
      <3>2. s <= s + x
        BY <1>2, <1>5
      <3>3. QED
        BY <1>3, <2>2, <3>1, <3>2
    <2>6. Heap(less) /\ Linked(less.list)
      BY <1>1, <1>3 DEF Heap
    <2>7. /\ Keeps(g, less, ListFields) /\ Heap(g) /\ Linked(g.list)
          /\ FreeSet(g.list) = FreeSet(less.list) \cup Extent(n)
      BY <2>1, <2>3, <2>4, <2>5, <2>6, SpareIs
    <2>8. /\ DOMAIN g = DOMAIN h /\ g.used = less.used /\ g.table = h.table /\ g.leaked = h.leaked
          /\ g.fault = h.fault /\ g.header = less.header
      BY <1>3, <2>7 DEF Keeps, ListFields
    <2>9. \A a : a \in FreeSet(g.list) <=>
            a \in FreeSet(h.list) \/ (a \in Int /\ s + x <= a /\ a < s + bs)
      <3>1. \A a : a \in Extent(n) <=> a \in Int /\ n.addr <= a /\ a < n.addr + n.size
        BY <2>2, ExtentIs DEF Node
      <3>2. n.addr + n.size = s + bs
        BY <2>2 DEF After
      <3>3. QED
        BY <1>3, <2>2, <2>7, <3>1, <3>2
    <2>10. QED
      BY <1>6, <2>7, <2>8, <2>9
  <1>8. CASE ~(spare >= NodeSize) /\ i = 0
    <2>1. g = h
      BY <1>4, <1>8
    <2>2. bs \in Nat /\ h.header[p] = [h.header[p] EXCEPT !.block_size = bs]
      <3>1. h.header[p] \in Header
        BY <1>1, HeaderIs
      <3>2. QED
        BY <1>2, <3>1 DEF bs, Header
    <2>3. Room(h, p) >= Room(h, p) - spare
      <3>1. Room(h, p) \in Int
        BY <1>2
      <3>2. QED
        BY <3>1
    <2>4. Reshaped(g, h, p)
      BY <2>1, <2>2 DEF Reshaped
    <2>5. QED
      BY <2>1, <2>3, <2>4
  <1>9. CASE ~(spare >= NodeSize) /\ i # 0
    <2> DEFINE m == [addr |-> h.list[i].addr - spare, size |-> h.list[i].size + spare]
               new == [h.list EXCEPT ![i] = m]
    <2>1. i \in 1 .. Len(h.list) /\ h.list[i].addr = s + bs
      BY <1>2, <1>9, BehindIs DEF i
    <2>2. h.list[i].addr \in Nat /\ h.list[i].size \in Nat
      BY <2>1, NodeOf
    <2>3. g.list = new /\ DOMAIN g = DOMAIN less /\ \A f \in DOMAIN less \ {"list"} : g[f] = less[f]
      BY <1>3, <1>4, <1>9, <2>1
    <2>4. m \in Node /\ m.addr = h.list[i].addr - spare /\ m.size = h.list[i].size + spare
      <3>1. m.addr = h.list[i].addr - spare /\ m.size = h.list[i].size + spare
        OBVIOUS
      <3>2. h.list[i].addr - spare \in Nat /\ h.list[i].size + spare \in Nat
        BY SMTT(30), <1>2, <1>5, <2>1, <2>2
      <3>3. QED
        BY <3>2 DEF Node
    <2> HIDE DEF m
    <2>5. /\ Linked(new) /\ Len(new) = Len(h.list)
          /\ \A a : a \in FreeSet(new) <=>
               a \in FreeSet(h.list) \/ (a \in Int /\ h.list[i].addr - spare <= a /\ a < h.list[i].addr)
      <3>1. spare < h.header[p].block_size
        BY ONLY <1>2, <1>5, spare \in Nat DEF bs
      <3>2. h.list[i].addr = Start(h, p) + h.header[p].block_size
        BY <2>1 DEF s, bs
      <3>3. QED
        BY <2>1, <2>4, <3>1, <3>2, AbsorbedIs
    <2> HIDE DEF new
    <2>6. /\ DOMAIN g = DOMAIN h /\ g.used = less.used /\ g.table = h.table /\ g.leaked = h.leaked
          /\ g.fault = h.fault /\ g.header = less.header /\ g.block_count = Len(g.list)
      BY <1>3, <2>3, <2>5
    <2>7. Heap(g) /\ Linked(g.list)
      BY <1>3, <2>3, <2>5, <2>6 DEF Heap
    <2>8. h.list[i].addr - spare = s + x
      BY ONLY <1>2, <1>5, <2>1, spare \in Nat
    <2>9. \A a : a \in FreeSet(g.list) <=>
            a \in FreeSet(h.list) \/ (a \in Int /\ s + x <= a /\ a < s + bs)
      BY <2>1, <2>3, <2>5, <2>8
    <2>10. QED
      BY <1>6, <2>6, <2>7, <2>9
  <1>10. QED
    BY <1>7, <1>8, <1>9

-----------------------------------------------------------------------------
(* The block of p is now that of q; its owner is kept. *)
Resettled(g, h, p, q) ==
  /\ q \in Unit /\ q \notin DOMAIN h.header \ {p}
  /\ DOMAIN g.header = (DOMAIN h.header \ {p}) \cup {q}
  /\ \A r \in DOMAIN h.header \ {p} : g.header[r] = h.header[r]
  /\ g.header[q].pOwner = h.header[p].pOwner
  /\ g.header[q].child_header \in {NULL, h.header[p].child_header}

LEMMA GrowByMovingIs ==
  ASSUME NEW h, HeapInv(h), h.fault = "none", NEW p \in DOMAIN h.header,
         NEW i \in 1 .. Len(h.list), NEW n \in Nat, n > 0, NEW align \in Alignments,
         h.list[i].size >= n + Padding(h.list[i].addr, align),
         NEW q, q = AllocPtr(h, i, align), NEW g, g = GrowByMoving(h, p, i, n, align)
  PROVE  HeapInv(g) /\ g.fault = h.fault /\ Resettled(g, h, p, q) /\ Room(g, q) >= n
  <1> DEFINE new == AllocAlign(h, i, n, align)
             freed == FreeBlock(new, p)
  <1>1. /\ HeapInv(new) /\ new.fault = h.fault /\ q \in Unit /\ q \notin DOMAIN h.header
        /\ DOMAIN new.header = DOMAIN h.header \cup {q}
        /\ \A r \in DOMAIN h.header : new.header[r] = h.header[r]
        /\ new.header[q].pOwner = NULL /\ new.header[q].child_header = NULL
        /\ Room(new, q) >= n
    <2>1. /\ i \in 1 .. Len(h.list) /\ n \in Nat /\ n > 0 /\ align \in Alignments /\ HeapInv(h)
          /\ h.list[i].size >= n + Padding(h.list[i].addr, align) /\ q = AllocPtr(h, i, align)
          /\ new = AllocAlign(h, i, n, align)
      OBVIOUS
    <2> HIDE DEF new, freed
    <2>2. QED
      BY ONLY <2>1, AllocAlignIs
  <1> HIDE DEF new
  <1>2. /\ HeapInv(freed) /\ freed.fault = new.fault
        /\ DOMAIN freed.header = DOMAIN new.header \ {p}
        /\ \A r \in DOMAIN freed.header : freed.header[r] = new.header[r]
    <2>1. p \in DOMAIN new.header
      BY <1>1
    <2>2. QED
      BY <1>1, <2>1, FreeBlockIs
  <1>3. g = [freed EXCEPT !.header[q].pOwner = h.header[p].pOwner]
    BY <1>1, <1>2 DEF GrowByMoving, new
  <1> HIDE DEF freed
  <1>4. /\ q \in DOMAIN freed.header /\ q # p
        /\ DOMAIN freed.header = (DOMAIN h.header \ {p}) \cup {q}
        /\ \A r \in DOMAIN h.header \ {p} : freed.header[r] = h.header[r]
        /\ freed.header[q] = new.header[q]
    BY <1>1, <1>2
  <1> DEFINE hd == [freed.header[q] EXCEPT !.pOwner = h.header[p].pOwner]
  <1>5. Shaped(freed) /\ Shaped(h)
    BY <1>2 DEF HeapInv
  <1>6. freed.header[q] \in Header /\ h.header[p].pOwner \in Var \cup Unit \cup {NULL}
    BY <1>4, <1>5, HeaderIs
  <1>7. /\ hd \in Header /\ hd.block_size = freed.header[q].block_size
        /\ hd.alignment_padding = freed.header[q].alignment_padding
        /\ hd.alignment_requirement = freed.header[q].alignment_requirement
        /\ hd.child_header = freed.header[q].child_header
        /\ hd.pOwner = h.header[p].pOwner
    BY <1>6 DEF Header
  <1>8. /\ DOMAIN freed = {"list", "used", "block_count", "table", "header", "leaked", "fault"}
        /\ freed.fault \in Faults /\ freed.header \in Partial(Unit, Header)
    BY <1>5 DEF Shaped
  <1>9. /\ g.header = [freed.header EXCEPT ![q] = hd] /\ DOMAIN g = DOMAIN freed
        /\ \A f \in DOMAIN freed \ {"header"} : g[f] = freed[f]
    BY <1>3, <1>8
  <1> HIDE DEF hd
  <1>10. /\ DOMAIN g.header = DOMAIN freed.header /\ g.header[q] = hd
         /\ \A r \in DOMAIN freed.header \ {q} : g.header[r] = freed.header[r]
    BY <1>4, <1>9
  <1>11. \A r \in DOMAIN freed.header : Same(g, freed, r)
    BY <1>7, <1>10 DEF Same
  <1>12. HeapInv(g)
    <2>1. g.header \in Partial(Unit, Header)
      <3>1. freed.header \in Partial(Unit, Header) /\ hd \in Header
        BY <1>7, <1>8
      <3>2. [freed.header EXCEPT ![q] = hd] \in Partial(Unit, Header)
        BY ONLY <3>1, UpdatedIs
      <3>3. QED
        BY <1>9, <3>2
    <2>2. g.fault \in Faults
      BY <1>8, <1>9
    <2>3. QED
      BY <1>2, <1>9, <1>10, <1>11, <2>1, <2>2, Relinked
  <1>13. Room(g, q) >= n
    <2>1. Room(g, q) = Room(freed, q) /\ Room(freed, q) = Room(new, q)
      BY <1>4, <1>11 DEF Same, Room
    <2>2. QED
      BY <1>1, <2>1
  <1>14. g.fault = h.fault
    BY <1>1, <1>2, <1>8, <1>9
  <1>15. Resettled(g, h, p, q)
    BY <1>1, <1>4, <1>7, <1>10 DEF Resettled
  <1>16. QED
    BY <1>12, <1>13, <1>14, <1>15

LEMMA FaultIs ==
  ASSUME NEW h, HeapInv(h), NEW f \in Faults
  PROVE  /\ HeapInv(Fault(h, f)) /\ Fault(h, f).header = h.header /\ Fault(h, f).fault = f
         /\ Fault(h, f).list = h.list /\ \A p : Room(Fault(h, f), p) = Room(h, p)
  <1> DEFINE g == Fault(h, f)
  <1>1. /\ DOMAIN h = {"list", "used", "block_count", "table", "header", "leaked", "fault"}
        /\ h.header \in Partial(Unit, Header)
    BY DEF HeapInv, Shaped
  <1>2. /\ DOMAIN g = DOMAIN h /\ \A x \in DOMAIN h \ {"fault"} : g[x] = h[x]
        /\ g.fault = f /\ g.header = h.header /\ g.list = h.list
    BY <1>1 DEF Fault
  <1> HIDE DEF g
  <1>3. \A r \in DOMAIN h.header : Same(g, h, r)
    BY <1>2 DEF Same
  <1>4. HeapInv(g)
    BY <1>1, <1>2, <1>3, Relinked
  <1>5. \A p : Room(g, p) = Room(h, p)
    BY <1>2 DEF Room
  <1>6. QED
    BY <1>2, <1>4, <1>5 DEF g

(* What a call of realloc() does to the heap, whatever it returns. *)
LEMMA ReallocIs ==
  ASSUME NEW h, HeapInv(h), h.fault = "none", NEW p \in DOMAIN h.header, NEW n \in Requests,
         NEW r, r = ReallocResult(h, p, n)
  PROVE  /\ HeapInv(r.fl)
         /\ \/ /\ r.p = NULL /\ r.fl.header = h.header
               /\ Room(r.fl, p) = Room(h, p)
            \/ r.p # NULL /\ Resettled(r.fl, h, p, r.p) /\ Room(r.fl, r.p) >= n
  <1> DEFINE old == Room(h, p)
             size == AtLeast(n, NodeSize)
             align == h.header[p].alignment_requirement
             i == FindBest(h, size, align)
             refused == n > old /\ n - old > FreeUnits(h) - HeaderSize
             done == IF n < old THEN [fl |-> Shrink(h, p, old - n), p |-> p]
                     ELSE IF GrowsInPlace(h, p, n - old)
                          THEN [fl |-> GrowInPlace(h, p, n - old), p |-> p]
                     ELSE IF i = 0 THEN [fl |-> h, p |-> NULL]
                     ELSE [fl |-> GrowByMoving(h, p, i, size, align),
                           p |-> AllocPtr(h, i, align)]
             Right(f, q) ==
               /\ HeapInv(f)
               /\ \/ q = NULL /\ f.header = h.header /\ Room(f, p) = Room(h, p)
                  \/ q # NULL /\ Resettled(f, h, p, q) /\ Room(f, q) >= n
  <1>1. /\ Shaped(h) /\ p \in Unit /\ p # NULL /\ old \in Nat /\ old > 0 /\ align \in Alignments
        /\ h.header[p] \in Header
    <2>1. Shaped(h) /\ Placed(h, p)
      BY DEF HeapInv
    <2>2. QED
      BY <2>1, HeaderIs, PlacedIs, Bounds DEF NULL
  <1>2. n \in Nat /\ n > 0 /\ size \in Nat /\ size > 0 /\ size >= n
    BY HeapAssumption DEF AtLeast, NodeSize
  <1>3. Right(h, NULL)
    OBVIOUS
  <1>4. ASSUME NEW f, NEW q, Right(f, q)
        PROVE  Right(Fault(f, "assert"), q)
    <2> DEFINE g == Fault(f, "assert")
    <2>1. "assert" \in Faults
      BY DEF Faults
    <2>2. HeapInv(g) /\ g.header = f.header /\ Room(g, p) = Room(f, p) /\ Room(g, q) = Room(f, q)
      BY <1>4, <2>1, FaultIs
    <2> HIDE DEF g
    <2>3. Resettled(f, h, p, q) => Resettled(g, h, p, q)
      BY <2>2 DEF Resettled
    <2>4. QED
      BY <1>4, <2>2, <2>3 DEF g
  <1>5. ASSUME NEW f, HeapInv(f), Reshaped(f, h, p), Room(f, p) >= n
        PROVE  Right(f, p)
    <2>1. /\ f.header[p].pOwner = h.header[p].pOwner
          /\ f.header[p].child_header = h.header[p].child_header
      BY <1>1, <1>5 DEF Header, Reshaped
    <2>2. Resettled(f, h, p, p)
      BY <1>1, <1>5, <2>1 DEF Resettled, Reshaped
    <2>3. QED
      BY <1>1, <1>5, <2>2
  <1>6. n = old => Right(h, p)
    <2>1. h.header[p] = [h.header[p] EXCEPT !.block_size = h.header[p].block_size]
      BY <1>1 DEF Header
    <2>2. h.header[p].block_size \in Nat
      BY <1>1, HeaderIs
    <2>3. n = old => Room(h, p) >= n
      BY <1>1
    <2>4. Reshaped(h, h, p)
      BY <2>1, <2>2 DEF Reshaped
    <2>5. QED
      BY <1>5, <2>3, <2>4
  <1> HIDE DEF old, size, align, i
  <1>7. ASSUME n # old
        PROVE  Right(done.fl, done.p)
    <2>1. CASE n < old
      <3> DEFINE f == Shrink(h, p, old - n)
      <3>1. done.fl = f /\ done.p = p
        BY <2>1
      <3>2. old - n \in Nat /\ old - n > 0 /\ old - n < old
        BY <1>1, <1>2, <2>1
      <3> HIDE DEF done
      <3>3. /\ HeapInv(f) /\ Reshaped(f, h, p)
            /\ Room(f, p) >= Room(h, p) - (old - n)
        <4> DEFINE k == old - n
        <4>1. /\ HeapInv(h) /\ p \in DOMAIN h.header /\ k \in Nat /\ k > 0 /\ k < Room(h, p)
              /\ f = Shrink(h, p, k)
          BY <3>2 DEF old
        <4> HIDE DEF k, f
        <4>2. /\ HeapInv(f) /\ Reshaped(f, h, p)
              /\ Room(f, p) >= Room(h, p) - k
          BY ONLY <4>1, ShrinkIs
        <4>3. QED
          BY <4>2 DEF k
      <3>4. Room(f, p) >= n
        <4>1. Room(h, p) - (old - n) = n
          BY <1>1, <1>2 DEF old
        <4>2. QED
          BY <3>3, <4>1
      <3> HIDE DEF f
      <3>5. Right(f, p)
        BY <1>5, <3>3, <3>4
      <3>6. QED
        BY <3>1, <3>5
    <2>2. CASE ~(n < old) /\ GrowsInPlace(h, p, n - old)
      <3> DEFINE f == GrowInPlace(h, p, n - old)
      <3>1. done.fl = f /\ done.p = p
        BY <2>2
      <3>2. n - old \in Nat /\ n - old > 0
        BY <1>1, <1>2, <1>7, <2>2
      <3> HIDE DEF done
      <3>3. /\ HeapInv(f) /\ Reshaped(f, h, p)
            /\ Room(f, p) >= Room(h, p) + (n - old)
        <4> DEFINE k == n - old
        <4>1. /\ HeapInv(h) /\ p \in DOMAIN h.header /\ k \in Nat /\ k > 0
              /\ GrowsInPlace(h, p, k) /\ f = GrowInPlace(h, p, k)
          BY <2>2, <3>2
        <4> HIDE DEF k, f
        <4>2. /\ HeapInv(f) /\ Reshaped(f, h, p)
              /\ Room(f, p) >= Room(h, p) + k
          BY ONLY <4>1, GrowInPlaceIs
        <4>3. QED
          BY <4>2 DEF k
      <3>4. Room(f, p) >= n
        <4>1. Room(h, p) + (n - old) = n
          BY <1>1, <1>2 DEF old
        <4>2. QED
          BY <3>3, <4>1
      <3> HIDE DEF f
      <3>5. Right(f, p)
        BY <1>5, <3>3, <3>4
      <3>6. QED
        BY <3>1, <3>5
    <2>3. CASE ~(n < old) /\ ~GrowsInPlace(h, p, n - old) /\ i = 0
      <3>1. done.fl = h /\ done.p = NULL
        BY <2>3
      <3>2. QED
        BY <1>3, <3>1
    <2>4. CASE ~(n < old) /\ ~GrowsInPlace(h, p, n - old) /\ i # 0
      <3> DEFINE f == GrowByMoving(h, p, i, size, align)
                 q == AllocPtr(h, i, align)
      <3>1. done.fl = f /\ done.p = q
        BY <2>4
      <3> HIDE DEF done
      <3>2. i \in 1 .. Len(h.list) /\ h.list[i].size >= size + Padding(h.list[i].addr, align)
        BY <2>4, FindBestIs DEF i
      <3>3. HeapInv(f) /\ Resettled(f, h, p, q) /\ Room(f, q) >= size
        BY <1>1, <1>2, <3>2, GrowByMovingIs
      <3> HIDE DEF f, q
      <3>4. q # NULL
        BY <3>3, Bounds DEF Resettled, NULL
      <3>5. Room(f, q) >= n
        <4>1. Shaped(f) /\ q \in DOMAIN f.header
          BY <3>3 DEF HeapInv, Resettled
        <4>2. Room(f, q) \in Int
          BY <4>1, HeaderIs
        <4>3. QED
          BY <1>2, <3>3, <4>2
      <3>6. QED
        BY <3>1, <3>3, <3>4, <3>5
    <2>5. QED
      BY <2>1, <2>2, <2>3, <2>4
  <1>8. r = IF n = old THEN [fl |-> h, p |-> p]
            ELSE IF ~Accounted(h) \/ (n > old /\ FreeUnits(h) < HeaderSize)
                 THEN [fl |-> Fault(h, "assert"), p |-> NULL]
            ELSE IF refused THEN [fl |-> h, p |-> NULL]
            ELSE IF ~Accounted(done.fl) THEN [fl |-> Fault(done.fl, "assert"), p |-> done.p]
            ELSE done
    BY DEF ReallocResult, old, size, align, i
  <1> HIDE DEF done, refused
  <1>9. Right(r.fl, r.p)
    <2>1. Right(Fault(h, "assert"), NULL)
      BY <1>3, <1>4
    <2>2. n # old => Right(Fault(done.fl, "assert"), done.p)
      BY <1>4, <1>7
    <2> HIDE DEF Right
    <2>3. QED
      BY <1>3, <1>6, <1>7, <1>8, <2>1, <2>2
  <1>10. QED
    BY <1>9

-----------------------------------------------------------------------------
(* A new struct. *)
LEMMA EmptyIs ==
  ASSUME NEW g, g = Empty
  PROVE  HeapInv(g) /\ DOMAIN g.header = {} /\ g.fault = "none"
  <1> DEFINE b == [addr |-> Base, size |-> Size]
  <1>1. Base \in Nat /\ Size \in Nat /\ End \in Nat /\ Base >= 1 /\ End = Base + Size /\ Size >= 2
    BY Bounds, NodeAssumption DEF NodeSize
  <1>2. /\ b \in Node /\ b.addr = Base /\ b.size = Size /\ After(b) = End
    BY <1>1 DEF Node, After
  <1>3. \A a : a \in Extent(b) <=> a \in Int /\ Base <= a /\ a < Base + Size
    BY <1>1, <1>2, ExtentIs
  <1>4. Extent(b) = Unit
    BY <1>1, <1>3, Bounds
  <1> HIDE DEF b
  <1>5. Fits(b)
    BY <1>1, <1>2 DEF Fits, NodeSize
  <1>6. <<b>> \in Seq(Node) /\ Len(<<b>>) = 1 /\ <<b>>[1] = b
    BY <1>2
  <1>7. \A k \in 1 .. 1 : k = 1
    OBVIOUS
  <1>8. Linked(<<b>>)
    BY <1>5, <1>6, <1>7 DEF Linked, Sorted, Apart
  <1>9. FreeSet(<<b>>) = Unit
    BY <1>4, <1>6, <1>7 DEF FreeSet
  <1>10. /\ g.list = <<b>> /\ g.used = 0 /\ g.block_count = 1 /\ g.table = << >>
         /\ g.header = << >> /\ g.leaked = {} /\ g.fault = "none"
         /\ DOMAIN g = {"list", "used", "block_count", "table", "header", "leaked", "fault"}
    BY DEF Empty, b
  <1>11. DOMAIN g.header = {} /\ DOMAIN g.table = {}
    BY <1>10
  <1> HIDE DEF Empty
  <1>12. g.header \in Partial(Unit, Header) /\ g.table \in Partial(Unit, Unit)
    <2> DEFINE e == << >>
    <2>1. e = [x \in DOMAIN e |-> e[x]] /\ DOMAIN e = {}
      <3>1. e \in Seq({})
        OBVIOUS
      <3>2. PICK n \in Nat : e \in [1 .. n -> {}]
        BY ONLY <3>1, SeqDef
      <3>3. QED
        BY <3>2
    <2> HIDE DEF e
    <2>2. e \in Partial(Unit, Header) /\ e \in Partial(Unit, Unit)
      BY <2>1, PartialIs
    <2>3. QED
      BY <1>10, <2>2 DEF e
  <1>13. Shaped(g)
    <2>1. g.list \in Seq(Node) /\ g.used \in Int /\ g.block_count \in Nat
      BY ONLY <1>6, <1>10
    <2>2. g.leaked \in SUBSET Node /\ g.fault \in Faults
      BY <1>10 DEF Faults
    <2>3. QED
      BY ONLY <1>10, <1>12, <2>1, <2>2 DEF Shaped
  <1>14. Covered(g) /\ Disjoint(g) /\ Keyed(g)
    BY <1>9, <1>10, <1>11 DEF Covered, Disjoint, Keyed
  <1>15. Heap(g)
    BY <1>6, <1>10 DEF Heap
  <1>16. Held(g) = {} /\ Cardinality({}) = 0
    BY <1>11, FS_EmptySet DEF Held
  <1>17. HeapInv(g)
    BY <1>8, <1>10, <1>11, <1>13, <1>14, <1>15, <1>16 DEF HeapInv
  <1>18. QED
    BY <1>10, <1>11, <1>17

LEMMA OwnedIs ==
  ASSUME NEW h, HeapInv(h), NEW p \in DOMAIN h.header, NEW owner \in Var \cup DOMAIN h.header,
         owner # p, NEW g, g = Owned(h, p, owner)
  PROVE  /\ HeapInv(g) /\ g.fault = h.fault /\ g.list = h.list
         /\ DOMAIN g.header = DOMAIN h.header
         /\ \A r \in DOMAIN h.header : Same(g, h, r)
         /\ \A r \in DOMAIN h.header :
              g.header[r].pOwner = IF r = p THEN owner ELSE h.header[r].pOwner
         /\ \A r \in DOMAIN h.header :
              g.header[r].child_header = IF r = owner THEN p ELSE h.header[r].child_header
  <1> DEFINE hp == [h.header[p] EXCEPT !.pOwner = owner]
             ho == [h.header[owner] EXCEPT !.child_header = p]
             owned == [h EXCEPT !.header[p].pOwner = owner]
             one == [h.header EXCEPT ![p] = hp]
             two == [one EXCEPT ![owner] = ho]
  <1>1. Shaped(h) /\ Placed(h, p)
    BY DEF HeapInv
  <1>2. /\ DOMAIN h = {"list", "used", "block_count", "table", "header", "leaked", "fault"}
        /\ h.fault \in Faults /\ h.header \in Partial(Unit, Header) /\ DOMAIN h.header \subseteq Unit
        /\ p \in Unit /\ h.header[p] \in Header
    BY <1>1, HeaderIs, ShapeIs
  <1>3. g = IF owner \in Unit THEN [owned EXCEPT !.header[owner].child_header = p] ELSE owned
    BY DEF Owned
  <1>4. owner \in Unit <=> owner \in DOMAIN h.header
    BY <1>2, OwnerAssumption
  <1>5. /\ DOMAIN owned = DOMAIN h /\ owned.header = one
        /\ \A f \in DOMAIN h \ {"header"} : owned[f] = h[f]
    BY <1>2
  <1>6. /\ hp \in Header /\ hp.pOwner = owner /\ hp.child_header = h.header[p].child_header
        /\ hp.block_size = h.header[p].block_size
        /\ hp.alignment_padding = h.header[p].alignment_padding
        /\ hp.alignment_requirement = h.header[p].alignment_requirement
    BY <1>2 DEF Header
  <1>7. owner \in Unit =>
          /\ ho \in Header /\ ho.child_header = p /\ ho.pOwner = h.header[owner].pOwner
          /\ ho.block_size = h.header[owner].block_size
          /\ ho.alignment_padding = h.header[owner].alignment_padding
          /\ ho.alignment_requirement = h.header[owner].alignment_requirement
    <2>1. owner \in Unit => h.header[owner] \in Header
      BY <1>1, <1>4, HeaderIs
    <2>2. QED
      BY <1>2, <2>1 DEF Header
  <1> HIDE DEF hp, owned
  <1>8. /\ DOMAIN one = DOMAIN h.header
        /\ \A r \in DOMAIN h.header : one[r] = IF r = p THEN hp ELSE h.header[r]
        /\ one \in Partial(Unit, Header)
    <2>1. one \in Partial(Unit, Header)
      BY <1>2, <1>6, UpdatedIs
    <2>2. QED
      BY <2>1
  <1>9. owner \in Unit => one[owner] = h.header[owner]
    BY <1>4, <1>8
  <1>10. /\ g.header = IF owner \in Unit THEN two ELSE one
         /\ DOMAIN g = DOMAIN h /\ \A f \in DOMAIN h \ {"header"} : g[f] = h[f]
    <2> HIDE DEF one, two
    <2>1. CASE owner \in Unit
      <3>1. g = [owned EXCEPT !.header[owner].child_header = p]
        BY <1>3, <2>1
      <3>2. /\ g.header = [one EXCEPT ![owner] = [one[owner] EXCEPT !.child_header = p]]
            /\ DOMAIN g = DOMAIN owned /\ \A f \in DOMAIN owned \ {"header"} : g[f] = owned[f]
        BY <1>2, <1>5, <3>1
      <3>3. QED
        BY <1>5, <1>9, <2>1, <3>2 DEF two
    <2>2. CASE owner \notin Unit
      BY <1>3, <1>5, <2>2
    <2>3. QED
      BY <2>1, <2>2
  <1> HIDE DEF ho, one
  <1>11. owner \in Unit =>
           /\ DOMAIN two = DOMAIN h.header
           /\ \A r \in DOMAIN h.header : two[r] = IF r = owner THEN ho ELSE one[r]
           /\ two \in Partial(Unit, Header)
    <2>1. owner \in Unit => two \in Partial(Unit, Header)
      BY <1>7, <1>8, UpdatedIs
    <2>2. QED
      BY <1>8, <2>1
  <1> HIDE DEF two
  <1>12. DOMAIN g.header = DOMAIN h.header /\ g.header \in Partial(Unit, Header)
    BY <1>8, <1>10, <1>11
  <1>13. \A r \in DOMAIN h.header :
           g.header[r] = IF r = owner THEN ho ELSE IF r = p THEN hp ELSE h.header[r]
    <2>1. CASE owner \in Unit
      BY <1>8, <1>10, <1>11, <2>1
    <2>2. CASE owner \notin Unit
      BY <1>4, <1>8, <1>10, <2>2
    <2>3. QED
      BY <2>1, <2>2
  <1>14. /\ \A r \in DOMAIN h.header : Same(g, h, r)
         /\ \A r \in DOMAIN h.header :
              g.header[r].pOwner = IF r = p THEN owner ELSE h.header[r].pOwner
         /\ \A r \in DOMAIN h.header :
              g.header[r].child_header = IF r = owner THEN p ELSE h.header[r].child_header
    BY <1>4, <1>6, <1>7, <1>13 DEF Same
  <1>15. g.fault = h.fault /\ g.list = h.list
    BY <1>2, <1>10
  <1>16. HeapInv(g)
    <2>1. /\ \A f \in DOMAIN h \ {"header", "fault"} : g[f] = h[f]
          /\ g.fault \in Faults /\ DOMAIN g = DOMAIN h
      BY <1>2, <1>10, <1>15
    <2>2. QED
      BY <1>12, <1>14, <2>1, Relinked
  <1>17. QED
    BY <1>12, <1>14, <1>15, <1>16

-----------------------------------------------------------------------------
(* The headers are related to the new pointer, as Related() says. *)
LEMMA RelatedIs ==
  ASSUME NEW headers \in Partial(Unit, Header), NEW hd \in Header, NEW q \in Unit, NEW f,
         f = Related(headers, hd, q)
  PROVE  /\ f \in Partial(Unit, Header) /\ DOMAIN f = DOMAIN headers
         /\ \A r \in DOMAIN headers :
              /\ f[r].block_size = headers[r].block_size
              /\ f[r].alignment_padding = headers[r].alignment_padding
              /\ f[r].alignment_requirement = headers[r].alignment_requirement
              /\ f[r].pOwner = IF r = hd.child_header THEN q ELSE headers[r].pOwner
              /\ f[r].child_header = IF r = hd.pOwner THEN q ELSE headers[r].child_header
  <1> DEFINE o == hd.pOwner
             c == hd.child_header
             eo == [headers[o] EXCEPT !.child_header = q]
             up == IF o \in Unit THEN [headers EXCEPT ![o].child_header = q] ELSE headers
             uo == [headers EXCEPT ![o] = eo]
             ec == [up[c] EXCEPT !.pOwner = q]
             uc == [up EXCEPT ![c] = ec]
             Parent(e) == [e EXCEPT !.child_header = q]
             Child(e) == [e EXCEPT !.pOwner = q]
  <1>1. /\ DOMAIN headers \subseteq Unit /\ NULL \notin Unit
        /\ \A r \in DOMAIN headers : headers[r] \in Header
    BY PartialIs, Bounds DEF NULL
  <1>2. \A e \in Header : /\ Parent(e) \in Header
                         /\ Parent(e).child_header = q
                         /\ Parent(e).pOwner = e.pOwner
                         /\ Parent(e).block_size = e.block_size
                         /\ Parent(e).alignment_padding = e.alignment_padding
                         /\ Parent(e).alignment_requirement = e.alignment_requirement
    BY DEF Header
  <1>3. \A e \in Header : /\ Child(e) \in Header
                         /\ Child(e).pOwner = q
                         /\ Child(e).child_header = e.child_header
                         /\ Child(e).block_size = e.block_size
                         /\ Child(e).alignment_padding = e.alignment_padding
                         /\ Child(e).alignment_requirement = e.alignment_requirement
    BY DEF Header
  <1>4. f = IF c = NULL THEN up ELSE uc
    BY DEF Related
  <1>5. up = IF o \in Unit THEN uo ELSE headers
    OBVIOUS
  <1>6. DOMAIN uo = DOMAIN headers
        /\ \A r \in DOMAIN headers : uo[r] = IF r = o THEN eo ELSE headers[r]
    OBVIOUS
  <1>7. DOMAIN uc = DOMAIN up /\ \A r \in DOMAIN up : uc[r] = IF r = c THEN ec ELSE up[r]
    OBVIOUS
  <1>8. o \in DOMAIN headers => eo = [headers[o] EXCEPT !.child_header = q]
    OBVIOUS
  <1> HIDE DEF up, uo, uc
  <1>9. /\ DOMAIN up = DOMAIN headers
        /\ \A r \in DOMAIN headers :
             up[r] = IF r = o THEN Parent(headers[r]) ELSE headers[r]
    <2>1. CASE o \in Unit
      BY <1>5, <1>6, <2>1
    <2>2. CASE o \notin Unit
      BY <1>1, <1>5, <2>2
    <2>3. QED
      BY <2>1, <2>2
  <1> HIDE DEF Parent
  <1>10. \A r \in DOMAIN headers :
           /\ up[r] \in Header /\ up[r].block_size = headers[r].block_size
           /\ up[r].alignment_padding = headers[r].alignment_padding
           /\ up[r].alignment_requirement = headers[r].alignment_requirement
           /\ up[r].pOwner = headers[r].pOwner
           /\ up[r].child_header = IF r = o THEN q ELSE headers[r].child_header
    BY <1>1, <1>2, <1>9
  <1>11. /\ DOMAIN f = DOMAIN headers
         /\ \A r \in DOMAIN headers :
              f[r] = IF r = c THEN Child(up[r]) ELSE up[r]
    <2>1. CASE c = NULL
      BY <1>1, <1>4, <1>9, <2>1
    <2>2. CASE c # NULL
      BY <1>4, <1>7, <1>9, <2>2
    <2>3. QED
      BY <2>1, <2>2
  <1> HIDE DEF Child
  <1>12. \A r \in DOMAIN headers :
           /\ f[r] \in Header /\ f[r].block_size = headers[r].block_size
           /\ f[r].alignment_padding = headers[r].alignment_padding
           /\ f[r].alignment_requirement = headers[r].alignment_requirement
           /\ f[r].pOwner = IF r = c THEN q ELSE headers[r].pOwner
           /\ f[r].child_header = IF r = o THEN q ELSE headers[r].child_header
    BY <1>3, <1>10, <1>11
  <1>13. f = [x \in DOMAIN f |-> f[x]]
    <2>1. headers = [x \in DOMAIN headers |-> headers[x]]
      BY PartialIs
    <2>2. up = [x \in DOMAIN up |-> up[x]]
      BY <1>5, <2>1 DEF uo
    <2>3. QED
      BY <1>4, <2>2 DEF uc
  <1>14. f \in Partial(Unit, Header)
    BY <1>1, <1>11, <1>12, <1>13, PartialIs
  <1>15. QED
    BY <1>11, <1>12, <1>14

(* The first node after the block behind it has moved to its front. *)
LEMMA ShiftedIs ==
  ASSUME NEW h, HeapInv(h), NEW p \in DOMAIN h.header, 1 \in 1 .. Len(h.list),
         Start(h, p) = h.list[1].addr + h.list[1].size,
         NEW n \in Node, n.size >= 2, h.list[1].addr < n.addr,
         n.addr + n.size = Start(h, p) + h.header[p].block_size
  PROVE  /\ Sorted([h.list EXCEPT ![1] = n]) /\ Apart([h.list EXCEPT ![1] = n], {1})
         /\ Len([h.list EXCEPT ![1] = n]) = Len(h.list)
         /\ FreeSet([h.list EXCEPT ![1] = n])
              = (FreeSet(h.list) \ Extent(h.list[1])) \cup Extent(n)
  <1> DEFINE list == h.list
             b == Block(h, p)
  <1>1. Linked(list)
    BY DEF HeapInv
  <1>2. /\ Len(list) \in Nat /\ list \in Seq(Node)
        /\ \A j \in 1 .. Len(list) : list[j].addr \in Nat /\ list[j].size \in Nat
             /\ list[j].size >= 2 /\ After(list[j]) = list[j].addr + list[j].size
             /\ Base <= list[j].addr
    BY <1>1, NodesIn DEF Linked
  <1>3. /\ Fits(b) /\ b.addr = Start(h, p) /\ Extent(b) \cap FreeSet(list) = {}
        /\ After(b) = Start(h, p) + h.header[p].block_size
        /\ p \in Nat /\ b.addr <= p /\ p < After(b)
    <2>1. /\ Fits(b) /\ b.addr = Start(h, p) /\ After(b) = Start(h, p) + h.header[p].block_size
          /\ Extent(b) \cap FreeSet(list) = {} /\ p \in Nat /\ Start(h, p) + 6 <= p /\ p < After(b)
      BY BlockFits
    <2>2. Start(h, p) \in Nat
      BY PlacedIs DEF HeapInv
    <2>3. QED
      BY <2>1, <2>2
  <1> HIDE DEF b
  <1>4. After(n) = After(b) /\ b.addr = After(list[1]) /\ n.addr \in Nat /\ n.size \in Nat
    <2>1. After(n) = n.addr + n.size
      BY DEF After
    <2>2. QED
      BY <1>2, <1>3, <2>1 DEF Node
  <1>5. Fits(n)
    <2>1. Base <= n.addr
      <3>1. Base <= list[1].addr /\ list[1].addr \in Nat /\ list[1].addr < n.addr /\ Base \in Nat
        BY <1>2, Bounds
      <3>2. QED
        BY ONLY <1>4, <3>1
    <2>2. After(n) <= End
      BY <1>3, <1>4 DEF Fits
    <2>3. QED
      BY <2>1, <2>2 DEF Fits, NodeSize
  <1>6. \A j \in 1 .. Len(list) : 1 < j => After(n) <= list[j].addr
    <2>1. ASSUME NEW j \in 1 .. Len(list), 1 < j
          PROVE  After(b) <= list[j].addr
      <3>1. After(list[1]) <= list[j].addr
        BY <1>1, <2>1 DEF Linked, Sorted
      <3>2. ~(After(list[j]) <= b.addr)
        <4>1. /\ b.addr <= list[j].addr /\ list[j].addr \in Nat /\ list[j].size \in Nat
              /\ list[j].size >= 2 /\ After(list[j]) = list[j].addr + list[j].size
          BY <1>2, <1>4, <3>1
        <4>2. b.addr \in Nat
          BY <1>3 DEF Fits, Node
        <4>3. \A x, y, z \in Nat : z <= x /\ y >= 2 => ~(x + y <= z)
          OBVIOUS
        <4>4. QED
          BY ONLY <4>1, <4>2, <4>3
      <3>3. ~(list[j].addr <= p)
        BY <1>1, <1>3, <3>2, Beside
      <3>4. p < list[j].addr
        <4>1. list[j].addr \in Nat /\ p \in Nat
          BY <1>2, <1>3
        <4>2. QED
          BY ONLY <3>3, <4>1
      <3>5. QED
        BY <1>1, <1>3, <3>4, Beside
    <2>2. QED
      BY <1>4, <2>1
  <1>7. /\ \A j \in 1 .. Len(list) : j < 1 => After(list[j]) <= n.addr
        /\ 1 > 1 /\ 1 - 1 \notin {1} => After(list[1 - 1]) < n.addr
        /\ 1 < Len(list) /\ 1 \notin {1} => After(n) < list[1 + 1].addr
    <2>1. \A j \in 1 .. Len(list) : ~(j < 1)
      BY <1>2
    <2>2. QED
      BY <2>1
  <1>8. QED
    BY ONLY <1>1, <1>5, <1>6, <1>7, ReplaceLinked, 1 \in 1 .. Len(h.list)

LEMMA MovedIs ==
  ASSUME HeapInv(fl), fl.list # << >>, NEW p \in DOMAIN fl.header,
         Start(fl, p) = fl.list[1].addr + fl.list[1].size,
         Moved(p).rest.size >= NodeSize,
         NEW q, q = Moved(p).q, NEW g, g = MergeIfAdjacent(Moved(p).fl, 2)
  PROVE  /\ HeapInv(g) /\ g.list # << >> /\ g.fault = fl.fault
         /\ q \in Unit /\ q \notin DOMAIN fl.header
         /\ DOMAIN g.header = (DOMAIN fl.header \ {p}) \cup {q}
         /\ \A r \in DOMAIN fl.header \ {p} :
              /\ Same(g, fl, r)
              /\ g.header[r].pOwner =
                   IF r = fl.header[p].child_header THEN q ELSE fl.header[r].pOwner
              /\ g.header[r].child_header =
                   IF r = fl.header[p].pOwner THEN q ELSE fl.header[r].child_header
         /\ g.header[q].pOwner = fl.header[p].pOwner
         /\ g.header[q].child_header = fl.header[p].child_header
         /\ Room(g, q) = Room(fl, p)
  <1> DEFINE cur == fl.list[1]
             hd == fl.header[p]
             a == cur.addr
             c == cur.size
             s == Start(fl, p)
             bs == hd.block_size
             pad == hd.alignment_padding
             t == align_forward(cur.addr + HeaderSize, hd.alignment_requirement)
             padding == t - HeaderSize - cur.addr
             size == hd.block_size - hd.alignment_padding + padding
             rest == [addr |-> cur.addr + size, size |-> cur.size + hd.block_size - size]
             new == [hd EXCEPT !.block_size = size, !.alignment_padding = padding]
             rel == Related(fl.header, hd, t)
             kept == Restrict(rel, DOMAIN fl.header \ {p})
             m == [fl EXCEPT
                     !.used = @ + padding - hd.alignment_padding,
                     !.header = Extended(kept, t, new),
                     !.table = Retabled(Start(fl, p), cur.addr, t),
                     !.list[1] = rest]
  <1>1. Shaped(fl) /\ Linked(fl.list) /\ Heap(fl) /\ Placed(fl, p)
    BY DEF HeapInv
  <1>2. q = t /\ Moved(p).rest = rest /\ g = MergeIfAdjacent(m, 2)
    BY DEF Moved
  <1>3. /\ Len(fl.list) \in Nat /\ 1 \in 1 .. Len(fl.list) /\ cur \in Node /\ a \in Nat /\ c \in Nat
        /\ c >= 2 /\ Base <= a
    <2>1. /\ Len(fl.list) \in Nat /\ fl.list \in Seq(Node)
          /\ \A i \in 1 .. Len(fl.list) :
               /\ fl.list[i] \in Node /\ fl.list[i].addr \in Nat /\ fl.list[i].size \in Nat
               /\ fl.list[i].size >= 2 /\ Base <= fl.list[i].addr
      BY NodeOf
    <2>2. 1 \in 1 .. Len(fl.list)
      BY <2>1, EmptySeq
    <2>3. QED
      BY <2>1, <2>2
  <1>4. /\ p \in Unit /\ p \in Nat /\ hd \in Header /\ bs \in Nat /\ pad \in Nat
        /\ hd.alignment_requirement \in Alignments
        /\ s \in Nat /\ s = p - 6 - pad /\ bs > 6 + pad /\ s + bs <= End /\ s = a + c
        /\ Room(fl, p) = bs - 6 - pad
        /\ \A x : x \in Cells(fl, p) <=> x \in Int /\ s <= x /\ x < s + bs
    BY <1>1, HeaderIs, PlacedIs DEF Placed, HeaderSize
  <1>4a. /\ a \in Nat /\ c \in Nat /\ s \in Nat /\ bs \in Nat /\ pad \in Nat /\ p \in Nat
         /\ c >= 2 /\ s = a + c /\ s = p - 6 - pad /\ bs > 6 + pad /\ s + bs <= End
         /\ End \in Nat /\ Base \in Nat /\ Base <= a
    BY <1>3, <1>4, Bounds
  <1>5. /\ t \in Nat /\ padding \in Nat /\ t = a + 6 + padding
        /\ t % hd.alignment_requirement = 0
    <2> DEFINE P == Padding(a, hd.alignment_requirement)
    <2>1. P \in Nat /\ P >= 6 /\ t = a + P /\ (a + P) % hd.alignment_requirement = 0
      BY <1>3, <1>4, PaddingIs
    <2>2. padding = t - 6 - a
      BY DEF HeaderSize
    <2> HIDE DEF P, padding, t, a
    <2>3. t \in Nat /\ padding \in Nat /\ t = a + 6 + padding
      BY ONLY <2>1, <2>2, <1>3
    <2>4. QED
      BY <2>1, <2>3
  <1> HIDE DEF t, padding
  <1>6. /\ size \in Nat /\ size = bs - pad + padding /\ size > 6 + padding
        /\ rest.addr = a + size /\ rest.size = c + bs - size
        /\ rest.size >= 2 /\ rest.size \in Nat /\ rest.addr \in Nat
        /\ rest.addr + rest.size = s + bs /\ a < rest.addr
    <2>1. size = bs - pad + padding /\ rest.addr = a + size /\ rest.size = c + bs - size
      OBVIOUS
    <2>2. rest.size >= 2
      BY <1>2 DEF NodeSize
    <2> HIDE DEF size, rest, a, c, s, bs, pad
    <2> DEFINE ra == rest.addr
               rs == rest.size
    <2>3. ra = a + size /\ rs = c + bs - size /\ rs >= 2 /\ size = bs - pad + padding
      BY <2>1, <2>2
    <2>4. padding \in Nat
      BY <1>5
    <2> HIDE DEF ra, rs
    <2>5. /\ size \in Nat /\ size > 6 + padding /\ rs \in Nat /\ ra \in Nat
          /\ ra + rs = s + bs /\ a < ra
      BY ONLY <1>4a, <2>3, <2>4
    <2>6. QED
      BY <2>1, <2>3, <2>5 DEF ra, rs
  <1>7. rest \in Node
    BY <1>6 DEF Node
  <1>8. /\ new \in Header /\ new.block_size = size /\ new.alignment_padding = padding
        /\ new.alignment_requirement = hd.alignment_requirement
        /\ new.pOwner = hd.pOwner /\ new.child_header = hd.child_header
    BY <1>4, <1>5, <1>6 DEF Header
  <1> HIDE DEF size, rest, new
  <1>9. /\ t < p /\ a <= t /\ t < a + size /\ t \in Unit /\ a \in Unit
    <2>1. t < p /\ a <= t /\ t < a + size /\ t < End /\ a < End /\ Base <= t
      <3> HIDE DEF a, c, s, bs, pad
      <3> DEFINE rs == rest.size
      <3>1. rs \in Nat /\ rs >= 2 /\ rs = c + bs - size /\ size = bs - pad + padding
        BY <1>6
      <3>2. size \in Nat /\ size > 6 + padding
        BY <1>6
      <3>3. t \in Nat /\ padding \in Nat /\ t = a + 6 + padding
        BY <1>5
      <3> HIDE DEF rs
      <3>4. QED
        BY ONLY <1>4a, <3>1, <3>2, <3>3
    <2>2. QED
      BY <1>3, <1>5, <2>1, Bounds
  <1>10. t \notin DOMAIN fl.header
    <2>1. ASSUME t \in DOMAIN fl.header
          PROVE  FALSE
      <3>1. Placed(fl, t) /\ t # p
        BY <1>4, <1>5, <1>9, <2>1 DEF HeapInv
      <3>2. t \in Cells(fl, t)
        BY <1>1, <2>1, <3>1, PlacedIs
      <3>3. t \notin FreeSet(fl.list) /\ t \notin Cells(fl, p)
        BY <2>1, <3>1, <3>2 DEF HeapInv, Disjoint
      <3>4. \A x \in Int : a <= x /\ x < a + c => x \in FreeSet(fl.list)
        <4>1. After(cur) = a + c /\ fl.list \in Seq(Node)
          BY <1>1 DEF After, Shaped
        <4>2. QED
          BY <1>3, <4>1, FreeSetIs
      <3>5. t < s + bs
        <4> HIDE DEF a, c, s, bs, pad
        <4>1. QED
          BY ONLY <1>4a, <1>5, <1>9
      <3>6. t < s => t \in FreeSet(fl.list)
        BY <1>4, <1>5, <1>9, <3>4
      <3>7. s <= t => t \in Cells(fl, p)
        BY <1>4, <1>5, <3>5
      <3>8. QED
        BY <1>4, <1>5, <3>3, <3>6, <3>7
    <2>2. QED
      BY <2>1
  <1>11. /\ rel \in Partial(Unit, Header) /\ DOMAIN rel = DOMAIN fl.header
         /\ \A r \in DOMAIN fl.header :
              /\ rel[r].block_size = fl.header[r].block_size
              /\ rel[r].alignment_padding = fl.header[r].alignment_padding
              /\ rel[r].alignment_requirement = fl.header[r].alignment_requirement
              /\ rel[r].pOwner = IF r = hd.child_header THEN t ELSE fl.header[r].pOwner
              /\ rel[r].child_header = IF r = hd.pOwner THEN t ELSE fl.header[r].child_header
    <2>1. fl.header \in Partial(Unit, Header)
      BY <1>1 DEF Shaped
    <2>2. QED
      BY SMTT(30), <1>4, <1>9, <2>1, RelatedIs
  <1> HIDE DEF rel
  <1>12. /\ kept \in Partial(Unit, Header) /\ DOMAIN kept = DOMAIN fl.header \ {p}
         /\ \A r \in DOMAIN fl.header \ {p} : kept[r] = rel[r]
    <2>1. kept \in Partial(Unit, Header)
      <3>1. DOMAIN fl.header \ {p} \subseteq DOMAIN rel
        BY <1>11
      <3>2. QED
        BY <1>11, <3>1, RestrictIs
    <2>2. QED
      BY <2>1 DEF Restrict
  <1> HIDE DEF kept
  <1> DEFINE header == Extended(kept, t, new)
             table == Retabled(Start(fl, p), cur.addr, t)
  <1>13. /\ header \in Partial(Unit, Header)
         /\ DOMAIN header = (DOMAIN fl.header \ {p}) \cup {t}
         /\ header[t] = new /\ \A r \in DOMAIN fl.header \ {p} : header[r] = rel[r]
    <2>1. header \in Partial(Unit, Header)
      BY <1>8, <1>9, <1>12, ExtendedIs
    <2>2. /\ DOMAIN header = DOMAIN kept \cup {t}
          /\ \A y \in DOMAIN kept \cup {t} : header[y] = IF y = t THEN new ELSE kept[y]
      BY DEF Extended
    <2> HIDE DEF header
    <2>3. QED
      BY <1>10, <1>12, <2>1, <2>2
  <1>14. /\ table \in Partial(Unit, Unit)
         /\ DOMAIN table = (DOMAIN fl.table \ {s}) \cup {a} /\ table[a] = t
         /\ \A x \in DOMAIN fl.table \ {s, a} : table[x] = fl.table[x]
    <2> DEFINE less == Restrict(fl.table, DOMAIN fl.table \ {s})
    <2>1. fl.table \in Partial(Unit, Unit)
      BY <1>1 DEF Shaped
    <2>2. less \in Partial(Unit, Unit)
      BY <2>1, RestrictIs
    <2>3. DOMAIN less = DOMAIN fl.table \ {s} /\ \A x \in DOMAIN less : less[x] = fl.table[x]
      BY DEF Restrict
    <2> HIDE DEF less
    <2>4. table = Extended(less, a, t)
      BY DEF Retabled, less
    <2> HIDE DEF table, a, s
    <2>5. table \in Partial(Unit, Unit)
      BY <1>9, <2>2, <2>4, ExtendedIs
    <2>6. /\ DOMAIN table = DOMAIN less \cup {a}
          /\ \A x \in DOMAIN less \cup {a} : table[x] = IF x = a THEN t ELSE less[x]
      BY <2>4 DEF Extended
    <2>7. QED
      BY <2>3, <2>5, <2>6
  <1> HIDE DEF header, table
  <1>15. /\ DOMAIN fl = {"list", "used", "block_count", "table", "header", "leaked", "fault"}
         /\ fl.used \in Int /\ fl.block_count \in Nat /\ fl.leaked \in SUBSET Node
         /\ fl.fault \in Faults
    BY <1>1 DEF Shaped
  <1>16. /\ m.list = [fl.list EXCEPT ![1] = rest] /\ m.used = fl.used + padding - pad
         /\ m.block_count = fl.block_count /\ m.table = table /\ m.header = header
         /\ m.leaked = fl.leaked /\ m.fault = fl.fault
         /\ DOMAIN m = DOMAIN fl
    BY <1>15 DEF header, table
  <1> HIDE DEF m
  <1>17. /\ Sorted(m.list) /\ Apart(m.list, {1}) /\ Len(m.list) = Len(fl.list)
         /\ FreeSet(m.list) = (FreeSet(fl.list) \ Extent(cur)) \cup Extent(rest)
    <2>1. cur.addr < rest.addr /\ rest.addr + rest.size = Start(fl, p) + fl.header[p].block_size
      BY <1>6
    <2>2. HeapInv(fl) /\ Start(fl, p) = fl.list[1].addr + fl.list[1].size
      OBVIOUS
    <2>3. rest.size >= 2
      BY <1>6
    <2>4. 1 \in 1 .. Len(fl.list)
      BY <1>3
    <2>5. QED
      BY ONLY <1>7, <1>16, <2>1, <2>2, <2>3, <2>4, ShiftedIs, p \in DOMAIN fl.header
  <1>18. /\ Keeps(g, m, ListFields) /\ Heap(g) /\ Linked(g.list)
         /\ FreeSet(g.list) = FreeSet(m.list) /\ Len(g.list) > 0
    <2>1. Heap(m) /\ Apart(m.list, {2 - 1, 2}) /\ Len(m.list) > 0
      BY <1>1, <1>3, <1>15, <1>16, <1>17 DEF Heap, Apart
    <2>2. 2 \in Nat \ {0}
      OBVIOUS
    <2>3. QED
      BY <1>2, <1>17, <2>1, <2>2, MergeIfAdjacentIs
  <1>19. /\ g.used = fl.used + padding - pad /\ g.table = table /\ g.header = header
         /\ g.leaked = fl.leaked /\ g.fault = fl.fault /\ DOMAIN g = DOMAIN fl
    BY <1>15, <1>16, <1>18 DEF Keeps, ListFields
  <1>20. Shaped(g)
    <2>1. g.list \in Seq(Node) /\ g.block_count = Len(g.list)
      BY <1>18 DEF Linked, Sorted, Heap
    <2>2. g.block_count \in Nat
      BY <2>1, LenProperties
    <2>3. g.used \in Int
      BY <1>4, <1>5, <1>15, <1>19
    <2>4. QED
      BY <1>13, <1>14, <1>15, <1>19, <2>1, <2>2, <2>3 DEF Shaped
  <1>21. /\ t \in DOMAIN g.header /\ g.header[t] = new
         /\ DOMAIN g.header = (DOMAIN fl.header \ {p}) \cup {t}
         /\ \A r \in DOMAIN fl.header \ {p} : g.header[r] = rel[r]
    BY <1>13, <1>19
  <1>22. /\ Start(g, t) = a /\ g.header[t].block_size = size
         /\ Room(g, t) = Room(fl, p)
    <2>1. Start(g, t) = t - 6 - padding /\ Room(g, t) = size - 6 - padding
      BY <1>8, <1>21 DEF Start, Room, HeaderSize
    <2> DEFINE room == Room(fl, p)
    <2>2. room = bs - 6 - pad
      BY <1>4
    <2> HIDE DEF a, c, s, bs, pad, room
    <2>3. t - 6 - padding = a /\ size - 6 - padding = room
      BY ONLY <1>3, <1>4, <1>5, <1>6, <2>2
    <2>4. QED
      BY <1>8, <1>21, <2>1, <2>3 DEF room
  <1>23. Placed(g, t)
    <2>1. a + size <= End
      <3> HIDE DEF a, c, s, bs, pad
      <3>1. size \in Nat /\ a + size + rest.size = s + bs /\ rest.size \in Nat
        BY <1>6
      <3>2. QED
        BY ONLY <1>4a, <3>1
    <2>2. a \in DOMAIN g.table /\ g.table[a] = t
      BY <1>14, <1>19
    <2>3. g.header[t].block_size > HeaderSize + g.header[t].alignment_padding
      BY <1>6, <1>8, <1>21 DEF HeaderSize
    <2>4. QED
      BY <1>3, <1>5, <1>8, <1>21, <1>22, <2>1, <2>2, <2>3 DEF Placed
  <1>24. /\ \A x : x \in Cells(g, t) <=> x \in Int /\ a <= x /\ x < a + size
         /\ Cardinality(Cells(g, t)) = size /\ Cardinality(Cells(fl, p)) = bs
         /\ Part(g, t) = Cells(g, t) /\ Part(fl, p) = Cells(fl, p)
    <2>1. \A x : x \in Cells(g, t) <=> x \in Int /\ a <= x /\ x < a + size
      BY SMTT(30), <1>20, <1>21, <1>22, HeaderIs
    <2>2. Cardinality(Cells(g, t)) = size
      BY <1>20, <1>21, <1>22, <1>23, PlacedIs
    <2>3. Cardinality(Cells(fl, p)) = bs
      BY <1>1, PlacedIs
    <2>4. QED
      BY <1>21, <2>1, <2>2, <2>3 DEF Part
  <1>25. /\ \A x : x \in Extent(cur) <=> x \in Int /\ a <= x /\ x < a + c
         /\ \A x : x \in Extent(rest) <=> x \in Int /\ a + size <= x /\ x < s + bs
         /\ Extent(cur) \subseteq FreeSet(fl.list)
         /\ \A x \in FreeSet(fl.list) : x \in Int
         /\ Cells(fl, p) \cap FreeSet(fl.list) = {}
    <2>1. \A x : x \in Extent(cur) <=> x \in Int /\ a <= x /\ x < a + c
      BY <1>3, ExtentIs
    <2>2. \A x : x \in Extent(rest) <=> x \in Int /\ rest.addr <= x /\ x < rest.addr + rest.size
      BY <1>6, ExtentIs
    <2>3. Extent(cur) \subseteq FreeSet(fl.list)
      BY <1>3 DEF FreeSet
    <2>4. \A x \in FreeSet(fl.list) : x \in Int
      <3>1. fl.list \in Seq(Node)
        BY <1>1 DEF Shaped
      <3>2. QED
        BY <3>1, FreeSetIs
    <2>5. Cells(fl, p) \cap FreeSet(fl.list) = {}
      BY DEF HeapInv, Disjoint
    <2>6. QED
      BY <1>6, <2>1, <2>2, <2>3, <2>4, <2>5
  <1>26. /\ FreeSet(g.list) \cup Part(g, t) = FreeSet(fl.list) \cup Part(fl, p)
         /\ Part(g, t) \cap FreeSet(g.list) = {}
    <2> DEFINE F == FreeSet(fl.list)
               G == FreeSet(g.list)
               C == Cells(fl, p)
               D == Cells(g, t)
               X == Extent(cur)
               Y == Extent(rest)
    <2>1. G = (F \ X) \cup Y /\ X \subseteq F /\ C \cap F = {}
      BY <1>17, <1>18, <1>25
    <2>2. /\ \A x : x \in C <=> x \in Int /\ s <= x /\ x < s + bs
          /\ \A x : x \in D <=> x \in Int /\ a <= x /\ x < a + size
          /\ \A x : x \in X <=> x \in Int /\ a <= x /\ x < s
          /\ \A x : x \in Y <=> x \in Int /\ a + size <= x /\ x < s + bs
      BY <1>4, <1>24, <1>25
    <2>3. /\ a \in Nat /\ s \in Nat /\ bs \in Nat /\ size \in Nat /\ a <= s
          /\ a + size <= s + bs
      <3> HIDE DEF a, c, s, bs, pad
      <3>1. size \in Nat /\ a + size + rest.size = s + bs /\ rest.size \in Nat
        BY <1>6
      <3>2. QED
        BY ONLY <1>4a, <3>1
    <2>4. \A x : x \in X \cup C <=> x \in D \cup Y
      <3> HIDE DEF F, G, C, D, X, Y, a, s, bs
      <3>1. QED
        BY ONLY <2>2, <2>3
    <2>5. D \cap Y = {}
      <3> HIDE DEF F, G, C, D, X, Y, a, s, bs
      <3>1. QED
        BY ONLY <2>2, <2>3
    <2> HIDE DEF F, G, C, D, X, Y
    <2>6. G \cup D = F \cup C /\ D \cap G = {}
      BY ONLY <2>1, <2>4, <2>5
    <2>7. QED
      BY <1>24, <2>6 DEF F, G, C, D
  <1>27. g.used = fl.used - Cardinality(Part(fl, p)) + Cardinality(Part(g, t))
    <2>1. fl.used + padding - pad = fl.used - bs + size
      <3> HIDE DEF bs, pad, s, a, c
      <3>1. QED
        BY ONLY <1>4, <1>5, <1>6, <1>15
    <2>2. QED
      BY <1>19, <1>24, <2>1
  <1>28. /\ DOMAIN g.header \ {t} = DOMAIN fl.header \ {p}
         /\ \A r \in DOMAIN fl.header \ {p} : Same(g, fl, r)
    BY <1>10, <1>11, <1>21 DEF Same
  <1>29. \A x \in Unit \ (FreeSet(fl.list) \cup Part(fl, p)) : SameEntry(g, fl, x)
    <2>1. a \in FreeSet(fl.list) /\ s \in Part(fl, p)
      <3>1. a \in Extent(cur)
        BY <1>3, <1>25
      <3>2. s \in Cells(fl, p)
        BY <1>1, PlacedIs
      <3>3. QED
        BY <1>24, <1>25, <3>1, <3>2
    <2>2. QED
      BY <1>14, <1>19, <2>1 DEF SameEntry
  <1>30. HeapInv(g)
    <2>1. g.leaked = fl.leaked /\ Linked(g.list) /\ Heap(g)
      BY <1>18, <1>19
    <2>2. \A r \in DOMAIN g.header \ {t} : Same(g, fl, r)
      BY <1>28
    <2>3. Rekeyed(g, fl, p, t)
      BY <1>14, <1>19, <1>21, <1>22, KeysIs DEF Rekeyed
    <2>4. QED
      BY <1>20, <1>23, <1>26, <1>27, <1>28, <1>29, <2>1, <2>2, <2>3, Rebuilt
  <1>31. g.list # << >>
    BY <1>18, EmptySeq
  <1>32. \A r \in DOMAIN fl.header \ {p} :
           /\ g.header[r].pOwner = IF r = hd.child_header THEN t ELSE fl.header[r].pOwner
           /\ g.header[r].child_header = IF r = hd.pOwner THEN t ELSE fl.header[r].child_header
    BY <1>11, <1>21
  <1>33. QED
    BY <1>2, <1>8, <1>9, <1>10, <1>19, <1>21, <1>22, <1>28, <1>30, <1>31, <1>32

-----------------------------------------------------------------------------
(* The client, over the heap h and the values of its variables: PointersFollow
   and Nested, one quantifier per fact.                                    *)
At(P, H, v) == IF H[v] = v THEN v ELSE P[H[v]]
Lies(H, w, v) == w # v /\ H[w] = v

Tied(h, P, W, H) ==
  /\ P \in [Var -> Unit \cup {NULL}]
  /\ W \in [Var -> Requests \cup {0}]
  /\ H \in [Var -> Var]
  /\ \A v \in Var : H[v] # v => P[v] # NULL /\ P[H[v]] # NULL /\ H[H[v]] = H[v]
  /\ \A v \in Var : P[v] # NULL => P[v] \in DOMAIN h.header
  /\ \A p \in DOMAIN h.header : p # NULL /\ \E v \in Var : P[v] = p
  /\ \A v, w \in Var : v # w /\ P[v] # NULL => P[v] # P[w]
  /\ \A v \in Var : P[v] # NULL => Room(h, P[v]) >= W[v]
  /\ \A v \in Var : P[v] # NULL =>
       \/ h.header[P[v]].pOwner = At(P, H, v)
       \/ H[v] = v /\ h.header[P[v]].pOwner = NULL
  /\ \A v, w \in Var : Lies(H, w, v) => h.header[P[v]].child_header = P[w]
  /\ \A v \in Var : P[v] # NULL /\ h.header[P[v]].child_header # NULL =>
       \E w \in Var : Lies(H, w, v)

LEMMA TiedIs ==
  HeapInv(fl) =>
    (/\ ptr \in [Var -> Unit \cup {NULL}]
     /\ want \in [Var -> Requests \cup {0}]
     /\ home \in [Var -> Var]
     /\ Nested
     /\ PointersFollow)
    <=> Tied(fl, ptr, want, home)
  <1> DEFINE Types == /\ ptr \in [Var -> Unit \cup {NULL}]
                      /\ want \in [Var -> Requests \cup {0}]
                      /\ home \in [Var -> Var]
             Live == DOMAIN fl.header = Range(ptr) \ {NULL}
             OwnEach == \A v, w \in Var : v # w /\ ptr[v] # NULL => ptr[v] # ptr[w]
             kid(v) == fl.header[ptr[v]].child_header
             One(v) == /\ ptr[v] % fl.header[ptr[v]].alignment_requirement = 0
                       /\ Room(fl, ptr[v]) >= want[v]
                       /\ \/ fl.header[ptr[v]].pOwner = Place(v)
                          \/ home[v] = v /\ fl.header[ptr[v]].pOwner = NULL
                       /\ {kid(v)} \ {NULL} = {ptr[w] : w \in Inside(v)}
  <1> SUFFICES ASSUME HeapInv(fl), Types
               PROVE  (Nested /\ PointersFollow) <=> Tied(fl, ptr, want, home)
    BY DEF Tied
  <1>1. PointersFollow <=> Live /\ OwnEach /\ \A v \in Var : ptr[v] # NULL => One(v)
    BY DEF PointersFollow
  <1>2. Shaped(fl) /\ DOMAIN fl.header \subseteq Unit /\ NULL \notin Unit
    BY ShapeIs, Bounds DEF HeapInv, NULL
  <1>3. Live <=> /\ \A v \in Var : ptr[v] # NULL => ptr[v] \in DOMAIN fl.header
                 /\ \A p \in DOMAIN fl.header : \E v \in Var : ptr[v] = p
    <2>1. \A p : p \in Range(ptr) <=> \E v \in Var : ptr[v] = p
      BY DEF Range
    <2>2. QED
      BY <1>2, <2>1
  <1>4. ASSUME Live, NEW v \in Var, ptr[v] # NULL
        PROVE  ptr[v] % fl.header[ptr[v]].alignment_requirement = 0
    <2>1. Placed(fl, ptr[v])
      BY <1>3, <1>4 DEF HeapInv
    <2>2. QED
      BY <2>1 DEF Placed
  <1>5. \A v, w \in Var : w \in Inside(v) <=> Lies(home, w, v)
    BY DEF Inside, Lies
  <1>6. \A v \in Var : Place(v) = At(ptr, home, v)
    BY DEF Place, At
  <1>7. ASSUME Nested, OwnEach, NEW v \in Var, ptr[v] # NULL
        PROVE  ({kid(v)} \ {NULL} = {ptr[w] : w \in Inside(v)})
                 <=> /\ \A w \in Var : Lies(home, w, v) => kid(v) = ptr[w]
                     /\ kid(v) # NULL => \E w \in Var : Lies(home, w, v)
    <2>1. \A w \in Var : Lies(home, w, v) => ptr[w] # NULL
      BY <1>7 DEF Nested, Lies
    <2>2. Inside(v) \subseteq Var
      BY DEF Inside
    <2>3. ASSUME {kid(v)} \ {NULL} = {ptr[w] : w \in Inside(v)}
          PROVE  /\ \A w \in Var : Lies(home, w, v) => kid(v) = ptr[w]
                 /\ kid(v) # NULL => \E w \in Var : Lies(home, w, v)
      <3>1. ASSUME NEW w \in Var, Lies(home, w, v)
            PROVE  kid(v) = ptr[w]
        <4>1. ptr[w] \in {ptr[x] : x \in Inside(v)}
          BY <1>5, <3>1
        <4>2. QED
          BY <2>3, <4>1
      <3>2. ASSUME kid(v) # NULL
            PROVE  \E w \in Var : Lies(home, w, v)
        <4>1. kid(v) \in {ptr[w] : w \in Inside(v)}
          BY <2>3, <3>2
        <4>2. QED
          BY <1>5, <2>2, <4>1
      <3>3. QED
        BY <3>1, <3>2
    <2>4. ASSUME \A w \in Var : Lies(home, w, v) => kid(v) = ptr[w],
                 kid(v) # NULL => \E w \in Var : Lies(home, w, v)
          PROVE  {kid(v)} \ {NULL} = {ptr[w] : w \in Inside(v)}
      <3>1. ASSUME NEW x \in {kid(v)} \ {NULL}
            PROVE  x \in {ptr[w] : w \in Inside(v)}
        <4>1. PICK w \in Var : Lies(home, w, v)
          BY <2>4, <3>1
        <4>2. x = ptr[w] /\ w \in Inside(v)
          BY <1>5, <2>4, <3>1, <4>1
        <4>3. QED
          BY <4>2
      <3>2. ASSUME NEW w \in Inside(v)
            PROVE  ptr[w] \in {kid(v)} \ {NULL}
        <4>1. w \in Var /\ Lies(home, w, v)
          BY <1>5, <2>2
        <4>2. QED
          BY <2>1, <2>4, <4>1
      <3>3. QED
        BY <3>1, <3>2
    <2>5. QED
      BY <2>3, <2>4
  <1>8. Nested <=> \A v \in Var :
          home[v] # v => ptr[v] # NULL /\ ptr[home[v]] # NULL /\ home[home[v]] = home[v]
    BY DEF Nested
  <1>9. ASSUME Nested, PointersFollow
        PROVE  Tied(fl, ptr, want, home)
    <2>1. Live /\ OwnEach /\ \A v \in Var : ptr[v] # NULL => One(v)
      BY <1>1, <1>9
    <2>2. ASSUME NEW v \in Var, ptr[v] # NULL
          PROVE  /\ Room(fl, ptr[v]) >= want[v]
                 /\ \/ fl.header[ptr[v]].pOwner = At(ptr, home, v)
                    \/ home[v] = v /\ fl.header[ptr[v]].pOwner = NULL
                 /\ \A w \in Var : Lies(home, w, v) => kid(v) = ptr[w]
                 /\ kid(v) # NULL => \E w \in Var : Lies(home, w, v)
      BY <1>6, <1>7, <1>9, <2>1, <2>2
    <2>3. \A v, w \in Var : Lies(home, w, v) => ptr[v] # NULL
      BY <1>9 DEF Nested, Lies
    <2> HIDE DEF OwnEach, Live
    <2>4. QED
      BY <1>2, <1>3, <1>8, <1>9, <2>1, <2>2, <2>3 DEF Tied, OwnEach
  <1>10. ASSUME Tied(fl, ptr, want, home)
         PROVE  Nested /\ PointersFollow
    <2>1. Nested /\ Live /\ OwnEach
      BY <1>3, <1>8, <1>10 DEF Tied
    <2>2. ASSUME NEW v \in Var, ptr[v] # NULL
          PROVE  One(v)
      <3>1. ptr[v] % fl.header[ptr[v]].alignment_requirement = 0
        BY <1>4, <2>1, <2>2
      <3>2. /\ Room(fl, ptr[v]) >= want[v]
            /\ \/ fl.header[ptr[v]].pOwner = Place(v)
               \/ home[v] = v /\ fl.header[ptr[v]].pOwner = NULL
        BY <1>6, <1>10, <2>2 DEF Tied
      <3>3. /\ \A w \in Var : Lies(home, w, v) => kid(v) = ptr[w]
            /\ kid(v) # NULL => \E w \in Var : Lies(home, w, v)
        BY <1>10, <2>2 DEF Tied
      <3>4. QED
        BY <1>7, <2>1, <2>2, <3>1, <3>2, <3>3
    <2>3. QED
      BY <1>1, <2>1, <2>2
  <1>11. QED
    BY <1>9, <1>10

(* What each call does to the ties. *)
LEMMA AllocTied ==
  ASSUME NEW h, NEW P, NEW W, NEW H, Tied(h, P, W, H), NEW v \in Var, P[v] = NULL,
         NEW g, NEW q \in Unit, q \notin DOMAIN h.header, NEW n \in Requests,
         DOMAIN g.header = DOMAIN h.header \cup {q},
         \A r \in DOMAIN h.header : g.header[r] = h.header[r],
         g.header[q].pOwner = NULL, g.header[q].child_header = NULL, Room(g, q) >= n
  PROVE  Tied(g, [P EXCEPT ![v] = q], [W EXCEPT ![v] = n], H)
  <1> DEFINE P2 == [P EXCEPT ![v] = q]
             W2 == [W EXCEPT ![v] = n]
  <1>1. /\ P \in [Var -> Unit \cup {NULL}] /\ W \in [Var -> Requests \cup {0}]
        /\ H \in [Var -> Var] /\ NULL \notin Unit
    BY Bounds DEF Tied, NULL
  <1>2. /\ P2 \in [Var -> Unit \cup {NULL}] /\ W2 \in [Var -> Requests \cup {0}]
        /\ \A x \in Var : P2[x] = IF x = v THEN q ELSE P[x]
        /\ \A x \in Var : W2[x] = IF x = v THEN n ELSE W[x]
    BY <1>1
  <1> HIDE DEF P2, W2
  <1>3. \A r \in DOMAIN h.header : Room(g, r) = Room(h, r)
    BY DEF Room
  <1>4. /\ \A x \in Var : H[x] # x => P[x] # NULL /\ P[H[x]] # NULL /\ H[H[x]] = H[x]
        /\ \A x \in Var : P[x] # NULL => P[x] \in DOMAIN h.header
        /\ \A p \in DOMAIN h.header : p # NULL /\ \E x \in Var : P[x] = p
        /\ \A x, y \in Var : x # y /\ P[x] # NULL => P[x] # P[y]
        /\ \A x \in Var : P[x] # NULL => Room(h, P[x]) >= W[x]
    BY DEF Tied
  <1>5. /\ \A x \in Var : P[x] # NULL =>
             \/ h.header[P[x]].pOwner = At(P, H, x)
             \/ H[x] = x /\ h.header[P[x]].pOwner = NULL
        /\ \A x, y \in Var : Lies(H, y, x) => h.header[P[x]].child_header = P[y]
        /\ \A x \in Var : P[x] # NULL /\ h.header[P[x]].child_header # NULL =>
             \E y \in Var : Lies(H, y, x)
    BY DEF Tied
  <1>6. H[v] = v /\ \A x \in Var : H[x] = v => x = v
    BY <1>4
  <1>7. /\ \A x \in Var : H[x] # x => P2[x] # NULL /\ P2[H[x]] # NULL /\ H[H[x]] = H[x]
        /\ \A x \in Var : P2[x] # NULL => P2[x] \in DOMAIN g.header
        /\ \A p \in DOMAIN g.header : p # NULL /\ \E x \in Var : P2[x] = p
        /\ \A x, y \in Var : x # y /\ P2[x] # NULL => P2[x] # P2[y]
    <2>1. \A x \in Var : H[x] # x => P2[x] # NULL /\ P2[H[x]] # NULL /\ H[H[x]] = H[x]
      BY <1>1, <1>2, <1>4, <1>6
    <2>2. \A x \in Var : P2[x] # NULL => P2[x] \in DOMAIN g.header
      BY <1>2, <1>4
    <2>3. \A p \in DOMAIN g.header : p # NULL /\ \E x \in Var : P2[x] = p
      <3>1. P2[v] = q /\ q # NULL
        BY <1>1, <1>2
      <3>2. ASSUME NEW p \in DOMAIN h.header
            PROVE  p # NULL /\ \E x \in Var : P2[x] = p
        <4>1. PICK x \in Var : P[x] = p
          BY <1>4
        <4>2. P2[x] = p /\ p # NULL
          BY <1>2, <1>4, <4>1
        <4>3. QED
          BY <4>2
      <3>3. QED
        BY <3>1, <3>2
    <2>4. \A x, y \in Var : x # y /\ P2[x] # NULL => P2[x] # P2[y]
      BY <1>2, <1>4
    <2>5. QED
      BY <2>1, <2>2, <2>3, <2>4
  <1>8. \A x \in Var : P2[x] # NULL => Room(g, P2[x]) >= W2[x]
    BY <1>2, <1>3, <1>4
  <1>9. \A x \in Var \ {v} : P2[x] = P[x] /\ At(P2, H, x) = At(P, H, x)
    BY <1>1, <1>2, <1>6 DEF At
  <1>10. \A x \in Var : P2[x] # NULL =>
           \/ g.header[P2[x]].pOwner = At(P2, H, x)
           \/ H[x] = x /\ g.header[P2[x]].pOwner = NULL
    <2>1. ASSUME NEW x \in Var \ {v}, P2[x] # NULL
          PROVE  g.header[P2[x]] = h.header[P[x]] /\ P[x] # NULL
      BY <1>4, <1>9, <2>1
    <2>2. P2[v] = q
      BY <1>2
    <2>3. QED
      BY <1>5, <1>6, <1>9, <2>1, <2>2
  <1>11. \A x, y \in Var : Lies(H, y, x) => g.header[P2[x]].child_header = P2[y]
    <2>1. ASSUME NEW x \in Var, NEW y \in Var, Lies(H, y, x)
          PROVE  g.header[P2[x]].child_header = P2[y]
      <3>1. x # v /\ y # v /\ P[x] \in DOMAIN h.header
        BY <1>4, <1>6, <2>1 DEF Lies
      <3>2. QED
        BY <1>2, <1>5, <2>1, <3>1
    <2>2. QED
      BY <2>1
  <1>12. \A x \in Var : P2[x] # NULL /\ g.header[P2[x]].child_header # NULL =>
           \E y \in Var : Lies(H, y, x)
    BY <1>2, <1>4, <1>5
  <1>13. QED
    BY <1>1, <1>2, <1>7, <1>8, <1>10, <1>11, <1>12 DEF Tied, P2, W2

LEMMA ReallocTied ==
  ASSUME NEW h, NEW P, NEW W, NEW H, Tied(h, P, W, H), NEW v \in Var, P[v] # NULL, H[v] = v,
         \A w \in Var : ~Lies(H, w, v), NEW g, NEW q, Resettled(g, h, P[v], q),
         NEW n \in Requests, Room(g, q) >= n
  PROVE  Tied(g, [P EXCEPT ![v] = q], [W EXCEPT ![v] = n], H)
  <1> DEFINE P2 == [P EXCEPT ![v] = q]
             W2 == [W EXCEPT ![v] = n]
  <1>1. /\ P \in [Var -> Unit \cup {NULL}] /\ W \in [Var -> Requests \cup {0}]
        /\ H \in [Var -> Var] /\ NULL \notin Unit
    BY Bounds DEF Tied, NULL
  <1>2. /\ q \in Unit /\ q # NULL /\ q \notin DOMAIN h.header \ {P[v]}
        /\ DOMAIN g.header = (DOMAIN h.header \ {P[v]}) \cup {q}
        /\ \A r \in DOMAIN h.header \ {P[v]} : g.header[r] = h.header[r]
        /\ g.header[q].pOwner = h.header[P[v]].pOwner
        /\ g.header[q].child_header \in {NULL, h.header[P[v]].child_header}
    BY <1>1 DEF Resettled
  <1>3. /\ P2 \in [Var -> Unit \cup {NULL}] /\ W2 \in [Var -> Requests \cup {0}]
        /\ \A x \in Var : P2[x] = IF x = v THEN q ELSE P[x]
        /\ \A x \in Var : W2[x] = IF x = v THEN n ELSE W[x]
    BY <1>1, <1>2
  <1> HIDE DEF P2, W2
  <1>4. /\ \A x \in Var : H[x] # x => P[x] # NULL /\ P[H[x]] # NULL /\ H[H[x]] = H[x]
        /\ \A x \in Var : P[x] # NULL => P[x] \in DOMAIN h.header
        /\ \A p \in DOMAIN h.header : p # NULL /\ \E x \in Var : P[x] = p
        /\ \A x, y \in Var : x # y /\ P[x] # NULL => P[x] # P[y]
        /\ \A x \in Var : P[x] # NULL => Room(h, P[x]) >= W[x]
    BY DEF Tied
  <1>5. /\ \A x \in Var : P[x] # NULL =>
             \/ h.header[P[x]].pOwner = At(P, H, x)
             \/ H[x] = x /\ h.header[P[x]].pOwner = NULL
        /\ \A x, y \in Var : Lies(H, y, x) => h.header[P[x]].child_header = P[y]
        /\ \A x \in Var : P[x] # NULL /\ h.header[P[x]].child_header # NULL =>
             \E y \in Var : Lies(H, y, x)
    BY DEF Tied
  <1>6. \A x \in Var : H[x] = v => x = v
    BY DEF Lies
  <1>7. h.header[P[v]].child_header = NULL /\ g.header[q].child_header = NULL
    BY <1>2, <1>5
  <1>8. \A x \in Var \ {v} :
          /\ P2[x] = P[x] /\ At(P2, H, x) = At(P, H, x)
          /\ P[x] # NULL => /\ P[x] \in DOMAIN h.header \ {P[v]}
                           /\ g.header[P[x]] = h.header[P[x]] /\ Room(g, P[x]) = Room(h, P[x])
    <2>1. ASSUME NEW x \in Var \ {v}
          PROVE  P2[x] = P[x] /\ At(P2, H, x) = At(P, H, x)
      BY <1>1, <1>3, <1>6 DEF At
    <2>2. ASSUME NEW x \in Var \ {v}, P[x] # NULL
          PROVE  P[x] \in DOMAIN h.header \ {P[v]} /\ g.header[P[x]] = h.header[P[x]]
      BY <1>2, <1>4, <2>2
    <2>3. QED
      BY <2>1, <2>2 DEF Room
  <1>9. P2[v] = q /\ W2[v] = n /\ At(P2, H, v) = v /\ At(P, H, v) = v
    BY <1>3 DEF At
  <1>10. /\ \A x \in Var : H[x] # x => P2[x] # NULL /\ P2[H[x]] # NULL /\ H[H[x]] = H[x]
         /\ \A x \in Var : P2[x] # NULL => P2[x] \in DOMAIN g.header
    BY <1>1, <1>2, <1>4, <1>6, <1>8, <1>9
  <1>11. \A p \in DOMAIN g.header : p # NULL /\ \E x \in Var : P2[x] = p
    <2>1. ASSUME NEW p \in DOMAIN h.header \ {P[v]}
          PROVE  p # NULL /\ \E x \in Var : P2[x] = p
      <3>1. PICK x \in Var : P[x] = p
        BY <1>4
      <3>2. x # v
        BY <2>1, <3>1
      <3>3. QED
        BY <1>4, <1>8, <3>1, <3>2
    <2>2. QED
      BY <1>2, <1>9, <2>1
  <1>12. \A x, y \in Var : x # y /\ P2[x] # NULL => P2[x] # P2[y]
    <2>1. ASSUME NEW x \in Var \ {v}, P[x] = q
          PROVE  FALSE
      <3>1. P[x] # NULL
        BY <1>2, <2>1
      <3>2. q \in DOMAIN h.header \ {P[v]}
        BY <1>8, <2>1, <3>1
      <3>3. QED
        BY <1>2, <3>2
    <2>2. QED
      BY <1>4, <1>8, <1>9, <2>1
  <1>13. \A x \in Var : P2[x] # NULL => Room(g, P2[x]) >= W2[x]
    BY <1>3, <1>4, <1>8, <1>9
  <1>14. \A x \in Var : P2[x] # NULL =>
           \/ g.header[P2[x]].pOwner = At(P2, H, x)
           \/ H[x] = x /\ g.header[P2[x]].pOwner = NULL
    <2>1. g.header[P2[v]].pOwner = v \/ g.header[P2[v]].pOwner = NULL
      BY <1>2, <1>5, <1>9
    <2>2. QED
      BY <1>5, <1>8, <1>9, <2>1
  <1>15. \A x, y \in Var : Lies(H, y, x) => g.header[P2[x]].child_header = P2[y]
    <2>1. ASSUME NEW x \in Var, NEW y \in Var, Lies(H, y, x)
          PROVE  g.header[P2[x]].child_header = P2[y]
      <3>1. x # v /\ y # v /\ P[x] # NULL
        BY <1>4, <2>1 DEF Lies
      <3>2. QED
        BY <1>5, <1>8, <2>1, <3>1
    <2>2. QED
      BY <2>1
  <1>16. \A x \in Var : P2[x] # NULL /\ g.header[P2[x]].child_header # NULL =>
           \E y \in Var : Lies(H, y, x)
    BY <1>5, <1>7, <1>8, <1>9
  <1>17. QED
    BY <1>1, <1>3, <1>10, <1>11, <1>12, <1>13, <1>14, <1>15, <1>16 DEF Tied, P2, W2

(* The places of two variables that are in use differ. *)
LEMMA PlacesDiffer ==
  ASSUME NEW h, NEW P, NEW W, NEW H, Tied(h, P, W, H), NEW u \in Var, NEW x \in Var,
         P[u] # NULL, At(P, H, x) = At(P, H, u)
  PROVE  x = u
  <1>1. /\ P \in [Var -> Unit \cup {NULL}] /\ H \in [Var -> Var]
        /\ \A y \in Var : H[y] # y => P[y] # NULL /\ P[H[y]] # NULL /\ H[H[y]] = H[y]
        /\ \A y, z \in Var : y # z /\ P[y] # NULL => P[y] # P[z]
        /\ \A y, z \in Var : Lies(H, z, y) => h.header[P[y]].child_header = P[z]
    BY DEF Tied
  <1>2. \A y, z \in Var : P[y] # z
    BY <1>1, OwnerAssumption
  <1>3. CASE H[x] = x /\ H[u] = u
    BY <1>3 DEF At
  <1>4. CASE H[x] = x /\ H[u] # u
    BY <1>1, <1>2, <1>4 DEF At
  <1>5. CASE H[x] # x /\ H[u] = u
    BY <1>1, <1>2, <1>5 DEF At
  <1>6. CASE H[x] # x /\ H[u] # u
    <2>1. P[H[x]] = P[H[u]] /\ P[H[x]] # NULL
      BY <1>1, <1>6 DEF At
    <2>2. H[x] = H[u] /\ H[u] \in Var
      BY <1>1, <2>1
    <2>3. Lies(H, x, H[u]) /\ Lies(H, u, H[u])
      BY <1>6, <2>2 DEF Lies
    <2>4. P[x] = P[u]
      BY <1>1, <2>2, <2>3
    <2>5. QED
      BY <1>1, <2>4
  <1>7. QED
    BY <1>3, <1>4, <1>5, <1>6

LEMMA MovedTied ==
  ASSUME NEW h, NEW P, NEW W, NEW H, Tied(h, P, W, H), NEW u \in Var, P[u] # NULL,
         h.header[P[u]].pOwner = At(P, H, u),
         NEW g, NEW q \in Unit, q \notin DOMAIN h.header,
         DOMAIN g.header = (DOMAIN h.header \ {P[u]}) \cup {q},
         \A r \in DOMAIN h.header \ {P[u]} :
           /\ Same(g, h, r)
           /\ g.header[r].pOwner =
                IF r = h.header[P[u]].child_header THEN q ELSE h.header[r].pOwner
           /\ g.header[r].child_header =
                IF r = h.header[P[u]].pOwner THEN q ELSE h.header[r].child_header,
         g.header[q].pOwner = h.header[P[u]].pOwner,
         g.header[q].child_header = h.header[P[u]].child_header,
         Room(g, q) = Room(h, P[u])
  PROVE  Tied(g, [P EXCEPT ![u] = q], W, H)
  <1> DEFINE P2 == [P EXCEPT ![u] = q]
  <1>1. /\ P \in [Var -> Unit \cup {NULL}] /\ W \in [Var -> Requests \cup {0}]
        /\ H \in [Var -> Var] /\ NULL \notin Unit
    BY Bounds DEF Tied, NULL
  <1>2. /\ P2 \in [Var -> Unit \cup {NULL}] /\ q # NULL
        /\ \A x \in Var : P2[x] = IF x = u THEN q ELSE P[x]
    BY <1>1
  <1> HIDE DEF P2
  <1>3. /\ \A x \in Var : H[x] # x => P[x] # NULL /\ P[H[x]] # NULL /\ H[H[x]] = H[x]
        /\ \A x \in Var : P[x] # NULL => P[x] \in DOMAIN h.header
        /\ \A p \in DOMAIN h.header : p # NULL /\ \E x \in Var : P[x] = p
        /\ \A x, y \in Var : x # y /\ P[x] # NULL => P[x] # P[y]
        /\ \A x \in Var : P[x] # NULL => Room(h, P[x]) >= W[x]
    BY DEF Tied
  <1>4. /\ \A x \in Var : P[x] # NULL =>
             \/ h.header[P[x]].pOwner = At(P, H, x)
             \/ H[x] = x /\ h.header[P[x]].pOwner = NULL
        /\ \A x, y \in Var : Lies(H, y, x) => h.header[P[x]].child_header = P[y]
        /\ \A x \in Var : P[x] # NULL /\ h.header[P[x]].child_header # NULL =>
             \E y \in Var : Lies(H, y, x)
    BY DEF Tied
  <1>5. \A x \in Var \ {u} :
          /\ P2[x] = P[x]
          /\ P[x] # NULL => P[x] \in DOMAIN h.header \ {P[u]} /\ Room(g, P[x]) = Room(h, P[x])
    <2>1. \A r \in DOMAIN h.header \ {P[u]} : Room(g, r) = Room(h, r)
      BY DEF Room, Same
    <2>2. ASSUME NEW x \in Var \ {u}, P[x] # NULL
          PROVE  P[x] \in DOMAIN h.header \ {P[u]}
      BY <1>3, <2>2
    <2>3. QED
      BY <1>2, <2>1, <2>2
  <1>6. P2[u] = q
    BY <1>2
  <1>7. /\ \A x \in Var : H[x] # x => P2[x] # NULL /\ P2[H[x]] # NULL /\ H[H[x]] = H[x]
        /\ \A x \in Var : P2[x] # NULL => P2[x] \in DOMAIN g.header
    BY <1>1, <1>2, <1>3, <1>5
  <1>8. \A p \in DOMAIN g.header : p # NULL /\ \E x \in Var : P2[x] = p
    <2>1. ASSUME NEW p \in DOMAIN h.header \ {P[u]}
          PROVE  p # NULL /\ \E x \in Var : P2[x] = p
      <3>1. PICK x \in Var : P[x] = p
        BY <1>3
      <3>2. x # u
        BY <2>1, <3>1
      <3>3. QED
        BY <1>3, <1>5, <3>1, <3>2
    <2>2. QED
      BY <1>2, <1>6, <2>1
  <1>9. \A x, y \in Var : x # y /\ P2[x] # NULL => P2[x] # P2[y]
    <2>1. \A x \in Var \ {u} : P[x] # q
      BY ZenonT(60), <1>2, <1>3
    <2>2. QED
      BY <1>3, <1>5, <1>6, <2>1
  <1>10. \A x \in Var : P2[x] # NULL => Room(g, P2[x]) >= W[x]
    BY <1>3, <1>5, <1>6
  <1>11. \A x \in Var : P[x] # NULL => (h.header[P[u]].child_header = P[x] <=> Lies(H, x, u))
    <2>1. ASSUME NEW x \in Var, P[x] # NULL, h.header[P[u]].child_header = P[x]
          PROVE  Lies(H, x, u)
      <3>1. PICK y \in Var : Lies(H, y, u)
        BY <1>4, <2>1
      <3>2. P[y] = P[x]
        BY <1>4, <2>1, <3>1
      <3>3. QED
        BY <1>3, <2>1, <3>1, <3>2
    <2>2. QED
      BY <1>4, <2>1
  <1>12. \A x \in Var : P[x] # NULL => (h.header[P[u]].pOwner = P[x] <=> Lies(H, u, x))
    <2>1. ASSUME NEW x \in Var, P[x] # NULL
          PROVE  At(P, H, u) = P[x] <=> Lies(H, u, x)
      <3>1. P[x] # u
        BY <1>1, OwnerAssumption
      <3>2. H[u] # u => P[H[u]] # NULL /\ H[u] \in Var
        BY <1>1, <1>3
      <3>3. CASE H[u] = u
        BY <3>1, <3>3 DEF At, Lies
      <3>4. CASE H[u] # u
        BY <1>3, <2>1, <3>2, <3>4 DEF At, Lies
      <3>5. QED
        BY <3>3, <3>4
    <2>2. QED
      BY <2>1
  <1>13. ASSUME NEW x \in Var, P2[x] # NULL
         PROVE  \/ g.header[P2[x]].pOwner = At(P2, H, x)
                \/ H[x] = x /\ g.header[P2[x]].pOwner = NULL
    <2>1. CASE x = u
      <3>1. At(P2, H, u) = At(P, H, u)
        BY <1>1, <1>2 DEF At
      <3>2. QED
        BY <1>6, <2>1, <3>1
    <2>2. CASE x # u /\ Lies(H, x, u)
      <3>1. P2[x] = P[x] /\ P[x] # NULL /\ g.header[P[x]].pOwner = q
        BY <1>5, <1>11, <1>13, <2>2
      <3>2. At(P2, H, x) = q
        BY <1>6, <2>2 DEF At, Lies
      <3>3. QED
        BY <3>1, <3>2
    <2>3. CASE x # u /\ ~Lies(H, x, u)
      <3>1. P2[x] = P[x] /\ P[x] # NULL /\ g.header[P[x]].pOwner = h.header[P[x]].pOwner
        BY <1>5, <1>11, <1>13, <2>3
      <3>2. At(P2, H, x) = At(P, H, x)
        BY <1>1, <1>2, <2>3 DEF At, Lies
      <3>3. QED
        BY <1>4, <3>1, <3>2
    <2>4. QED
      BY <2>1, <2>2, <2>3
  <1>14. ASSUME NEW x \in Var, NEW y \in Var, Lies(H, y, x)
         PROVE  g.header[P2[x]].child_header = P2[y]
    <2>1. P[x] # NULL /\ P[y] # NULL /\ h.header[P[x]].child_header = P[y] /\ x # y
      BY <1>3, <1>4, <1>14 DEF Lies
    <2>2. CASE x = u
      BY <1>5, <1>6, <2>1, <2>2
    <2>3. CASE x # u /\ y = u
      BY <1>5, <1>6, <1>12, <1>14, <2>1, <2>3
    <2>4. CASE x # u /\ y # u
      <3>1. ~Lies(H, u, x)
        BY <1>3, <1>4, <2>1, <2>4
      <3>2. QED
        BY <1>5, <1>12, <2>1, <2>4, <3>1
    <2>5. QED
      BY <2>2, <2>3, <2>4
  <1>15. ASSUME NEW x \in Var, P2[x] # NULL, g.header[P2[x]].child_header # NULL
         PROVE  \E y \in Var : Lies(H, y, x)
    <2>1. CASE x = u
      BY <1>4, <1>6, <1>15, <2>1
    <2>2. CASE x # u /\ Lies(H, u, x)
      BY <2>2
    <2>3. CASE x # u /\ ~Lies(H, u, x)
      <3>1. P[x] # NULL /\ h.header[P[x]].child_header # NULL
        BY <1>5, <1>12, <1>15, <2>3
      <3>2. QED
        BY <1>4, <3>1
    <2>4. QED
      BY <2>1, <2>2, <2>3
  <1>16. QED
    BY <1>1, <1>2, <1>7, <1>8, <1>9, <1>10, <1>13, <1>14, <1>15 DEF Tied, P2

(* The headers stay as they are. *)
LEMMA KeptTied ==
  ASSUME NEW h, NEW P, NEW W, NEW H, Tied(h, P, W, H), NEW g,
         DOMAIN g.header = DOMAIN h.header,
         \A r \in DOMAIN h.header : g.header[r] = h.header[r]
  PROVE  Tied(g, P, W, H)
  <1>1. \A r \in DOMAIN h.header : Room(g, r) = Room(h, r)
    BY DEF Room
  <1>2. \A v \in Var : P[v] # NULL => P[v] \in DOMAIN h.header
    BY DEF Tied
  <1>3. \A v, w \in Var : Lies(H, w, v) => P[v] # NULL
    BY DEF Tied, Lies
  <1>4. QED
    BY <1>1, <1>2, <1>3 DEF Tied

(* Nothing is in use. *)
LEMMA EmptyTied ==
  ASSUME NEW g, DOMAIN g.header = {}
  PROVE  Tied(g, [v \in Var |-> NULL], [v \in Var |-> 0], [v \in Var |-> v])
  BY DEF Tied, Lies

LEMMA OwnTied ==
  ASSUME NEW h, NEW P, NEW W, NEW H, Tied(h, P, W, H), NEW v \in Var, P[v] # NULL, H[v] = v,
         NEW g, DOMAIN g.header = DOMAIN h.header,
         \A r \in DOMAIN h.header : Same(g, h, r),
         \A r \in DOMAIN h.header :
           g.header[r].pOwner = IF r = P[v] THEN v ELSE h.header[r].pOwner,
         \A r \in DOMAIN h.header : g.header[r].child_header = h.header[r].child_header
  PROVE  Tied(g, P, W, H)
  <1>1. \A r \in DOMAIN h.header : Room(g, r) = Room(h, r)
    BY DEF Room, Same
  <1>2. \A x \in Var : P[x] # NULL => P[x] \in DOMAIN h.header
    BY DEF Tied
  <1>3. \A x, y \in Var : Lies(H, y, x) => P[x] # NULL
    BY DEF Tied, Lies
  <1>4. At(P, H, v) = v
    BY DEF At
  <1>5. \A x \in Var : P[x] # NULL =>
          \/ g.header[P[x]].pOwner = At(P, H, x)
          \/ H[x] = x /\ g.header[P[x]].pOwner = NULL
    <2>1. \A x \in Var : P[x] # NULL =>
            /\ \/ h.header[P[x]].pOwner = At(P, H, x)
               \/ H[x] = x /\ h.header[P[x]].pOwner = NULL
            /\ x # v => P[x] # P[v]
      BY DEF Tied
    <2>2. QED
      BY <1>2, <1>4, <2>1
  <1>6. QED
    BY <1>1, <1>2, <1>3, <1>5 DEF Tied

LEMMA InnerTied ==
  ASSUME NEW h, NEW P, NEW W, NEW H, Tied(h, P, W, H), NEW v \in Var, NEW w \in Var, v # w,
         P[v] # NULL, P[w] # NULL, H[v] = v, H[w] = w,
         \A x \in Var : ~Lies(H, x, v) /\ ~Lies(H, x, w),
         NEW g, DOMAIN g.header = DOMAIN h.header,
         \A r \in DOMAIN h.header : Same(g, h, r),
         \A r \in DOMAIN h.header :
           g.header[r].pOwner = IF r = P[v] THEN P[w] ELSE h.header[r].pOwner,
         \A r \in DOMAIN h.header :
           g.header[r].child_header = IF r = P[w] THEN P[v] ELSE h.header[r].child_header
  PROVE  Tied(g, P, W, [H EXCEPT ![v] = w])
  <1> DEFINE H2 == [H EXCEPT ![v] = w]
  <1>1. /\ P \in [Var -> Unit \cup {NULL}] /\ W \in [Var -> Requests \cup {0}]
        /\ H \in [Var -> Var]
    BY DEF Tied
  <1>2. H2 \in [Var -> Var] /\ \A x \in Var : H2[x] = IF x = v THEN w ELSE H[x]
    BY <1>1
  <1> HIDE DEF H2
  <1>3. /\ \A x \in Var : H[x] # x => P[x] # NULL /\ P[H[x]] # NULL /\ H[H[x]] = H[x]
        /\ \A x \in Var : P[x] # NULL => P[x] \in DOMAIN h.header
        /\ \A p \in DOMAIN h.header : p # NULL /\ \E x \in Var : P[x] = p
        /\ \A x, y \in Var : x # y /\ P[x] # NULL => P[x] # P[y]
        /\ \A x \in Var : P[x] # NULL => Room(h, P[x]) >= W[x]
    BY DEF Tied
  <1>4. /\ \A x \in Var : P[x] # NULL =>
             \/ h.header[P[x]].pOwner = At(P, H, x)
             \/ H[x] = x /\ h.header[P[x]].pOwner = NULL
        /\ \A x, y \in Var : Lies(H, y, x) => h.header[P[x]].child_header = P[y]
        /\ \A x \in Var : P[x] # NULL /\ h.header[P[x]].child_header # NULL =>
             \E y \in Var : Lies(H, y, x)
    BY DEF Tied
  <1>5. \A x \in Var : (H[x] = v => x = v) /\ (H[x] = w => x = w)
    BY DEF Lies
  <1>6. \A r \in DOMAIN h.header : Room(g, r) = Room(h, r)
    BY DEF Room, Same
  <1>7. \A x \in Var : P[x] # NULL => Room(g, P[x]) >= W[x]
    BY <1>3, <1>6
  <1>8. \A x \in Var : H2[x] # x => P[x] # NULL /\ P[H2[x]] # NULL /\ H2[H2[x]] = H2[x]
    BY <1>1, <1>2, <1>3, <1>5
  <1>9. ASSUME NEW x \in Var, P[x] # NULL
        PROVE  \/ g.header[P[x]].pOwner = At(P, H2, x)
               \/ H2[x] = x /\ g.header[P[x]].pOwner = NULL
    <2>1. CASE x = v
      BY <1>2, <1>3, <2>1 DEF At
    <2>2. CASE x # v
      <3>1. P[x] # P[v] /\ P[x] \in DOMAIN h.header
        BY <1>3, <1>9, <2>2
      <3>2. At(P, H2, x) = At(P, H, x) /\ H2[x] = H[x]
        BY <1>2, <2>2 DEF At
      <3>3. QED
        BY <1>4, <1>9, <3>1, <3>2
    <2>3. QED
      BY <2>1, <2>2
  <1>10. ASSUME NEW x \in Var, NEW y \in Var, Lies(H2, y, x)
         PROVE  g.header[P[x]].child_header = P[y]
    <2>1. CASE y = v
      <3>1. x = w
        BY <1>2, <1>10, <2>1 DEF Lies
      <3>2. QED
        BY <1>3, <2>1, <3>1
    <2>2. CASE y # v
      <3>1. Lies(H, y, x) /\ x # w
        BY <1>2, <1>5, <1>10, <2>2 DEF Lies
      <3>2. P[x] # NULL
        BY <1>3, <3>1 DEF Lies
      <3>3. P[x] # P[w] /\ P[x] \in DOMAIN h.header
        BY <1>3, <3>1, <3>2
      <3>4. QED
        BY <1>4, <3>1, <3>3
    <2>3. QED
      BY <2>1, <2>2
  <1>11. ASSUME NEW x \in Var, P[x] # NULL, g.header[P[x]].child_header # NULL
         PROVE  \E y \in Var : Lies(H2, y, x)
    <2>1. CASE x = w
      <3>1. Lies(H2, v, w)
        BY <1>2 DEF Lies
      <3>2. QED
        BY <2>1, <3>1
    <2>2. CASE x # w
      <3>1. P[x] # P[w] /\ P[x] \in DOMAIN h.header
        BY <1>3, <1>11, <2>2
      <3>2. PICK y \in Var : Lies(H, y, x)
        BY <1>4, <1>11, <3>1
      <3>3. y # v
        BY <3>2 DEF Lies
      <3>4. Lies(H2, y, x)
        BY <1>2, <3>2, <3>3 DEF Lies
      <3>5. QED
        BY <3>4
    <2>3. QED
      BY <2>1, <2>2
  <1>12. QED
    BY <1>1, <1>2, <1>3, <1>7, <1>8, <1>9, <1>10, <1>11 DEF Tied, H2

HandsOver(g, h, P, W, H, v, w, P2, W2, H2) ==
  /\ v \in Var /\ w \in Var /\ P[v] # NULL /\ H[v] = v /\ P[w] = NULL
  /\ DOMAIN g.header = DOMAIN h.header
  /\ \A r \in DOMAIN h.header : Same(g, h, r)
  /\ \A r \in DOMAIN h.header :
       g.header[r].pOwner = IF r = P[v] THEN w ELSE h.header[r].pOwner
  /\ \A r \in DOMAIN h.header : g.header[r].child_header = h.header[r].child_header
  /\ P2 \in [Var -> Unit \cup {NULL}] /\ W2 \in [Var -> Requests \cup {0}]
  /\ H2 \in [Var -> Var]
  /\ \A x \in Var : P2[x] = IF x = v THEN NULL ELSE IF x = w THEN P[v] ELSE P[x]
  /\ \A x \in Var : W2[x] = IF x = v THEN 0 ELSE IF x = w THEN W[v] ELSE W[x]
  /\ \A x \in Var : H2[x] = IF Lies(H, x, v) THEN w ELSE H[x]

LEMMA HandleTied ==
  ASSUME NEW h, NEW P, NEW W, NEW H, Tied(h, P, W, H), NEW g, NEW v, NEW w,
         NEW P2, NEW W2, NEW H2, HandsOver(g, h, P, W, H, v, w, P2, W2, H2)
  PROVE  Tied(g, P2, W2, H2)
  <1>1. /\ P \in [Var -> Unit \cup {NULL}] /\ W \in [Var -> Requests \cup {0}]
        /\ H \in [Var -> Var]
    BY DEF Tied
  <1>2. /\ v \in Var /\ w \in Var /\ v # w
        /\ P[v] # NULL /\ H[v] = v /\ P[w] = NULL
        /\ DOMAIN g.header = DOMAIN h.header
        /\ \A r \in DOMAIN h.header : Same(g, h, r)
        /\ \A r \in DOMAIN h.header :
             g.header[r].pOwner = IF r = P[v] THEN w ELSE h.header[r].pOwner
        /\ \A r \in DOMAIN h.header : g.header[r].child_header = h.header[r].child_header
        /\ P2 \in [Var -> Unit \cup {NULL}] /\ W2 \in [Var -> Requests \cup {0}]
        /\ H2 \in [Var -> Var]
        /\ \A x \in Var : P2[x] = IF x = v THEN NULL ELSE IF x = w THEN P[v] ELSE P[x]
        /\ \A x \in Var : W2[x] = IF x = v THEN 0 ELSE IF x = w THEN W[v] ELSE W[x]
        /\ \A x \in Var : H2[x] = IF Lies(H, x, v) THEN w ELSE H[x]
    BY DEF HandsOver
  <1> USE <1>2
  <1>3. /\ \A x \in Var : H[x] # x => P[x] # NULL /\ P[H[x]] # NULL /\ H[H[x]] = H[x]
        /\ \A x \in Var : P[x] # NULL => P[x] \in DOMAIN h.header
        /\ \A p \in DOMAIN h.header : p # NULL /\ \E x \in Var : P[x] = p
        /\ \A x, y \in Var : x # y /\ P[x] # NULL => P[x] # P[y]
        /\ \A x \in Var : P[x] # NULL => Room(h, P[x]) >= W[x]
    BY DEF Tied
  <1>4. /\ \A x \in Var : P[x] # NULL =>
             \/ h.header[P[x]].pOwner = At(P, H, x)
             \/ H[x] = x /\ h.header[P[x]].pOwner = NULL
        /\ \A x, y \in Var : Lies(H, y, x) => h.header[P[x]].child_header = P[y]
        /\ \A x \in Var : P[x] # NULL /\ h.header[P[x]].child_header # NULL =>
             \E y \in Var : Lies(H, y, x)
    BY DEF Tied
  <1>5. H[w] = w /\ \A x \in Var : H[x] = w => x = w
    BY <1>3
  <1>6. H2[v] = v /\ H2[w] = w
    BY <1>2, <1>5 DEF Lies
  <1>7. P2[v] = NULL /\ P2[w] = P[v] /\ W2[w] = W[v]
    BY <1>2
  <1>8. \A x \in Var \ {v, w} : P2[x] = P[x] /\ W2[x] = W[x] /\ (P[x] # NULL => P[x] # P[v])
    BY <1>2, <1>3
  <1>9. ASSUME NEW x \in Var \ {v, w}
        PROVE  At(P2, H2, x) = At(P, H, x)
    <2>1. CASE Lies(H, x, v)
      BY <1>2, <1>7, <2>1 DEF At, Lies
    <2>2. CASE ~Lies(H, x, v)
      <3>1. H2[x] = H[x] /\ H[x] \in Var \ {v, w}
        BY <1>1, <1>2, <1>5, <2>2 DEF Lies
      <3>2. QED
        BY <1>2, <3>1 DEF At
    <2>3. QED
      BY <2>1, <2>2
  <1>10. \A r \in DOMAIN h.header : Room(g, r) = Room(h, r)
    BY DEF Room, Same
  <1>11. \A x \in Var : P2[x] # NULL => P2[x] \in DOMAIN g.header /\ Room(g, P2[x]) >= W2[x]
    BY <1>3, <1>7, <1>8, <1>10
  <1>12. \A p \in DOMAIN g.header : p # NULL /\ \E x \in Var : P2[x] = p
    <2>1. ASSUME NEW p \in DOMAIN h.header
          PROVE  \E x \in Var : P2[x] = p
      <3>1. PICK x \in Var : P[x] = p
        BY <1>3
      <3>2. p # NULL
        BY <1>3
      <3>3. CASE x = v
        BY <1>7, <3>1, <3>3
      <3>4. CASE x # v
        BY <1>8, <3>1, <3>2, <3>4
      <3>5. QED
        BY <3>3, <3>4
    <2>2. QED
      BY <1>3, <2>1
  <1>13. \A x, y \in Var : x # y /\ P2[x] # NULL => P2[x] # P2[y]
    BY <1>2, <1>3
  <1>14. ASSUME NEW x \in Var, H2[x] # x
         PROVE  P2[x] # NULL /\ P2[H2[x]] # NULL /\ H2[H2[x]] = H2[x]
    <2>1. x # v /\ x # w
      BY <1>6, <1>14
    <2>2. CASE Lies(H, x, v)
      BY <1>2, <1>3, <1>6, <1>7, <1>8, <2>1, <2>2 DEF Lies
    <2>3. CASE ~Lies(H, x, v)
      <3>1. H2[x] = H[x] /\ H[x] # x /\ H[x] \in Var \ {v, w} /\ H[H[x]] = H[x]
        BY <1>1, <1>2, <1>3, <1>5, <1>14, <2>1, <2>3 DEF Lies
      <3>2. ~Lies(H, H[x], v)
        BY <3>1 DEF Lies
      <3>3. H2[H[x]] = H[x] /\ P2[H[x]] = P[H[x]] /\ P2[x] = P[x]
        BY <1>2, <1>8, <2>1, <3>1, <3>2
      <3>4. QED
        BY <1>3, <3>1, <3>3
    <2>4. QED
      BY <2>2, <2>3
  <1>15. ASSUME NEW x \in Var, P2[x] # NULL
         PROVE  \/ g.header[P2[x]].pOwner = At(P2, H2, x)
                \/ H2[x] = x /\ g.header[P2[x]].pOwner = NULL
    <2>1. CASE x = w
      <3>1. At(P2, H2, w) = w /\ g.header[P2[w]].pOwner = w
        BY <1>3, <1>6, <1>7 DEF At
      <3>2. QED
        BY <2>1, <3>1
    <2>2. CASE x # w
      <3>1. x # v /\ P2[x] = P[x] /\ P[x] # NULL /\ P[x] # P[v] /\ P[x] \in DOMAIN h.header
        BY <1>3, <1>7, <1>8, <1>15, <2>2
      <3>2. H[x] = x => H2[x] = x
        BY <1>2, <3>1 DEF Lies
      <3>3. g.header[P2[x]].pOwner = h.header[P[x]].pOwner
        BY <3>1
      <3>4. QED
        BY <1>4, <1>9, <2>2, <3>1, <3>2, <3>3
    <2>3. QED
      BY <2>1, <2>2
  <1>16. ASSUME NEW x \in Var, NEW y \in Var, Lies(H2, y, x)
         PROVE  g.header[P2[x]].child_header = P2[y]
    <2>1. y # v /\ y # w /\ H2[y] = x
      BY <1>6, <1>16 DEF Lies
    <2>2. P2[y] = P[y]
      BY <1>8, <2>1
    <2>3. CASE Lies(H, y, v)
      <3>1. x = w
        BY <1>2, <2>1, <2>3
      <3>2. P[v] \in DOMAIN h.header /\ h.header[P[v]].child_header = P[y]
        BY <1>3, <1>4, <2>3
      <3>3. QED
        BY <1>7, <2>2, <3>1, <3>2
    <2>4. CASE ~Lies(H, y, v)
      <3>1. H[y] = x
        BY <1>2, <2>1, <2>4
      <3>2. x # v /\ x # w /\ Lies(H, y, x)
        BY <1>5, <1>16, <2>1, <2>4, <3>1 DEF Lies
      <3>3. P2[x] = P[x] /\ P[x] \in DOMAIN h.header
        BY <1>3, <1>8, <3>2 DEF Lies
      <3>4. QED
        BY <1>4, <2>2, <3>2, <3>3
    <2>5. QED
      BY <2>3, <2>4
  <1>17. ASSUME NEW x \in Var, P2[x] # NULL, g.header[P2[x]].child_header # NULL
         PROVE  \E y \in Var : Lies(H2, y, x)
    <2>1. CASE x = w
      <3>1. P[v] \in DOMAIN h.header /\ h.header[P[v]].child_header # NULL
        BY <1>3, <1>7, <1>17, <2>1
      <3>2. PICK y \in Var : Lies(H, y, v)
        BY <1>4, <3>1
      <3>3. Lies(H2, y, w)
        BY <1>2, <1>5, <3>2 DEF Lies
      <3>4. QED
        BY <2>1, <3>3
    <2>2. CASE x # w
      <3>1. x # v /\ P2[x] = P[x] /\ P[x] # NULL /\ P[x] \in DOMAIN h.header
        BY <1>3, <1>7, <1>8, <1>17, <2>2
      <3>2. PICK y \in Var : Lies(H, y, x)
        BY <1>4, <1>17, <3>1
      <3>3. ~Lies(H, y, v)
        BY <3>1, <3>2 DEF Lies
      <3>4. Lies(H2, y, x)
        BY <1>2, <3>2, <3>3 DEF Lies
      <3>5. QED
        BY <3>4
    <2>3. QED
      BY <2>1, <2>2
  <1>18. QED
    BY <1>2, <1>11, <1>12, <1>13, <1>14, <1>15, <1>16, <1>17 DEF Tied

LEMMA FreeTied ==
  ASSUME NEW h, NEW P, NEW W, NEW H, Tied(h, P, W, H), NEW v \in Var,
         P[v] # NULL, H[v] = v, \A x \in Var : ~Lies(H, x, v),
         NEW g, DOMAIN g.header = DOMAIN h.header \ {P[v]},
         \A r \in DOMAIN g.header : g.header[r] = h.header[r]
  PROVE  Tied(g, [P EXCEPT ![v] = NULL], [W EXCEPT ![v] = 0], H)
  <1> DEFINE P2 == [P EXCEPT ![v] = NULL]
             W2 == [W EXCEPT ![v] = 0]
  <1>1. /\ P \in [Var -> Unit \cup {NULL}] /\ W \in [Var -> Requests \cup {0}]
        /\ H \in [Var -> Var]
    BY DEF Tied
  <1>2. /\ P2 \in [Var -> Unit \cup {NULL}] /\ W2 \in [Var -> Requests \cup {0}]
        /\ \A x \in Var : P2[x] = IF x = v THEN NULL ELSE P[x]
        /\ \A x \in Var : W2[x] = IF x = v THEN 0 ELSE W[x]
    BY <1>1
  <1> HIDE DEF P2, W2
  <1>3. /\ \A x \in Var : H[x] # x => P[x] # NULL /\ P[H[x]] # NULL /\ H[H[x]] = H[x]
        /\ \A x \in Var : P[x] # NULL => P[x] \in DOMAIN h.header
        /\ \A p \in DOMAIN h.header : p # NULL /\ \E x \in Var : P[x] = p
        /\ \A x, y \in Var : x # y /\ P[x] # NULL => P[x] # P[y]
        /\ \A x \in Var : P[x] # NULL => Room(h, P[x]) >= W[x]
    BY DEF Tied
  <1>4. /\ \A x \in Var : P[x] # NULL =>
             \/ h.header[P[x]].pOwner = At(P, H, x)
             \/ H[x] = x /\ h.header[P[x]].pOwner = NULL
        /\ \A x, y \in Var : Lies(H, y, x) => h.header[P[x]].child_header = P[y]
        /\ \A x \in Var : P[x] # NULL /\ h.header[P[x]].child_header # NULL =>
             \E y \in Var : Lies(H, y, x)
    BY DEF Tied
  <1>5. \A x \in Var : H[x] = v => x = v
    BY DEF Lies
  <1>6. \A x \in Var : P2[x] # NULL =>
          /\ x # v /\ P2[x] = P[x] /\ W2[x] = W[x] /\ At(P2, H, x) = At(P, H, x)
          /\ P[x] \in DOMAIN g.header /\ g.header[P[x]] = h.header[P[x]]
    <2>1. ASSUME NEW x \in Var, P2[x] # NULL
          PROVE  x # v /\ P2[x] = P[x] /\ W2[x] = W[x] /\ At(P2, H, x) = At(P, H, x)
      BY <1>1, <1>2, <1>5, <2>1 DEF At
    <2>2. ASSUME NEW x \in Var, P2[x] # NULL
          PROVE  P[x] \in DOMAIN g.header /\ g.header[P[x]] = h.header[P[x]]
      BY <1>3, <2>1, <2>2
    <2>3. QED
      BY <2>1, <2>2
  <1>7. \A r \in DOMAIN g.header : Room(g, r) = Room(h, r)
    BY DEF Room
  <1>8. \A x \in Var : P2[x] # NULL => Room(g, P2[x]) >= W2[x]
    BY <1>3, <1>6, <1>7
  <1>9. \A p \in DOMAIN g.header : p # NULL /\ \E x \in Var : P2[x] = p
    <2>1. ASSUME NEW p \in DOMAIN g.header
          PROVE  p # NULL /\ \E x \in Var : P2[x] = p
      <3>1. PICK x \in Var : P[x] = p
        BY <1>3
      <3>2. QED
        BY <1>2, <1>3, <3>1
    <2>2. QED
      BY <2>1
  <1>10. \A x, y \in Var : x # y /\ P2[x] # NULL => P2[x] # P2[y]
    BY <1>2, <1>3
  <1>11. \A x \in Var : H[x] # x => P2[x] # NULL /\ P2[H[x]] # NULL /\ H[H[x]] = H[x]
    BY <1>1, <1>2, <1>3, <1>5
  <1>12. \A x \in Var : P2[x] # NULL =>
           \/ g.header[P2[x]].pOwner = At(P2, H, x)
           \/ H[x] = x /\ g.header[P2[x]].pOwner = NULL
    BY <1>4, <1>6
  <1>13. ASSUME NEW x \in Var, NEW y \in Var, Lies(H, y, x)
         PROVE  g.header[P2[x]].child_header = P2[y]
    <2>1. P2[x] # NULL /\ P2[y] # NULL
      BY <1>11, <1>13 DEF Lies
    <2>2. QED
      BY <1>4, <1>6, <1>13, <2>1
  <1>14. \A x \in Var : P2[x] # NULL /\ g.header[P2[x]].child_header # NULL =>
           \E y \in Var : Lies(H, y, x)
    BY <1>4, <1>6
  <1>15. QED
    BY <1>1, <1>2, <1>6, <1>8, <1>9, <1>10, <1>11, <1>12, <1>13, <1>14 DEF Tied, P2, W2

LEMMA FreeHandleTied ==
  ASSUME NEW h, NEW P, NEW W, NEW H, Tied(h, P, W, H), NEW v \in Var, NEW w \in Var,
         Lies(H, w, v),
         NEW g, DOMAIN g.header = DOMAIN h.header \ {P[v], P[w]},
         \A r \in DOMAIN g.header : g.header[r] = h.header[r]
  PROVE  Tied(g, [P EXCEPT ![v] = NULL, ![w] = NULL], [W EXCEPT ![v] = 0, ![w] = 0],
              [H EXCEPT ![w] = w])
  <1> DEFINE P2 == [P EXCEPT ![v] = NULL, ![w] = NULL]
             W2 == [W EXCEPT ![v] = 0, ![w] = 0]
             H2 == [H EXCEPT ![w] = w]
  <1>1. /\ P \in [Var -> Unit \cup {NULL}] /\ W \in [Var -> Requests \cup {0}]
        /\ H \in [Var -> Var]
    BY DEF Tied
  <1>2. /\ P2 \in [Var -> Unit \cup {NULL}] /\ W2 \in [Var -> Requests \cup {0}]
        /\ H2 \in [Var -> Var]
        /\ \A x \in Var : P2[x] = IF x \in {v, w} THEN NULL ELSE P[x]
        /\ \A x \in Var : W2[x] = IF x \in {v, w} THEN 0 ELSE W[x]
        /\ \A x \in Var : H2[x] = IF x = w THEN w ELSE H[x]
    BY <1>1
  <1> HIDE DEF P2, W2, H2
  <1>3. /\ \A x \in Var : H[x] # x => P[x] # NULL /\ P[H[x]] # NULL /\ H[H[x]] = H[x]
        /\ \A x \in Var : P[x] # NULL => P[x] \in DOMAIN h.header
        /\ \A p \in DOMAIN h.header : p # NULL /\ \E x \in Var : P[x] = p
        /\ \A x, y \in Var : x # y /\ P[x] # NULL => P[x] # P[y]
        /\ \A x \in Var : P[x] # NULL => Room(h, P[x]) >= W[x]
    BY DEF Tied
  <1>4. /\ \A x \in Var : P[x] # NULL =>
             \/ h.header[P[x]].pOwner = At(P, H, x)
             \/ H[x] = x /\ h.header[P[x]].pOwner = NULL
        /\ \A x, y \in Var : Lies(H, y, x) => h.header[P[x]].child_header = P[y]
        /\ \A x \in Var : P[x] # NULL /\ h.header[P[x]].child_header # NULL =>
             \E y \in Var : Lies(H, y, x)
    BY DEF Tied
  <1>5. H[w] = v /\ w # v /\ H[v] = v /\ P[v] # NULL /\ P[w] # NULL
    BY <1>3 DEF Lies
  <1>6. ASSUME NEW x \in Var \ {v, w}
        PROVE  H[x] \notin {v, w}
    <2>1. H[x] # w
      BY <1>3, <1>5, <1>6
    <2>2. ASSUME H[x] = v
          PROVE  FALSE
      <3>1. Lies(H, x, v)
        BY <1>6, <2>2 DEF Lies
      <3>2. P[x] = P[w]
        BY <1>4, <3>1
      <3>3. QED
        BY <1>3, <1>5, <1>6, <3>2
    <2>3. QED
      BY <2>1, <2>2
  <1>7. \A x \in Var : P2[x] # NULL =>
          /\ x \in Var \ {v, w} /\ P2[x] = P[x] /\ W2[x] = W[x] /\ H2[x] = H[x]
          /\ At(P2, H2, x) = At(P, H, x)
          /\ P[x] \in DOMAIN g.header /\ g.header[P[x]] = h.header[P[x]]
    <2>1. ASSUME NEW x \in Var, P2[x] # NULL
          PROVE  x \in Var \ {v, w} /\ P2[x] = P[x] /\ W2[x] = W[x] /\ H2[x] = H[x]
      BY <1>2, <2>1
    <2>2. ASSUME NEW x \in Var, P2[x] # NULL
          PROVE  At(P2, H2, x) = At(P, H, x)
      BY <1>1, <1>2, <1>6, <2>1, <2>2 DEF At
    <2>3. ASSUME NEW x \in Var, P2[x] # NULL
          PROVE  P[x] \in DOMAIN g.header /\ g.header[P[x]] = h.header[P[x]]
      BY <1>3, <2>1, <2>3
    <2>4. QED
      BY <2>1, <2>2, <2>3
  <1>8. \A r \in DOMAIN g.header : Room(g, r) = Room(h, r)
    BY DEF Room
  <1>9. \A x \in Var : P2[x] # NULL => Room(g, P2[x]) >= W2[x]
    BY <1>3, <1>7, <1>8
  <1>10. \A p \in DOMAIN g.header : p # NULL /\ \E x \in Var : P2[x] = p
    <2>1. ASSUME NEW p \in DOMAIN g.header
          PROVE  p # NULL /\ \E x \in Var : P2[x] = p
      <3>1. PICK x \in Var : P[x] = p
        BY <1>3
      <3>2. QED
        BY <1>2, <1>3, <3>1
    <2>2. QED
      BY <2>1
  <1>11. \A x, y \in Var : x # y /\ P2[x] # NULL => P2[x] # P2[y]
    BY <1>2, <1>3
  <1>12. ASSUME NEW x \in Var, H2[x] # x
         PROVE  /\ x \in Var \ {v, w} /\ H2[x] = H[x]
                /\ P2[x] # NULL /\ P2[H2[x]] # NULL /\ H2[H2[x]] = H2[x]
    <2>1. x \in Var \ {v, w}
      BY <1>2, <1>5, <1>12
    <2>2. H2[x] = H[x] /\ H[x] \in Var \ {v, w} /\ H[x] # x
      BY <1>1, <1>2, <1>6, <1>12, <2>1
    <2>3. QED
      BY <1>2, <1>3, <2>1, <2>2
  <1>13. \A x \in Var : P2[x] # NULL =>
           \/ g.header[P2[x]].pOwner = At(P2, H2, x)
           \/ H2[x] = x /\ g.header[P2[x]].pOwner = NULL
    BY <1>4, <1>7
  <1>14. ASSUME NEW x \in Var, NEW y \in Var, Lies(H2, y, x)
         PROVE  g.header[P2[x]].child_header = P2[y]
    <2>1. P2[x] # NULL /\ P2[y] # NULL /\ Lies(H, y, x)
      BY <1>12, <1>14 DEF Lies
    <2>2. QED
      BY <1>4, <1>7, <2>1
  <1>15. ASSUME NEW x \in Var, P2[x] # NULL, g.header[P2[x]].child_header # NULL
         PROVE  \E y \in Var : Lies(H2, y, x)
    <2>1. P[x] # NULL /\ x \in Var \ {v, w} /\ h.header[P[x]].child_header # NULL
      BY <1>7, <1>15
    <2>2. PICK y \in Var : Lies(H, y, x)
      BY <1>4, <2>1
    <2>3. y # w
      BY <1>5, <2>1, <2>2 DEF Lies
    <2>4. Lies(H2, y, x)
      BY <1>2, <2>2, <2>3 DEF Lies
    <2>5. QED
      BY <2>4
  <1>16. QED
    BY <1>2, <1>7, <1>9, <1>10, <1>11, <1>12, <1>13, <1>14, <1>15 DEF Tied, P2, W2, H2

-----------------------------------------------------------------------------
(* The inductive invariant in the form the steps establish it. *)
Whole ==
  /\ HeapInv(fl) /\ Tied(fl, ptr, want, home)
  /\ phase \in {"client", "defragment"}
  /\ phase = "defragment" /\ fl.fault = "none" => fl.list # << >>

LEMMA IInvIs == IInv <=> Whole
  BY TiedIs DEF IInv, ClientInv, Whole

LEMMA IInvNext == IInv' <=> Whole'
  BY IInvIs, PTL

(* A step that leaves the variables outside S, and their blocks, alone. *)
Spares(S) ==
  \A v \in Var \ S :
    ptr'[v] = ptr[v] /\ (ptr[v] # NULL => Cells(fl', ptr[v]) = Cells(fl, ptr[v]))

LEMMA SparesIs ==
  ASSUME IInv, IInv', NEW S, \A v \in Var \ S : ptr'[v] = ptr[v],
         \A v \in Var \ S : ptr[v] # NULL => Same(fl', fl, ptr[v])
  PROVE  Spares(S)
  <1>1. HeapInv(fl) /\ Tied(fl, ptr, want, home)
    BY IInvIs DEF Whole
  <1>2. HeapInv(fl') /\ Tied(fl', ptr', want', home')
    BY IInvNext DEF Whole
  <1>3. Shaped(fl) /\ Shaped(fl')
    BY <1>1, <1>2 DEF HeapInv
  <1>4. ASSUME NEW v \in Var \ S, ptr[v] # NULL
        PROVE  Cells(fl', ptr[v]) = Cells(fl, ptr[v])
    <2>1. ptr[v] \in DOMAIN fl.header
      BY <1>1, <1>4 DEF Tied
    <2>2. ptr'[v] = ptr[v] /\ ptr'[v] # NULL
      BY <1>4
    <2>3. ptr[v] \in DOMAIN (fl').header
      BY <1>2, <2>2 DEF Tied
    <2>4. Same(fl', fl, ptr[v])
      BY <1>4
    <2>5. QED
      BY <1>3, <2>1, <2>3, <2>4, SameIs
  <1>5. QED
    BY <1>4 DEF Spares

(* The same from the headers. *)
LEMMA SameHeader ==
  ASSUME NEW g, NEW h, NEW r, g.header[r] = h.header[r]
  PROVE  Same(g, h, r)
  BY DEF Same

LEMMA InitIs == Init => IInv
  <1> SUFFICES ASSUME Init
               PROVE  Whole
    BY IInvIs
  <1>1. HeapInv(fl) /\ DOMAIN fl.header = {} /\ fl.fault = "none"
    BY EmptyIs DEF Init
  <1>2. Tied(fl, [v \in Var |-> NULL], [v \in Var |-> 0], [v \in Var |-> v])
    BY <1>1, EmptyTied
  <1>3. QED
    BY <1>1, <1>2 DEF Init, Whole

LEMMA AllocStep ==
  ASSUME IInv, NEW v \in Var, Alloc(v)
  PROVE  IInv' /\ Spares({v})
  <1>1. /\ HeapInv(fl) /\ Tied(fl, ptr, want, home) /\ fl.fault = "none"
        /\ phase = "client" /\ ptr[v] = NULL /\ home' = home /\ phase' = phase
    BY IInvIs DEF Whole, Alloc, Running
  <1>2. PICK n \in Requests, align \in Alignments :
          LET size == AtLeast(n, NodeSize)
              i == FindBest(fl, size, align)
          IN  /\ i # 0
              /\ fl' = AllocAlign(fl, i, size, align)
              /\ ptr' = [ptr EXCEPT ![v] = AllocPtr(fl, i, align)]
              /\ want' = [want EXCEPT ![v] = n]
    BY DEF Alloc
  <1> DEFINE size == AtLeast(n, NodeSize)
             i == FindBest(fl, size, align)
             q == AllocPtr(fl, i, align)
             g == AllocAlign(fl, i, size, align)
  <1>3. /\ i # 0 /\ fl' = g /\ ptr' = [ptr EXCEPT ![v] = q] /\ want' = [want EXCEPT ![v] = n]
    BY <1>2
  <1>4. n \in Nat /\ size \in Nat /\ size > 0 /\ size >= n
    BY HeapAssumption DEF AtLeast, NodeSize
  <1>5. i \in 1 .. Len(fl.list) /\ fl.list[i].size >= size + Padding(fl.list[i].addr, align)
    BY <1>1, <1>3, FindBestIs
  <1> HIDE DEF size, i
  <1>6. /\ HeapInv(g) /\ g.fault = fl.fault
        /\ q \in Unit /\ q \notin DOMAIN fl.header
        /\ DOMAIN g.header = DOMAIN fl.header \cup {q}
        /\ \A r \in DOMAIN fl.header : g.header[r] = fl.header[r]
        /\ g.header[q].pOwner = NULL /\ g.header[q].child_header = NULL
        /\ Room(g, q) >= size
    BY ONLY <1>1, <1>4, <1>5, AllocAlignIs, align \in Alignments
  <1> HIDE DEF q, g
  <1>7. Room(g, q) >= n
    <2>1. q \in DOMAIN g.header /\ Shaped(g) /\ Placed(g, q)
      BY <1>6 DEF HeapInv
    <2>2. Room(g, q) \in Nat
      BY <2>1, PlacedIs
    <2>3. QED
      BY ONLY <1>4, <1>6, <2>2
  <1>8. Tied(g, [ptr EXCEPT ![v] = q], [want EXCEPT ![v] = n], home)
    BY <1>1, <1>6, <1>7, AllocTied
  <1>9. IInv'
    BY <1>1, <1>3, <1>6, <1>8, IInvNext DEF Whole
  <1>10. \A x \in Var \ {v} : ptr'[x] = ptr[x]
    BY <1>1, <1>3 DEF Tied
  <1>11. \A x \in Var : ptr[x] # NULL => Same(fl', fl, ptr[x])
    BY <1>1, <1>3, <1>6, SameHeader DEF Tied
  <1>12. QED
    BY <1>9, <1>10, <1>11, SparesIs

(* No variable in use lies in the buffer under its own name. *)
LEMMA NotAVar ==
  ASSUME IInv, NEW v \in Var
  PROVE  v \notin DOMAIN fl.header /\ v # NULL
  <1>1. DOMAIN fl.header \subseteq Unit
    BY ShapeIs DEF IInv, HeapInv
  <1>2. QED
    BY <1>1, OwnerAssumption

LEMMA SetOwnerStep ==
  ASSUME IInv, NEW v \in Var, SetOwner(v)
  PROVE  IInv' /\ Spares({})
  <1>1. /\ HeapInv(fl) /\ Tied(fl, ptr, want, home) /\ fl.fault = "none"
        /\ phase = "client" /\ ptr[v] # NULL /\ home[v] = v /\ fl' = Owned(fl, ptr[v], v)
        /\ ptr' = ptr /\ want' = want /\ home' = home /\ phase' = phase
    BY IInvIs DEF Whole, SetOwner, Ownable, Running, Outside
  <1> DEFINE g == Owned(fl, ptr[v], v)
  <1>2. ptr[v] \in DOMAIN fl.header /\ v # ptr[v] /\ v \in Var \cup DOMAIN fl.header
    <2>1. ptr[v] \in DOMAIN fl.header
      BY <1>1 DEF Tied
    <2>2. QED
      BY <2>1, NotAVar
  <1>3. /\ HeapInv(g) /\ g.fault = fl.fault
        /\ DOMAIN g.header = DOMAIN fl.header
        /\ \A r \in DOMAIN fl.header : Same(g, fl, r)
        /\ \A r \in DOMAIN fl.header :
             g.header[r].pOwner = IF r = ptr[v] THEN v ELSE fl.header[r].pOwner
        /\ \A r \in DOMAIN fl.header :
             g.header[r].child_header = IF r = v THEN ptr[v] ELSE fl.header[r].child_header
    BY ONLY <1>1, <1>2, OwnedIs
  <1>4. \A r \in DOMAIN fl.header : g.header[r].child_header = fl.header[r].child_header
    BY <1>3, NotAVar
  <1> HIDE DEF g
  <1>5. Tied(g, ptr, want, home)
    BY <1>1, <1>3, <1>4, OwnTied
  <1>6. fl' = g
    BY <1>1 DEF g
  <1>7. IInv'
    BY <1>1, <1>3, <1>5, <1>6, IInvNext DEF Whole
  <1>8. \A x \in Var : ptr[x] # NULL => Same(fl', fl, ptr[x])
    BY <1>1, <1>3, <1>6 DEF Tied
  <1>9. QED
    BY <1>1, <1>7, <1>8, SparesIs

LEMMA SetInnerOwnerStep ==
  ASSUME IInv, NEW v \in Var, NEW w \in Var, SetInnerOwner(v, w)
  PROVE  IInv' /\ Spares({})
  <1>1. /\ HeapInv(fl) /\ Tied(fl, ptr, want, home) /\ fl.fault = "none"
        /\ phase = "client" /\ v # w /\ ptr[v] # NULL /\ home[v] = v
        /\ ptr[w] # NULL /\ home[w] = w /\ Inside(v) = {} /\ Inside(w) = {}
        /\ fl' = Owned(fl, ptr[v], ptr[w])
        /\ ptr' = ptr /\ want' = want /\ home' = [home EXCEPT ![v] = w] /\ phase' = phase
    BY IInvIs DEF Whole, SetInnerOwner, Ownable, Running, Outside
  <1> DEFINE g == Owned(fl, ptr[v], ptr[w])
  <1>2. /\ ptr[v] \in DOMAIN fl.header /\ ptr[w] \in Var \cup DOMAIN fl.header
        /\ ptr[w] # ptr[v]
    BY <1>1 DEF Tied
  <1>3. /\ HeapInv(g) /\ g.fault = fl.fault
        /\ DOMAIN g.header = DOMAIN fl.header
        /\ \A r \in DOMAIN fl.header : Same(g, fl, r)
        /\ \A r \in DOMAIN fl.header :
             g.header[r].pOwner = IF r = ptr[v] THEN ptr[w] ELSE fl.header[r].pOwner
        /\ \A r \in DOMAIN fl.header :
             g.header[r].child_header = IF r = ptr[w] THEN ptr[v] ELSE fl.header[r].child_header
    BY ONLY <1>1, <1>2, OwnedIs
  <1> HIDE DEF g
  <1>4. \A x \in Var : ~Lies(home, x, v) /\ ~Lies(home, x, w)
    BY <1>1 DEF Lies, Inside
  <1>5. Tied(g, ptr, want, [home EXCEPT ![v] = w])
    BY ONLY ZenonT(60), <1>1, <1>3, <1>4, InnerTied, v \in Var, w \in Var
  <1>6. fl' = g
    BY <1>1 DEF g
  <1>7. IInv'
    BY <1>1, <1>3, <1>5, <1>6, IInvNext DEF Whole
  <1>8. \A x \in Var : ptr[x] # NULL => Same(fl', fl, ptr[x])
    BY <1>1, <1>3, <1>6 DEF Tied
  <1>9. QED
    BY <1>1, <1>7, <1>8, SparesIs

LEMMA MoveHandleStep ==
  ASSUME IInv, NEW v \in Var, NEW w \in Var, MoveHandle(v, w)
  PROVE  /\ IInv' /\ Spares({v, w}) /\ ptr'[w] = ptr[v] /\ ptr'[v] = NULL /\ v # w
         /\ Cells(fl', ptr[v]) = Cells(fl, ptr[v])
  <1>1. /\ HeapInv(fl) /\ Tied(fl, ptr, want, home) /\ fl.fault = "none"
        /\ phase = "client" /\ ptr[v] # NULL /\ home[v] = v
        /\ ptr[w] = NULL /\ fl' = Owned(fl, ptr[v], w)
        /\ ptr' = [ptr EXCEPT ![w] = ptr[v], ![v] = NULL]
        /\ want' = [want EXCEPT ![w] = want[v], ![v] = 0]
        /\ home' = [x \in Var |-> IF x \in Inside(v) THEN w ELSE home[x]]
        /\ phase' = phase
    BY IInvIs DEF Whole, MoveHandle, Ownable, Running, Outside
  <1> DEFINE g == Owned(fl, ptr[v], w)
  <1>2. ptr[v] \in DOMAIN fl.header /\ w # ptr[v] /\ w \in Var \cup DOMAIN fl.header
    <2>1. ptr[v] \in DOMAIN fl.header
      BY <1>1 DEF Tied
    <2>2. QED
      BY <2>1, NotAVar
  <1>3. /\ HeapInv(g) /\ g.fault = fl.fault
        /\ DOMAIN g.header = DOMAIN fl.header
        /\ \A r \in DOMAIN fl.header : Same(g, fl, r)
        /\ \A r \in DOMAIN fl.header :
             g.header[r].pOwner = IF r = ptr[v] THEN w ELSE fl.header[r].pOwner
        /\ \A r \in DOMAIN fl.header :
             g.header[r].child_header = IF r = w THEN ptr[v] ELSE fl.header[r].child_header
    BY ONLY <1>1, <1>2, OwnedIs
  <1>4. \A r \in DOMAIN fl.header : g.header[r].child_header = fl.header[r].child_header
    BY <1>3, NotAVar
  <1> HIDE DEF g
  <1>5. /\ ptr' \in [Var -> Unit \cup {NULL}] /\ want' \in [Var -> Requests \cup {0}]
        /\ home' \in [Var -> Var]
        /\ \A x \in Var : ptr'[x] = IF x = v THEN NULL ELSE IF x = w THEN ptr[v] ELSE ptr[x]
        /\ \A x \in Var : want'[x] = IF x = v THEN 0 ELSE IF x = w THEN want[v] ELSE want[x]
        /\ \A x \in Var : home'[x] = IF Lies(home, x, v) THEN w ELSE home[x]
    <2>1. /\ ptr \in [Var -> Unit \cup {NULL}] /\ want \in [Var -> Requests \cup {0}]
          /\ home \in [Var -> Var] /\ v # w
      BY <1>1 DEF Tied
    <2>2. /\ ptr' \in [Var -> Unit \cup {NULL}]
          /\ \A x \in Var : ptr'[x] = IF x = v THEN NULL ELSE IF x = w THEN ptr[v] ELSE ptr[x]
      BY <1>1, <2>1
    <2>3. /\ want' \in [Var -> Requests \cup {0}]
          /\ \A x \in Var : want'[x] = IF x = v THEN 0 ELSE IF x = w THEN want[v] ELSE want[x]
      BY <1>1, <2>1
    <2>4. /\ home' \in [Var -> Var]
          /\ \A x \in Var : home'[x] = IF Lies(home, x, v) THEN w ELSE home[x]
      BY <1>1, <2>1 DEF Lies, Inside
    <2>5. QED
      BY <2>2, <2>3, <2>4
  <1>6. fl' = g
    BY <1>1 DEF g
  <1>7. Tied(g, ptr', want', home')
    <2>1. HandsOver(g, fl, ptr, want, home, v, w, ptr', want', home')
      BY <1>1, <1>3, <1>4, <1>5 DEF HandsOver
    <2>2. QED
      BY <1>1, <2>1, HandleTied
  <1>8. IInv'
    BY <1>1, <1>3, <1>6, <1>7, IInvNext DEF Whole
  <1>9. /\ v # w /\ ptr'[w] = ptr[v] /\ ptr'[v] = NULL
        /\ \A x \in Var \ {v, w} : ptr'[x] = ptr[x]
    BY <1>1 DEF Tied
  <1>10. \A x \in Var : ptr[x] # NULL => Same(fl', fl, ptr[x])
    BY <1>1, <1>3, <1>6 DEF Tied
  <1>11. Cells(fl', ptr[v]) = Cells(fl, ptr[v])
    <2>1. Shaped(fl) /\ Shaped(g)
      BY <1>1, <1>3 DEF HeapInv
    <2>2. QED
      BY <1>2, <1>3, <1>6, <2>1, SameIs
  <1>12. QED
    BY <1>8, <1>9, <1>10, <1>11, SparesIs

LEMMA FreeStep ==
  ASSUME IInv, NEW v \in Var, Free(v)
  PROVE  IInv' /\ Spares({v})
  <1>1. /\ HeapInv(fl) /\ Tied(fl, ptr, want, home) /\ fl.fault = "none"
        /\ phase = "client" /\ ptr[v] # NULL /\ home[v] = v /\ Inside(v) = {}
        /\ fl' = FreeBlock(fl, ptr[v])
        /\ ptr' = [ptr EXCEPT ![v] = NULL] /\ want' = [want EXCEPT ![v] = 0]
        /\ home' = home /\ phase' = phase
    BY IInvIs DEF Whole, Free, Running, Outside
  <1> DEFINE g == FreeBlock(fl, ptr[v])
  <1>2. ptr[v] \in DOMAIN fl.header
    BY <1>1 DEF Tied
  <1>3. /\ HeapInv(g) /\ g.fault = fl.fault
        /\ DOMAIN g.header = DOMAIN fl.header \ {ptr[v]}
        /\ \A r \in DOMAIN g.header : g.header[r] = fl.header[r]
    BY ONLY <1>1, <1>2, FreeBlockIs
  <1> HIDE DEF g
  <1>4. \A x \in Var : ~Lies(home, x, v)
    BY <1>1 DEF Lies, Inside
  <1>5. Tied(g, [ptr EXCEPT ![v] = NULL], [want EXCEPT ![v] = 0], home)
    BY ONLY <1>1, <1>3, <1>4, FreeTied, v \in Var
  <1>6. fl' = g
    BY <1>1 DEF g
  <1>7. IInv'
    BY <1>1, <1>3, <1>5, <1>6, IInvNext DEF Whole
  <1>8. \A x \in Var \ {v} : ptr'[x] = ptr[x]
    BY <1>1 DEF Tied
  <1>9. \A x \in Var \ {v} : ptr[x] # NULL => ptr[x] \in DOMAIN g.header
    BY <1>1, <1>3 DEF Tied
  <1>10. \A x \in Var \ {v} : ptr[x] # NULL => Same(fl', fl, ptr[x])
    BY <1>3, <1>6, <1>9, SameHeader
  <1>11. QED
    BY <1>7, <1>8, <1>10, SparesIs

LEMMA FreeHandleStep ==
  ASSUME IInv, NEW v \in Var, NEW w \in Var, FreeHandle(v, w)
  PROVE  IInv' /\ Spares({v, w}) /\ ptr'[v] = NULL /\ ptr'[w] = NULL
  <1>1. /\ HeapInv(fl) /\ Tied(fl, ptr, want, home) /\ fl.fault = "none"
        /\ phase = "client" /\ w \in Inside(v)
        /\ fl' = FreeBlock(FreeBlock(fl, ptr[w]), ptr[v])
        /\ ptr' = [ptr EXCEPT ![v] = NULL, ![w] = NULL]
        /\ want' = [want EXCEPT ![v] = 0, ![w] = 0]
        /\ home' = [home EXCEPT ![w] = w] /\ phase' = phase
    BY IInvIs DEF Whole, FreeHandle, Running
  <1>2. Lies(home, w, v)
    BY <1>1 DEF Lies, Inside
  <1>3. /\ v # w /\ ptr[v] # NULL /\ ptr[w] # NULL /\ ptr[v] # ptr[w]
        /\ ptr[v] \in DOMAIN fl.header /\ ptr[w] \in DOMAIN fl.header
    <2>1. v # w /\ ptr[v] # NULL /\ ptr[w] # NULL
      BY <1>1, <1>2 DEF Tied, Lies
    <2>2. QED
      BY <1>1, <2>1 DEF Tied
  <1> DEFINE f == FreeBlock(fl, ptr[w])
             g == FreeBlock(f, ptr[v])
  <1>4. /\ HeapInv(f) /\ f.fault = fl.fault
        /\ DOMAIN f.header = DOMAIN fl.header \ {ptr[w]}
        /\ \A r \in DOMAIN f.header : f.header[r] = fl.header[r]
    BY ONLY <1>1, <1>3, FreeBlockIs
  <1>5. ptr[v] \in DOMAIN f.header
    BY <1>3, <1>4
  <1>6. fl' = g
    BY <1>1
  <1> HIDE DEF f
  <1>7. /\ HeapInv(g) /\ g.fault = f.fault
        /\ DOMAIN g.header = DOMAIN f.header \ {ptr[v]}
        /\ \A r \in DOMAIN g.header : g.header[r] = f.header[r]
    BY ONLY <1>4, <1>5, FreeBlockIs
  <1> HIDE DEF g
  <1>8. /\ DOMAIN g.header = DOMAIN fl.header \ {ptr[v], ptr[w]}
        /\ \A r \in DOMAIN g.header : g.header[r] = fl.header[r]
    BY <1>4, <1>7
  <1>9. Tied(g, [ptr EXCEPT ![v] = NULL, ![w] = NULL], [want EXCEPT ![v] = 0, ![w] = 0],
             [home EXCEPT ![w] = w])
    BY ONLY <1>1, <1>2, <1>8, FreeHandleTied, v \in Var, w \in Var
  <1>10. IInv'
    BY <1>1, <1>4, <1>6, <1>7, <1>9, IInvNext DEF Whole
  <1>11. /\ \A x \in Var \ {v, w} : ptr'[x] = ptr[x]
         /\ ptr'[v] = NULL /\ ptr'[w] = NULL
    BY <1>1 DEF Tied
  <1>12. \A x \in Var \ {v, w} : ptr[x] # NULL => ptr[x] \in DOMAIN g.header
    BY <1>1, <1>8 DEF Tied
  <1>13. \A x \in Var \ {v, w} : ptr[x] # NULL => Same(fl', fl, ptr[x])
    BY <1>6, <1>8, <1>12, SameHeader
  <1>14. QED
    BY <1>10, <1>11, <1>13, SparesIs

LEMMA ReallocStep ==
  ASSUME IInv, NEW v \in Var, Realloc(v)
  PROVE  IInv' /\ Spares({v})
  <1>1. /\ HeapInv(fl) /\ Tied(fl, ptr, want, home) /\ fl.fault = "none"
        /\ phase = "client" /\ ptr[v] # NULL /\ home[v] = v /\ Inside(v) = {}
        /\ home' = home /\ phase' = phase
    BY IInvIs DEF Whole, Realloc, Running, Outside
  <1>2. PICK n \in Requests :
          LET r == ReallocResult(fl, ptr[v], n)
          IN  /\ fl' = r.fl
              /\ ptr' = IF r.p = NULL THEN ptr ELSE [ptr EXCEPT ![v] = r.p]
              /\ want' = IF r.p = NULL THEN want ELSE [want EXCEPT ![v] = n]
    BY DEF Realloc
  <1> DEFINE r == ReallocResult(fl, ptr[v], n)
  <1>3. /\ fl' = r.fl
        /\ ptr' = IF r.p = NULL THEN ptr ELSE [ptr EXCEPT ![v] = r.p]
        /\ want' = IF r.p = NULL THEN want ELSE [want EXCEPT ![v] = n]
    BY <1>2
  <1>4. /\ ptr[v] \in DOMAIN fl.header
        /\ \A x \in Var \ {v} : ptr[x] # NULL => ptr[x] \in DOMAIN fl.header \ {ptr[v]}
    BY <1>1 DEF Tied
  <1>5. /\ HeapInv(r.fl)
        /\ \/ r.p = NULL /\ r.fl.header = fl.header
           \/ r.p # NULL /\ Resettled(r.fl, fl, ptr[v], r.p) /\ Room(r.fl, r.p) >= n
    BY ONLY <1>1, <1>4, ReallocIs, n \in Requests
  <1> HIDE DEF r
  <1>6. \A x \in Var : ~Lies(home, x, v)
    BY <1>1 DEF Lies, Inside
  <1>7. CASE r.p = NULL
    <2>1. fl'.header = fl.header /\ ptr' = ptr /\ want' = want
      BY <1>3, <1>5, <1>7 DEF Resettled
    <2>2. Tied(fl', ptr, want, home)
      BY <1>1, <2>1, KeptTied
    <2>3. IInv'
      BY <1>1, <1>3, <1>5, <2>1, <2>2, IInvNext DEF Whole
    <2>4. \A x \in Var : Same(fl', fl, ptr[x])
      BY <2>1, SameHeader
    <2>5. QED
      BY <2>1, <2>3, <2>4, SparesIs
  <1>8. CASE r.p # NULL
    <2>1. /\ Resettled(fl', fl, ptr[v], r.p) /\ Room(fl', r.p) >= n
          /\ ptr' = [ptr EXCEPT ![v] = r.p] /\ want' = [want EXCEPT ![v] = n]
      BY <1>3, <1>5, <1>8
    <2>2. Tied(fl', [ptr EXCEPT ![v] = r.p], [want EXCEPT ![v] = n], home)
      BY ONLY <1>1, <1>6, <2>1, ReallocTied, n \in Requests, v \in Var
    <2>3. IInv'
      BY <1>1, <1>3, <1>5, <2>1, <2>2, IInvNext DEF Whole
    <2>4. \A x \in Var \ {v} : ptr'[x] = ptr[x]
      BY <1>1, <2>1 DEF Tied
    <2>5. \A x \in Var \ {v} : ptr[x] # NULL => Same(fl', fl, ptr[x])
      BY <1>4, <2>1, SameHeader DEF Resettled
    <2>6. QED
      BY <2>3, <2>4, <2>5, SparesIs
  <1>9. QED
    BY <1>7, <1>8

LEMMA FreeAllStep ==
  ASSUME IInv, FreeAll
  PROVE  IInv' /\ ptr' = [v \in Var |-> NULL]
  <1>1. /\ phase = "client" /\ phase' = phase
        /\ fl' = Empty /\ ptr' = [v \in Var |-> NULL] /\ want' = [v \in Var |-> 0]
        /\ home' = [v \in Var |-> v]
    BY IInvIs DEF Whole, FreeAll, Running
  <1>2. HeapInv(fl') /\ DOMAIN (fl').header = {} /\ (fl').fault = "none"
    BY <1>1, EmptyIs
  <1>3. Tied(fl', [v \in Var |-> NULL], [v \in Var |-> 0], [v \in Var |-> v])
    BY <1>2, EmptyTied
  <1>4. IInv'
    BY <1>1, <1>2, <1>3, IInvNext DEF Whole
  <1>5. QED
    BY <1>1, <1>4

(* The program stops with f. *)
LEMMA FaultStep ==
  ASSUME IInv, NEW f \in Faults, f # "none", fl' = Fault(fl, f),
         ptr' = ptr, want' = want, home' = home, phase' \in {"client", "defragment"}
  PROVE  IInv' /\ Spares({})
  <1>1. HeapInv(fl) /\ Tied(fl, ptr, want, home)
    BY IInvIs DEF Whole
  <1>2. HeapInv(fl') /\ fl'.header = fl.header /\ fl'.fault = f
    BY <1>1, FaultIs
  <1>3. Tied(fl', ptr, want, home)
    BY <1>1, <1>2, KeptTied
  <1>4. IInv'
    BY <1>2, <1>3, IInvNext DEF Whole
  <1>5. \A x \in Var : Same(fl', fl, ptr[x])
    BY <1>2, SameHeader
  <1>6. QED
    BY <1>4, <1>5, SparesIs

LEMMA SetOwnerFailsStep ==
  ASSUME IInv, NEW v \in Var, SetOwnerFails(v)
  PROVE  IInv' /\ Spares({})
  <1>1. phase \in {"client", "defragment"}
    BY DEF IInv, ClientInv
  <1>2. QED
    BY <1>1, FaultStep DEF SetOwnerFails, Faults

LEMMA DefragmentStep ==
  ASSUME IInv, Defragment
  PROVE  IInv' /\ Spares({})
  <1>1. /\ HeapInv(fl) /\ Tied(fl, ptr, want, home) /\ phase' = "defragment"
        /\ fl' = (IF fl.list = << >> THEN Fault(fl, "null") ELSE fl)
        /\ ptr' = ptr /\ want' = want /\ home' = home
    BY IInvIs DEF Whole, Defragment
  <1>2. CASE fl.list = << >>
    BY <1>1, <1>2, FaultStep DEF Faults
  <1>3. CASE fl.list # << >>
    <2>1. fl' = fl
      BY <1>1, <1>3
    <2>2. IInv'
      BY <1>1, <1>3, <2>1, IInvNext DEF Whole
    <2>3. QED
      BY <1>1, <2>1, <2>2 DEF Spares
  <1>4. QED
    BY <1>2, <1>3

LEMMA RestIs ==
  ASSUME HeapInv(fl), fl.list # << >>, NEW p \in DOMAIN fl.header
  PROVE  Moved(p).rest.size \in Int
  <1> DEFINE cur == fl.list[1]
             hd == fl.header[p]
             t == align_forward(cur.addr + HeaderSize, hd.alignment_requirement)
             padding == t - HeaderSize - cur.addr
             size == hd.block_size - hd.alignment_padding + padding
             s == cur.size + hd.block_size - size
  <1>1. Len(fl.list) \in Nat /\ fl.list \in Seq(Node)
    BY NodeOf
  <1>2. 1 \in 1 .. Len(fl.list)
    BY <1>1, EmptySeq
  <1>3. cur.addr \in Nat /\ cur.size \in Nat
    BY <1>2, NodeOf
  <1>4. /\ hd.block_size \in Nat /\ hd.alignment_padding \in Nat
        /\ hd.alignment_requirement \in Alignments
    BY HeaderIs DEF HeapInv
  <1>5. t \in Int
    <2> DEFINE a == cur.addr
               P == Padding(a, hd.alignment_requirement)
    <2>1. a \in Nat /\ P \in Nat /\ t = a + P
      BY <1>3, <1>4, PaddingIs
    <2> HIDE DEF a, P, t
    <2>2. QED
      BY <2>1
  <1>6. Moved(p).rest.size = s
    BY DEF Moved
  <1> HIDE DEF cur, hd, t
  <1>7. QED
    BY <1>3, <1>4, <1>5, <1>6 DEF HeaderSize

LEMMA DefragmentMoveStep ==
  ASSUME IInv, DefragmentMove
  PROVE  IInv' /\ \E u \in SUBSET Var : Spares(u) /\ \A v, w \in u : v = w
  <1> DEFINE next == fl.list[1].addr + fl.list[1].size
             owner(p) == fl.header[p].pOwner
             turn(p) ==
               /\ p \in DOMAIN fl.header /\ Start(fl, p) = next /\ owner(p) # NULL
               /\ ~(Moved(p).rest.size < NodeSize)
               /\ ptr' = [v \in Var |-> IF Place(v) = owner(p) THEN Moved(p).q ELSE ptr[v]]
               /\ fl' = MergeIfAdjacent(Moved(p).fl, 2)
  <1>1. /\ HeapInv(fl) /\ Tied(fl, ptr, want, home) /\ phase = "defragment" /\ fl.fault = "none"
        /\ fl.list # << >> /\ phase' = phase /\ want' = want /\ home' = home
    BY IInvIs DEF Whole, DefragmentMove
  <1>2. (\E f \in Faults \ {"none"} : fl' = Fault(fl, f) /\ ptr' = ptr) \/ \E p : turn(p)
    BY DEF DefragmentMove, Faults
  <1>3. CASE \E f \in Faults \ {"none"} : fl' = Fault(fl, f) /\ ptr' = ptr
    <2>1. PICK f \in Faults \ {"none"} : fl' = Fault(fl, f) /\ ptr' = ptr
      BY <1>3
    <2>2. IInv' /\ Spares({})
      BY <1>1, <2>1, FaultStep
    <2>3. QED
      BY <2>2
  <1>4. ASSUME NEW p, turn(p)
        PROVE  IInv' /\ \E u \in SUBSET Var : Spares(u) /\ \A v, w \in u : v = w
    <2> DEFINE q == Moved(p).q
               g == MergeIfAdjacent(Moved(p).fl, 2)
    <2>1. p \in DOMAIN fl.header /\ Start(fl, p) = next /\ owner(p) # NULL
      BY <1>4
    <2>2. Moved(p).rest.size >= NodeSize
      <3>1. Moved(p).rest.size \in Int
        BY <1>1, <2>1, RestIs
      <3> DEFINE rs == Moved(p).rest.size
      <3>2. rs \in Int /\ ~(rs < 2)
        BY <1>4, <3>1 DEF NodeSize
      <3> HIDE DEF rs
      <3>3. rs >= 2
        BY <3>2
      <3>4. QED
        BY <3>3 DEF rs, NodeSize
    <2>3. /\ HeapInv(g) /\ g.list # << >>
          /\ q \in Unit /\ q \notin DOMAIN fl.header
          /\ DOMAIN g.header = (DOMAIN fl.header \ {p}) \cup {q}
          /\ \A r \in DOMAIN fl.header \ {p} :
               /\ Same(g, fl, r)
               /\ g.header[r].pOwner =
                    IF r = fl.header[p].child_header THEN q ELSE fl.header[r].pOwner
               /\ g.header[r].child_header =
                    IF r = fl.header[p].pOwner THEN q ELSE fl.header[r].child_header
          /\ g.header[q].pOwner = fl.header[p].pOwner
          /\ g.header[q].child_header = fl.header[p].child_header
          /\ Room(g, q) = Room(fl, p)
      <3>1. Start(fl, p) = fl.list[1].addr + fl.list[1].size
        BY <2>1
      <3>2. QED
        BY ONLY <1>1, <2>1, <2>2, <3>1, MovedIs
    <2>4. fl' = g /\ ptr' = [v \in Var |-> IF Place(v) = owner(p) THEN q ELSE ptr[v]]
      BY <1>4
    <2> HIDE DEF next, q, g
    <2>5. PICK u \in Var : ptr[u] = p
      BY <1>1, <2>1 DEF Tied
    <2>6. ptr[u] # NULL /\ fl.header[ptr[u]].pOwner = At(ptr, home, u)
      <3>1. ptr[u] # NULL
        BY <1>1, <2>1, <2>5 DEF Tied
      <3>2. QED
        BY <1>1, <2>1, <2>5, <3>1 DEF Tied
    <2>7. \A v \in Var : Place(v) = owner(p) <=> v = u
      <3>1. \A v \in Var : Place(v) = At(ptr, home, v)
        BY DEF Place, At
      <3>2. \A v \in Var : At(ptr, home, v) = At(ptr, home, u) => v = u
        BY <1>1, <2>6, PlacesDiffer
      <3>3. QED
        BY <2>5, <2>6, <3>1, <3>2
    <2>8. ptr \in [Var -> Unit \cup {NULL}]
      BY <1>1 DEF Tied
    <2>9. ptr' = [ptr EXCEPT ![u] = q]
      <3> HIDE DEF owner
      <3>1. QED
        BY <2>4, <2>7, <2>8
    <2>10. Tied(g, [ptr EXCEPT ![u] = q], want, home)
      <3>1. /\ DOMAIN g.header = (DOMAIN fl.header \ {ptr[u]}) \cup {q}
            /\ \A r \in DOMAIN fl.header \ {ptr[u]} :
                 /\ Same(g, fl, r)
                 /\ g.header[r].pOwner =
                      IF r = fl.header[ptr[u]].child_header THEN q ELSE fl.header[r].pOwner
                 /\ g.header[r].child_header =
                      IF r = fl.header[ptr[u]].pOwner THEN q ELSE fl.header[r].child_header
            /\ g.header[q].pOwner = fl.header[ptr[u]].pOwner
            /\ g.header[q].child_header = fl.header[ptr[u]].child_header
            /\ Room(g, q) = Room(fl, ptr[u])
            /\ q \in Unit /\ q \notin DOMAIN fl.header
        BY <2>3, <2>5
      <3>2. QED
        BY ONLY <1>1, <2>6, <3>1, MovedTied, u \in Var
    <2>11. IInv'
      BY <1>1, <2>3, <2>4, <2>9, <2>10, IInvNext DEF Whole
    <2>12. \A v \in Var \ {u} : ptr'[v] = ptr[v]
      BY <2>8, <2>9
    <2>13. \A v \in Var \ {u} : ptr[v] # NULL => Same(fl', fl, ptr[v])
      <3>1. \A v \in Var \ {u} : ptr[v] # NULL => ptr[v] \in DOMAIN fl.header \ {p}
        BY <1>1, <2>5, <2>6 DEF Tied
      <3>2. QED
        BY <2>3, <2>4, <3>1
    <2>14. Spares({u})
      BY <2>11, <2>12, <2>13, SparesIs
    <2>15. {u} \in SUBSET Var /\ \A v, w \in {u} : v = w
      OBVIOUS
    <2>16. QED
      BY <2>11, <2>14, <2>15
  <1>5. QED
    BY <1>2, <1>3, <1>4

LEMMA DefragmentDoneStep ==
  ASSUME IInv, DefragmentDone
  PROVE  IInv' /\ Spares({})
  <1>1. /\ HeapInv(fl) /\ Tied(fl, ptr, want, home) /\ phase' = "client"
        /\ fl' = fl /\ ptr' = ptr /\ want' = want /\ home' = home
    BY IInvIs DEF Whole, DefragmentDone
  <1>2. IInv'
    BY <1>1, IInvNext DEF Whole
  <1>3. QED
    BY <1>1, <1>2 DEF Spares

LEMMA StutterStep ==
  ASSUME IInv, UNCHANGED vars
  PROVE  IInv' /\ Spares({})
  <1>1. fl' = fl /\ ptr' = ptr /\ want' = want /\ home' = home /\ phase' = phase
    BY DEF vars
  <1>2. IInv'
    BY <1>1, IInvIs, IInvNext DEF Whole
  <1>3. QED
    BY <1>1, <1>2 DEF Spares

LEMMA StepIs == IInv /\ [Next]_vars => IInv'
  <1> SUFFICES ASSUME IInv, [Next]_vars
               PROVE  IInv'
    OBVIOUS
  <1>1. ASSUME NEW v \in Var, Alloc(v) \/ SetOwner(v) \/ SetOwnerFails(v) \/ Free(v) \/ Realloc(v)
        PROVE  IInv'
    BY <1>1, AllocStep, SetOwnerStep, SetOwnerFailsStep, FreeStep, ReallocStep
  <1>2. ASSUME NEW v \in Var, NEW w \in Var,
               SetInnerOwner(v, w) \/ MoveHandle(v, w) \/ FreeHandle(v, w)
        PROVE  IInv'
    BY <1>2, SetInnerOwnerStep, MoveHandleStep, FreeHandleStep
  <1>3. CASE FreeAll \/ Defragment \/ DefragmentMove \/ DefragmentDone
    BY <1>3, FreeAllStep, DefragmentStep, DefragmentMoveStep, DefragmentDoneStep
  <1>4. CASE UNCHANGED vars
    BY <1>4, StutterStep
  <1>5. QED
    BY <1>1, <1>2, <1>3, <1>4 DEF Next

LEMMA Invariant == Spec => []IInv
  BY InitIs, StepIs, PTL DEF Spec

-----------------------------------------------------------------------------
(* What the invariant says of the heap. *)
LEMMA IsTiled == HeapInv(fl) => Tiled
  <1> SUFFICES ASSUME HeapInv(fl)
               PROVE  Tiled
    OBVIOUS
  <1> DEFINE all == Range(fl.list) \cup Blocks \cup fl.leaked
  <1>1. /\ Shaped(fl) /\ Sorted(fl.list) /\ Covered(fl) /\ Disjoint(fl)
        /\ \A p \in DOMAIN fl.header : Placed(fl, p)
        /\ \A l \in fl.leaked : Adrift(fl, l)
    BY DEF HeapInv, Linked
  <1>2. \A b \in all : \/ \E i \in 1 .. Len(fl.list) : b = fl.list[i]
                       \/ \E p \in DOMAIN fl.header : b = Block(fl, p)
                       \/ b \in fl.leaked
    BY NodeOf DEF Range, Blocks
  <1>3. /\ \A i \in 1 .. Len(fl.list) : fl.list[i] \in all
        /\ \A p \in DOMAIN fl.header : Block(fl, p) \in all
        /\ fl.leaked \subseteq all
    BY NodeOf DEF Range, Blocks
  <1>4. \A p \in DOMAIN fl.header : Extent(Block(fl, p)) = Cells(fl, p)
    BY DEF Cells
  <1>5. \A i \in 1 .. Len(fl.list) : Extent(fl.list[i]) \subseteq FreeSet(fl.list)
    BY DEF FreeSet
  <1>6. \A i, j \in 1 .. Len(fl.list) :
          i # j => Extent(fl.list[i]) \cap Extent(fl.list[j]) = {}
    <2>1. ASSUME NEW i \in 1 .. Len(fl.list), NEW j \in 1 .. Len(fl.list), i < j
          PROVE  Extent(fl.list[i]) \cap Extent(fl.list[j]) = {}
      <3> DEFINE b == fl.list[i]
                 c == fl.list[j]
      <3>1. After(b) <= c.addr
        BY <1>1, <2>1 DEF Sorted
      <3>2. /\ b.addr \in Nat /\ b.size \in Nat /\ After(b) = b.addr + b.size
            /\ c.addr \in Nat /\ c.size \in Nat
        BY NodeOf
      <3> HIDE DEF b, c
      <3>3. Extent(b) \cap Extent(c) = {}
        BY <3>1, <3>2, ExtentIs
      <3>4. QED
        BY <3>3 DEF b, c
    <2>2. \A i, j \in 1 .. Len(fl.list) : i # j => i < j \/ j < i
      BY NodeOf
    <2>3. QED
      BY <2>1, <2>2
  <1>7. ASSUME NEW b \in all, NEW c \in all, b # c
        PROVE  Extent(b) \cap Extent(c) = {}
    <2>1. CASE \E i \in 1 .. Len(fl.list) : b = fl.list[i]
      <3>1. Extent(b) \subseteq FreeSet(fl.list)
        BY <1>5, <2>1
      <3>2. CASE \E j \in 1 .. Len(fl.list) : c = fl.list[j]
        BY <1>6, <1>7, <2>1, <3>2
      <3>3. CASE \E p \in DOMAIN fl.header : c = Block(fl, p)
        BY <1>1, <1>4, <3>1, <3>3 DEF Disjoint
      <3>4. CASE c \in fl.leaked
        BY <1>1, <3>1, <3>4 DEF Disjoint
      <3>5. QED
        BY <1>2, <3>2, <3>3, <3>4
    <2>2. CASE \E p \in DOMAIN fl.header : b = Block(fl, p)
      <3>1. CASE \E j \in 1 .. Len(fl.list) : c = fl.list[j]
        BY <1>1, <1>4, <1>5, <2>2, <3>1 DEF Disjoint
      <3>2. CASE \E p \in DOMAIN fl.header : c = Block(fl, p)
        BY <1>1, <1>4, <1>7, <2>2, <3>2 DEF Disjoint
      <3>3. CASE c \in fl.leaked
        BY <1>1, <1>4, <2>2, <3>3 DEF Disjoint
      <3>4. QED
        BY <1>2, <3>1, <3>2, <3>3
    <2>3. CASE b \in fl.leaked
      <3>1. CASE \E j \in 1 .. Len(fl.list) : c = fl.list[j]
        BY <1>1, <1>5, <2>3, <3>1 DEF Disjoint
      <3>2. CASE \E p \in DOMAIN fl.header : c = Block(fl, p)
        BY <1>1, <1>4, <2>3, <3>2 DEF Disjoint
      <3>3. CASE c \in fl.leaked
        BY <1>1, <1>7, <2>3, <3>3 DEF Disjoint
      <3>4. QED
        BY <1>2, <3>1, <3>2, <3>3
    <2>4. QED
      BY <1>2, <2>1, <2>2, <2>3
  <1>8. ASSUME NEW b \in all
        PROVE  Extent(b) \subseteq Unit
    <2>1. ASSUME b.addr \in Nat, b.size \in Nat, Base <= b.addr, b.addr + b.size <= End
          PROVE  Extent(b) \subseteq Unit
      BY <2>1, ExtentIs, Bounds
    <2>2. CASE \E i \in 1 .. Len(fl.list) : b = fl.list[i]
      BY <2>1, <2>2, NodeOf
    <2>3. CASE \E p \in DOMAIN fl.header : b = Block(fl, p)
      BY <1>1, <1>4, <2>3, PlacedIs
    <2>4. CASE b \in fl.leaked
      BY <1>1, <2>1, <2>4 DEF Adrift, Node, After
    <2>5. QED
      BY <1>2, <2>2, <2>3, <2>4
  <1>9. ASSUME NEW a \in Unit
        PROVE  \E b \in all : a \in Extent(b)
    <2>1. \/ a \in FreeSet(fl.list)
          \/ \E p \in DOMAIN fl.header : a \in Cells(fl, p)
          \/ \E l \in fl.leaked : a \in Extent(l)
      BY <1>1 DEF Covered
    <2>2. CASE a \in FreeSet(fl.list)
      BY <1>3, <2>2 DEF FreeSet
    <2>3. QED
      BY <1>3, <1>4, <2>1, <2>2
  <1> HIDE DEF all
  <1>10. UNION {Extent(b) : b \in all} = Unit
    BY <1>8, <1>9
  <1>11. QED
    BY <1>7, <1>10 DEF Tiled, all

LEMMA IsOrdered == HeapInv(fl) => Ordered
  <1> SUFFICES ASSUME HeapInv(fl)
               PROVE  Ordered
    OBVIOUS
  <1>1. Apart(fl.list, {})
    BY DEF HeapInv, Linked
  <1>2. Len(fl.list) \in Nat
    BY NodeOf
  <1>3. QED
    BY <1>1, <1>2 DEF Ordered, Apart, After

LEMMA IsBooked == HeapInv(fl) => Bookkeeping
  <1> SUFFICES ASSUME HeapInv(fl)
               PROVE  Bookkeeping
    OBVIOUS
  <1>1. UNION {Extent(b) : b \in Blocks} = Held(fl)
    BY DEF Blocks, Held, Cells
  <1>2. \A p \in DOMAIN fl.header : Placed(fl, p)
    BY DEF HeapInv
  <1>3. fl.used = Cardinality(Held(fl)) /\ fl.block_count = Len(fl.list)
    BY DEF HeapInv, Heap
  <1>4. ASSUME NEW s, s \in DOMAIN fl.table
        PROVE  fl.table[s] \in HtGet(s)
    <2> DEFINE all == {d \in stale \cup EntriesOf(fl.table, {s}) : d[1] = s}
               found == {e[2] : e \in all}
    <2>1. <<s, fl.table[s]>> \in EntriesOf(fl.table, {s})
      BY <1>4 DEF EntriesOf
    <2>2. PICK d \in all : d[2] = fl.table[s]
      BY <2>1
    <2> HIDE DEF all
    <2>3. fl.table[s] \in found /\ found # {}
      BY <2>2
    <2>4. HtGet(s) = IF found = {} THEN {NULL} ELSE found
      BY DEF HtGet, all
    <2> HIDE DEF found
    <2>5. QED
      BY <2>3, <2>4
  <1>5. \A p \in DOMAIN fl.header : p \in HtGet(Start(fl, p))
    BY <1>2, <1>4 DEF Placed
  <1>6. ASSUME NEW s \in Unit \ Forgotten, NEW p \in HtGet(s) \ {NULL}
        PROVE  p \in DOMAIN fl.header /\ Start(fl, p) = s
    <2>1. PICK e \in EntriesOf(fl.table, {s}) : e[1] = s /\ e[2] = p
      BY <1>6 DEF HtGet, Forgotten
    <2>2. s \in DOMAIN fl.table /\ p = fl.table[s]
      BY <2>1 DEF EntriesOf
    <2>3. PICK q \in DOMAIN fl.header : Start(fl, q) = s
      BY <2>2 DEF HeapInv, Keyed
    <2>4. p = q
      BY <1>2, <2>2, <2>3 DEF Placed
    <2>5. QED
      BY <2>3, <2>4
  <1>7. QED
    BY <1>1, <1>3, <1>5, <1>6 DEF Bookkeeping

(* What the table keeps besides are entries it once had. *)
LEMMA StaleIs == Spec => []IInv /\ [](stale \subseteq Unit \X Unit)
  <1> DEFINE S == stale \subseteq Unit \X Unit
  <1>1. Init => S
    BY DEF Init
  <1>2. ASSUME IInv, NEW X
        PROVE  EntriesOf(fl.table, X) \subseteq Unit \X Unit
    <2>1. \A a \in DOMAIN fl.table : a \in Unit /\ fl.table[a] \in Unit
      BY <1>2, ShapeIs DEF IInv, HeapInv
    <2>2. QED
      BY <2>1 DEF EntriesOf
  <1>3. ASSUME IInv, S, [Next]_vars
        PROVE  S'
    <2>1. \/ stale' = stale
          \/ stale' = stale \cup EntriesOf(fl.table, Forgotten \ DOMAIN (fl').table)
          \/ stale' = stale \cup EntriesOf(fl.table, DOMAIN fl.table)
      BY <1>3 DEF Next, vars, Alloc, SetOwner, SetOwnerFails, Free, Realloc, SetInnerOwner,
                  MoveHandle, FreeHandle, FreeAll, Defragment, DefragmentMove, DefragmentDone, HtDel
    <2>2. QED
      BY <1>2, <1>3, <2>1
  <1>4. QED
    BY <1>1, <1>3, Invariant, PTL DEF Spec

LEMMA IsTyped == IInv /\ stale \subseteq Unit \X Unit => TypeOK
  <1> SUFFICES ASSUME IInv, stale \subseteq Unit \X Unit
               PROVE  TypeOK
    OBVIOUS
  <1>1. /\ HeapInv(fl) /\ Shaped(fl) /\ Sorted(fl.list)
        /\ \A p \in DOMAIN fl.header : Placed(fl, p)
        /\ \A l \in fl.leaked : Adrift(fl, l)
    BY DEF IInv, HeapInv, Linked
  <1>2. /\ Len(fl.list) \in Nat /\ DOMAIN fl.list = 1 .. Len(fl.list) /\ fl.list \in Seq(Node)
        /\ \A i \in 1 .. Len(fl.list) :
             /\ fl.list[i] \in Node /\ fl.list[i].addr \in Nat /\ fl.list[i].size \in Nat
             /\ fl.list[i].size >= 2 /\ Base <= fl.list[i].addr
             /\ fl.list[i].addr + fl.list[i].size <= End
    BY <1>1, NodeOf
  <1>3. ASSUME NEW b \in Node, b.addr + b.size <= End
        PROVE  b \in BlockRecord
    <2>1. b.addr \in Nat /\ b.size \in Nat /\ b = [addr |-> b.addr, size |-> b.size]
      BY DEF Node
    <2>2. b.addr \in Address /\ b.size \in Address
      BY <1>3, <2>1, Bounds DEF Address
    <2>3. QED
      BY <2>1, <2>2 DEF BlockRecord
  <1>4. fl.list \in Seq(BlockRecord)
    <2>1. \A i \in 1 .. Len(fl.list) : fl.list[i] \in BlockRecord
      BY <1>2, <1>3
    <2>2. Range(fl.list) \subseteq BlockRecord
      BY <1>2, <2>1 DEF Range
    <2>3. fl.list \in Seq(Range(fl.list))
      BY <1>2, SeqOfRange
    <2>4. QED
      BY <2>2, <2>3, SeqMonotonic
  <1>5. fl.leaked \subseteq BlockRecord
    BY <1>1, <1>3 DEF Adrift, After
  <1>6. fl.used \in 0 .. Size
    <2>1. fl.used = Cardinality(Held(fl))
      BY <1>1 DEF HeapInv
    <2>2. Cardinality(Held(fl)) \in Nat /\ Cardinality(Held(fl)) <= Size
      BY <1>1, HeldIs
    <2>3. QED
      BY <2>1, <2>2, Bounds
  <1>7. fl.block_count \in 0 .. Size
    <2> DEFINE n == Len(fl.list)
               f == [i \in 1 .. n |-> fl.list[i].addr]
    <2>1. ASSUME NEW i \in 1 .. n
          PROVE  fl.list[i].addr \in Unit
      <3> DEFINE a == fl.list[i].addr
                 s == fl.list[i].size
      <3>1. a \in Nat /\ s \in Nat /\ s >= 2 /\ Base <= a /\ a + s <= End
        BY <1>2
      <3> HIDE DEF a, s
      <3>2. a \in Unit
        BY <3>1, Bounds
      <3>3. QED
        BY <3>2 DEF a
    <2>2. ASSUME NEW i \in 1 .. n, NEW j \in 1 .. n, i < j
          PROVE  fl.list[i].addr # fl.list[j].addr
      <3>1. fl.list[i].addr + fl.list[i].size <= fl.list[j].addr
        BY <1>1, <2>2 DEF Sorted, After
      <3> DEFINE a == fl.list[i].addr
                 s == fl.list[i].size
                 c == fl.list[j].addr
      <3>2. a \in Nat /\ s \in Nat /\ s >= 2 /\ c \in Nat /\ a + s <= c
        BY <1>2, <3>1
      <3> HIDE DEF a, s, c
      <3>3. a # c
        BY <3>2
      <3>4. QED
        BY <3>3 DEF a, c
    <2>3. \A i, j \in 1 .. n : i # j => fl.list[i].addr # fl.list[j].addr
      <3>1. \A i, j \in 1 .. n : i # j => i < j \/ j < i
        BY <1>2
      <3>2. QED
        BY <2>2, <3>1
    <2>4. f \in Injection(1 .. n, Unit)
      <3>1. f \in [1 .. n -> Unit] /\ \A i \in 1 .. n : f[i] = fl.list[i].addr
        BY <2>1
      <3> HIDE DEF f, n
      <3>2. \A i, j \in 1 .. n : f[i] = f[j] => i = j
        BY <2>3, <3>1
      <3>3. QED
        BY <3>1, <3>2 DEF Injection, IsInjective
    <2>5. Cardinality(1 .. n) <= Size
      <3> HIDE DEF f, n
      <3>1. QED
        BY <2>4, UnitFinite, FS_Injection
    <2>6. Cardinality(1 .. n) = n
      <3>1. 1 \in Int /\ n \in Int /\ n \in Nat
        BY <1>2
      <3> HIDE DEF n
      <3>2. Cardinality(1 .. n) = IF 1 > n THEN 0 ELSE n - 1 + 1
        BY <3>1, FS_Interval
      <3>3. QED
        BY <3>1, <3>2
    <2>7. fl.block_count = n /\ n \in Nat
      BY <1>1, <1>2 DEF HeapInv, Heap
    <2>8. QED
      BY <2>5, <2>6, <2>7, Bounds
  <1>8. DOMAIN fl.table \subseteq Unit /\ Range(fl.table) \subseteq Unit /\ DOMAIN fl.header \subseteq Unit
    BY <1>1, ShapeIs DEF Range
  <1>9. ASSUME NEW p \in DOMAIN fl.header
        PROVE  fl.header[p] \in
                 [block_size : 0 .. Size, alignment_padding : 0 .. Size,
                  alignment_requirement : Alignments,
                  pOwner : Var \cup Unit \cup {NULL}, child_header : Unit \cup {NULL}]
    <2> DEFINE hd == fl.header[p]
               bs == hd.block_size
               pad == hd.alignment_padding
    <2>1. /\ hd \in Header /\ bs \in Nat /\ pad \in Nat
          /\ hd.alignment_requirement \in Alignments
          /\ hd.pOwner \in Var \cup Unit \cup {NULL}
          /\ hd.child_header \in Unit \cup {NULL}
          /\ Start(fl, p) \in Int
      BY <1>1, HeaderIs
    <2>2. bs > 6 + pad /\ Base <= Start(fl, p) /\ Start(fl, p) + bs <= End
      BY <1>1 DEF Placed, HeaderSize
    <2>3. /\ hd = [block_size |-> bs, alignment_padding |-> pad,
                   alignment_requirement |-> hd.alignment_requirement,
                   pOwner |-> hd.pOwner, child_header |-> hd.child_header]
      BY <2>1 DEF Header
    <2> DEFINE s == Start(fl, p)
    <2> HIDE DEF hd, bs, pad, s
    <2>4. s \in Int /\ Base <= s /\ s + bs <= End /\ bs > 6 + pad /\ bs \in Nat /\ pad \in Nat
      BY <2>1, <2>2 DEF s
    <2>5. bs \in 0 .. Size /\ pad \in 0 .. Size
      BY ONLY <2>4, Bounds
    <2>6. QED
      BY <2>1, <2>3, <2>5 DEF hd
  <1>10. Range(fl.header) \subseteq
           [block_size : 0 .. Size, alignment_padding : 0 .. Size,
            alignment_requirement : Alignments,
            pOwner : Var \cup Unit \cup {NULL}, child_header : Unit \cup {NULL}]
    BY <1>9 DEF Range
  <1>11. fl.fault \in {"none", "assert", "null", "overwrite", "garbage"}
    BY <1>1, ShapeIs DEF Faults
  <1>12. /\ ptr \in [Var -> Unit \cup {NULL}] /\ want \in [Var -> Requests \cup {0}]
         /\ home \in [Var -> Var] /\ phase \in {"client", "defragment"}
    BY DEF IInv, ClientInv
  <1>13. QED
    BY <1>4, <1>5, <1>6, <1>7, <1>8, <1>10, <1>11, <1>12 DEF TypeOK

-----------------------------------------------------------------------------
(* Every step is one of Heap, or leaves the blocks where they are. *)
Area(h, P, v) == IF P[v] = NULL THEN {} ELSE Cells(h, P[v])

(* The blocks of two variables do not overlap. *)
LEMMA AreasApart ==
  ASSUME NEW h, NEW P, NEW W, NEW H, HeapInv(h), Tied(h, P, W, H)
  PROVE  /\ \A v \in Var : Area(h, P, v) \subseteq Unit
         /\ \A v, w \in Var : v # w => Area(h, P, v) \cap Area(h, P, w) = {}
  <1>1. /\ Shaped(h) /\ \A p \in DOMAIN h.header : Placed(h, p)
        /\ \A p, q \in DOMAIN h.header : p # q => Cells(h, p) \cap Cells(h, q) = {}
    BY DEF HeapInv, Disjoint
  <1>2. \A v \in Var : P[v] # NULL => P[v] \in DOMAIN h.header
    BY DEF Tied
  <1>3. \A v, w \in Var : v # w /\ P[v] # NULL => P[v] # P[w]
    BY DEF Tied
  <1>4. ASSUME NEW v \in Var
        PROVE  Area(h, P, v) \subseteq Unit
    BY <1>1, <1>2, PlacedIs DEF Area
  <1>5. ASSUME NEW v \in Var, NEW w \in Var, v # w
        PROVE  Area(h, P, v) \cap Area(h, P, w) = {}
    BY <1>1, <1>2, <1>3, <1>5 DEF Area
  <1>6. QED
    BY <1>4, <1>5

(* The steps of Heap, by the areas. *)
LEMMA ChangeIs ==
  ASSUME NEW u \in Var, Area(fl', ptr', u) \subseteq Unit,
         \A w \in Var \ {u} : Area(fl', ptr', u) \cap Area(fl, ptr, w) = {},
         \A w \in Var \ {u} : Area(fl', ptr', w) = Area(fl, ptr, w)
  PROVE  Abstract!HChange(u)
  <1>1. \A v \in Var : /\ Area(fl, ptr, v) = IF ptr[v] = NULL THEN {} ELSE Extent(Block(fl, ptr[v]))
                       /\ Area(fl', ptr', v)
                            = (IF ptr[v] = NULL THEN {} ELSE Extent(Block(fl, ptr[v])))'
    BY DEF Area, Cells
  <1>2. QED
    BY <1>1 DEF Abstract!HChange

LEMMA HandOverIs ==
  ASSUME NEW v \in Var, NEW w \in Var, v # w, Area(fl, ptr, w) = {},
         Area(fl', ptr', w) = Area(fl, ptr, v), Area(fl', ptr', v) = {},
         \A x \in Var \ {v, w} : Area(fl', ptr', x) = Area(fl, ptr, x)
  PROVE  Abstract!HMove(v, w)
  <1>1. \A x \in Var : /\ Area(fl, ptr, x) = IF ptr[x] = NULL THEN {} ELSE Extent(Block(fl, ptr[x]))
                       /\ Area(fl', ptr', x)
                            = (IF ptr[x] = NULL THEN {} ELSE Extent(Block(fl, ptr[x])))'
    BY DEF Area, Cells
  <1>2. QED
    BY <1>1 DEF Abstract!HMove

LEMMA ForgetIs ==
  ASSUME NEW S \in SUBSET Var, \A v \in S : Area(fl', ptr', v) = {},
         \A v \in Var \ S : Area(fl', ptr', v) = Area(fl, ptr, v)
  PROVE  Abstract!HForget(S)
  <1>1. \A x \in Var : /\ Area(fl, ptr, x) = IF ptr[x] = NULL THEN {} ELSE Extent(Block(fl, ptr[x]))
                       /\ Area(fl', ptr', x)
                            = (IF ptr[x] = NULL THEN {} ELSE Extent(Block(fl, ptr[x])))'
    BY DEF Area, Cells
  <1>2. QED
    BY <1>1 DEF Abstract!HForget

LEMMA StayIs ==
  ASSUME \A v \in Var : Area(fl', ptr', v) = Area(fl, ptr, v)
  PROVE  UNCHANGED [v \in Var |-> IF ptr[v] = NULL THEN {} ELSE Extent(Block(fl, ptr[v]))]
  <1>1. \A x \in Var : /\ Area(fl, ptr, x) = IF ptr[x] = NULL THEN {} ELSE Extent(Block(fl, ptr[x]))
                       /\ Area(fl', ptr', x)
                            = (IF ptr[x] = NULL THEN {} ELSE Extent(Block(fl, ptr[x])))'
    BY DEF Area, Cells
  <1>2. QED
    BY <1>1

LEMMA SparesAreas ==
  ASSUME NEW S, Spares(S)
  PROVE  \A v \in Var \ S : Area(fl', ptr', v) = Area(fl, ptr, v)
  BY DEF Spares, Area

(* The areas of a step that keeps the invariant and touches one variable. *)
LEMMA ChangeStep ==
  ASSUME IInv, IInv', NEW u \in Var, Spares({u})
  PROVE  Abstract!HChange(u)
  <1>1. HeapInv(fl') /\ Tied(fl', ptr', want', home')
    BY IInvNext DEF Whole
  <1>2. /\ \A v \in Var : Area(fl', ptr', v) \subseteq Unit
        /\ \A v, w \in Var : v # w => Area(fl', ptr', v) \cap Area(fl', ptr', w) = {}
    BY <1>1, AreasApart
  <1>3. \A w \in Var \ {u} : Area(fl', ptr', w) = Area(fl, ptr, w)
    BY SparesAreas
  <1>4. \A w \in Var \ {u} : Area(fl', ptr', u) \cap Area(fl, ptr, w) = {}
    BY <1>2, <1>3
  <1>5. QED
    BY <1>2, <1>3, <1>4, ChangeIs

AbstractStep ==
  [Abstract!HNext]_[v \in Var |-> IF ptr[v] = NULL THEN {} ELSE Extent(Block(fl, ptr[v]))]

LEMMA StayStep ==
  ASSUME Spares({})
  PROVE  AbstractStep
  BY SparesAreas, StayIs DEF AbstractStep

LEMMA Refines == IInv /\ [Next]_vars => AbstractStep
  <1> SUFFICES ASSUME IInv, [Next]_vars
               PROVE  AbstractStep
    OBVIOUS
  <1>1. IInv'
    BY StepIs
  <1>2. ASSUME NEW u \in Var, Spares({u})
        PROVE  AbstractStep
    BY <1>1, <1>2, ChangeStep DEF AbstractStep, Abstract!HNext
  <1>3. ASSUME NEW v \in Var, Alloc(v) \/ SetOwner(v) \/ SetOwnerFails(v) \/ Free(v) \/ Realloc(v)
        PROVE  AbstractStep
    <2>1. CASE SetOwner(v) \/ SetOwnerFails(v)
      BY <2>1, SetOwnerStep, SetOwnerFailsStep, StayStep
    <2>2. CASE Alloc(v) \/ Free(v) \/ Realloc(v)
      BY <1>2, <2>2, AllocStep, FreeStep, ReallocStep
    <2>3. QED
      BY <1>3, <2>1, <2>2
  <1>4. ASSUME NEW v \in Var, NEW w \in Var, SetInnerOwner(v, w)
        PROVE  AbstractStep
    BY <1>4, SetInnerOwnerStep, StayStep
  <1>5. ASSUME NEW v \in Var, NEW w \in Var, MoveHandle(v, w)
        PROVE  AbstractStep
    <2>1. /\ Spares({v, w}) /\ ptr'[w] = ptr[v] /\ ptr'[v] = NULL /\ v # w
          /\ Cells(fl', ptr[v]) = Cells(fl, ptr[v])
      BY <1>5, MoveHandleStep
    <2>2. ptr[w] = NULL /\ ptr[v] # NULL
      BY <1>5 DEF MoveHandle, Ownable, Outside
    <2>3. /\ Area(fl, ptr, w) = {} /\ Area(fl', ptr', v) = {}
          /\ Area(fl', ptr', w) = Area(fl, ptr, v)
      BY <2>1, <2>2 DEF Area
    <2>4. \A x \in Var \ {v, w} : Area(fl', ptr', x) = Area(fl, ptr, x)
      BY <2>1, SparesAreas
    <2>5. Abstract!HMove(v, w)
      BY <2>1, <2>3, <2>4, HandOverIs
    <2>6. QED
      BY <2>5 DEF AbstractStep, Abstract!HNext
  <1>6. ASSUME NEW v \in Var, NEW w \in Var, FreeHandle(v, w)
        PROVE  AbstractStep
    <2>1. Spares({v, w}) /\ ptr'[v] = NULL /\ ptr'[w] = NULL
      BY <1>6, FreeHandleStep
    <2>2. \A x \in {v, w} : Area(fl', ptr', x) = {}
      BY <2>1 DEF Area
    <2>3. \A x \in Var \ {v, w} : Area(fl', ptr', x) = Area(fl, ptr, x)
      BY <2>1, SparesAreas
    <2>4. {v, w} \in SUBSET Var
      OBVIOUS
    <2>5. Abstract!HForget({v, w})
      BY <2>2, <2>3, <2>4, ForgetIs
    <2>6. QED
      BY <2>4, <2>5 DEF AbstractStep, Abstract!HNext
  <1>7. CASE FreeAll
    <2>1. \A v \in Var : Area(fl', ptr', v) = {}
      BY <1>7, FreeAllStep DEF Area
    <2>2. Abstract!HForget(Var)
      BY <2>1, ForgetIs
    <2>3. QED
      BY <2>2 DEF AbstractStep, Abstract!HNext
  <1>8. CASE DefragmentMove
    <2>1. PICK S \in SUBSET Var : Spares(S) /\ \A v, w \in S : v = w
      BY <1>8, DefragmentMoveStep
    <2>2. CASE S = {}
      BY <2>1, <2>2, StayStep
    <2>3. CASE S # {}
      <3>1. PICK u \in Var : S = {u}
        BY <2>1, <2>3
      <3>2. QED
        BY <1>2, <2>1, <3>1
    <2>4. QED
      BY <2>2, <2>3
  <1>9. CASE Defragment \/ DefragmentDone
    BY <1>9, DefragmentStep, DefragmentDoneStep, StayStep
  <1>10. CASE UNCHANGED vars
    BY <1>10, StutterStep, StayStep
  <1>11. QED
    BY <1>3, <1>4, <1>5, <1>6, <1>7, <1>8, <1>9, <1>10 DEF Next

-----------------------------------------------------------------------------
(* Every value the program puts in the struct, in a header or in a variable is
   of its type, and the counts stay within the buffer.                     *)
THEOREM TypeCorrect == Spec => []TypeOK
  BY StaleIs, IsTyped, PTL

(* The free nodes, the allocated blocks and the leaked ones tile the buffer,
   whatever alloc(), free(), realloc() and defragment() split, merged or moved. *)
THEOREM AlwaysTiled == Spec => []Tiled
  <1>1. IInv => Tiled
    BY IsTiled DEF IInv
  <1>2. QED
    BY <1>1, Invariant, PTL

(* The free list ascends and no two of its nodes touch: free() and the
   defragmenter merge all they can.                                        *)
THEOREM AlwaysOrdered == Spec => []Ordered
  <1>1. IInv => Ordered
    BY IsOrdered DEF IInv
  <1>2. QED
    BY <1>1, Invariant, PTL

(* used and block_count are what the buffer holds.  The hash table has the
   pointer to every block, and a lookup by a start that no free_all() left in it
   finds the block that starts there now, or nothing.                      *)
THEOREM AlwaysBooked == Spec => []Bookkeeping
  <1>1. IInv => Bookkeeping
    BY IsBooked DEF IInv
  <1>2. QED
    BY <1>1, Invariant, PTL

(* Each variable points to its own block, aligned and large enough, and owner
   and child are told of every move.                                       *)
THEOREM AlwaysFollow == Spec => []PointersFollow
  <1>1. IInv => PointersFollow
    BY DEF IInv, ClientInv
  <1>2. QED
    BY <1>1, Invariant, PTL

(* Freelist2 implements Heap: no call disturbs the block of another pointer. *)
THEOREM Implements == Spec => Refinement
  <1>1. Init => Abstract!HInit
    BY DEF Init, Abstract!HInit
  <1>2. IInv /\ [Next]_vars => AbstractStep
    BY Refines
  <1>3. QED
    BY <1>1, <1>2, Invariant, PTL DEF Spec, Refinement, Abstract!HSpec, AbstractStep

(* No two variables ever share a byte of the buffer. *)
THEOREM BlocksDisjoint == Spec => []Abstract!HDisjoint
  <1>1. IInv => Abstract!HDisjoint
    <2>1. IInv => HeapInv(fl) /\ Tied(fl, ptr, want, home)
      BY IInvIs DEF Whole
    <2>2. IInv => \A v, w \in Var : v # w => Area(fl, ptr, v) \cap Area(fl, ptr, w) = {}
      BY <2>1, AreasApart
    <2>3. QED
      BY <2>2 DEF Abstract!HDisjoint, Area, Cells
  <1>2. QED
    BY <1>1, Invariant, PTL
=============================================================================
