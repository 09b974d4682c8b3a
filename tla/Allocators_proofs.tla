-------------------------- MODULE Allocators_proofs --------------------------
(***************************************************************************)
(* Proofs about Allocators, for every buffer, set of variables and sizes   *)
(* they ask for, and every width, alignment and count the allocators are   *)
(* built with.  The first part is what their clients have in common; then  *)
(* each allocator has its own invariant and a lemma per call.              *)
(***************************************************************************)
EXTENDS Tlsf_proofs

-----------------------------------------------------------------------------
(* The client of any of them but Tlsf's. *)
AlignOf(align) == IF kind = "stack" THEN Capped(align) ELSE align

(* What the alignment measures: the pool's way from the beginning of its buffer,
   the others' addresses.                                                  *)
Measured(p) == IF kind = "chunks" THEN p - Base ELSE p

Room(v) ==
  /\ want[v].size > 0 /\ ptr[v] + want[v].size <= End
  /\ Measured(ptr[v]) % AlignOf(want[v].align) = 0

Beyond(v, p, n) == p + n <= ptr[v] \/ ptr[v] + want[v].size <= p

Client ==
  /\ ClientTypeOK
  /\ \A v \in Var : Live(v) => Room(v)
  /\ \A v, w \in Var : v # w /\ Live(v) /\ Live(w) => Beyond(v, ptr[w], want[w].size)

LEMMA ClientBegins ==
  ASSUME ClientInit, kind' = kind
  PROVE  Client /\ \A v \in Var : ~Live(v)
  BY HeapAssumption DEF ClientInit, Client, ClientTypeOK, Live, NULL, NoRequest, Unit

(* A call that returned NULL, or the pointer's block as it was. *)
LEMMA StayStep ==
  ASSUME Client, kind # "tlsf", kind' = kind, UNCHANGED <<ptr, want>>,
         fault' \in {"none", "assert", "null", "overrun"}
  PROVE  Client' /\ AbstractStep
  <1>1. \A v \in Var : BlockOf(v)' = BlockOf(v)
    BY DEF BlockOf, Live
  <1>2. Client'
    BY DEF Client, ClientTypeOK, Live, Room, Beyond, AlignOf, Measured
  <1>3. QED
    BY <1>1, <1>2 DEF AbstractStep

LEMMA KeepNull ==
  ASSUME NEW v, NEW n, NEW align, Keep(v, NULL, n, align)
  PROVE  UNCHANGED <<ptr, want>>
  BY DEF Keep

(* What a variable is given lies beyond all the others' blocks. *)
LEMMA GiveStep ==
  ASSUME Client, kind # "tlsf", kind' = kind, fault' \in {"none", "assert", "null", "overrun"},
         NEW v \in Var, NEW p \in Unit, NEW n \in Nat, n > 0, p + n <= End,
         NEW align \in Nat \ {0}, Measured(p) % AlignOf(align) = 0, Keep(v, p, n, align),
         \A w \in Var \ {v} : Live(w) => Beyond(w, p, n)
  PROVE  /\ Client' /\ AbstractStep
         /\ Live(v)' /\ ptr'[v] = p /\ want'[v] = [size |-> n, align |-> align]
         /\ \A w \in Var \ {v} : ptr'[w] = ptr[w] /\ want'[w] = want[w]
  <1>1. /\ p # NULL /\ p \in Nat /\ p >= Base /\ p < End /\ Base \in Nat /\ Size \in Nat
        /\ End = Base + Size /\ n \in 0 .. Size
    BY Bounds DEF NULL, Unit
  <1>2. /\ ptr' = [ptr EXCEPT ![v] = p]
        /\ want' = [want EXCEPT ![v] = [size |-> n, align |-> align]]
    BY <1>1 DEF Keep
  <1>3. /\ ptr \in [Var -> Unit \cup {NULL}]
        /\ want \in [Var -> [size : 0 .. Size, align : Nat \ {0}]]
    BY DEF Client, ClientTypeOK
  <1>4. /\ ptr'[v] = p /\ want'[v] = [size |-> n, align |-> align]
        /\ \A w \in Var \ {v} : ptr'[w] = ptr[w] /\ want'[w] = want[w]
    BY <1>2, <1>3
  <1>5. ClientTypeOK'
    <2>1. ptr' \in [Var -> Unit \cup {NULL}]
      BY <1>2, <1>3
    <2>2. [size |-> n, align |-> align] \in [size : 0 .. Size, align : Nat \ {0}]
      BY <1>1
    <2>3. want' \in [Var -> [size : 0 .. Size, align : Nat \ {0}]]
      BY ONLY <1>2, <1>3, <2>2
    <2>4. QED
      BY <2>1, <2>3 DEF ClientTypeOK
  <1>6. \A w \in Var : Live(w)' => Room(w)'
    BY <1>4 DEF Client, Live, Room, AlignOf, Measured
  <1>7. \A w, x \in Var : w # x /\ Live(w)' /\ Live(x)' => Beyond(w, ptr[x], want[x].size)'
    <2>1. ASSUME NEW w \in Var, NEW x \in Var, w # x, Live(w)', Live(x)'
          PROVE  Beyond(w, ptr[x], want[x].size)'
      <3>1. CASE w = v
        BY <1>4, <2>1, <3>1 DEF Beyond, Live
      <3>2. CASE x = v
        BY <1>4, <2>1, <3>2 DEF Beyond, Live
      <3>3. CASE w # v /\ x # v
        BY <1>4, <2>1, <3>3 DEF Beyond, Live, Client
      <3>4. QED
        BY <3>1, <3>2, <3>3
    <2>2. QED
      BY <2>1
  <1>8. Abstract!HChange(v)
    <2> DEFINE b == [w \in Var |-> BlockOf(w)]
               c == [w \in Var |-> BlockOf(w)']
    <2>1. c[v] = p .. p + n - 1
      BY <1>1, <1>4 DEF BlockOf, Live
    <2>2. \A w \in Var \ {v} : c[w] = b[w]
      BY <1>4 DEF BlockOf, Live
    <2>3. c[v] \subseteq Unit
      BY <1>1, <2>1 DEF Unit
    <2>4. ASSUME NEW w \in Var \ {v}
          PROVE  c[v] \cap b[w] = {}
      <3>1. CASE Live(w)
        <4>1. b[w] = ptr[w] .. ptr[w] + want[w].size - 1
          BY <3>1 DEF BlockOf
        <4>2. ptr[w] \in Nat /\ want[w].size \in Nat
          BY <1>1, <1>3 DEF Unit, NULL
        <4>3. Beyond(w, p, n)
          BY <3>1
        <4>4. p + n =< ptr[w] \/ ptr[w] + want[w].size =< p
          BY <4>3 DEF Beyond
        <4>5. p \in Nat /\ n \in Nat
          BY <1>1
        <4>6. QED
          BY ONLY <2>1, <4>1, <4>2, <4>4, <4>5
      <3>2. CASE ~Live(w)
        BY <3>2 DEF BlockOf
      <3>3. QED
        BY <3>1, <3>2
    <2>5. c = [b EXCEPT ![v] = c[v]]
      BY Zenon, <2>2
    <2>6. QED
      BY <2>3, <2>4, <2>5 DEF Abstract!HChange, BlockOf
  <1>9. Live(v)'
    BY <1>1, <1>4 DEF Live
  <1>10. QED
    BY <1>4, <1>5, <1>6, <1>7, <1>8, <1>9 DEF Client, AbstractStep, Abstract!HNext, BlockOf

(* The variables in S give up their blocks. *)
LEMMA ForgetStep ==
  ASSUME Client, kind # "tlsf", kind' = kind, fault' \in {"none", "assert", "null", "overrun"},
         NEW S \in SUBSET Var, Forget(S)
  PROVE  /\ Client' /\ AbstractStep
         /\ \A w \in S : ~Live(w)' /\ ptr'[w] = NULL
         /\ \A w \in Var \ S : ptr'[w] = ptr[w] /\ want'[w] = want[w]
  <1>1. /\ \A w \in S : ptr'[w] = NULL /\ want'[w] = NoRequest
        /\ \A w \in Var \ S : ptr'[w] = ptr[w] /\ want'[w] = want[w]
    BY DEF Forget
  <1>2. /\ ptr \in [Var -> Unit \cup {NULL}]
        /\ want \in [Var -> [size : 0 .. Size, align : Nat \ {0}]]
    BY DEF Client, ClientTypeOK
  <1>3. ClientTypeOK'
    <2>1. NoRequest \in [size : 0 .. Size, align : Nat \ {0}]
      BY Bounds DEF NoRequest
    <2>2. ptr' \in [Var -> Unit \cup {NULL}]
      BY <1>2 DEF Forget
    <2>3. want' \in [Var -> [size : 0 .. Size, align : Nat \ {0}]]
      BY <1>2, <2>1 DEF Forget
    <2>4. QED
      BY <2>2, <2>3 DEF ClientTypeOK
  <1>4. \A w \in Var : Live(w)' => w \notin S /\ Live(w)
    BY <1>1 DEF Live
  <1>5. Client'
    BY <1>1, <1>3, <1>4 DEF Client, Room, Beyond, Live, AlignOf, Measured
  <1>6. Abstract!HForget(S)
    <2>1. \A w \in Var : BlockOf(w)' = IF w \in S THEN {} ELSE BlockOf(w)
      BY <1>1 DEF BlockOf, Live
    <2>2. QED
      BY <2>1 DEF Abstract!HForget, BlockOf
  <1>7. QED
    BY <1>1, <1>4, <1>5, <1>6 DEF AbstractStep, Abstract!HNext, BlockOf
-----------------------------------------------------------------------------
(* SizeUpTo(s, n) is where the function that adds up the sizes gets to. *)
Sizes(s, n) == \A k \in 1 .. n : s[k].size \in Nat
Adds(f, s, n) == f[0] = 0 /\ \A k \in 1 .. n : f[k] = f[k - 1] + s[k].size

LEMMA SizeUpToFrom ==
  ASSUME NEW n \in Nat, NEW s, Sizes(s, n)
  PROVE  \E f \in [0 .. n -> Nat] :
           Adds(f, s, n) /\ SizeUpTo(s, n) = f[n]
  <1> DEFINE E(f) == f = [k \in 0 .. n |-> IF k = 0 THEN 0 ELSE f[k - 1] + s[k].size]
             G == [k \in 1 .. n |-> [x \in Nat |-> x + s[k].size]]
  <1>1. \A k \in 1 .. n, x \in Nat : G[k][x] = x + s[k].size /\ G[k][x] \in Nat
    BY DEF Sizes
  <1> HIDE DEF G
  <1>2. PICK g \in [0 .. n -> Nat] : g = [k \in 0 .. n |-> IF k = 0 THEN 0 ELSE G[k][g[k - 1]]]
    <2>1. 0 \in Nat /\ Closed(G, n, Nat)
      BY <1>1 DEF Closed
    <2>2. \E g \in [0 .. n -> Nat] : Iterates(g, n, 0, G)
      BY Zenon, <2>1, Recursion
    <2>3. QED
      BY <2>2 DEF Iterates
  <1>3. \A k \in 0 .. n : g[k] = IF k = 0 THEN 0 ELSE g[k - 1] + s[k].size
    <2>1. ASSUME NEW k \in 0 .. n
          PROVE  g[k] = IF k = 0 THEN 0 ELSE g[k - 1] + s[k].size
      <3>1. k # 0 => k \in 1 .. n /\ k - 1 \in 0 .. n
        OBVIOUS
      <3>2. k # 0 => G[k][g[k - 1]] = g[k - 1] + s[k].size
        BY <1>1, <3>1
      <3>3. g[k] = IF k = 0 THEN 0 ELSE G[k][g[k - 1]]
        BY <1>2
      <3>4. QED
        BY <3>2, <3>3
    <2>2. QED
      BY <2>1
  <1>4. E(g)
    BY <1>3
  <1> DEFINE f == CHOOSE h : E(h)
  <1>5. E(f)
    BY Zenon, <1>4
  <1>6. SizeUpTo(s, n) = f[n]
    BY DEF SizeUpTo
  <1> HIDE DEF f
  <1>7. /\ \A k \in 0 .. n : f[k] = IF k = 0 THEN 0 ELSE f[k - 1] + s[k].size
        /\ f = [k \in 0 .. n |-> f[k]]
    BY Zenon, <1>5
  <1> DEFINE N == 1 .. n
  <1>n. 0 \in 0 .. n /\ \A k \in N : k \in 0 .. n /\ k # 0
    OBVIOUS
  <1> HIDE DEF N
  <1>8. f[0] = 0 /\ \A k \in N : f[k] = f[k - 1] + s[k].size
    BY <1>n, <1>7, Zenon
  <1>9. g[0] = 0 /\ \A k \in N : g[k] = g[k - 1] + s[k].size
    BY <1>n, <1>3, Zenon
  <1>10. \A k \in 0 .. n : f[k] = g[k]
    <2>1. StepAlike(f, g, n)
      BY <1>8, <1>9, Zenon DEF N, StepAlike
    <2>2. Alike(f, g, n)
      BY <2>1, SameRecursion
    <2>3. QED
      BY <2>2 DEF Alike
  <1>11. f \in [0 .. n -> Nat]
    BY <1>7, <1>10
  <1>12. QED
    BY <1>6, <1>8, <1>11, Zenon DEF N, Adds

LEMMA SizeUpToIs ==
  ASSUME NEW n \in Nat, NEW s, Sizes(s, n), NEW f, Adds(f, s, n)
  PROVE  \A m \in 0 .. n : SizeUpTo(s, m) = f[m] /\ f[m] \in Nat
  <1>1. ASSUME NEW m \in 0 .. n
        PROVE  SizeUpTo(s, m) = f[m] /\ f[m] \in Nat
    <2>1. m \in Nat /\ Sizes(s, m)
      BY DEF Sizes
    <2>2. PICK g \in [0 .. m -> Nat] :
            Adds(g, s, m) /\ SizeUpTo(s, m) = g[m]
      BY Zenon, <2>1, SizeUpToFrom
    <2>3. Adds(f, s, m)
      BY DEF Adds
    <2>4. \A k \in 0 .. m : f[k] = g[k]
      <3>1. StepAlike(f, g, m)
        BY <2>2, <2>3, Zenon DEF StepAlike, Adds
      <3>2. Alike(f, g, m)
        BY <2>1, <3>1, SameRecursion
      <3>3. QED
        BY <3>2 DEF Alike
    <2>5. QED
      BY <2>1, <2>2, <2>4
  <1>2. QED
    BY <1>1

LEMMA SizeUpToStep ==
  ASSUME NEW n \in Nat, NEW s, Sizes(s, n)
  PROVE  /\ SizeUpTo(s, 0) = 0
         /\ \A m \in 0 .. n : SizeUpTo(s, m) \in Nat
         /\ \A m \in 1 .. n : SizeUpTo(s, m) = SizeUpTo(s, m - 1) + s[m].size
  <1>1. PICK f \in [0 .. n -> Nat] : Adds(f, s, n)
    BY SizeUpToFrom
  <1>2. \A m \in 0 .. n : SizeUpTo(s, m) = f[m] /\ f[m] \in Nat
    BY <1>1, SizeUpToIs
  <1>3. QED
    BY <1>1, <1>2 DEF Adds

(* Later sums are not smaller. *)
LEMMA SizeUpToGrows ==
  ASSUME NEW n \in Nat, NEW s, Sizes(s, n), NEW l \in 0 .. n, NEW m \in l .. n
  PROVE  SizeUpTo(s, l) <= SizeUpTo(s, m)
  <1> DEFINE S == {k \in l .. n : ~(SizeUpTo(s, l) <= SizeUpTo(s, k))}
  <1>1. /\ \A k \in 0 .. n : SizeUpTo(s, k) \in Nat
        /\ \A k \in 1 .. n : SizeUpTo(s, k) = SizeUpTo(s, k - 1) + s[k].size
    BY SizeUpToStep
  <1>2. CASE S # {}
    <2>1. PICK k \in S : \A x \in Nat : x < k => x \notin S
      <3>1. S \in SUBSET Nat
        OBVIOUS
      <3>2. QED
        BY Zenon, <1>2, <3>1, LeastIndex
    <2>2. k # l
      BY <1>1, <2>1
    <2>3. k \in 1 .. n /\ k - 1 \in l .. n /\ k - 1 \in Nat /\ k - 1 < k /\ k - 1 \in 0 .. n
      BY <2>1, <2>2
    <2>4. SizeUpTo(s, l) <= SizeUpTo(s, k - 1)
      BY <2>1, <2>3
    <2>5. s[k].size \in Nat
      BY <2>3 DEF Sizes
    <2>6. QED
      BY <1>1, <2>1, <2>3, <2>4, <2>5
  <1>3. QED
    BY <1>2

(* The states a loop that stays in Home goes through, and that no other function
   goes through others.                                                    *)
Passes(f, n, s, G) == \A k \in 0 .. n : f[k] = IF k = 0 THEN s ELSE G[f[k - 1]]

LEMMA Orbit ==
  ASSUME NEW n \in Nat, NEW Home, NEW s \in Home, NEW G \in [Home -> Home]
  PROVE  \E f \in [0 .. n -> Home] : Passes(f, n, s, G)
  <1> DEFINE H == [k \in 1 .. n |-> G]
  <1>1. Closed(H, n, Home)
    BY DEF Closed
  <1>2. PICK f \in [0 .. n -> Home] : Iterates(f, n, s, H)
    BY <1>1, Recursion
  <1> HIDE DEF H
  <1>3. f = [k \in 0 .. n |-> IF k = 0 THEN s ELSE H[k][f[k - 1]]]
    BY <1>2 DEF Iterates
  <1>4. \A k \in 0 .. n : f[k] = IF k = 0 THEN s ELSE G[f[k - 1]]
    <2>1. \A k \in 0 .. n : k # 0 => H[k] = G
      BY DEF H
    <2>2. QED
      BY <1>3, <2>1
  <1>5. QED
    BY <1>4 DEF Passes

LEMMA SameOrbit ==
  ASSUME NEW n \in Nat, NEW Home, NEW f \in [0 .. n -> Home], NEW h,
         f[0] = h[0], \A k \in 1 .. n : f[k - 1] = h[k - 1] => f[k] = h[k]
  PROVE  h[n] \in Home
  <1>1. Alike(f, h, n)
    BY SameRecursion DEF StepAlike
  <1>2. QED
    BY <1>1 DEF Alike

-----------------------------------------------------------------------------
(* The arena.  Where it has these offsets, the block of v is the last one or
   lies below the last one.                                                *)
Within(v, prev, curr) ==
  /\ ptr[v] + want[v].size <= Base + curr
  /\ ptr[v] = Base + prev \/ ptr[v] + want[v].size <= Base + prev

Offsets == [prev_offset : Nat, curr_offset : Nat]
ArenaMem == [prev_offset : Nat, curr_offset : Nat, temp : SUBSET Offsets]

(* The same of the offsets that the open scope goes back to, for the blocks
   that are older than the scope.                                          *)
ArenaInv ==
  /\ mem \in ArenaMem
  /\ mem.prev_offset <= mem.curr_offset /\ mem.curr_offset <= Size
  /\ \A v \in Var : Live(v) => Within(v, mem.prev_offset, mem.curr_offset)
  /\ \A t, u \in mem.temp : t = u
  /\ \A t \in mem.temp :
       /\ t.prev_offset <= t.curr_offset /\ t.curr_offset <= mem.curr_offset
       /\ \A v \in Var : Live(v) /\ ptr[v] < Base + t.curr_offset
            => Within(v, t.prev_offset, t.curr_offset)

(* A variable of the client, in numbers. *)
LEMMA VarIs ==
  ASSUME Client, NEW v \in Var
  PROVE  /\ ptr[v] \in Nat /\ want[v].size \in Nat /\ want[v].align \in Nat \ {0}
         /\ want[v] \in [size : 0 .. Size, align : Nat \ {0}]
         /\ Live(v) => /\ ptr[v] \in Unit /\ ptr[v] >= Base /\ want[v].size > 0
                       /\ ptr[v] + want[v].size <= End
                       /\ kind # "chunks" => ptr[v] % AlignOf(want[v].align) = 0
         /\ ~Live(v) => ptr[v] = 0
  BY Bounds DEF Client, ClientTypeOK, Room, Live, Measured, NULL

LEMMA RequestIs ==
  ASSUME NEW n \in Requests
  PROVE  n \in Nat /\ n > 0
  BY HeapAssumption

LEMMA AlignmentIs ==
  ASSUME NEW align \in Alignments
  PROVE  align \in Nat \ {0} /\ align \in {1, 2, 4, 8, 16}
  BY HeapAssumption

LEMMA ArenaBegins ==
  ASSUME ClientInit, ArenaInit, kind = "arena"
  PROVE  ArenaInv
  BY Bounds DEF ClientInit, ArenaInit, ArenaEmpty, ArenaInv, ArenaMem, Live

(* What arena_alloc_align() returns lies above everything there was. *)
LEMMA ArenaAllocPlaces ==
  ASSUME ArenaInv, NEW n \in Nat, NEW align \in Nat \ {0},
         NEW r, r = ArenaAllocAlign(mem, n, align)
  PROVE  \/ r.p = NULL /\ r.mem = mem
         \/ /\ r.p # NULL /\ r.p \in Nat /\ r.p >= Base
            /\ r.mem \in ArenaMem
            /\ r.p = Base + r.mem.prev_offset
            /\ r.mem.curr_offset = r.mem.prev_offset + n
            /\ r.mem.curr_offset <= Size
            /\ r.mem.prev_offset >= mem.curr_offset
            /\ r.mem.temp = mem.temp
            /\ r.p % align = 0
  <1> DEFINE a == Base + mem.curr_offset
             offset == align_forward(a, align) - Base
  <1>1. /\ Base \in Nat \ {0} /\ Size \in Nat /\ mem \in ArenaMem /\ mem.curr_offset \in Nat
    BY HeapAssumption DEF ArenaInv, ArenaMem
  <1>2. a \in Nat
    BY <1>1
  <1>3. /\ offset \in Nat /\ offset >= mem.curr_offset /\ (Base + offset) % align = 0
    <2>1. /\ align_forward(a, align) \in Nat /\ align_forward(a, align) >= a
          /\ align_forward(a, align) % align = 0
      <3> HIDE DEF a
      <3>1. QED
        BY Zenon, <1>2, AlignForward
    <2> DEFINE b == align_forward(a, align)
    <2>2. b \in Nat /\ b >= Base + mem.curr_offset /\ b % align = 0 /\ offset = b - Base
      BY <2>1
    <2> HIDE DEF b, offset, a
    <2>3. Base + offset = b
      BY <1>1, <2>2
    <2>4. QED
      BY <1>1, <2>2, <2>3
  <1>4. r = IF offset + n <= Size
            THEN [mem |-> [prev_offset |-> offset, curr_offset |-> offset + n, temp |-> mem.temp],
                  p |-> Base + offset]
            ELSE [mem |-> mem, p |-> NULL]
    BY DEF ArenaAllocAlign
  <1> HIDE DEF offset, a
  <1>5. mem.temp \in SUBSET Offsets
    BY <1>1 DEF ArenaMem
  <1>6. CASE offset + n <= Size
    BY <1>1, <1>3, <1>4, <1>5, <1>6 DEF NULL, ArenaMem
  <1>7. CASE ~(offset + n <= Size)
    BY <1>4, <1>7
  <1>8. QED
    BY <1>6, <1>7

(* v takes a block that becomes the last one, above all the others. *)
LEMMA ArenaTakes ==
  ASSUME Client, ArenaInv, kind = "arena", kind' = kind, fault' \in {"none", "assert", "null", "overrun"},
         NEW v \in Var, NEW p \in Nat, NEW n \in Nat, n > 0, NEW align \in Nat \ {0},
         p >= Base, p % align = 0, mem' \in ArenaMem, mem'.temp = mem.temp,
         p = Base + mem'.prev_offset, mem'.curr_offset = mem'.prev_offset + n,
         mem'.curr_offset <= Size,
         \A t \in mem.temp : t.curr_offset <= mem'.prev_offset,
         \A w \in Var \ {v} : Live(w) => ptr[w] + want[w].size <= p,
         Keep(v, p, n, align)
  PROVE  Client' /\ AbstractStep /\ ArenaInv'
  <1>1. /\ Base \in Nat /\ Size \in Nat /\ End = Base + Size /\ Base >= 1
        /\ mem'.prev_offset \in Nat /\ mem'.curr_offset \in Nat /\ mem.temp \in SUBSET Offsets
    BY Bounds DEF ArenaMem, ArenaInv
  <1>2. p \in Unit /\ p + n <= End
    BY <1>1, Bounds
  <1>3. AlignOf(align) = align /\ Measured(p) = p
    BY DEF AlignOf, Measured
  <1>4. \A w \in Var \ {v} : Live(w) => Beyond(w, p, n)
    BY DEF Beyond
  <1>5. /\ Client' /\ AbstractStep
        /\ Live(v)' /\ ptr'[v] = p /\ want'[v] = [size |-> n, align |-> align]
        /\ \A w \in Var \ {v} : ptr'[w] = ptr[w] /\ want'[w] = want[w]
    BY <1>2, <1>3, <1>4, GiveStep
  <1>6. \A w \in Var : Live(w)' => Within(w, mem.prev_offset, mem.curr_offset)'
    <2>1. ASSUME NEW w \in Var, Live(w)'
          PROVE  Within(w, mem.prev_offset, mem.curr_offset)'
      <3>1. CASE w = v
        BY <1>1, <1>5, <3>1 DEF Within
      <3>2. CASE w # v
        <4>1. ptr[w] + want[w].size <= p /\ ptr[w] \in Nat /\ want[w].size \in Nat
          BY <1>5, <2>1, <3>2, VarIs DEF Live
        <4>2. QED
          BY <1>1, <1>5, <3>2, <4>1 DEF Within
      <3>3. QED
        BY <3>1, <3>2
    <2>2. QED
      BY <2>1
  <1>7. ASSUME NEW t \in mem'.temp
        PROVE  /\ t.prev_offset <= t.curr_offset /\ t.curr_offset <= mem'.curr_offset
               /\ \A w \in Var : Live(w)' /\ ptr'[w] < Base + t.curr_offset
                    => Within(w, t.prev_offset, t.curr_offset)'
    <2>1. /\ t \in mem.temp /\ t.prev_offset \in Nat /\ t.curr_offset \in Nat
          /\ t.prev_offset <= t.curr_offset /\ t.curr_offset <= mem'.prev_offset
          /\ \A w \in Var : Live(w) /\ ptr[w] < Base + t.curr_offset
               => Within(w, t.prev_offset, t.curr_offset)
      BY <1>1, <1>7 DEF ArenaInv, Offsets
    <2>2. t.curr_offset <= mem'.curr_offset
      BY <2>1, <1>1
    <2>3. ASSUME NEW w \in Var, Live(w)', ptr'[w] < Base + t.curr_offset
          PROVE  Within(w, t.prev_offset, t.curr_offset)'
      <3>1. w # v
        BY <2>1, <2>3, <1>1, <1>5
      <3>2. QED
        BY <1>5, <2>1, <2>3, <3>1 DEF Within, Live
    <2>4. QED
      BY <2>1, <2>2, <2>3
  <1>8. mem'.prev_offset <= mem'.curr_offset /\ \A t, u \in mem'.temp : t = u
    BY <1>1 DEF ArenaInv
  <1>9. QED
    BY <1>5, <1>6, <1>7, <1>8 DEF ArenaInv

(* What the arena remembers follows the blocks that stay. *)
LEMMA ArenaStays ==
  ASSUME Client, ArenaInv, kind = "arena", UNCHANGED <<mem, ptr, want>>
  PROVE  ArenaInv'
  BY DEF ArenaInv, Within, Live

LEMMA ArenaGrants ==
  ASSUME Client, ArenaInv, kind = "arena", kind' = kind, fault' \in {"none", "assert", "null", "overrun"},
         NEW v \in Var, NEW n \in Nat, n > 0, NEW align \in Nat \ {0},
         NEW r, r = ArenaAllocAlign(mem, n, align), mem' = r.mem, Keep(v, r.p, n, align)
  PROVE  Client' /\ AbstractStep /\ ArenaInv'
  <1>1. \/ r.p = NULL /\ r.mem = mem
        \/ /\ r.p # NULL /\ r.p \in Nat /\ r.p >= Base
           /\ r.mem \in ArenaMem
           /\ r.p = Base + r.mem.prev_offset
           /\ r.mem.curr_offset = r.mem.prev_offset + n
           /\ r.mem.curr_offset <= Size
           /\ r.mem.prev_offset >= mem.curr_offset
           /\ r.mem.temp = mem.temp
           /\ r.p % align = 0
    BY ArenaAllocPlaces
  <1>2. CASE r.p = NULL
    <2>1. UNCHANGED <<mem, ptr, want>>
      BY <1>1, <1>2, KeepNull
    <2>2. QED
      BY <2>1, StayStep, ArenaStays
  <1>3. CASE r.p # NULL
    <2>1. /\ r.p \in Nat /\ r.p >= Base /\ mem' \in ArenaMem /\ mem'.temp = mem.temp
          /\ r.p = Base + mem'.prev_offset /\ mem'.curr_offset = mem'.prev_offset + n
          /\ mem'.curr_offset <= Size /\ mem'.prev_offset >= mem.curr_offset /\ r.p % align = 0
          /\ mem'.prev_offset \in Nat /\ mem.curr_offset \in Nat /\ Base \in Nat
      BY <1>1, <1>3, Bounds DEF ArenaMem, ArenaInv
    <2>2. \A t \in mem.temp : t.curr_offset <= mem'.prev_offset
      BY <2>1 DEF ArenaInv, ArenaMem, Offsets
    <2>3. ASSUME NEW w \in Var \ {v}, Live(w)
          PROVE  ptr[w] + want[w].size <= r.p
      <3>1. ptr[w] + want[w].size <= Base + mem.curr_offset
        BY <2>3 DEF ArenaInv, Within
      <3>2. QED
        BY <2>1, <3>1, VarIs
    <2>4. QED
      BY <2>1, <2>2, <2>3, ArenaTakes
  <1>4. QED
    BY <1>2, <1>3

LEMMA ArenaAllocStep ==
  ASSUME Client, ArenaInv, kind = "arena", kind' = kind, NEW v \in Var, ArenaAlloc(v)
  PROVE  Client' /\ AbstractStep /\ ArenaInv'
  <1>1. PICK n \in Requests, align \in Alignments :
          LET r == ArenaAllocAlign(mem, n, align) IN mem' = r.mem /\ Keep(v, r.p, n, align)
    BY DEF ArenaAlloc
  <1>2. fault' \in {"none", "assert", "null", "overrun"}
    BY DEF ArenaAlloc, Client, ClientTypeOK
  <1> DEFINE r == ArenaAllocAlign(mem, n, align)
  <1>3. mem' = r.mem /\ Keep(v, r.p, n, align)
    BY <1>1
  <1>4. n \in Nat /\ n > 0 /\ align \in Nat \ {0}
    BY RequestIs, AlignmentIs
  <1> HIDE DEF r
  <1>5. QED
    BY <1>2, <1>3, <1>4, ArenaGrants DEF r

LEMMA ArenaResizeStep ==
  ASSUME Client, ArenaInv, kind = "arena", kind' = kind, NEW v \in Var, ArenaResize(v)
  PROVE  Client' /\ AbstractStep /\ ArenaInv'
  <1> DEFINE align == want[v].align
             old == want[v].size
  <1>1. PICK n \in Requests :
          LET r == ArenaResizeAlign(mem, ptr[v], old, n, align)
          IN  mem' = r.mem /\ fault' = r.fault /\ Keep(v, r.p, n, align)
    BY DEF ArenaResize
  <1> DEFINE moved == ArenaAllocAlign(mem, n, align)
             tooLong == n > old /\ mem.curr_offset + (n - old) > Size
  <1>2. Live(v) /\ InScope(v)
    BY DEF ArenaResize
  <1>3. /\ ptr[v] \in Nat /\ ptr[v] >= Base /\ ptr[v] \in Unit /\ ptr[v] # NULL
        /\ old \in Nat /\ old > 0 /\ align \in Nat \ {0} /\ ptr[v] % align = 0
        /\ n \in Nat /\ n > 0 /\ Base \in Nat /\ Size \in Nat
        /\ mem.prev_offset \in Nat /\ mem.curr_offset \in Nat /\ mem.temp \in SUBSET Offsets
    BY <1>2, VarIs, RequestIs, Bounds DEF AlignOf, ArenaInv, ArenaMem, Live
  <1>4. CASE ~ArenaInPlace(mem, ptr[v])
    <2>1. mem' = moved.mem /\ Keep(v, moved.p, n, align) /\ fault' \in {"none", "null"}
      BY <1>1, <1>4 DEF ArenaResizeAlign
    <2> HIDE DEF moved, align
    <2>2. QED
      BY <1>3, <2>1, ArenaGrants DEF moved
  <1>5. CASE ArenaInPlace(mem, ptr[v]) /\ tooLong
    <2>1. mem' = mem /\ Keep(v, NULL, n, align) /\ fault' = "overrun"
      BY <1>1, <1>5 DEF ArenaResizeAlign
    <2>2. UNCHANGED <<mem, ptr, want>>
      BY <2>1, KeepNull
    <2>3. QED
      BY <2>1, <2>2, StayStep, ArenaStays
  <1>6. CASE ArenaInPlace(mem, ptr[v]) /\ ~tooLong
    <2>1. /\ mem' = [mem EXCEPT !.curr_offset = mem.prev_offset + n] /\ Keep(v, ptr[v], n, align)
          /\ fault' = "none"
      BY <1>1, <1>6 DEF ArenaResizeAlign
    <2>2. mem \in ArenaMem /\ ptr[v] = Base + mem.prev_offset
      BY <1>6 DEF ArenaInPlace, ArenaInv
    <2>3. /\ mem' \in ArenaMem /\ mem'.temp = mem.temp
          /\ ptr[v] = Base + mem'.prev_offset
          /\ mem'.curr_offset = mem'.prev_offset + n /\ mem'.prev_offset = mem.prev_offset
      BY <1>3, <2>1, <2>2 DEF ArenaMem
    <2>4. mem'.curr_offset <= Size
      <3>1. ptr[v] + old <= Base + mem.curr_offset /\ mem.curr_offset <= Size
        BY <1>2 DEF ArenaInv, Within
      <3>2. ~tooLong
        BY <1>6
      <3> HIDE DEF old
      <3>3. QED
        BY <1>3, <2>2, <2>3, <3>1, <3>2
    <2>5. \A t \in mem.temp : t.curr_offset <= mem'.prev_offset
      BY <1>2, <1>3, <2>2, <2>3 DEF InScope, Offsets
    <2>6. ASSUME NEW w \in Var \ {v}, Live(w)
          PROVE  ptr[w] + want[w].size <= ptr[v]
      <3>1. ptr[w] = Base + mem.prev_offset \/ ptr[w] + want[w].size <= Base + mem.prev_offset
        BY <2>6 DEF ArenaInv, Within
      <3>2. ptr[w] \in Nat /\ want[w].size \in Nat /\ want[w].size > 0
        BY <2>6, VarIs
      <3>3. ptr[v] + old <= ptr[w] \/ ptr[w] + want[w].size <= ptr[v]
        BY <1>2, <2>6 DEF Client, Beyond
      <3>4. QED
        BY <1>3, <2>2, <3>1, <3>2, <3>3
    <2> HIDE DEF align, old
    <2>7. QED
      BY Zenon, <1>3, <2>1, <2>3, <2>4, <2>5, <2>6, ArenaTakes
  <1>7. QED
    BY <1>4, <1>5, <1>6

(* The variables in S give up their blocks, and the offsets stay or go back to
   where the other blocks lie.                                             *)
LEMMA ArenaForgets ==
  ASSUME Client, ArenaInv, kind = "arena", kind' = kind, UNCHANGED fault,
         NEW S \in SUBSET Var, Forget(S), mem' \in ArenaMem,
         mem'.prev_offset <= mem'.curr_offset, mem'.curr_offset <= Size,
         mem'.temp = {} \/ (mem'.temp = mem.temp /\ mem'.curr_offset = mem.curr_offset),
         \A v \in Var \ S : Live(v) => Within(v, mem'.prev_offset, mem'.curr_offset)
  PROVE  Client' /\ AbstractStep /\ ArenaInv'
  <1>1. fault' \in {"none", "assert", "null", "overrun"}
    BY DEF Client, ClientTypeOK
  <1>2. /\ Client' /\ AbstractStep
        /\ \A w \in S : ~Live(w)' /\ ptr'[w] = NULL
        /\ \A w \in Var \ S : ptr'[w] = ptr[w] /\ want'[w] = want[w]
    BY <1>1, ForgetStep
  <1>3. \A w \in Var : Live(w)' => w \in Var \ S /\ Live(w)
    BY <1>2 DEF Live
  <1>4. ArenaInv'
    BY <1>2, <1>3 DEF ArenaInv, Within
  <1>5. QED
    BY <1>2, <1>4

LEMMA ArenaStep ==
  ASSUME Client, ArenaInv, kind = "arena", kind' = kind, ArenaNext
  PROVE  Client' /\ AbstractStep /\ ArenaInv'
  <1>1. ASSUME NEW v \in Var, ArenaFree(v)
        PROVE  Client' /\ AbstractStep /\ ArenaInv'
    <2>1. mem' = mem /\ Forget({v}) /\ {v} \in SUBSET Var /\ UNCHANGED fault
      BY <1>1 DEF ArenaFree
    <2>2. /\ mem' \in ArenaMem /\ mem'.prev_offset <= mem'.curr_offset /\ mem'.curr_offset <= Size
          /\ \A w \in Var \ {v} : Live(w) => Within(w, mem'.prev_offset, mem'.curr_offset)
      BY <2>1 DEF ArenaInv
    <2>3. QED
      BY <2>1, <2>2, ArenaForgets
  <1>2. CASE ArenaFreeAll
    <2>1. /\ mem' = [prev_offset |-> 0, curr_offset |-> 0, temp |-> {}] /\ Forget(Var)
          /\ UNCHANGED fault
      BY <1>2 DEF ArenaFreeAll, ArenaEmpty
    <2>2. mem' \in ArenaMem /\ mem'.temp = {} /\ mem'.prev_offset = 0 /\ mem'.curr_offset = 0
      BY <2>1 DEF ArenaMem
    <2>3. QED
      BY <2>1, <2>2, Bounds, ArenaForgets
  <1>3. CASE TempBegin
    <2> DEFINE t == [prev_offset |-> mem.prev_offset, curr_offset |-> mem.curr_offset]
    <2>1. mem' = [mem EXCEPT !.temp = {t}] /\ UNCHANGED <<ptr, want, fault>>
      BY <1>3 DEF TempBegin
    <2>2. mem \in ArenaMem /\ t \in Offsets /\ mem.curr_offset \in Nat
      BY DEF ArenaInv, ArenaMem, Offsets
    <2>3. /\ mem' \in ArenaMem /\ mem'.prev_offset = mem.prev_offset
          /\ mem'.curr_offset = mem.curr_offset /\ mem'.temp = {t}
      BY <2>1, <2>2 DEF ArenaMem
    <2>4. ArenaInv'
      BY <2>1, <2>2, <2>3 DEF ArenaInv, Within, Live
    <2>5. fault' \in {"none", "assert", "null", "overrun"}
      BY <2>1 DEF Client, ClientTypeOK
    <2>6. QED
      BY <2>1, <2>4, <2>5, StayStep
  <1>4. CASE TempEnd
    <2>1. PICK t \in mem.temp :
            mem' = [prev_offset |-> t.prev_offset, curr_offset |-> t.curr_offset, temp |-> {}]
      BY Zenon, <1>4 DEF TempEnd
    <2> DEFINE S == {v \in Var : InScope(v)}
    <2>2. Forget(S) /\ UNCHANGED fault /\ S \in SUBSET Var
      BY <1>4 DEF TempEnd
    <2>3. /\ t.prev_offset \in Nat /\ t.curr_offset \in Nat
          /\ t.prev_offset <= t.curr_offset /\ t.curr_offset <= mem.curr_offset
          /\ mem.curr_offset \in Nat /\ mem.curr_offset <= Size /\ Size \in Nat /\ Base \in Nat
          /\ \A u \in mem.temp : u = t
          /\ \A v \in Var : Live(v) /\ ptr[v] < Base + t.curr_offset
               => Within(v, t.prev_offset, t.curr_offset)
      BY Bounds DEF ArenaInv, ArenaMem, Offsets
    <2>4. ASSUME NEW v \in Var \ S, Live(v)
          PROVE  Within(v, t.prev_offset, t.curr_offset)
      <3>1. ~(ptr[v] >= Base + t.curr_offset)
        BY <2>3, <2>4 DEF InScope
      <3>2. ptr[v] \in Nat
        BY <2>4, VarIs
      <3>3. QED
        BY <2>3, <2>4, <3>1, <3>2
    <2>5. /\ mem' \in ArenaMem /\ mem'.prev_offset = t.prev_offset
          /\ mem'.curr_offset = t.curr_offset /\ mem'.temp = {} /\ mem'.curr_offset <= Size
      BY <2>1, <2>3 DEF ArenaMem
    <2> HIDE DEF S
    <2>6. QED
      BY <2>2, <2>3, <2>4, <2>5, ArenaForgets
  <1>5. QED
    BY <1>1, <1>2, <1>3, <1>4, ArenaAllocStep, ArenaResizeStep DEF ArenaNext

-----------------------------------------------------------------------------
(* The stack: no header reaches below the header before it, and no block above
   the header behind it.                                                   *)
StackInv ==
  /\ mem = [offset |-> mem.offset, padding |-> mem.padding] /\ mem.offset \in 0 .. Size
  /\ \A v \in Var : Live(v) =>
       ptr[v] \in DOMAIN mem.padding /\ ptr[v] + want[v].size <= Base + mem.offset
  /\ \A p \in DOMAIN mem.padding :
       /\ p \in Unit /\ mem.padding[p] \in 1 .. MaxAlign
       /\ Base <= p - mem.padding[p] /\ p <= Base + mem.offset
       /\ \A v \in Var : Live(v) /\ ptr[v] < p => ptr[v] + want[v].size <= p - mem.padding[p]
  /\ \A p, q \in DOMAIN mem.padding : p < q => p <= q - mem.padding[q]

LEMMA CappedIs ==
  ASSUME NEW align \in Nat \ {0}
  PROVE  /\ Capped(align) \in Nat \ {0} /\ Capped(align) <= MaxAlign
         /\ MaxAlign \in Nat /\ 2 ^ PadBits \in Nat \ {0} /\ MaxAlign < 2 ^ PadBits
  <1>1. PadBits \in Nat /\ \E k \in 0 .. PadBits - 1 : MaxAlign = 2 ^ k
    BY StackAssumption
  <1>2. PICK k \in 0 .. PadBits - 1 : MaxAlign = 2 ^ k
    BY <1>1
  <1>3. k \in Nat /\ k < PadBits /\ k <= PadBits /\ PadBits \in Nat
    BY <1>1
  <1>4. 2 ^ k \in Nat \ {0} /\ 2 ^ PadBits \in Nat \ {0} /\ 2 ^ k < 2 ^ PadBits
    BY <1>3, PowIs, PowOrder
  <1>5. QED
    BY <1>2, <1>4 DEF Capped

(* What stack_alloc_align() returns: the padding fits into a header, which lies
   above the offset, as does the block.                                    *)
LEMMA StackAllocPlaces ==
  ASSUME StackInv, NEW n \in Nat, NEW align \in Nat \ {0},
         NEW r, r = StackAllocAlign(mem, n, align)
  PROVE  \/ r.p = NULL /\ r.mem = mem
         \/ /\ r.p # NULL /\ r.p \in Nat /\ r.p > Base + mem.offset
            /\ r.p % Capped(align) = 0
            /\ r.mem = [offset |-> r.p + n - Base, padding |-> r.mem.padding]
            /\ r.p + n - Base <= Size
            /\ DOMAIN r.mem.padding = DOMAIN mem.padding \cup {r.p}
            /\ \A q \in DOMAIN mem.padding \ {r.p} : r.mem.padding[q] = mem.padding[q]
            /\ r.mem.padding[r.p] = r.p - Base - mem.offset
            /\ r.p - Base - mem.offset <= MaxAlign
  <1> DEFINE a == Base + mem.offset
             A == Capped(align)
             padding == PaddingFor(a, A, 1)
             p == a + padding
  <1>1. /\ Base \in Nat /\ Base >= 1 /\ Size \in Nat /\ mem.offset \in Nat /\ mem.offset <= Size
        /\ a \in Nat /\ a + 1 \in Nat
    BY Bounds DEF StackInv
  <1>2. /\ A \in Nat \ {0} /\ A <= MaxAlign /\ MaxAlign \in Nat /\ 2 ^ PadBits \in Nat \ {0}
        /\ MaxAlign < 2 ^ PadBits
    BY CappedIs
  <1>3. padding \in 1 .. A /\ p % A = 0 /\ p \in Nat
    <2> HIDE DEF a, A
    <2> DEFINE b == align_forward(a + 1, A)
    <2>1. b \in Nat /\ b >= a + 1 /\ b < (a + 1) + A /\ b % A = 0
      BY Zenon, <1>1, <1>2, AlignForward
    <2>2. padding = b - a
      BY DEF PaddingFor
    <2> HIDE DEF b, padding
    <2>3. p = b
      BY <1>1, <2>1, <2>2
    <2>4. QED
      BY <1>1, <1>2, <2>1, <2>2, <2>3
  <1>4. padding % 2 ^ PadBits = padding
    <2> HIDE DEF padding, A
    <2> DEFINE w == 2 ^ PadBits
    <2>1. w \in Nat \ {0} /\ padding \in 0 .. w - 1 /\ 0 \in Int /\ w * 0 + padding = padding
      BY <1>2, <1>3
    <2> HIDE DEF w
    <2>2. (w * 0 + padding) % w = padding
      BY <2>1, Remains
    <2>3. QED
      BY <2>1, <2>2 DEF w
  <1>5. r = IF mem.offset + padding + n > Size THEN [mem |-> mem, p |-> NULL]
            ELSE [mem |-> [offset |-> mem.offset + padding + n,
                           padding |-> Extended(mem.padding, p, padding % 2 ^ PadBits)],
                  p |-> p]
    BY DEF StackAllocAlign
  <1> DEFINE f == Extended(mem.padding, p, padding % 2 ^ PadBits)
  <1>6. /\ DOMAIN f = DOMAIN mem.padding \cup {p}
        /\ \A q \in DOMAIN mem.padding \ {p} : f[q] = mem.padding[q]
        /\ f[p] = padding
    <2> DEFINE e == padding % 2 ^ PadBits
    <2>1. f = Extended(mem.padding, p, e) /\ e = padding
      BY <1>4
    <2> HIDE DEF padding, p, e, f
    <2>2. /\ DOMAIN Extended(mem.padding, p, e) = DOMAIN mem.padding \cup {p}
          /\ Extended(mem.padding, p, e)[p] = e
          /\ \A q \in DOMAIN mem.padding \ {p} :
               Extended(mem.padding, p, e)[q] = mem.padding[q]
      BY DEF Extended
    <2>3. QED
      BY <2>1, <2>2, Zenon
  <1>7. a = Base + mem.offset /\ p = a + padding
    OBVIOUS
  <1> HIDE DEF padding, p, A, a, f
  <1>8. CASE mem.offset + padding + n > Size
    BY <1>5, <1>8
  <1>9. CASE ~(mem.offset + padding + n > Size)
    <2>1. r.p = p /\ r.mem = [offset |-> mem.offset + padding + n, padding |-> f]
      BY <1>5, <1>9 DEF f
    <2>2. mem.offset + padding + n = p + n - Base /\ padding = p - Base - mem.offset /\ p # NULL
          /\ p > Base + mem.offset /\ padding <= MaxAlign
      <3>1. padding \in Nat /\ padding >= 1 /\ padding <= A
        BY <1>2, <1>3
      <3> DEFINE o == mem.offset
      <3>2. o \in Nat /\ a = Base + o
        BY <1>1, <1>7
      <3> HIDE DEF o
      <3>3. o + padding + n = p + n - Base /\ padding = p - Base - o /\ p # 0 /\ p > Base + o
        BY <1>1, <1>3, <1>7, <3>1, <3>2
      <3>4. padding <= MaxAlign
        BY <1>2, <3>1
      <3>5. QED
        BY <3>3, <3>4 DEF NULL, o
    <2>3. p + n - Base <= Size
      BY <1>1, <1>2, <1>3, <1>7, <1>9, <2>2
    <2>4. p % Capped(align) = 0
      BY <1>3 DEF A
    <2>5. r.mem.padding = f /\ r.mem = [offset |-> p + n - Base, padding |-> f]
      BY <2>1, <2>2
    <2>6. QED
      BY <1>3, <1>6, <2>1, <2>2, <2>3, <2>4, <2>5
  <1>10. QED
    BY <1>8, <1>9

Faults == {"none", "assert", "null", "overrun"}

LEMMA StackBegins ==
  ASSUME ClientInit, StackInit, kind = "stack"
  PROVE  StackInv
  BY Bounds DEF ClientInit, StackInit, StackEmpty, StackInv, Live

LEMMA StackStays ==
  ASSUME Client, StackInv, UNCHANGED <<mem, ptr, want>>
  PROVE  StackInv'
  BY DEF StackInv, Live

LEMMA StackMemIs ==
  ASSUME StackInv
  PROVE  /\ Base \in Nat /\ Base >= 1 /\ Size \in Nat /\ End = Base + Size /\ MaxAlign \in Nat
         /\ mem.offset \in Nat /\ mem.offset <= Size
         /\ \A p \in DOMAIN mem.padding :
              /\ p \in Nat /\ p >= Base /\ mem.padding[p] \in Nat /\ mem.padding[p] >= 1
              /\ mem.padding[p] <= MaxAlign
  <1>1. MaxAlign \in Nat
    BY CappedIs
  <1>2. QED
    BY <1>1, Bounds DEF StackInv

LEMMA StackGrants ==
  ASSUME Client, StackInv, kind = "stack", kind' = kind, fault' \in Faults,
         NEW v \in Var, NEW n \in Nat, n > 0, NEW align \in Nat \ {0},
         NEW r, r = StackAllocAlign(mem, n, align), mem' = r.mem, Keep(v, r.p, n, align)
  PROVE  Client' /\ AbstractStep /\ StackInv'
  <1>1. \/ r.p = NULL /\ r.mem = mem
        \/ /\ r.p # NULL /\ r.p \in Nat /\ r.p > Base + mem.offset
           /\ r.p % Capped(align) = 0
           /\ r.mem = [offset |-> r.p + n - Base, padding |-> r.mem.padding]
           /\ r.p + n - Base <= Size
           /\ DOMAIN r.mem.padding = DOMAIN mem.padding \cup {r.p}
           /\ \A q \in DOMAIN mem.padding \ {r.p} : r.mem.padding[q] = mem.padding[q]
           /\ r.mem.padding[r.p] = r.p - Base - mem.offset
           /\ r.p - Base - mem.offset <= MaxAlign
    BY StackAllocPlaces
  <1>2. CASE r.p = NULL
    <2>1. UNCHANGED <<mem, ptr, want>>
      BY <1>1, <1>2, KeepNull
    <2>2. QED
      BY <2>1, StayStep, StackStays DEF Faults
  <1>3. CASE r.p # NULL
    <2> DEFINE p == r.p
               top == Base + mem.offset
    <2>1. /\ Base \in Nat /\ Base >= 1 /\ Size \in Nat /\ End = Base + Size /\ MaxAlign \in Nat
          /\ mem.offset \in Nat /\ mem.offset <= Size
          /\ \A q \in DOMAIN mem.padding :
               /\ q \in Nat /\ q >= Base /\ mem.padding[q] \in Nat /\ mem.padding[q] >= 1
               /\ mem.padding[q] <= MaxAlign
      BY StackMemIs
    <2>2. /\ p \in Nat /\ p > top /\ p % Capped(align) = 0 /\ p + n - Base <= Size
          /\ mem' = [offset |-> p + n - Base, padding |-> mem'.padding]
          /\ mem'.offset = p + n - Base
          /\ DOMAIN mem'.padding = DOMAIN mem.padding \cup {p}
          /\ \A q \in DOMAIN mem.padding \ {p} : mem'.padding[q] = mem.padding[q]
          /\ mem'.padding[p] = p - top /\ p - top <= MaxAlign
      <3>1. mem' = [offset |-> p + n - Base, padding |-> mem'.padding]
        BY <1>1, <1>3
      <3>2. mem'.offset = p + n - Base
        BY <3>1
      <3>3. p - Base - mem.offset = p - top
        BY <1>1, <1>3, <2>1
      <3>4. QED
        BY <1>1, <1>3, <3>1, <3>2, <3>3
    <2>3. top \in Nat
      BY <2>1
    <2>4. \A w \in Var : Live(w) =>
            /\ ptr[w] \in DOMAIN mem.padding /\ ptr[w] + want[w].size <= top
            /\ ptr[w] \in Nat /\ want[w].size \in Nat /\ want[w].size > 0
      BY VarIs DEF StackInv
    <2>5. \A q \in DOMAIN mem.padding : q <= top /\ q # p
      BY <2>1, <2>2, <2>3 DEF StackInv
    <2> HIDE DEF p, top
    <2>6. p \in Unit /\ p + n <= End /\ AlignOf(align) = Capped(align)
      BY <2>1, <2>2, <2>3, Bounds DEF AlignOf, top
    <2>7. \A w \in Var \ {v} : Live(w) => Beyond(w, p, n)
      BY <2>2, <2>3, <2>4 DEF Beyond
    <2>8. /\ Client' /\ AbstractStep
          /\ Live(v)' /\ ptr'[v] = p /\ want'[v] = [size |-> n, align |-> align]
          /\ \A w \in Var \ {v} : ptr'[w] = ptr[w] /\ want'[w] = want[w]
      <3>1. Keep(v, p, n, align) /\ Measured(p) % AlignOf(align) = 0
        BY <2>2, <2>6 DEF p, Measured
      <3>2. QED
        BY <2>6, <2>7, <3>1, GiveStep DEF Faults
    <2>9. \A w \in Var : Live(w)' =>
            /\ ptr'[w] \in DOMAIN mem'.padding /\ ptr'[w] + want'[w].size <= Base + mem'.offset
            /\ w # v => ptr'[w] \in DOMAIN mem.padding /\ ptr'[w] + want'[w].size <= top
                        /\ Live(w)
      <3>1. ASSUME NEW w \in Var, Live(w)'
            PROVE  /\ ptr'[w] \in DOMAIN mem'.padding
                   /\ ptr'[w] + want'[w].size <= Base + mem'.offset
                   /\ w # v => ptr'[w] \in DOMAIN mem.padding /\ ptr'[w] + want'[w].size <= top
                               /\ Live(w)
        <4>1. CASE w = v
          BY <2>1, <2>2, <2>8, <4>1
        <4>2. CASE w # v
          <5>1. ptr'[w] = ptr[w] /\ want'[w] = want[w] /\ Live(w)
            BY <2>8, <3>1, <4>2 DEF Live
          <5>2. QED
            BY <2>1, <2>2, <2>3, <2>4, <4>2, <5>1
        <4>3. QED
          BY <4>1, <4>2
      <3>2. QED
        BY <3>1
    <2>10. ASSUME NEW q \in DOMAIN mem'.padding
           PROVE  /\ q \in Unit /\ mem'.padding[q] \in 1 .. MaxAlign
                  /\ Base <= q - mem'.padding[q] /\ q <= Base + mem'.offset
                  /\ \A w \in Var : Live(w)' /\ ptr'[w] < q
                       => ptr'[w] + want'[w].size <= q - mem'.padding[q]
      <3>1. CASE q = p
        <4>1. mem'.padding[q] = p - top /\ top >= Base
          BY <2>1, <2>2, <3>1 DEF top
        <4>2. \A w \in Var : Live(w)' /\ ptr'[w] < q => ptr'[w] + want'[w].size <= top
          BY <2>2, <2>8, <2>9, <3>1
        <4>3. q - mem'.padding[q] = top
          BY <2>2, <2>3, <3>1, <4>1
        <4>4. QED
          BY <2>1, <2>2, <2>3, <2>6, <3>1, <4>1, <4>2, <4>3
      <3>2. CASE q # p
        <4>1. q \in DOMAIN mem.padding /\ mem'.padding[q] = mem.padding[q] /\ q <= top
          BY <2>2, <2>5, <3>2
        <4>2. /\ q \in Unit /\ mem.padding[q] \in 1 .. MaxAlign /\ Base <= q - mem.padding[q]
              /\ \A w \in Var : Live(w) /\ ptr[w] < q => ptr[w] + want[w].size <= q - mem.padding[q]
          BY <4>1 DEF StackInv
        <4>3. q <= Base + mem'.offset
          BY <2>1, <2>2, <2>3, <4>1
        <4>4. ASSUME NEW w \in Var, Live(w)', ptr'[w] < q
              PROVE  ptr'[w] + want'[w].size <= q - mem'.padding[q]
          <5>1. w # v
            BY <2>1, <2>2, <2>3, <2>8, <4>1, <4>4
          <5>2. Live(w) /\ ptr'[w] = ptr[w] /\ want'[w] = want[w]
            BY <2>8, <2>9, <4>4, <5>1
          <5>3. QED
            BY <4>1, <4>2, <4>4, <5>2
        <4>5. QED
          BY <4>1, <4>2, <4>3, <4>4
      <3>3. QED
        BY <3>1, <3>2
    <2>11. ASSUME NEW q \in DOMAIN mem'.padding, NEW t \in DOMAIN mem'.padding, q < t
           PROVE  q <= t - mem'.padding[t]
      <3>1. CASE t = p
        <4>1. q \in DOMAIN mem.padding /\ q <= top
          BY <2>1, <2>2, <2>5, <2>11, <3>1
        <4>2. t - mem'.padding[t] = top
          BY <2>2, <2>3, <3>1
        <4>3. QED
          BY <4>1, <4>2
      <3>2. CASE t # p
        <4>1. t \in DOMAIN mem.padding /\ t <= top /\ mem'.padding[t] = mem.padding[t]
          BY <2>2, <2>5, <3>2
        <4>2. q \in DOMAIN mem.padding
          BY <2>1, <2>2, <2>3, <2>11, <4>1
        <4>3. QED
          BY <2>11, <4>1, <4>2 DEF StackInv
      <3>3. QED
        BY <3>1, <3>2
    <2>12. mem' = [offset |-> mem'.offset, padding |-> mem'.padding] /\ mem'.offset \in 0 .. Size
      BY <2>1, <2>2, <2>3 DEF top
    <2>13. StackInv'
      BY <2>9, <2>10, <2>11, <2>12 DEF StackInv
    <2>14. QED
      BY <2>8, <2>13
  <1>4. QED
    BY <1>2, <1>3

LEMMA StackAllocStep ==
  ASSUME Client, StackInv, kind = "stack", kind' = kind, NEW v \in Var, StackAlloc(v)
  PROVE  Client' /\ AbstractStep /\ StackInv'
  <1>1. PICK n \in Requests, align \in Alignments :
          LET r == StackAllocAlign(mem, n, align) IN mem' = r.mem /\ Keep(v, r.p, n, align)
    BY DEF StackAlloc
  <1>2. fault' \in Faults
    BY DEF StackAlloc, Client, ClientTypeOK, Faults
  <1> DEFINE r == StackAllocAlign(mem, n, align)
  <1>3. mem' = r.mem /\ Keep(v, r.p, n, align)
    BY <1>1
  <1>4. n \in Nat /\ n > 0 /\ align \in Nat \ {0}
    BY RequestIs, AlignmentIs
  <1> HIDE DEF r
  <1>5. QED
    BY <1>2, <1>3, <1>4, StackGrants DEF r

(* The padding of a header leads back to the end of what lies below. *)
LEMMA StackFreeStep ==
  ASSUME Client, StackInv, kind = "stack", kind' = kind, NEW v \in Var, StackFree(v)
  PROVE  Client' /\ AbstractStep /\ StackInv'
  <1> DEFINE p == ptr[v]
             S == {w \in Var : ptr[w] >= p}
             D == {q \in DOMAIN mem.padding : q < p}
             new == p - mem.padding[p] - Base
  <1>1. Live(v) /\ mem' = StackFreed(mem, p) /\ Forget(S) /\ UNCHANGED fault
    BY DEF StackFree
  <1>2. fault' \in Faults /\ S \in SUBSET Var
    BY <1>1 DEF Client, ClientTypeOK, Faults
  <1>3. /\ Base \in Nat /\ Base >= 1 /\ Size \in Nat /\ End = Base + Size /\ MaxAlign \in Nat
        /\ mem.offset \in Nat /\ mem.offset <= Size
        /\ \A q \in DOMAIN mem.padding :
             /\ q \in Nat /\ q >= Base /\ mem.padding[q] \in Nat /\ mem.padding[q] >= 1
             /\ mem.padding[q] <= MaxAlign
    BY StackMemIs
  <1>4. /\ p \in DOMAIN mem.padding /\ p + want[v].size <= Base + mem.offset
        /\ p \in Nat /\ want[v].size \in Nat /\ want[v].size > 0
    BY <1>1, VarIs DEF StackInv
  <1>5. mem' = [offset |-> new, padding |-> Restrict(mem.padding, D)]
    <2>1. ~(p >= Base + mem.offset)
      BY <1>3, <1>4
    <2>2. QED
      BY <1>1, <2>1 DEF StackFreed
  <1>6. /\ DOMAIN Restrict(mem.padding, D) = D
        /\ \A q \in D : Restrict(mem.padding, D)[q] = mem.padding[q]
    BY DEF Restrict
  <1>7. new \in 0 .. Size /\ Base + new = p - mem.padding[p]
    <2>1. Base <= p - mem.padding[p] /\ p <= Base + mem.offset /\ mem.padding[p] \in Nat
      BY <1>3, <1>4 DEF StackInv
    <2> DEFINE x == mem.padding[p]
               o == mem.offset
    <2> HIDE DEF x, p, o
    <2>2. p - x - Base \in 0 .. Size /\ Base + (p - x - Base) = p - x
      BY <1>3, <1>4, <2>1 DEF x, o
    <2>3. QED
      BY <2>2 DEF x
  <1> HIDE DEF new, D, S, p
  <1>8. /\ mem' = [offset |-> mem'.offset, padding |-> mem'.padding] /\ mem'.offset = new
        /\ DOMAIN mem'.padding = D /\ \A q \in D : mem'.padding[q] = mem.padding[q]
    BY <1>5, <1>6
  <1>9. /\ Client' /\ AbstractStep
        /\ \A w \in S : ~Live(w)' /\ ptr'[w] = NULL
        /\ \A w \in Var \ S : ptr'[w] = ptr[w] /\ want'[w] = want[w]
    BY <1>1, <1>2, ForgetStep DEF Faults
  <1>10. \A w \in Var : Live(w)' => Live(w) /\ w \in Var \ S /\ ptr[w] < p
    <2>1. ASSUME NEW w \in Var, Live(w)'
          PROVE  Live(w) /\ w \in Var \ S /\ ptr[w] < p
      <3>1. w \in Var \ S
        BY <1>9, <2>1
      <3>2. Live(w)
        BY <1>9, <2>1, <3>1 DEF Live
      <3>3. ptr[w] \in Nat /\ ~(ptr[w] >= p)
        BY <3>1, VarIs DEF S
      <3>4. QED
        BY <1>4, <3>1, <3>2, <3>3
    <2>2. QED
      BY <2>1
  <1>11. \A q \in D : q \in DOMAIN mem.padding /\ q < p
    BY DEF D
  <1>12. \A w \in Var : Live(w)' =>
           ptr'[w] \in DOMAIN mem'.padding /\ ptr'[w] + want'[w].size <= Base + mem'.offset
    <2>1. ASSUME NEW w \in Var, Live(w)'
          PROVE  ptr'[w] \in DOMAIN mem'.padding /\ ptr'[w] + want'[w].size <= Base + mem'.offset
      <3>1. Live(w) /\ ptr[w] < p /\ ptr'[w] = ptr[w] /\ want'[w] = want[w]
        BY <1>9, <1>10, <2>1
      <3>2. ptr[w] \in DOMAIN mem.padding /\ ptr[w] + want[w].size <= p - mem.padding[p]
        BY <1>4, <3>1 DEF StackInv
      <3>3. ptr[w] \in D
        BY <3>1, <3>2 DEF D
      <3>4. QED
        BY <1>7, <1>8, <3>1, <3>2, <3>3
    <2>2. QED
      BY <2>1
  <1>13. ASSUME NEW q \in DOMAIN mem'.padding
         PROVE  /\ q \in Unit /\ mem'.padding[q] \in 1 .. MaxAlign
                /\ Base <= q - mem'.padding[q] /\ q <= Base + mem'.offset
                /\ \A w \in Var : Live(w)' /\ ptr'[w] < q
                     => ptr'[w] + want'[w].size <= q - mem'.padding[q]
    <2>1. q \in DOMAIN mem.padding /\ q < p /\ mem'.padding[q] = mem.padding[q]
      BY <1>8, <1>11
    <2>2. /\ q \in Unit /\ mem.padding[q] \in 1 .. MaxAlign /\ Base <= q - mem.padding[q]
          /\ \A w \in Var : Live(w) /\ ptr[w] < q => ptr[w] + want[w].size <= q - mem.padding[q]
          /\ q <= p - mem.padding[p]
      BY <1>4, <2>1 DEF StackInv
    <2>3. q <= Base + mem'.offset
      BY <1>7, <1>8, <2>2
    <2>4. \A w \in Var : Live(w)' /\ ptr'[w] < q => ptr'[w] + want'[w].size <= q - mem'.padding[q]
      BY <1>9, <1>10, <2>1, <2>2
    <2>5. QED
      BY <2>1, <2>2, <2>3, <2>4
  <1>14. ASSUME NEW q \in DOMAIN mem'.padding, NEW t \in DOMAIN mem'.padding, q < t
         PROVE  q <= t - mem'.padding[t]
    BY <1>8, <1>11, <1>14 DEF StackInv
  <1>15. mem'.offset \in 0 .. Size
    BY <1>7, <1>8
  <1>16. StackInv'
    BY <1>8, <1>12, <1>13, <1>14, <1>15 DEF StackInv
  <1>17. QED
    BY <1>9, <1>16

LEMMA KeepSame ==
  ASSUME Client, NEW v \in Var, Live(v), Keep(v, ptr[v], want[v].size, want[v].align)
  PROVE  UNCHANGED <<ptr, want>>
  <1>1. ptr' = [ptr EXCEPT ![v] = ptr[v]]
        /\ want' = [want EXCEPT ![v] = [size |-> want[v].size, align |-> want[v].align]]
    BY DEF Keep, Live
  <1>2. want[v] = [size |-> want[v].size, align |-> want[v].align]
    BY VarIs
  <1>3. ptr \in [Var -> Unit \cup {NULL}] /\ want \in [Var -> [size : 0 .. Size, align : Nat \ {0}]]
    BY DEF Client, ClientTypeOK
  <1>4. QED
    BY <1>1, <1>2, <1>3

LEMMA StackResizeStep ==
  ASSUME Client, StackInv, kind = "stack", kind' = kind, NEW v \in Var, StackResize(v)
  PROVE  Client' /\ AbstractStep /\ StackInv'
  <1> DEFINE p == ptr[v]
             align == want[v].align
             old == want[v].size
  <1>1. PICK n \in Requests :
          LET r == StackResizeAlign(mem, p, old, n, align)
          IN  mem' = r.mem /\ fault' = r.fault /\ Keep(v, r.p, n, align)
    BY DEF StackResize
  <1> DEFINE moved == StackAllocAlign(mem, n, align)
  <1>2. Live(v)
    BY DEF StackResize
  <1>3. /\ p \in Nat /\ p >= Base /\ p \in Unit /\ p # NULL
        /\ old \in Nat /\ old > 0 /\ align \in Nat \ {0} /\ p % AlignOf(align) = 0
        /\ n \in Nat /\ n > 0
    BY <1>2, VarIs, RequestIs DEF Live
  <1>4. /\ Base \in Nat /\ Base >= 1 /\ Size \in Nat /\ End = Base + Size /\ MaxAlign \in Nat
        /\ mem.offset \in Nat /\ mem.offset <= Size
        /\ \A q \in DOMAIN mem.padding :
             /\ q \in Nat /\ q >= Base /\ mem.padding[q] \in Nat /\ mem.padding[q] >= 1
             /\ mem.padding[q] <= MaxAlign
    BY StackMemIs
  <1>5. p \in DOMAIN mem.padding /\ p + old <= Base + mem.offset /\ ~(p >= Base + mem.offset)
    <2>1. p \in DOMAIN mem.padding /\ p + old <= Base + mem.offset
      BY <1>2 DEF StackInv
    <2>2. QED
      BY <1>3, <1>4, <2>1
  <1>6. CASE old = n
    <2>1. mem' = mem /\ Keep(v, p, n, align) /\ fault' = "none"
      BY <1>1, <1>5, <1>6 DEF StackResizeAlign
    <2>2. UNCHANGED <<mem, ptr, want>>
      BY <1>2, <1>6, <2>1, KeepSame
    <2>3. QED
      BY <2>1, <2>2, StayStep, StackStays
  <1>7. CASE old # n /\ ~OnTop(mem, p, old)
    <2>1. mem' = moved.mem /\ Keep(v, moved.p, n, align) /\ fault' \in Faults
      BY <1>1, <1>5, <1>7 DEF StackResizeAlign, Faults
    <2> HIDE DEF moved, align
    <2>2. QED
      BY <1>3, <2>1, StackGrants DEF moved
  <1>8. CASE old # n /\ OnTop(mem, p, old) /\ mem.offset + n - old > Size
    <2>1. mem' = mem /\ Keep(v, NULL, n, align) /\ fault' = "none"
      BY <1>1, <1>5, <1>8 DEF StackResizeAlign
    <2>2. UNCHANGED <<mem, ptr, want>>
      BY <2>1, KeepNull
    <2>3. QED
      BY <2>1, <2>2, StayStep, StackStays
  <1>9. CASE old # n /\ OnTop(mem, p, old) /\ ~(mem.offset + n - old > Size)
    <2> DEFINE o == mem.offset
    <2>1. mem' = [mem EXCEPT !.offset = @ + n - old] /\ Keep(v, p, n, align) /\ fault' = "none"
      BY <1>1, <1>5, <1>9 DEF StackResizeAlign
    <2>2. /\ mem' = [offset |-> mem'.offset, padding |-> mem'.padding]
          /\ mem'.offset = o + n - old /\ mem'.padding = mem.padding
      <3>1. mem = [offset |-> mem.offset, padding |-> mem.padding]
        BY DEF StackInv
      <3>2. QED
        BY <2>1, <3>1
    <2> HIDE DEF p, align, old, o
    <2>3. o \in Nat /\ o <= Size /\ p = Base + o - old /\ o + n - old <= Size
      BY <1>3, <1>4, <1>9 DEF OnTop, o
    <2>4. o + n - old \in 0 .. Size /\ p + n = Base + (o + n - old) /\ p <= Base + (o + n - old)
          /\ p + old = Base + o /\ p + n <= End
      BY <1>3, <1>4, <2>3
    <2>5. \A w \in Var \ {v} : Live(w) => ptr[w] + want[w].size <= p
      <3>1. ASSUME NEW w \in Var \ {v}, Live(w)
            PROVE  ptr[w] + want[w].size <= p
        <4>1. ptr[w] \in Nat /\ want[w].size \in Nat /\ want[w].size > 0
          BY <3>1, VarIs
        <4>2. ptr[w] + want[w].size <= Base + o
          BY <3>1 DEF StackInv, o
        <4>3. p + old <= ptr[w] \/ ptr[w] + want[w].size <= p
          BY <1>2, <3>1 DEF Client, Beyond, p, old
        <4>4. QED
          BY <1>3, <1>4, <2>3, <2>4, <4>1, <4>2, <4>3
      <3>2. QED
        BY <3>1
    <2>6. /\ Client' /\ AbstractStep
          /\ Live(v)' /\ ptr'[v] = p /\ want'[v] = [size |-> n, align |-> align]
          /\ \A w \in Var \ {v} : ptr'[w] = ptr[w] /\ want'[w] = want[w]
      <3>1. \A w \in Var \ {v} : Live(w) => Beyond(w, p, n)
        BY <2>5 DEF Beyond
      <3>2. QED
        BY <1>3, <2>1, <2>4, <3>1, GiveStep DEF Measured
    <2>7. \A q \in DOMAIN mem.padding : q <= p
      <3>1. ASSUME NEW q \in DOMAIN mem.padding, ~(q <= p)
            PROVE  FALSE
        <4>1. q \in Nat /\ p < q /\ mem.padding[q] \in Nat /\ mem.padding[q] >= 1
          BY <1>3, <1>4, <3>1
        <4>2. q <= Base + o /\ p + old <= q - mem.padding[q]
          BY <1>2, <4>1 DEF StackInv, o, p, old
        <4>3. QED
          BY <1>3, <1>4, <2>3, <2>4, <4>1, <4>2
      <3>2. QED
        BY <3>1
    <2>8. \A w \in Var : Live(w)' =>
            ptr'[w] \in DOMAIN mem'.padding /\ ptr'[w] + want'[w].size <= Base + mem'.offset
      <3>1. ASSUME NEW w \in Var, Live(w)'
            PROVE  ptr'[w] \in DOMAIN mem'.padding /\ ptr'[w] + want'[w].size <= Base + mem'.offset
        <4>1. CASE w = v
          BY <1>4, <1>5, <2>2, <2>4, <2>6, <4>1 DEF p
        <4>2. CASE w # v
          <5>1. ptr'[w] = ptr[w] /\ want'[w] = want[w] /\ Live(w)
            BY <2>6, <3>1, <4>2 DEF Live
          <5>2. /\ ptr[w] \in DOMAIN mem.padding /\ ptr[w] + want[w].size <= p
                /\ ptr[w] \in Nat /\ want[w].size \in Nat
            BY <2>5, <4>2, <5>1, VarIs DEF StackInv
          <5>3. QED
            BY <1>3, <1>4, <2>2, <2>3, <2>4, <5>1, <5>2
        <4>3. QED
          BY <4>1, <4>2
      <3>2. QED
        BY <3>1
    <2>9. ASSUME NEW q \in DOMAIN mem'.padding
          PROVE  /\ q \in Unit /\ mem'.padding[q] \in 1 .. MaxAlign
                 /\ Base <= q - mem'.padding[q] /\ q <= Base + mem'.offset
                 /\ \A w \in Var : Live(w)' /\ ptr'[w] < q
                      => ptr'[w] + want'[w].size <= q - mem'.padding[q]
      <3>1. /\ q \in Unit /\ mem.padding[q] \in 1 .. MaxAlign /\ Base <= q - mem.padding[q]
            /\ \A w \in Var : Live(w) /\ ptr[w] < q => ptr[w] + want[w].size <= q - mem.padding[q]
            /\ q <= p /\ q \in Nat
        BY <1>4, <2>2, <2>7 DEF StackInv
      <3>2. q <= Base + mem'.offset
        BY <1>3, <1>4, <2>2, <2>3, <2>4, <3>1
      <3>3. ASSUME NEW w \in Var, Live(w)', ptr'[w] < q
            PROVE  ptr'[w] + want'[w].size <= q - mem'.padding[q]
        <4>1. w # v
          BY <1>3, <2>6, <3>1, <3>3
        <4>2. ptr'[w] = ptr[w] /\ want'[w] = want[w] /\ Live(w)
          BY <2>6, <3>3, <4>1 DEF Live
        <4>3. QED
          BY <2>2, <3>1, <3>3, <4>2
      <3>4. QED
        BY <2>2, <3>1, <3>2, <3>3
    <2>10. \A q, t \in DOMAIN mem'.padding : q < t => q <= t - mem'.padding[t]
      BY <2>2 DEF StackInv
    <2>11. mem'.offset \in 0 .. Size
      BY <2>2, <2>4
    <2>12. StackInv'
      BY <2>2, <2>8, <2>9, <2>10, <2>11 DEF StackInv
    <2>13. QED
      BY <2>6, <2>12
  <1>10. QED
    BY <1>6, <1>7, <1>8, <1>9

LEMMA StackStep ==
  ASSUME Client, StackInv, kind = "stack", kind' = kind, StackNext
  PROVE  Client' /\ AbstractStep /\ StackInv'
  <1>1. CASE StackFreeAll
    <2>1. mem' = [offset |-> 0, padding |-> << >>] /\ Forget(Var) /\ UNCHANGED fault
      BY <1>1 DEF StackFreeAll, StackEmpty
    <2>2. fault' \in Faults /\ Var \in SUBSET Var
      BY <2>1 DEF Client, ClientTypeOK, Faults
    <2>3. Client' /\ AbstractStep /\ \A w \in Var : ~Live(w)'
      BY <2>1, <2>2, ForgetStep DEF Faults
    <2>4. DOMAIN << >> = {}
      OBVIOUS
    <2>5. StackInv'
      BY <2>1, <2>3, <2>4, Bounds DEF StackInv
    <2>6. QED
      BY <2>3, <2>5
  <1>2. QED
    BY <1>1, StackAllocStep, StackFreeStep, StackResizeStep DEF StackNext

LEMMA StackIsSound ==
  ASSUME StackInv
  PROVE  StackSound
  BY DEF StackInv, StackSound

-----------------------------------------------------------------------------
(* The bitmap: the bit of a block is off exactly while a variable has it. *)
BitAddr(m, b) == Base + m * MaskBits + b

BitmapInv ==
  /\ mem \in [Mask -> SUBSET Bit]
  /\ \A v \in Var : Live(v) =>
       want[v].size = 1 /\ \E m \in Mask, b \in Bit : b \notin mem[m] /\ ptr[v] = BitAddr(m, b)
  /\ \A m \in Mask : \A b \in Bit : b \notin mem[m] => \E v \in Var : ptr[v] = BitAddr(m, b)

LEMMA MinIs ==
  ASSUME NEW S \in SUBSET Nat, S # {}
  PROVE  Min(S) \in S /\ \A y \in S : Min(S) <= y
  <1>1. PICK m \in S : \A x \in Nat : x < m => x \notin S
    BY LeastIndex
  <1>2. \A y \in S : m <= y
    BY <1>1
  <1>3. Min(S) = CHOOSE x \in S : \A y \in S : x <= y
    BY DEF Min
  <1>4. QED
    BY Zenon, <1>2, <1>3

LEMMA BitAddrIs ==
  ASSUME NEW m \in Mask, NEW b \in Bit
  PROVE  /\ BitAddr(m, b) \in Unit /\ BitAddr(m, b) \in Nat /\ BitAddr(m, b) + 1 <= End
         /\ BitAddr(m, b) # NULL
         /\ (BitAddr(m, b) - Base) \div MaskBits = m /\ (BitAddr(m, b) - Base) % MaskBits = b
  <1>1. /\ MaskBits \in Nat \ {0} /\ MaskLen \in Nat \ {0} /\ MaskLen * MaskBits <= Size
        /\ m \in Nat /\ m <= MaskLen - 1 /\ b \in 0 .. MaskBits - 1
        /\ Base \in Nat /\ Base >= 1 /\ Size \in Nat /\ End = Base + Size
    BY MaskAssumption, Bounds DEF Mask, Bit
  <1> DEFINE x == MaskBits * m
             all == MaskLen * MaskBits
  <1>2. x \in Nat /\ m * MaskBits = x /\ all \in Nat
    BY <1>1
  <1>3. x + MaskBits <= all
    <2>1. MaskLen - 1 - m \in Nat
      BY <1>1
    <2> DEFINE k == MaskLen - 1 - m
    <2>2. MaskBits * k \in Nat /\ MaskLen = m + 1 + k
      BY <1>1, <2>1
    <2> HIDE DEF k
    <2>3. (m + 1 + k) * MaskBits = MaskBits * m + MaskBits + MaskBits * k
      BY <1>1, <2>1 DEF k
    <2>4. all = x + MaskBits + MaskBits * k
      BY <2>2, <2>3
    <2> HIDE DEF all, x
    <2>5. QED
      BY <1>1, <1>2, <2>2, <2>4
  <1>4. (x + b) % MaskBits = b /\ (x + b) \div MaskBits = m
    BY <1>1, Remains
  <1>5. BitAddr(m, b) = Base + x + b /\ all <= Size
    BY <1>1, <1>2 DEF BitAddr
  <1> HIDE DEF x, all
  <1>6. Base + x + b \in Nat /\ (Base + x + b) - Base = x + b /\ Base + x + b + 1 <= End
        /\ Base + x + b >= Base /\ Base + x + b < End
    BY <1>1, <1>2, <1>3, <1>5
  <1>7. QED
    BY <1>1, <1>4, <1>5, <1>6, Bounds DEF NULL

LEMMA BitAddrSame ==
  ASSUME NEW m \in Mask, NEW b \in Bit, NEW n \in Mask, NEW c \in Bit,
         BitAddr(m, b) = BitAddr(n, c)
  PROVE  m = n /\ b = c
  BY BitAddrIs

LEMMA BitmapBegins ==
  ASSUME ClientInit, BitmapInit, kind = "bitmap"
  PROVE  BitmapInv
  BY DEF ClientInit, BitmapInit, BitmapInv, Live, NULL

LEMMA BitmapStays ==
  ASSUME Client, BitmapInv, UNCHANGED <<mem, ptr, want>>
  PROVE  BitmapInv'
  BY DEF BitmapInv, Live

LEMMA BitmapAllocStep ==
  ASSUME Client, BitmapInv, kind = "bitmap", kind' = kind, NEW v \in Var, BitmapAlloc(v)
  PROVE  Client' /\ AbstractStep /\ BitmapInv'
  <1>1. CASE FirstMask = {}
    <2>1. fault' = "overrun" /\ UNCHANGED <<mem, ptr, want>>
      BY <1>1 DEF BitmapAlloc
    <2>2. QED
      BY <2>1, StayStep, BitmapStays
  <1>2. CASE FirstMask # {}
    <2>1. PICK m \in FirstMask :
            LET bit == Min(mem[m])
            IN  /\ mem' = [mem EXCEPT ![m] = @ \ {bit}]
                /\ Keep(v, Base + m * MaskBits + bit, 1, 1)
      BY <1>2 DEF BitmapAlloc
    <2> DEFINE bit == Min(mem[m])
               p == BitAddr(m, bit)
    <2>2. fault' = fault /\ ~Live(v)
      BY <1>2 DEF BitmapAlloc
    <2>3. m \in Mask /\ mem[m] # {} /\ mem[m] \in SUBSET Bit
      <3> DEFINE some == {k \in Mask : mem[k] # {}}
      <3>1. FirstMask = IF some = {} THEN {} ELSE {Min(some)}
        BY DEF FirstMask
      <3>2. some # {} /\ m = Min(some)
        BY <1>2, <3>1
      <3>3. some \in SUBSET Nat
        BY DEF Mask
      <3> HIDE DEF some
      <3>4. Min(some) \in some
        BY <3>2, <3>3, MinIs
      <3>5. QED
        BY Zenon, <3>2, <3>4 DEF some, BitmapInv
    <2>4. bit \in mem[m] /\ bit \in Bit
      <3>1. mem[m] \in SUBSET Nat
        BY <2>3 DEF Bit
      <3>2. QED
        BY <2>3, <3>1, MinIs
    <2> HIDE DEF bit
    <2>5. mem' = [mem EXCEPT ![m] = @ \ {bit}] /\ Keep(v, p, 1, 1)
      BY <2>1 DEF BitAddr, bit
    <2>6. p \in Unit /\ p + 1 <= End /\ p \in Nat /\ p # NULL
      BY <2>3, <2>4, BitAddrIs
    <2>7. \A w \in Var : ptr[w] # p
      <3>1. ASSUME NEW w \in Var, ptr[w] = p
            PROVE  FALSE
        <4>1. PICK n \in Mask, c \in Bit : c \notin mem[n] /\ ptr[w] = BitAddr(n, c)
          BY <2>6, <3>1 DEF BitmapInv, Live
        <4>2. BitAddr(m, bit) = BitAddr(n, c)
          BY <3>1, <4>1
        <4> HIDE DEF p
        <4>9. m = n /\ bit = c
          BY ONLY <2>3, <2>4, <4>1, <4>2, BitAddrSame
        <4>10. QED
          BY <2>4, <4>1, <4>9
      <3>2. QED
        BY <3>1
    <2>8. \A w \in Var \ {v} : Live(w) => Beyond(w, p, 1)
      <3>1. ASSUME NEW w \in Var \ {v}, Live(w)
            PROVE  Beyond(w, p, 1)
        <4>1. ptr[w] \in Nat /\ want[w].size = 1 /\ ptr[w] # p
          BY <2>7, <3>1, VarIs DEF BitmapInv
        <4> HIDE DEF p
        <4>2. QED
          BY <2>6, <4>1 DEF Beyond
      <3>2. QED
        BY <3>1
    <2>9. /\ Client' /\ AbstractStep
          /\ Live(v)' /\ ptr'[v] = p /\ want'[v] = [size |-> 1, align |-> 1]
          /\ \A w \in Var \ {v} : ptr'[w] = ptr[w] /\ want'[w] = want[w]
      <3>1. fault' \in {"none", "assert", "null", "overrun"} /\ AlignOf(1) = 1 /\ Measured(p) % 1 = 0
        BY <2>2, <2>6 DEF Client, ClientTypeOK, AlignOf, Measured
      <3> DEFINE n == 1
      <3>2. n \in Nat /\ n > 0 /\ n \in Nat \ {0} /\ p + n <= End /\ Keep(v, p, n, n)
            /\ AlignOf(n) = n /\ Measured(p) % n = 0 /\ \A w \in Var \ {v} : Live(w) => Beyond(w, p, n)
        BY <2>5, <2>6, <2>8, <3>1
      <3> HIDE DEF p, n
      <3>3. /\ Client' /\ AbstractStep
            /\ Live(v)' /\ ptr'[v] = p /\ want'[v] = [size |-> n, align |-> n]
            /\ \A w \in Var \ {v} : ptr'[w] = ptr[w] /\ want'[w] = want[w]
        BY <2>6, <3>1, <3>2, GiveStep
      <3>4. QED
        BY <3>3 DEF n
    <2>10. /\ mem' \in [Mask -> SUBSET Bit] /\ mem'[m] = mem[m] \ {bit}
           /\ \A n \in Mask \ {m} : mem'[n] = mem[n]
      BY <2>3, <2>5 DEF BitmapInv
    <2>11. ASSUME NEW w \in Var, Live(w)'
           PROVE  /\ want'[w].size = 1
                  /\ \E n \in Mask, c \in Bit : c \notin mem'[n] /\ ptr'[w] = BitAddr(n, c)
      <3>1. CASE w = v
        <4>1. bit \notin mem'[m] /\ ptr'[w] = BitAddr(m, bit) /\ want'[w].size = 1
          BY <2>9, <2>10, <3>1
        <4>2. QED
          BY <2>3, <2>4, <4>1
      <3>2. CASE w # v
        <4>1. Live(w) /\ ptr'[w] = ptr[w] /\ want'[w] = want[w]
          BY <2>9, <2>11, <3>2 DEF Live
        <4>2. QED
          BY <2>10, <4>1 DEF BitmapInv
      <3>3. QED
        BY <3>1, <3>2
    <2>12. ASSUME NEW n \in Mask, NEW c \in Bit, c \notin mem'[n]
           PROVE  \E w \in Var : ptr'[w] = BitAddr(n, c)
      <3>1. CASE n = m /\ c = bit
        BY <2>9, <3>1
      <3>2. CASE ~(n = m /\ c = bit)
        <4>1. c \notin mem[n]
          BY <2>10, <2>12, <3>2
        <4>2. PICK w \in Var : ptr[w] = BitAddr(n, c)
          BY <4>1 DEF BitmapInv
        <4>3. w # v
          BY <2>2, <4>2, BitAddrIs DEF Live
        <4>4. QED
          BY <2>9, <4>2, <4>3
      <3>3. QED
        BY <3>1, <3>2
    <2>13. BitmapInv'
      BY <2>10, <2>11, <2>12 DEF BitmapInv
    <2>14. QED
      BY <2>9, <2>13
  <1>3. QED
    BY <1>1, <1>2

LEMMA BitmapFreeStep ==
  ASSUME Client, BitmapInv, kind = "bitmap", kind' = kind, NEW v \in Var, BitmapFree(v)
  PROVE  Client' /\ AbstractStep /\ BitmapInv'
  <1>1. Live(v) /\ Forget({v}) /\ UNCHANGED fault /\ {v} \in SUBSET Var
    BY DEF BitmapFree
  <1>2. PICK m \in Mask, b \in Bit : b \notin mem[m] /\ ptr[v] = BitAddr(m, b)
    BY <1>1 DEF BitmapInv
  <1>3. mem' = [mem EXCEPT ![m] = @ \cup {b}]
    <2>1. (ptr[v] - Base) \div MaskBits = m /\ (ptr[v] - Base) % MaskBits = b
      BY <1>2, BitAddrIs
    <2>2. QED
      BY Zenon, <2>1 DEF BitmapFree
  <1>4. /\ Client' /\ AbstractStep
        /\ ~Live(v)' /\ ptr'[v] = NULL
        /\ \A w \in Var \ {v} : ptr'[w] = ptr[w] /\ want'[w] = want[w]
    <2>1. fault' \in {"none", "assert", "null", "overrun"}
      BY <1>1 DEF Client, ClientTypeOK
    <2>2. QED
      BY <1>1, <2>1, ForgetStep
  <1>5. /\ mem' \in [Mask -> SUBSET Bit] /\ mem'[m] = mem[m] \cup {b}
        /\ \A n \in Mask \ {m} : mem'[n] = mem[n]
    BY <1>3 DEF BitmapInv
  <1>6. ASSUME NEW w \in Var, Live(w)'
        PROVE  /\ want'[w].size = 1
               /\ \E n \in Mask, c \in Bit : c \notin mem'[n] /\ ptr'[w] = BitAddr(n, c)
    <2>1. w # v /\ Live(w) /\ ptr'[w] = ptr[w] /\ want'[w] = want[w]
      BY <1>4, <1>6 DEF Live
    <2>2. PICK n \in Mask, c \in Bit : c \notin mem[n] /\ ptr[w] = BitAddr(n, c)
      BY <2>1 DEF BitmapInv
    <2>3. ptr[w] # ptr[v]
      <3>1. /\ ptr[v] + want[v].size <= ptr[w] \/ ptr[w] + want[w].size <= ptr[v]
            /\ want[v].size = 1 /\ want[w].size = 1 /\ ptr[w] \in Nat
        BY <1>1, <2>1, VarIs DEF Client, Beyond, BitmapInv
      <3>2. QED
        BY <3>1
    <2>4. ~(n = m /\ c = b)
      BY <1>2, <2>2, <2>3
    <2>5. c \notin mem'[n]
      BY <1>5, <2>2, <2>4
    <2>6. want[w].size = 1
      BY <2>1 DEF BitmapInv
    <2>7. QED
      BY <2>1, <2>2, <2>5, <2>6
  <1>7. ASSUME NEW n \in Mask, NEW c \in Bit, c \notin mem'[n]
        PROVE  \E w \in Var : ptr'[w] = BitAddr(n, c)
    <2>1. c \notin mem[n] /\ ~(n = m /\ c = b)
      BY <1>5, <1>7
    <2>2. PICK w \in Var : ptr[w] = BitAddr(n, c)
      BY <2>1 DEF BitmapInv
    <2>3. w # v
      BY <1>2, <2>1, <2>2, BitAddrSame
    <2>4. QED
      BY <1>4, <2>2, <2>3
  <1>8. BitmapInv'
    BY <1>5, <1>6, <1>7 DEF BitmapInv
  <1>9. QED
    BY <1>4, <1>8

LEMMA BitmapStep ==
  ASSUME Client, BitmapInv, kind = "bitmap", kind' = kind, BitmapNext
  PROVE  Client' /\ AbstractStep /\ BitmapInv'
  BY BitmapAllocStep, BitmapFreeStep DEF BitmapNext

LEMMA BitmapIsSound ==
  ASSUME Client, BitmapInv
  PROVE  BitmapSound
  <1> DEFINE held == {ptr[v] : v \in Var} \ {NULL}
             all == {BitAddr(m, b) : m \in Mask, b \in Bit}
             open == UNION {{BitAddr(m, b) : b \in mem[m]} : m \in Mask}
  <1>1. ASSUME NEW a \in held
        PROVE  a \in all \ open
    <2>1. PICK v \in Var : a = ptr[v] /\ Live(v)
      BY <1>1 DEF Live
    <2>2. PICK m \in Mask, b \in Bit : b \notin mem[m] /\ ptr[v] = BitAddr(m, b)
      BY <2>1 DEF BitmapInv
    <2>3. ASSUME a \in open
          PROVE  FALSE
      <3>1. PICK n \in Mask : \E c \in mem[n] : a = BitAddr(n, c)
        BY <2>3
      <3>2. PICK c \in mem[n] : a = BitAddr(n, c)
        BY <3>1
      <3>3. c \in Bit
        BY <3>2 DEF BitmapInv
      <3>4. BitAddr(m, b) = BitAddr(n, c)
        BY <2>1, <2>2, <3>2
      <3>5. m = n /\ b = c
        BY ONLY <2>2, <3>1, <3>3, <3>4, BitAddrSame
      <3>6. QED
        BY <2>2, <3>2, <3>5
    <2>4. QED
      BY <2>1, <2>2, <2>3
  <1>2. ASSUME NEW a \in all \ open
        PROVE  a \in held
    <2>1. PICK m \in Mask, b \in Bit : a = BitAddr(m, b)
      BY <1>2
    <2>2. b \notin mem[m]
      BY <1>2, <2>1
    <2>3. PICK v \in Var : ptr[v] = BitAddr(m, b)
      BY <2>2 DEF BitmapInv
    <2>4. a # NULL
      BY <2>1, BitAddrIs
    <2>5. QED
      BY <2>1, <2>3, <2>4
  <1>3. held = all \ open
    <2> HIDE DEF held, all, open
    <2>1. QED
      BY <1>1, <1>2
  <1>4. QED
    BY <1>3 DEF BitmapSound, BitAddr

-----------------------------------------------------------------------------
(* The pool of chunks. *)
Count == buf_len \div chunk_size
ChunkAt(i) == Base + i * chunk_size

LEMMA ChunkIs ==
  /\ ChunkAlign \in Nat \ {0} /\ ChunkSize \in Nat /\ ChunkSize > 0 /\ ChunkSize <= chunk_size
  /\ chunk_size \in Nat \ {0} /\ chunk_size <= Size /\ chunk_size % ChunkAlign = 0
  /\ Count \in Nat \ {0} /\ Count * chunk_size <= Size /\ Count <= Size
  <1>1. PICK k \in 0 .. Size : ChunkAlign = 2 ^ k
    BY ChunkAssumption
  <1>2. /\ ChunkAlign \in Nat \ {0} /\ ChunkSize \in Nat \ {0} /\ chunk_size <= buf_len
        /\ Size \in Nat /\ Base \in Nat
    <2>1. k \in Nat
      OBVIOUS
    <2>2. QED
      BY <1>1, <2>1, ChunkAssumption, PowIs, Bounds
  <1>3. /\ chunk_size \in Nat /\ chunk_size >= ChunkSize /\ chunk_size % ChunkAlign = 0
    BY <1>2, AlignForward DEF chunk_size
  <1> DEFINE c == chunk_size
             len == buf_len
             r == len % c
             x == c * Count
  <1>4. c \in Nat \ {0} /\ c <= len /\ len \in Nat /\ len <= Size
    <2>1. align_forward(Base, ChunkAlign) \in Nat /\ align_forward(Base, ChunkAlign) >= Base
      BY <1>2, AlignForward
    <2>2. len \in Int /\ len <= Size
      BY <1>2, <2>1 DEF buf_len
    <2>3. QED
      BY <1>2, <1>3, <2>2
  <1>5. len = x + r /\ r \in 0 .. c - 1 /\ Count \in Int
    <2> HIDE DEF c, len
    <2>1. len = c * (len \div c) + (len % c) /\ len % c \in 0 .. c - 1 /\ len \div c \in Int
      BY <1>4, DivMod
    <2>2. QED
      BY <2>1 DEF Count, c, len
  <1>6. x \in Int /\ Count * c = x
    BY <1>4, <1>5
  <1>7. x > 0 /\ x <= len
    <2> HIDE DEF x, r, c, len
    <2>1. QED
      BY <1>4, <1>5, <1>6
  <1>8. Count >= 1
    <2>1. \A q \in Int : q <= 0 => c * q <= 0
      BY <1>4
    <2>2. QED
      BY <1>5, <1>6, <1>7, <2>1
  <1>9. Count <= x
    <2>1. \A q \in Int : q >= 1 => c * q >= q
      BY <1>4
    <2>2. QED
      BY <1>5, <1>8, <2>1
  <1> HIDE DEF x, r, len
  <1>10. QED
    BY <1>2, <1>3, <1>4, <1>5, <1>6, <1>7, <1>8, <1>9

LEMMA ChunkAtIs ==
  ASSUME NEW i \in 0 .. Count - 1
  PROVE  /\ ChunkAt(i) \in Nat /\ ChunkAt(i) \in Unit /\ ChunkAt(i) + chunk_size <= End
         /\ (ChunkAt(i) - Base) % ChunkAlign = 0 /\ ChunkAt(i) # NULL /\ ChunkAt(i) >= Base
         /\ \A j \in 0 .. Count - 1 : j < i => ChunkAt(j) + chunk_size <= ChunkAt(i)
         /\ i > 0 => ChunkAt(i - 1) = ChunkAt(i) - chunk_size
         /\ ChunkAt(0) = Base
  <1> DEFINE c == chunk_size
  <1>1. /\ c \in Nat \ {0} /\ Count \in Nat /\ Count * c <= Size /\ i \in Nat /\ i + 1 <= Count
        /\ c % ChunkAlign = 0 /\ ChunkAlign \in Nat \ {0}
        /\ Base \in Nat /\ Base >= 1 /\ Size \in Nat /\ End = Base + Size
    BY ChunkIs, Bounds
  <1> HIDE DEF c
  <1>2. \A a, b \in Nat : a <= b => a * c <= b * c
    <2>1. ASSUME NEW a \in Nat, NEW b \in Nat, a <= b
          PROVE  a * c <= b * c
      <3> DEFINE d == b - a
      <3>1. d \in Nat /\ b = a + d
        BY <2>1
      <3> HIDE DEF d
      <3>2. (a + d) * c = a * c + d * c /\ a * c \in Nat /\ d * c \in Nat
        BY <1>1, <3>1
      <3>3. QED
        BY <3>1, <3>2
    <2>2. QED
      BY <2>1
  <1>3. \A a \in Nat : (a + 1) * c = a * c + c /\ a * c \in Nat
    BY <1>1
  <1>4. (i + 1) * c <= Count * c
    BY <1>1, <1>2
  <1>5. i * c \in Nat /\ (i + 1) * c = i * c + c /\ Count * c \in Nat
    BY <1>1, <1>3
  <1>6. (i * c) % ChunkAlign = 0
    <2> DEFINE q == c \div ChunkAlign
    <2>1. c = ChunkAlign * q /\ q \in Int
      <3>1. c = ChunkAlign * q + (c % ChunkAlign) /\ q \in Int
        BY <1>1, DivMod
      <3>2. ChunkAlign * q \in Int
        BY <1>1, <3>1
      <3> HIDE DEF q
      <3>3. QED
        BY <1>1, <3>1, <3>2
    <2> HIDE DEF q
    <2>2. i * c = ChunkAlign * (i * q) /\ i * q \in Int
      BY <1>1, <2>1
    <2>3. QED
      BY <1>1, <2>2, Multiple
  <1> DEFINE x == i * c
  <1>7. x % ChunkAlign = 0
    BY <1>6
  <1>8. x \in Nat /\ x + c <= Count * c /\ Count * c \in Nat /\ Count * c <= Size
    BY <1>1, <1>4, <1>5
  <1>9. ChunkAt(i) = Base + x
    BY DEF ChunkAt, c
  <1>10. ASSUME NEW j \in 0 .. Count - 1, j < i
         PROVE  ChunkAt(j) + c <= ChunkAt(i)
    <2>1. j \in Nat /\ j + 1 <= i
      BY <1>1, <1>10
    <2>2. (j + 1) * c <= x /\ (j + 1) * c = j * c + c /\ j * c \in Nat
      BY <1>1, <1>2, <1>3, <2>1
    <2>3. ChunkAt(j) = Base + j * c
      BY DEF ChunkAt, c
    <2> HIDE DEF x
    <2>4. QED
      BY <1>1, <1>8, <1>9, <2>2, <2>3
  <1>11. i > 0 => ChunkAt(i - 1) = ChunkAt(i) - c
    <2>1. ASSUME i > 0
          PROVE  ChunkAt(i - 1) = ChunkAt(i) - c
      <3>1. i - 1 \in Nat /\ (i - 1) + 1 = i
        BY <1>1, <2>1
      <3>2. x = (i - 1) * c + c /\ (i - 1) * c \in Nat
        BY <1>3, <3>1
      <3>3. ChunkAt(i - 1) = Base + (i - 1) * c
        BY DEF ChunkAt, c
      <3> HIDE DEF x
      <3>4. QED
        BY <1>1, <1>8, <1>9, <3>2, <3>3
    <2>2. QED
      BY <2>1
  <1>12. ChunkAt(0) = Base
    <2>1. 0 * c = 0
      BY <1>1
    <2>2. QED
      BY <1>1, <2>1 DEF ChunkAt, c
  <1>13. (ChunkAt(i) - Base) % ChunkAlign = 0
    <2>1. x \in Int /\ Base \in Int
      BY <1>1, <1>5
    <2> HIDE DEF x
    <2>2. ChunkAt(i) - Base = x
      BY <1>9, <2>1
    <2>3. QED
      BY <1>7, <2>2
  <1> HIDE DEF x
  <1>14. /\ ChunkAt(i) \in Nat /\ ChunkAt(i) + c <= End /\ ChunkAt(i) # 0 /\ ChunkAt(i) >= Base
         /\ ChunkAt(i) < End
    BY <1>1, <1>8, <1>9
  <1>15. QED
    BY <1>10, <1>11, <1>12, <1>13, <1>14, Bounds DEF NULL, c

LEMMA ChunksApart ==
  ASSUME NEW a \in Chunk, NEW b \in Chunk
  PROVE  /\ a \in Nat /\ a \in Unit /\ a # NULL /\ a + ChunkSize <= End /\ (a - Base) % ChunkAlign = 0
         /\ a # b => a + ChunkSize <= b \/ b + ChunkSize <= a
  <1>1. PICK i \in 0 .. Count - 1 : a = ChunkAt(i)
    BY DEF Chunk, Count, ChunkAt
  <1>2. PICK j \in 0 .. Count - 1 : b = ChunkAt(j)
    BY DEF Chunk, Count, ChunkAt
  <1>3. /\ a \in Nat /\ b \in Nat /\ a \in Unit /\ a # NULL /\ a + chunk_size <= End
        /\ (a - Base) % ChunkAlign = 0
        /\ j < i => b + chunk_size <= a
        /\ i < j => a + chunk_size <= b
    BY <1>1, <1>2, ChunkAtIs
  <1>4. /\ ChunkSize \in Nat /\ chunk_size \in Nat /\ ChunkSize <= chunk_size /\ Count \in Nat
        /\ End \in Nat
    BY ChunkIs, Bounds
  <1>5. i = j => a = b
    BY <1>1, <1>2
  <1>6. i < j \/ j < i \/ i = j
    BY <1>4
  <1>7. QED
    BY <1>3, <1>4, <1>5, <1>6

(* The list: f[1 .. n] are the free chunks from its head on. *)
Chained(n, f, m, F) ==
  /\ f[n + 1] = NULL /\ m.head = f[1]
  /\ \A i \in 1 .. n : f[i] \in Chunk /\ m.next[f[i]] = f[i + 1]
  /\ \A i, j \in 1 .. n : f[i] = f[j] => i = j
  /\ F = {f[i] : i \in 1 .. n}

ChunkInv ==
  /\ mem = [head |-> mem.head, next |-> mem.next]
  /\ mem.next \in [Chunk -> Chunk \cup {NULL}]
  /\ \A v \in Var : Live(v) =>
       ptr[v] \in Chunk /\ want[v] = [size |-> ChunkSize, align |-> ChunkAlign]
  /\ \E n \in Nat : \E f : Chained(n, f, mem, Chunk \ {ptr[v] : v \in Var})

LEMMA NotChunk == NULL \notin Chunk
  BY ChunksApart

LEMMA ChunksFreedIs ==
  ASSUME NEW m, m.head = NULL
  PROVE  /\ ChunksFreed(m) = [head |-> ChunksFreed(m).head, next |-> ChunksFreed(m).next]
         /\ ChunksFreed(m).next \in [Chunk -> Chunk \cup {NULL}]
         /\ \E n \in Nat : \E f : Chained(n, f, ChunksFreed(m), Chunk)
  <1> DEFINE nx == [c \in Chunk |-> IF c = Base THEN NULL ELSE c - chunk_size]
             N == Count
             f == [i \in 1 .. N + 1 |-> IF i = N + 1 THEN NULL ELSE ChunkAt(N - i)]
             r == [head |-> ChunkAt(N - 1), next |-> nx]
  <1>1. ChunksFreed(m) = r
    BY DEF ChunksFreed, ChunkAt, Count
  <1>2. N \in Nat \ {0}
    BY ChunkIs
  <1>3. \A i \in 0 .. N - 1 : ChunkAt(i) \in Chunk
    BY DEF Chunk, ChunkAt, Count
  <1>4. \A c \in Chunk : \E i \in 0 .. N - 1 : c = ChunkAt(i)
    BY DEF Chunk, ChunkAt, Count
  <1>5. \A i \in 0 .. N - 1 : /\ i # 0 => /\ ChunkAt(i) # Base
                                         /\ ChunkAt(i) - chunk_size = ChunkAt(i - 1)
                              /\ i = 0 => ChunkAt(i) = Base
    <2>1. ASSUME NEW i \in 0 .. N - 1
          PROVE  /\ i # 0 => ChunkAt(i) # Base /\ ChunkAt(i) - chunk_size = ChunkAt(i - 1)
                 /\ i = 0 => ChunkAt(i) = Base
      <3>1. /\ ChunkAt(0) = Base /\ (i > 0 => ChunkAt(i - 1) = ChunkAt(i) - chunk_size)
            /\ \A j \in 0 .. N - 1 : j < i => ChunkAt(j) + chunk_size <= ChunkAt(i)
            /\ ChunkAt(i) \in Nat
        BY ChunkAtIs
      <3>2. chunk_size \in Nat \ {0} /\ Base \in Nat /\ i \in Nat /\ (i # 0 => 0 < i /\ 0 \in 0 .. N - 1)
        BY <1>2, ChunkIs, Bounds
      <3>3. i # 0 => Base + chunk_size <= ChunkAt(i)
        BY <3>1, <3>2
      <3>4. QED
        BY <3>1, <3>2, <3>3
    <2>2. QED
      BY <2>1
  <1> HIDE DEF N
  <1>6. nx \in [Chunk -> Chunk \cup {NULL}]
    <2>1. ASSUME NEW c \in Chunk
          PROVE  nx[c] \in Chunk \cup {NULL}
      <3>1. PICK i \in 0 .. N - 1 : c = ChunkAt(i)
        BY <1>4
      <3>2. CASE i = 0
        BY <1>5, <3>1, <3>2
      <3>3. CASE i # 0
        <4>1. i - 1 \in 0 .. N - 1
          BY <1>2, <3>3
        <4>2. nx[c] = ChunkAt(i - 1)
          BY <1>5, <3>1, <3>3
        <4>3. QED
          BY <1>3, <4>1, <4>2
      <3>4. QED
        BY <3>2, <3>3
    <2>2. QED
      BY <2>1
  <1>7. ASSUME NEW i \in 1 .. N
        PROVE  f[i] \in Chunk /\ r.next[f[i]] = f[i + 1]
    <2>1. /\ N - i \in 0 .. N - 1 /\ i + 1 \in 1 .. N + 1 /\ i # N + 1 /\ i \in 1 .. N + 1
          /\ (N - i = 0 <=> i + 1 = N + 1) /\ N - i - 1 = N - (i + 1)
      BY <1>2
    <2>2. f[i] = ChunkAt(N - i) /\ f[i] \in Chunk
      BY <1>3, <2>1
    <2>3. r.next[f[i]] = IF N - i = 0 THEN NULL ELSE ChunkAt(N - i - 1)
      BY <1>5, <2>1, <2>2
    <2>4. QED
      BY <2>1, <2>2, <2>3
  <1>8. ASSUME NEW i \in 1 .. N, NEW j \in 1 .. N, f[i] = f[j]
        PROVE  i = j
    <2>1. /\ N - i \in 0 .. N - 1 /\ N - j \in 0 .. N - 1 /\ i # N + 1 /\ j # N + 1
          /\ i \in 1 .. N + 1 /\ j \in 1 .. N + 1
      BY <1>2
    <2>2. ChunkAt(N - i) = ChunkAt(N - j)
      BY <1>8, <2>1
    <2> DEFINE a == N - i
               b == N - j
    <2>3. a = b
      <3>1. a \in 0 .. Count - 1 /\ b \in 0 .. Count - 1 /\ ChunkAt(a) = ChunkAt(b)
        BY <2>1, <2>2 DEF N
      <3> HIDE DEF a, b
      <3>2. /\ ChunkAt(a) \in Nat /\ ChunkAt(b) \in Nat
            /\ a < b => ChunkAt(a) + chunk_size <= ChunkAt(b)
            /\ b < a => ChunkAt(b) + chunk_size <= ChunkAt(a)
        BY <3>1, ChunkAtIs
      <3>3. chunk_size \in Nat \ {0} /\ Count \in Nat
        BY ChunkIs
      <3>4. QED
        BY <3>1, <3>2, <3>3
    <2>4. QED
      BY <1>2, <2>3
  <1>9. Chunk = {f[i] : i \in 1 .. N}
    <2>1. ASSUME NEW c \in Chunk
          PROVE  \E i \in 1 .. N : f[i] = c
      <3>1. PICK j \in 0 .. N - 1 : c = ChunkAt(j)
        BY <1>4
      <3>2. N - j \in 1 .. N /\ N - j \in 1 .. N + 1 /\ N - j # N + 1 /\ N - (N - j) = j
        BY <1>2
      <3>3. f[N - j] = c
        BY <3>1, <3>2
      <3>4. QED
        BY <3>2, <3>3
    <2>2. \A i \in 1 .. N : f[i] \in Chunk
      BY Zenon, <1>7
    <2> HIDE DEF f
    <2>3. QED
      BY ONLY <2>1, <2>2
  <1>10. f[N + 1] = NULL /\ f[1] = ChunkAt(N - 1)
    BY <1>2
  <1> HIDE DEF f, nx
  <1>11. r.head = f[1] /\ r.next = nx
    BY <1>10
  <1>12. Chained(N, f, r, Chunk)
    BY <1>7, <1>8, <1>9, <1>10, <1>11 DEF Chained
  <1>13. r = [head |-> r.head, next |-> r.next]
    OBVIOUS
  <1> HIDE DEF r
  <1>14. QED
    BY <1>1, <1>2, <1>6, <1>11, <1>12, <1>13

LEMMA ChunkBegins ==
  ASSUME ClientInit, ChunkInit
  PROVE  ChunkInv
  <1> DEFINE m == [head |-> NULL]
  <1>1. m.head = NULL /\ mem = ChunksFreed(m)
    BY DEF ChunkInit
  <1> HIDE DEF m
  <1>2. /\ mem = [head |-> mem.head, next |-> mem.next]
        /\ mem.next \in [Chunk -> Chunk \cup {NULL}]
        /\ \E n \in Nat : \E f : Chained(n, f, mem, Chunk)
    BY <1>1, ChunksFreedIs
  <1>3. \A v \in Var : ptr[v] = NULL
    BY Zenon DEF ClientInit
  <1>4. Chunk = Chunk \ {ptr[v] : v \in Var}
    BY <1>3, NotChunk
  <1>5. QED
    BY Zenon, <1>2, <1>3, <1>4 DEF ChunkInv, Live

LEMMA ChunkStays ==
  ASSUME ChunkInv, UNCHANGED <<mem, ptr, want>>
  PROVE  ChunkInv'
  BY DEF ChunkInv, Live, Chained

LEMMA ChunkAllocStep ==
  ASSUME Client, ChunkInv, kind = "chunks", kind' = kind, NEW v \in Var, ChunkAlloc(v)
  PROVE  Client' /\ AbstractStep /\ ChunkInv'
  <1>0. fault \in {"none", "assert", "null", "overrun"} /\ ~Live(v)
    BY DEF ChunkAlloc, Client, ClientTypeOK
  <1>1. CASE mem.head = NULL
    <2>1. fault' = "assert" /\ UNCHANGED <<mem, ptr, want>>
      BY <1>1 DEF ChunkAlloc
    <2>2. QED
      BY <2>1, StayStep, ChunkStays
  <1>2. CASE mem.head # NULL
    <2> DEFINE p == mem.head
               F == Chunk \ {ptr[w] : w \in Var}
    <2>1. /\ mem' = [mem EXCEPT !.head = mem.next[p], !.next[p] = NULL]
          /\ Keep(v, p, ChunkSize, ChunkAlign) /\ fault' = fault
      BY <1>2 DEF ChunkAlloc
    <2>2. PICK n \in Nat : \E f : Chained(n, f, mem, F)
      BY Zenon DEF ChunkInv
    <2>3. PICK f : Chained(n, f, mem, F)
      BY <2>2
    <2>4. /\ f[n + 1] = NULL /\ p = f[1]
          /\ \A i \in 1 .. n : f[i] \in Chunk /\ mem.next[f[i]] = f[i + 1]
          /\ \A i, j \in 1 .. n : f[i] = f[j] => i = j
          /\ F = {f[i] : i \in 1 .. n}
      BY <2>3 DEF Chained
    <2>5. n # 0 /\ 1 \in 1 .. n
      <3>1. n # 0
        BY <1>2, <2>4
      <3>2. QED
        BY <3>1
    <2>6. p \in Chunk /\ p \in F /\ mem.next[p] = f[2]
      BY <2>4, <2>5
    <2> HIDE DEF p
    <2>7. /\ Client' /\ AbstractStep
          /\ Live(v)' /\ ptr'[v] = p /\ want'[v] = [size |-> ChunkSize, align |-> ChunkAlign]
          /\ \A w \in Var \ {v} : ptr'[w] = ptr[w] /\ want'[w] = want[w]
      <3>1. /\ p \in Unit /\ p + ChunkSize <= End /\ (p - Base) % ChunkAlign = 0 /\ p \in Nat
        BY <2>6, ChunksApart
      <3>2. ChunkSize \in Nat /\ ChunkSize > 0 /\ ChunkAlign \in Nat \ {0}
        BY ChunkIs
      <3>3. AlignOf(ChunkAlign) = ChunkAlign /\ Measured(p) = p - Base
        BY DEF AlignOf, Measured
      <3>4. \A w \in Var \ {v} : Live(w) => Beyond(w, p, ChunkSize)
        <4>1. ASSUME NEW w \in Var \ {v}, Live(w)
              PROVE  Beyond(w, p, ChunkSize)
          <5>1. ptr[w] \in Chunk /\ want[w].size = ChunkSize
            BY <4>1 DEF ChunkInv
          <5>2. ptr[w] # p
            BY <2>6
          <5>3. p + ChunkSize <= ptr[w] \/ ptr[w] + ChunkSize <= p
            BY <2>6, <5>1, <5>2, ChunksApart
          <5>4. QED
            BY <5>1, <5>3 DEF Beyond
        <4>2. QED
          BY <4>1
      <3>5. Measured(p) % AlignOf(ChunkAlign) = 0
        BY <3>1, <3>3
      <3>6. fault' \in {"none", "assert", "null", "overrun"}
        BY <1>0, <2>1
      <3>7. QED
        BY <2>1, <3>1, <3>2, <3>4, <3>5, <3>6, GiveStep
    <2>8. /\ mem' = [head |-> f[2], next |-> [mem.next EXCEPT ![p] = NULL]]
          /\ mem'.head = f[2] /\ mem'.next = [mem.next EXCEPT ![p] = NULL]
      <3>1. mem = [head |-> mem.head, next |-> mem.next]
        BY DEF ChunkInv
      <3> DEFINE hd == mem.head
                 nx == mem.next
      <3>2. mem = [head |-> hd, next |-> nx] /\ mem' = [mem EXCEPT !.head = f[2], !.next[p] = NULL]
        BY <2>1, <2>6, <3>1
      <3> HIDE DEF hd, nx
      <3>3. mem' = [head |-> f[2], next |-> [nx EXCEPT ![p] = NULL]]
        BY Zenon, <3>2
      <3>4. QED
        BY <3>3 DEF nx
    <2>9. mem.next \in [Chunk -> Chunk \cup {NULL}]
      BY DEF ChunkInv
    <2>10. /\ mem'.next \in [Chunk -> Chunk \cup {NULL}]
           /\ \A c \in Chunk \ {p} : mem'.next[c] = mem.next[c]
      BY Zenon, <2>8, <2>9
    <2> DEFINE m == n - 1
               g == [i \in 1 .. m + 1 |-> f[i + 1]]
    <2>11. m \in Nat /\ m + 1 = n
      BY <2>5
    <2>12. Chained(m, g, mem', F \ {p})
      <3>1. \A i \in 1 .. m : i \in 1 .. m + 1 /\ i + 1 \in 1 .. m + 1 /\ i + 1 \in 1 .. n
                              /\ (i + 1) + 1 = i + 2 /\ i + 1 # 1
        BY <2>11
      <3>2. g[m + 1] = NULL /\ mem'.head = g[1]
        <4>1. m + 1 \in 1 .. m + 1 /\ 1 \in 1 .. m + 1 /\ (m + 1) + 1 = n + 1
          BY <2>11
        <4> HIDE DEF m
        <4>2. g[m + 1] = f[n + 1] /\ g[1] = f[2]
          BY <4>1
        <4>3. QED
          BY <2>4, <2>8, <4>2
      <3>3. \A i \in 1 .. m : g[i] = f[i + 1] /\ g[i + 1] = f[i + 2]
        BY <3>1
      <3> HIDE DEF m, g
      <3>4. ASSUME NEW i \in 1 .. m
            PROVE  g[i] \in Chunk /\ mem'.next[g[i]] = g[i + 1]
        <4>1. i + 1 \in 1 .. n /\ (i + 1) + 1 = i + 2 /\ i + 1 # 1
          BY <3>1
        <4>2. f[i + 1] \in Chunk /\ mem.next[f[i + 1]] = f[i + 2] /\ f[i + 1] # p
          BY <2>4, <2>5, <4>1
        <4>3. QED
          BY <2>10, <3>3, <4>2
      <3>5. ASSUME NEW i \in 1 .. m, NEW j \in 1 .. m, g[i] = g[j]
            PROVE  i = j
        <4>1. i + 1 = j + 1
          BY <2>4, <3>1, <3>3, <3>5
        <4>2. QED
          BY <4>1
      <3>6. F \ {p} = {g[i] : i \in 1 .. m}
        <4>1. ASSUME NEW i \in 1 .. m
              PROVE  g[i] \in F \ {p}
          <5>1. i + 1 \in 1 .. n /\ i + 1 # 1 /\ g[i] = f[i + 1]
            BY <3>1, <3>3
          <5>2. QED
            BY <2>4, <2>5, <5>1
        <4>2. ASSUME NEW c \in F \ {p}
              PROVE  \E i \in 1 .. m : g[i] = c
          <5>1. PICK j \in 1 .. n : f[j] = c
            BY <2>4
          <5>2. j # 1
            BY <2>4, <4>2, <5>1
          <5>3. j - 1 \in 1 .. m /\ (j - 1) + 1 = j
            BY <2>11, <5>2
          <5>4. g[j - 1] = c
            BY <3>3, <5>1, <5>3
          <5>5. QED
            BY <5>3, <5>4
        <4> HIDE DEF F
        <4>3. QED
          BY <4>1, <4>2
      <3> HIDE DEF F
      <3>7. QED
        BY <3>2, <3>4, <3>5, <3>6 DEF Chained
    <2>13. F \ {p} = Chunk \ {ptr'[w] : w \in Var}
      <3>1. \A c \in Chunk : c \in {ptr'[w] : w \in Var} <=> c = p \/ c \in {ptr[w] : w \in Var}
        <4>1. ptr[v] = NULL
          BY <1>0 DEF Live
        <4>2. QED
          BY <2>7, <4>1, NotChunk
      <3>2. QED
        BY <3>1
    <2>14. \A w \in Var : Live(w)' =>
             ptr'[w] \in Chunk /\ want'[w] = [size |-> ChunkSize, align |-> ChunkAlign]
      <3>1. ASSUME NEW w \in Var, Live(w)'
            PROVE  ptr'[w] \in Chunk /\ want'[w] = [size |-> ChunkSize, align |-> ChunkAlign]
        <4>1. CASE w = v
          BY <2>6, <2>7, <4>1
        <4>2. CASE w # v
          BY <2>7, <3>1, <4>2 DEF ChunkInv, Live
        <4>3. QED
          BY <4>1, <4>2
      <3>2. QED
        BY <3>1
    <2>15. mem' = [head |-> mem'.head, next |-> mem'.next]
      BY <2>8
    <2> HIDE DEF F, m, g
    <2>16. ChunkInv'
      BY Zenon, <2>10, <2>11, <2>12, <2>13, <2>14, <2>15 DEF ChunkInv
    <2>17. QED
      BY <2>7, <2>16
  <1>3. QED
    BY <1>1, <1>2

LEMMA ChunkFreeStep ==
  ASSUME Client, ChunkInv, kind = "chunks", kind' = kind, NEW v \in Var, ChunkFree(v)
  PROVE  Client' /\ AbstractStep /\ ChunkInv'
  <1> DEFINE p == ptr[v]
             F == Chunk \ {ptr[w] : w \in Var}
  <1>1. /\ Live(v) /\ Forget({v}) /\ fault' = fault /\ {v} \in SUBSET Var
        /\ mem' = [mem EXCEPT !.head = p, !.next[p] = mem.head]
    BY DEF ChunkFree
  <1>2. /\ Client' /\ AbstractStep /\ ~Live(v)' /\ ptr'[v] = NULL
        /\ \A w \in Var \ {v} : ptr'[w] = ptr[w] /\ want'[w] = want[w]
    <2>1. fault' \in {"none", "assert", "null", "overrun"}
      BY <1>1 DEF Client, ClientTypeOK
    <2>2. QED
      BY <1>1, <2>1, ForgetStep
  <1>3. p \in Chunk /\ p \notin F
    BY <1>1 DEF ChunkInv
  <1>4. PICK n \in Nat : \E f : Chained(n, f, mem, F)
    BY Zenon DEF ChunkInv
  <1>5. PICK f : Chained(n, f, mem, F)
    BY <1>4
  <1>6. /\ f[n + 1] = NULL /\ mem.head = f[1]
        /\ \A i \in 1 .. n : f[i] \in Chunk /\ mem.next[f[i]] = f[i + 1]
        /\ \A i, j \in 1 .. n : f[i] = f[j] => i = j
        /\ F = {f[i] : i \in 1 .. n}
    BY <1>5 DEF Chained
  <1>7. mem.next \in [Chunk -> Chunk \cup {NULL}]
    BY DEF ChunkInv
  <1>8. \A w \in Var \ {v} : Live(w) => ptr[w] # p
    <2>1. ASSUME NEW w \in Var \ {v}, Live(w)
          PROVE  ptr[w] # p
      <3>1. /\ p + want[w].size <= ptr[w] \/ ptr[w] + want[w].size <= p
            /\ want[w].size = ChunkSize
        BY <1>1, <2>1 DEF Client, Beyond, ChunkInv
      <3>2. p \in Nat /\ ChunkSize \in Nat /\ ChunkSize > 0
        BY <1>3, ChunksApart, ChunkIs
      <3>3. QED
        BY <3>1, <3>2
    <2>2. QED
      BY <2>1
  <1> HIDE DEF p
  <1>9. /\ mem' = [head |-> p, next |-> [mem.next EXCEPT ![p] = mem.head]]
        /\ mem'.head = p /\ mem'.next = [mem.next EXCEPT ![p] = mem.head]
    <2>1. mem = [head |-> mem.head, next |-> mem.next]
      BY DEF ChunkInv
    <2> DEFINE hd == mem.head
               nx == mem.next
    <2>2. mem = [head |-> hd, next |-> nx] /\ mem' = [mem EXCEPT !.head = p, !.next[p] = hd]
      BY <1>1, <2>1
    <2> HIDE DEF hd, nx
    <2>3. mem' = [head |-> p, next |-> [nx EXCEPT ![p] = hd]]
      BY Zenon, <2>2
    <2>4. QED
      BY <2>3 DEF nx, hd
  <1>10. f[1] \in Chunk \cup {NULL}
    BY <1>6
  <1>11. /\ mem'.next \in [Chunk -> Chunk \cup {NULL}] /\ mem'.next[p] = f[1]
         /\ \A c \in Chunk \ {p} : mem'.next[c] = mem.next[c]
    BY <1>3, <1>6, <1>7, <1>9, <1>10
  <1> DEFINE m == n + 1
             g == [i \in 1 .. m + 1 |-> IF i = 1 THEN p ELSE f[i - 1]]
  <1>12. m \in Nat
    OBVIOUS
  <1>13. Chained(m, g, mem', F \cup {p})
    <2>1. g[1] = p /\ g[m + 1] = NULL
      <3>1. 1 \in 1 .. m + 1 /\ m + 1 \in 1 .. m + 1 /\ m + 1 # 1 /\ (m + 1) - 1 = n + 1
        OBVIOUS
      <3> HIDE DEF m
      <3>2. g[m + 1] = f[n + 1]
        BY <3>1
      <3>3. QED
        BY <1>6, <3>1, <3>2
    <2>2. \A i \in 1 .. n : g[i + 1] = f[i]
      <3>1. \A i \in 1 .. n : i + 1 \in 1 .. m + 1 /\ i + 1 # 1 /\ (i + 1) - 1 = i
        OBVIOUS
      <3> HIDE DEF m
      <3>2. QED
        BY <3>1
    <2>3. g[2] = f[1] /\ \A i \in 1 .. n : g[(i + 1) + 1] = f[i + 1]
      <3>1. \A i \in 1 .. n : (i + 1) + 1 \in 1 .. m + 1 /\ (i + 1) + 1 # 1 /\ ((i + 1) + 1) - 1 = i + 1
        OBVIOUS
      <3>2. 2 \in 1 .. m + 1 /\ 2 # 1 /\ 2 - 1 = 1
        OBVIOUS
      <3> HIDE DEF m
      <3>3. QED
        BY <3>1, <3>2
    <2>4. \A i \in 1 .. m : i = 1 \/ \E j \in 1 .. n : i = j + 1
      <3>1. \A i \in 1 .. m : i = 1 \/ (i - 1 \in 1 .. n /\ i = (i - 1) + 1)
        OBVIOUS
      <3>2. QED
        BY <3>1
    <2> HIDE DEF g
    <2>5. ASSUME NEW i \in 1 .. m
          PROVE  g[i] \in Chunk /\ mem'.next[g[i]] = g[i + 1]
      <3>1. CASE i = 1
        BY <1>3, <1>11, <2>1, <2>3, <3>1
      <3>2. CASE i # 1
        <4>1. PICK j \in 1 .. n : i = j + 1
          BY <2>4, <3>2
        <4>2. f[j] \in F
          BY <1>6
        <4>3. f[j] \in Chunk /\ f[j] # p
          BY <1>3, <1>6, <4>2
        <4>4. QED
          BY <1>6, <1>11, <2>2, <2>3, <4>1, <4>3
      <3>3. QED
        BY <3>1, <3>2
    <2>6. ASSUME NEW i \in 1 .. m, NEW j \in 1 .. m, g[i] = g[j]
          PROVE  i = j
      <3>1. \A k \in 1 .. n : f[k] # p
        BY <1>3, <1>6
      <3>2. CASE i = 1
        BY <2>1, <2>2, <2>4, <2>6, <3>1, <3>2
      <3>3. CASE j = 1
        BY <2>1, <2>2, <2>4, <2>6, <3>1, <3>3
      <3>4. CASE i # 1 /\ j # 1
        <4>1. PICK k \in 1 .. n : i = k + 1
          BY <2>4, <3>4
        <4>2. PICK l \in 1 .. n : j = l + 1
          BY <2>4, <3>4
        <4>3. f[k] = f[l]
          BY <2>2, <2>6, <4>1, <4>2
        <4>4. QED
          BY <1>6, <4>1, <4>2, <4>3
      <3>5. QED
        BY <3>2, <3>3, <3>4
    <2>7. F \cup {p} = {g[i] : i \in 1 .. m}
      <3>1. ASSUME NEW i \in 1 .. m
            PROVE  g[i] \in F \cup {p}
        <4>1. CASE i = 1
          BY <2>1, <4>1
        <4>2. CASE i # 1
          <5>1. PICK j \in 1 .. n : i = j + 1
            BY <2>4, <4>2
          <5>2. f[j] \in F /\ g[i] = f[j]
            BY <1>6, <2>2, <5>1
          <5>3. QED
            BY <5>2
        <4>3. QED
          BY <4>1, <4>2
      <3>2. ASSUME NEW c \in F \cup {p}
            PROVE  \E i \in 1 .. m : g[i] = c
        <4>1. CASE c = p
          <5>1. 1 \in 1 .. m
            OBVIOUS
          <5>2. QED
            BY <2>1, <4>1, <5>1
        <4>2. CASE c \in F
          <5>1. PICK i \in 1 .. n : f[i] = c
            BY <1>6, <4>2
          <5>2. i + 1 \in 1 .. m
            OBVIOUS
          <5>3. QED
            BY <2>2, <5>1, <5>2
        <4>3. QED
          BY <3>2, <4>1, <4>2
      <3> HIDE DEF F
      <3>3. QED
        BY <3>1, <3>2
    <2> HIDE DEF F, m
    <2>8. QED
      BY <1>9, <2>1, <2>5, <2>6, <2>7 DEF Chained
  <1>14. F \cup {p} = Chunk \ {ptr'[w] : w \in Var}
    <2>1. \A w \in Var \ {v} : ptr[w] # p
      BY <1>3, <1>8, NotChunk DEF Live
    <2>2. \A c \in Chunk : c \in {ptr[w] : w \in Var} <=> c = p \/ c \in {ptr'[w] : w \in Var}
      BY <1>2, NotChunk DEF p
    <2>3. p \notin {ptr'[w] : w \in Var}
      BY <1>2, <1>3, <2>1, NotChunk
    <2>4. QED
      BY <1>3, <2>2, <2>3
  <1>15. \A w \in Var : Live(w)' =>
           ptr'[w] \in Chunk /\ want'[w] = [size |-> ChunkSize, align |-> ChunkAlign]
    BY <1>2 DEF ChunkInv, Live
  <1>16. mem' = [head |-> mem'.head, next |-> mem'.next]
    BY <1>9
  <1> HIDE DEF F, m, g
  <1>n. \E k \in Nat : \E h : Chained(k, h, mem', Chunk \ {ptr'[w] : w \in Var})
    <2>1. Chained(m, g, mem', Chunk \ {ptr'[w] : w \in Var})
      BY <1>13, <1>14
    <2>2. QED
      BY Zenon, <1>12, <2>1
  <1>17. ChunkInv'
    BY Zenon, <1>11, <1>n, <1>15, <1>16 DEF ChunkInv
  <1>18. QED
    BY <1>2, <1>17

LEMMA ChunkFreeAllStep ==
  ASSUME Client, ChunkInv, kind = "chunks", kind' = kind, ChunkFreeAll
  PROVE  Client' /\ AbstractStep /\ ChunkInv'
  <1>1. mem.head = NULL /\ mem' = ChunksFreed(mem) /\ Forget(Var) /\ fault' = fault
    BY DEF ChunkFreeAll
  <1>2. Client' /\ AbstractStep /\ \A w \in Var : ~Live(w)' /\ ptr'[w] = NULL
    <2>1. fault' \in {"none", "assert", "null", "overrun"} /\ Var \in SUBSET Var
      BY <1>1 DEF Client, ClientTypeOK
    <2>2. QED
      BY <1>1, <2>1, ForgetStep
  <1>3. /\ mem' = [head |-> mem'.head, next |-> mem'.next]
        /\ mem'.next \in [Chunk -> Chunk \cup {NULL}]
        /\ \E n \in Nat : \E f : Chained(n, f, mem', Chunk)
    BY <1>1, ChunksFreedIs
  <1>4. Chunk = Chunk \ {ptr'[w] : w \in Var}
    BY <1>2, NotChunk
  <1>5. ChunkInv'
    BY Zenon, <1>2, <1>3, <1>4 DEF ChunkInv
  <1>6. QED
    BY <1>2, <1>5

LEMMA ChunkStep ==
  ASSUME Client, ChunkInv, kind = "chunks", kind' = kind, ChunkNext
  PROVE  Client' /\ AbstractStep /\ ChunkInv'
  BY ChunkAllocStep, ChunkFreeStep, ChunkFreeAllStep DEF ChunkNext

(* There are no more than Size chunks, so Size steps reach the end. *)
LEMMA ChunkIsSound ==
  ASSUME ChunkInv
  PROVE  ChunkSound
  <1> DEFINE F == Chunk \ {ptr[w] : w \in Var}
  <1>1. PICK n \in Nat : \E f : Chained(n, f, mem, F)
    BY Zenon DEF ChunkInv
  <1>2. PICK f : Chained(n, f, mem, F)
    BY Zenon, <1>1
  <1>3. /\ f[n + 1] = NULL /\ mem.head = f[1]
        /\ \A i \in 1 .. n : f[i] \in Chunk /\ mem.next[f[i]] = f[i + 1]
        /\ \A i, j \in 1 .. n : f[i] = f[j] => i = j
        /\ F = {f[i] : i \in 1 .. n}
    BY <1>2 DEF Chained
  <1>4. \A i \in 1 .. n : f[i] # NULL
    BY <1>3, NotChunk
  <1>5. Size \in Nat /\ Size >= 1
    BY HeapAssumption
  <1>6. n <= Size
    <2> DEFINE at == [i \in 0 .. Count - 1 |-> ChunkAt(i)]
               N == 0 .. Count - 1
               g == [i \in 1 .. n |-> CHOOSE j \in N : ChunkAt(j) = f[i]]
    <2>1. \A i \in 1 .. n : g[i] \in N /\ ChunkAt(g[i]) = f[i]
      <3>1. ASSUME NEW i \in 1 .. n
            PROVE  g[i] \in N /\ ChunkAt(g[i]) = f[i]
        <4>1. \E j \in N : ChunkAt(j) = f[i]
          BY <1>3 DEF Chunk, ChunkAt, Count
        <4> HIDE DEF N
        <4>2. QED
          BY <4>1
      <3>2. QED
        BY <3>1
    <2> HIDE DEF g
    <2>2. \A i, j \in 1 .. n : g[i] = g[j] => i = j
      BY <1>3, <2>1
    <2>3. Count \in Nat \ {0} /\ Count <= Size
      BY ChunkIs
    <2> DEFINE h == [i \in 1 .. n |-> g[i]]
    <2>4. h \in [1 .. n -> N]
      BY <2>1
    <2>5. IsFiniteSet(N) /\ Cardinality(N) = Count
      BY <2>3, FS_Interval
    <2>6. IsFiniteSet(1 .. n) /\ Cardinality(1 .. n) = n
      BY FS_Interval
    <2>7. h \in Injection(1 .. n, N)
      <3>1. \A i, j \in 1 .. n : h[i] = h[j] => i = j
        BY <2>2
      <3> HIDE DEF h, N
      <3>2. QED
        BY <2>4, <3>1 DEF Injection, IsInjective
    <2> HIDE DEF h, N
    <2>8. Cardinality(1 .. n) <= Cardinality(N)
      BY ONLY <2>5, <2>7, FS_Injection
    <2>9. QED
      BY <1>5, <2>3, <2>5, <2>6, <2>8
  <1> DEFINE Step(s, k) == IF k = 0 THEN {mem.head} \ {NULL}
                           ELSE s[k - 1] \cup ({mem.next[c] : c \in s[k - 1]} \ {NULL})
             E(s) == s = [k \in 0 .. Size |-> IF k = 0 THEN {mem.head} \ {NULL}
                           ELSE s[k - 1] \cup ({mem.next[c] : c \in s[k - 1]} \ {NULL})]
             h == [k \in 0 .. Size |-> {f[i] : i \in {j \in 1 .. n : j <= k + 1}}]
  <1>7. ASSUME NEW k \in 0 .. Size
        PROVE  h[k] = Step(h, k)
    <2>1. CASE k = 0
      <3>1. h[k] = {f[i] : i \in {j \in 1 .. n : j <= 1}}
        BY <2>1
      <3>2. CASE n = 0
        <4>1. 1 .. n = {} /\ mem.head = NULL
          BY <1>3, <3>2
        <4>2. QED
          BY <2>1, <3>1, <4>1
      <3>3. CASE n # 0
        <4>1. {j \in 1 .. n : j <= 1} = {1} /\ 1 \in 1 .. n
          BY <3>3
        <4>2. QED
          BY <1>3, <1>4, <2>1, <3>1, <4>1
      <3>4. QED
        BY Zenon, <3>2, <3>3
    <2>2. CASE k # 0
      <3>1. k - 1 \in 0 .. Size /\ k \in Nat /\ (k - 1) + 1 = k
        BY <1>5, <2>2
      <3>2. /\ h[k - 1] = {f[i] : i \in {j \in 1 .. n : j <= k}}
            /\ h[k] = {f[i] : i \in {j \in 1 .. n : j <= k + 1}}
        BY <3>1
      <3> DEFINE a == h[k - 1]
                 b == h[k]
      <3> HIDE DEF h
      <3>3. ASSUME NEW c \in b
            PROVE  c \in a \cup ({mem.next[d] : d \in a} \ {NULL})
        <4>1. PICK i \in 1 .. n : i <= k + 1 /\ c = f[i]
          BY <3>2, <3>3
        <4>2. CASE i <= k
          BY <3>2, <4>1, <4>2
        <4>3. CASE ~(i <= k)
          <5>1. i = k + 1 /\ k \in 1 .. n
            BY <2>2, <3>1, <4>1, <4>3
          <5>2. f[k] \in a /\ mem.next[f[k]] = c
            BY <1>3, <3>1, <3>2, <4>1, <5>1
          <5>3. c # NULL
            BY <1>4, <4>1
          <5>4. QED
            BY <5>2, <5>3
        <4>4. QED
          BY <4>2, <4>3
      <3>4. ASSUME NEW c \in a \cup ({mem.next[d] : d \in a} \ {NULL})
            PROVE  c \in b
        <4>1. CASE c \in a
          <5>1. PICK i \in 1 .. n : i <= k /\ c = f[i]
            BY <3>2, <4>1
          <5>2. i <= k + 1
            BY <3>1, <5>1
          <5>3. QED
            BY <3>2, <5>1, <5>2
        <4>2. CASE c \notin a
          <5>1. PICK d \in a : c = mem.next[d] /\ c # NULL
            BY <3>4, <4>2
          <5>2. PICK i \in 1 .. n : i <= k /\ d = f[i]
            BY <3>2
          <5>3. c = f[i + 1]
            BY <1>3, <5>1, <5>2
          <5>4. i # n
            BY <1>3, <5>1, <5>3
          <5>5. i + 1 \in 1 .. n /\ i + 1 <= k + 1
            BY <3>1, <5>2, <5>4
          <5>6. QED
            BY <3>2, <5>3, <5>5
        <4>3. QED
          BY <4>1, <4>2
      <3>5. b = a \cup ({mem.next[d] : d \in a} \ {NULL})
        <4> HIDE DEF a, b
        <4>1. QED
          BY <3>3, <3>4
      <3>6. QED
        BY <2>2, <3>5
    <2>3. QED
      BY Zenon, <2>1, <2>2
  <1>8. E(h)
    BY Zenon, <1>7
  <1> DEFINE s == CHOOSE x : E(x)
  <1>9. E(s)
    BY Zenon, <1>8
  <1>10. ListedChunks = s[Size]
    BY DEF ListedChunks
  <1> HIDE DEF s
  <1>11. \A k \in 0 .. Size : s[k] = Step(s, k)
    BY Zenon, <1>9
  <1>12. ListedChunks = F
    <2>1. /\ s[0] = {mem.head} \ {NULL} /\ h[0] = {mem.head} \ {NULL}
          /\ \A k \in 1 .. Size : s[k] = s[k - 1] \cup ({mem.next[c] : c \in s[k - 1]} \ {NULL})
          /\ \A k \in 1 .. Size : h[k] = h[k - 1] \cup ({mem.next[c] : c \in h[k - 1]} \ {NULL})
      <3>1. 0 \in 0 .. Size /\ \A k \in 1 .. Size : k \in 0 .. Size /\ k # 0
        BY <1>5
      <3> HIDE DEF h
      <3>2. QED
        BY Zenon, <1>7, <1>11, <3>1
    <2>2. h[Size] = F
      <3>1. Size \in 0 .. Size /\ \A j \in 1 .. n : j <= Size + 1
        BY <1>5, <1>6
      <3>2. {j \in 1 .. n : j <= Size + 1} = 1 .. n
        BY <3>1
      <3>3. h[Size] = {f[i] : i \in 1 .. n}
        BY <3>1, <3>2
      <3>4. QED
        BY Zenon, <1>3, <3>3
    <2> HIDE DEF h, F
    <2>3. StepAlike(s, h, Size)
      BY <2>1, Zenon DEF StepAlike
    <2>4. Alike(s, h, Size)
      BY <1>5, <2>3, SameRecursion
    <2>5. s[Size] = h[Size]
      BY <1>5, <2>4 DEF Alike
    <2>6. QED
      BY <1>10, <2>2, <2>5
  <1>13. F # {} => \E c \in F : mem.next[c] = NULL
    <2>1. ASSUME F # {}
          PROVE  \E c \in F : mem.next[c] = NULL
      <3>1. n # 0
        BY <1>3, <2>1
      <3>2. n \in 1 .. n
        BY <3>1
      <3>3. QED
        BY Zenon, <1>3, <3>2
    <2>2. QED
      BY <2>1
  <1>14. QED
    BY <1>12, <1>13 DEF ChunkSound

-----------------------------------------------------------------------------
(* The free list: nodes, blocks and what was leaked tile the buffer. *)
FlHead == [block_size : Nat, alignment_padding : Nat]

FlShaped(h) ==
  /\ DOMAIN h = {"list", "used", "block_count", "header", "leaked"}
  /\ h.list \in Seq(Node) /\ h.used \in Int
  /\ h.header \in Partial(Unit, FlHead) /\ h.leaked \in SUBSET Node

FlStart(h, p) == p - FlHeader - h.header[p].alignment_padding
FlCells(h, p) == Extent(FlBlock(h, p))
FlHeld(h) == UNION {FlCells(h, p) : p \in DOMAIN h.header}

FlPlaced(h, p) ==
  /\ h.header[p].block_size > FlHeader + h.header[p].alignment_padding
  /\ Base <= FlStart(h, p)
  /\ FlStart(h, p) + h.header[p].block_size <= End

FlAdrift(l) == l \in Node /\ l.size > 0 /\ Base <= l.addr /\ After(l) <= End

(* Every address belongs to a node, to a block or to a leaked block, and to one
   only.                                                                   *)
FlCovered(h) ==
  \A a \in Unit : \/ a \in FreeSet(h.list)
                  \/ \E p \in DOMAIN h.header : a \in FlCells(h, p)
                  \/ \E l \in h.leaked : a \in Extent(l)
FlDisjoint(h) ==
  /\ \A p \in DOMAIN h.header : FlCells(h, p) \cap FreeSet(h.list) = {}
  /\ \A p, q \in DOMAIN h.header : p # q => FlCells(h, p) \cap FlCells(h, q) = {}
  /\ \A l \in h.leaked : Extent(l) \cap FreeSet(h.list) = {}
  /\ \A l \in h.leaked, p \in DOMAIN h.header : Extent(l) \cap FlCells(h, p) = {}
  /\ \A l, m \in h.leaked : l # m => Extent(l) \cap Extent(m) = {}

FlInv(h) ==
  /\ FlShaped(h)
  /\ Linked(h.list) /\ Heap(h)
  /\ \A p \in DOMAIN h.header : FlPlaced(h, p)
  /\ \A l \in h.leaked : FlAdrift(l)
  /\ FlCovered(h) /\ FlDisjoint(h)
  /\ h.used = Cardinality(FlHeld(h))

FlAsserts == fault = "assert" => mem.leaked # {} \/ FreeUnits(mem) < FlHeader

FreelistInv ==
  /\ FlInv(mem) /\ FlAsserts
  /\ DOMAIN mem.header = {ptr[v] : v \in Var} \ {NULL}
  /\ \A v \in Var : Live(v) => FlRoom(mem, ptr[v]) >= want[v].size

LEMMA FlHeaderIs ==
  ASSUME NEW h, FlShaped(h), NEW p \in DOMAIN h.header
  PROVE  /\ p \in Unit /\ p \in Nat /\ h.header[p] \in FlHead
         /\ h.header[p].block_size \in Nat /\ h.header[p].alignment_padding \in Nat
         /\ FlStart(h, p) \in Int /\ FlStart(h, p) = p - 2 - h.header[p].alignment_padding
         /\ FlRoom(h, p) = h.header[p].block_size - 2 - h.header[p].alignment_padding
         /\ FlBlock(h, p) = [addr |-> FlStart(h, p), size |-> h.header[p].block_size]
         /\ \A a : a \in FlCells(h, p) <=>
              a \in Int /\ FlStart(h, p) <= a /\ a < FlStart(h, p) + h.header[p].block_size
  <1>1. h.header \in Partial(Unit, FlHead)
    BY DEF FlShaped
  <1>2. DOMAIN h.header \subseteq Unit /\ h.header[p] \in FlHead
    BY <1>1, PartialIs
  <1>3. p \in Unit /\ p \in Nat
    BY <1>2, Bounds
  <1>4. h.header[p].block_size \in Nat /\ h.header[p].alignment_padding \in Nat
    BY <1>2 DEF FlHead
  <1>5. FlStart(h, p) \in Int /\ FlStart(h, p) = p - 2 - h.header[p].alignment_padding
    BY <1>3, <1>4 DEF FlStart, FlHeader
  <1>6. FlBlock(h, p) = [addr |-> FlStart(h, p), size |-> h.header[p].block_size]
    BY DEF FlBlock, FlStart
  <1>7. \A a : a \in FlCells(h, p) <=>
          a \in Int /\ FlStart(h, p) <= a /\ a < FlStart(h, p) + h.header[p].block_size
    <2> DEFINE b == FlBlock(h, p)
    <2>1. b.addr = FlStart(h, p) /\ b.size = h.header[p].block_size
      BY <1>6
    <2> HIDE DEF b
    <2>2. QED
      BY <1>4, <1>5, <2>1, ExtentIs DEF FlCells, b
  <1>8. QED
    BY <1>2, <1>3, <1>4, <1>5, <1>6, <1>7 DEF FlRoom, FlHeader

LEMMA FlPlacedIs ==
  ASSUME NEW h, FlShaped(h), NEW p \in DOMAIN h.header, FlPlaced(h, p)
  PROVE  /\ p \in FlCells(h, p) /\ FlStart(h, p) \in FlCells(h, p) /\ FlCells(h, p) \subseteq Unit
         /\ FlStart(h, p) \in Nat /\ FlStart(h, p) + 2 <= p
         /\ FlRoom(h, p) \in Nat /\ FlRoom(h, p) > 0
         /\ p + FlRoom(h, p) = FlStart(h, p) + h.header[p].block_size
         /\ p + FlRoom(h, p) <= End
         /\ IsFiniteSet(FlCells(h, p)) /\ Cardinality(FlCells(h, p)) = h.header[p].block_size
  <1> DEFINE s == FlStart(h, p)
             n == h.header[p].block_size
             d == h.header[p].alignment_padding
  <1>1. /\ p \in Nat /\ n \in Nat /\ d \in Nat /\ s \in Int /\ s = p - 2 - d
        /\ FlRoom(h, p) = n - 2 - d
        /\ \A a : a \in FlCells(h, p) <=> a \in Int /\ s <= a /\ a < s + n
    BY FlHeaderIs
  <1>2. n > 2 + d /\ Base <= s /\ s + n <= End
    BY DEF FlPlaced, FlHeader
  <1> HIDE DEF s, n, d
  <1>3. /\ p \in FlCells(h, p) /\ s \in FlCells(h, p) /\ s + 2 <= p
        /\ FlRoom(h, p) \in Nat /\ FlRoom(h, p) > 0 /\ p + FlRoom(h, p) = s + n
    BY <1>1, <1>2
  <1>4. FlCells(h, p) \subseteq Unit /\ s \in Nat
    BY <1>1, <1>2, Bounds
  <1>5. IsFiniteSet(FlCells(h, p)) /\ Cardinality(FlCells(h, p)) = n
    <2> DEFINE hi == s + n - 1
    <2>1. s \in Int /\ hi \in Int /\ ~(s > hi) /\ hi - s + 1 = n
      BY <1>1, <1>2
    <2>2. FlCells(h, p) = s .. hi
      <3>1. \A a : a \in s .. hi <=> a \in Int /\ s <= a /\ a < s + n
        BY <1>1
      <3>2. QED
        BY Zenon, <1>1, <3>1
    <2> HIDE DEF hi
    <2>3. QED
      BY <2>1, <2>2, FS_Interval
  <1>6. QED
    BY <1>2, <1>3, <1>4, <1>5 DEF s, n

FlPart(h, p) == IF p \in DOMAIN h.header THEN FlCells(h, p) ELSE {}

LEMMA FlSame ==
  ASSUME NEW h, NEW g, NEW r, g.header[r] = h.header[r]
  PROVE  /\ FlStart(g, r) = FlStart(h, r) /\ FlRoom(g, r) = FlRoom(h, r)
         /\ FlBlock(g, r) = FlBlock(h, r) /\ FlCells(g, r) = FlCells(h, r)
         /\ FlPlaced(g, r) <=> FlPlaced(h, r)
  BY DEF FlStart, FlRoom, FlCells, FlBlock, FlPlaced

LEMMA Disjoined ==
  ASSUME NEW S, NEW Q, IsFiniteSet(S), IsFiniteSet(Q), S \cap Q = {}
  PROVE  /\ IsFiniteSet(S \cup Q)
         /\ Cardinality(S) \in Nat /\ Cardinality(Q) \in Nat
         /\ Cardinality(S \cup Q) = Cardinality(S) + Cardinality(Q)
  <1>1. /\ IsFiniteSet(S \cup Q)
        /\ Cardinality(S \cup Q) = Cardinality(S) + Cardinality(Q) - Cardinality(S \cap Q)
        /\ Cardinality(S \cap Q) = 0
    BY FS_Union, FS_EmptySet
  <1>2. Cardinality(S) \in Nat /\ Cardinality(Q) \in Nat
    BY FS_CardinalityType
  <1>3. QED
    BY <1>1, <1>2

LEMMA FlHeldIs ==
  ASSUME NEW h, FlInv(h)
  PROVE  /\ FlHeld(h) \subseteq Unit /\ IsFiniteSet(FlHeld(h))
         /\ Cardinality(FlHeld(h)) \in Nat
  <1>1. \A p \in DOMAIN h.header : FlCells(h, p) \subseteq Unit
    BY FlPlacedIs DEF FlInv
  <1>2. FlHeld(h) \in SUBSET Unit
    BY <1>1 DEF FlHeld
  <1>3. QED
    BY <1>2, UnitFinite, FS_Subset, FS_CardinalityType

(* One block changes: "p" is where it was, "q" where it is, either of which may
   be no block; what it and the nodes cover together stays the same.       *)
LEMMA FlRebuilt ==
  ASSUME NEW h, FlInv(h), NEW g, FlShaped(g), Linked(g.list), Heap(g), g.leaked = h.leaked,
         NEW p, NEW q, DOMAIN g.header \ {q} = DOMAIN h.header \ {p},
         \A r \in DOMAIN g.header \ {q} : g.header[r] = h.header[r],
         q \in DOMAIN g.header => FlPlaced(g, q),
         FreeSet(g.list) \cup FlPart(g, q) = FreeSet(h.list) \cup FlPart(h, p),
         FlPart(g, q) \cap FreeSet(g.list) = {},
         g.used = h.used - Cardinality(FlPart(h, p)) + Cardinality(FlPart(g, q))
  PROVE  FlInv(g)
  <1> DEFINE P == DOMAIN h.header \ {p}
             R == UNION {FlCells(h, r) : r \in P}
             both == FreeSet(h.list) \cup FlPart(h, p)
  <1>1. FlShaped(h) /\ FlCovered(h) /\ FlDisjoint(h) /\ h.used = Cardinality(FlHeld(h))
    BY DEF FlInv
  <1>2. \A r \in P : /\ r \in DOMAIN g.header /\ FlPlaced(g, r) /\ FlCells(g, r) = FlCells(h, r)
                     /\ FlCells(h, r) \cap both = {}
    <2>1. ASSUME NEW r \in P
          PROVE  /\ r \in DOMAIN g.header /\ FlPlaced(g, r) /\ FlCells(g, r) = FlCells(h, r)
                 /\ FlCells(h, r) \cap both = {}
      <3>1. r \in DOMAIN g.header /\ g.header[r] = h.header[r]
        OBVIOUS
      <3>2. FlPlaced(h, r)
        BY DEF FlInv
      <3>3. FlPlaced(g, r) /\ FlCells(g, r) = FlCells(h, r)
        BY <3>1, <3>2, FlSame
      <3>4. FlCells(h, r) \cap both = {}
        BY <1>1 DEF FlDisjoint, FlPart
      <3>5. QED
        BY <3>1, <3>3, <3>4
    <2>2. QED
      BY <2>1
  <1>3. \A l \in g.leaked : FlAdrift(l) /\ Extent(l) \cap both = {}
    BY <1>1 DEF FlInv, FlDisjoint, FlPart
  <1>4. /\ FlPart(g, q) \subseteq both /\ FreeSet(g.list) \subseteq both
        /\ \A r \in DOMAIN g.header : r = q \/ r \in P
        /\ q \in DOMAIN g.header => FlPart(g, q) = FlCells(g, q)
    BY DEF FlPart
  <1>5. \A r \in DOMAIN g.header : FlPlaced(g, r)
    BY <1>2, <1>4
  <1>6. FlCovered(g)
    <2>1. ASSUME NEW a \in Unit
          PROVE  \/ a \in FreeSet(g.list)
                 \/ \E r \in DOMAIN g.header : a \in FlCells(g, r)
                 \/ \E l \in g.leaked : a \in Extent(l)
      <3>1. CASE a \in both
        <4>1. a \in FreeSet(g.list) \/ a \in FlPart(g, q)
          BY <3>1
        <4>2. QED
          BY <4>1 DEF FlPart
      <3>2. CASE \E r \in P : a \in FlCells(h, r)
        BY <1>2, <3>2
      <3>3. CASE \E l \in h.leaked : a \in Extent(l)
        BY <3>3
      <3>4. \/ a \in FreeSet(h.list)
            \/ \E r \in DOMAIN h.header : a \in FlCells(h, r)
            \/ \E l \in h.leaked : a \in Extent(l)
        BY <1>1 DEF FlCovered
      <3>5. (\E r \in DOMAIN h.header : a \in FlCells(h, r))
              => a \in FlPart(h, p) \/ \E r \in P : a \in FlCells(h, r)
        BY DEF FlPart
      <3>6. QED
        BY <3>1, <3>2, <3>3, <3>4, <3>5
    <2>2. QED
      BY <2>1 DEF FlCovered
  <1>7. FlDisjoint(g)
    <2>1. \A r \in DOMAIN g.header : FlCells(g, r) \cap FreeSet(g.list) = {}
      BY <1>2, <1>4
    <2>2. ASSUME NEW r \in DOMAIN g.header, NEW t \in DOMAIN g.header, r # t
          PROVE  FlCells(g, r) \cap FlCells(g, t) = {}
      <3>1. CASE r \in P /\ t \in P
        BY <1>1, <1>2, <2>2, <3>1 DEF FlDisjoint
      <3>2. CASE r \in P /\ t = q
        BY <1>2, <1>4, <3>2
      <3>3. CASE r = q /\ t \in P
        BY <1>2, <1>4, <3>3
      <3>4. QED
        BY <1>4, <2>2, <3>1, <3>2, <3>3
    <2>3. \A l \in g.leaked : Extent(l) \cap FreeSet(g.list) = {}
      BY <1>3, <1>4
    <2>4. ASSUME NEW l \in g.leaked, NEW r \in DOMAIN g.header
          PROVE  Extent(l) \cap FlCells(g, r) = {}
      <3>1. CASE r \in P
        BY <1>1, <1>2, <3>1 DEF FlDisjoint
      <3>2. CASE r = q
        BY <1>3, <1>4, <3>2
      <3>3. QED
        BY <1>4, <3>1, <3>2
    <2>5. \A l, m \in g.leaked : l # m => Extent(l) \cap Extent(m) = {}
      BY <1>1 DEF FlDisjoint
    <2>6. QED
      BY <2>1, <2>2, <2>3, <2>4, <2>5 DEF FlDisjoint
  <1>8. g.used = Cardinality(FlHeld(g))
    <2>1. FlHeld(h) = R \cup FlPart(h, p) /\ R \cap FlPart(h, p) = {}
      BY <1>2 DEF FlHeld, FlPart
    <2>2. FlHeld(g) = R \cup FlPart(g, q)
      <3>1. \A a \in FlHeld(g) : a \in R \/ a \in FlPart(g, q)
        BY <1>2, <1>4 DEF FlHeld
      <3>2. \A a \in R : a \in FlHeld(g)
        BY <1>2 DEF FlHeld
      <3>3. \A a \in FlPart(g, q) : a \in FlHeld(g)
        BY DEF FlHeld, FlPart
      <3>4. QED
        BY <3>1, <3>2, <3>3
    <2>3. R \cap FlPart(g, q) = {}
      BY <1>2, <1>4
    <2>4. IsFiniteSet(R) /\ IsFiniteSet(FlPart(h, p)) /\ IsFiniteSet(FlPart(g, q))
      <3>1. IsFiniteSet(FlHeld(h))
        BY FlHeldIs
      <3>2. R \in SUBSET FlHeld(h) /\ FlPart(h, p) \in SUBSET FlHeld(h)
        BY <2>1
      <3>3. FlPart(g, q) = {} \/ FlPart(g, q) \subseteq Unit
        BY <1>4, FlPlacedIs DEF FlPart
      <3>4. QED
        BY <3>1, <3>2, <3>3, FS_Subset, FS_EmptySet, UnitFinite
    <2> HIDE DEF R
    <2>5. /\ Cardinality(FlHeld(h)) = Cardinality(R) + Cardinality(FlPart(h, p))
          /\ Cardinality(FlHeld(g)) = Cardinality(R) + Cardinality(FlPart(g, q))
          /\ Cardinality(R) \in Nat /\ Cardinality(FlPart(h, p)) \in Nat
          /\ Cardinality(FlPart(g, q)) \in Nat
      BY Zenon, <2>1, <2>2, <2>3, <2>4, Disjoined
    <2>6. QED
      BY <1>1, <2>5
  <1>9. QED
    BY <1>3, <1>5, <1>6, <1>7, <1>8 DEF FlInv

(* A block is leaked. *)
LEMMA FlLeaked ==
  ASSUME NEW h, FlInv(h), NEW g, FlShaped(g), Linked(g.list), Heap(g),
         NEW p \in DOMAIN h.header, g.leaked = h.leaked \cup {FlBlock(h, p)},
         DOMAIN g.header = DOMAIN h.header \ {p},
         \A r \in DOMAIN g.header : g.header[r] = h.header[r],
         FreeSet(g.list) = FreeSet(h.list),
         g.used = h.used - Cardinality(FlCells(h, p))
  PROVE  FlInv(g)
  <1> DEFINE P == DOMAIN h.header \ {p}
             b == FlBlock(h, p)
  <1>1. /\ FlShaped(h) /\ FlCovered(h) /\ FlDisjoint(h) /\ h.used = Cardinality(FlHeld(h))
        /\ FlPlaced(h, p)
    BY DEF FlInv
  <1>2. \A r \in P : FlPlaced(g, r) /\ FlCells(g, r) = FlCells(h, r)
    <2>1. ASSUME NEW r \in P
          PROVE  FlPlaced(g, r) /\ FlCells(g, r) = FlCells(h, r)
      <3>1. FlPlaced(h, r) /\ g.header[r] = h.header[r]
        BY DEF FlInv
      <3>2. QED
        BY <3>1, FlSame
    <2>2. QED
      BY <2>1
  <1>3. \A l \in h.leaked : FlAdrift(l)
    BY DEF FlInv
  <1>4. FlAdrift(b) /\ Extent(b) = FlCells(h, p)
    <2>1. /\ b = [addr |-> FlStart(h, p), size |-> h.header[p].block_size]
          /\ h.header[p].block_size \in Nat /\ h.header[p].alignment_padding \in Nat
      BY <1>1, FlHeaderIs
    <2>2. FlStart(h, p) \in Nat
      BY <1>1, FlPlacedIs
    <2>3. /\ h.header[p].block_size > 2 + h.header[p].alignment_padding
          /\ Base <= FlStart(h, p) /\ FlStart(h, p) + h.header[p].block_size <= End
      BY <1>1 DEF FlPlaced, FlHeader
    <2> HIDE DEF b
    <2>4. /\ b \in Node /\ b.addr = FlStart(h, p) /\ b.size = h.header[p].block_size
      BY <2>1, <2>2 DEF Node
    <2>5. FlAdrift(b)
      BY <2>1, <2>3, <2>4 DEF FlAdrift, After
    <2>6. QED
      BY <2>5 DEF b, FlCells
  <1> HIDE DEF b
  <1>5. FlCovered(g)
    <2>1. ASSUME NEW a \in Unit
          PROVE  \/ a \in FreeSet(g.list)
                 \/ \E r \in DOMAIN g.header : a \in FlCells(g, r)
                 \/ \E l \in g.leaked : a \in Extent(l)
      <3>1. \/ a \in FreeSet(h.list)
            \/ \E r \in DOMAIN h.header : a \in FlCells(h, r)
            \/ \E l \in h.leaked : a \in Extent(l)
        BY <1>1 DEF FlCovered
      <3>2. CASE \E r \in DOMAIN h.header : a \in FlCells(h, r)
        <4>1. CASE \E r \in P : a \in FlCells(h, r)
          BY <1>2, <4>1
        <4>2. CASE a \in FlCells(h, p)
          <5>1. b \in g.leaked /\ a \in Extent(b)
            BY <1>4, <4>2 DEF b
          <5>2. QED
            BY <5>1
        <4>3. QED
          BY <3>2, <4>1, <4>2
      <3>3. QED
        BY <3>1, <3>2
    <2>2. QED
      BY <2>1 DEF FlCovered
  <1>6. \A l \in g.leaked : l = b \/ l \in h.leaked
    BY DEF b
  <1>7. FlDisjoint(g)
    <2>1. \A r \in DOMAIN g.header : FlCells(g, r) \cap FreeSet(g.list) = {}
      BY <1>1, <1>2 DEF FlDisjoint
    <2>2. \A r, t \in DOMAIN g.header : r # t => FlCells(g, r) \cap FlCells(g, t) = {}
      BY <1>1, <1>2 DEF FlDisjoint
    <2>3. \A l \in g.leaked : Extent(l) \cap FreeSet(g.list) = {}
      BY <1>1, <1>4, <1>6 DEF FlDisjoint
    <2>4. \A l \in g.leaked, r \in DOMAIN g.header : Extent(l) \cap FlCells(g, r) = {}
      <3>1. ASSUME NEW r \in DOMAIN g.header
            PROVE  /\ Extent(b) \cap FlCells(g, r) = {}
                   /\ \A l \in h.leaked : Extent(l) \cap FlCells(g, r) = {}
        BY <1>1, <1>2, <1>4 DEF FlDisjoint
      <3>2. QED
        BY <1>6, <3>1
    <2>5. \A l, m \in g.leaked : l # m => Extent(l) \cap Extent(m) = {}
      BY <1>1, <1>4, <1>6 DEF FlDisjoint
    <2>6. QED
      BY <2>1, <2>2, <2>3, <2>4, <2>5 DEF FlDisjoint
  <1>8. g.used = Cardinality(FlHeld(g))
    <2>1. /\ FlHeld(h) = FlHeld(g) \cup FlCells(h, p) /\ FlHeld(g) \cap FlCells(h, p) = {}
      <3>1. FlHeld(g) = UNION {FlCells(h, r) : r \in P}
        BY <1>2 DEF FlHeld
      <3>2. QED
        BY <1>1, <3>1 DEF FlHeld, FlDisjoint
    <2>2. IsFiniteSet(FlHeld(h)) /\ FlHeld(g) \in SUBSET FlHeld(h)
      BY Zenon, <2>1, FlHeldIs
    <2>3. IsFiniteSet(FlHeld(g)) /\ IsFiniteSet(FlCells(h, p))
      BY <1>1, <2>2, FlPlacedIs, FS_Subset
    <2>4. /\ Cardinality(FlHeld(h)) = Cardinality(FlHeld(g)) + Cardinality(FlCells(h, p))
          /\ Cardinality(FlHeld(g)) \in Nat /\ Cardinality(FlCells(h, p)) \in Nat
      BY Zenon, <2>1, <2>3, Disjoined
    <2>5. QED
      BY <1>1, <2>4
  <1>9. (\A l \in g.leaked : FlAdrift(l)) /\ \A r \in DOMAIN g.header : FlPlaced(g, r)
    BY <1>2, <1>3, <1>4, <1>6
  <1>10. QED
    BY <1>5, <1>7, <1>8, <1>9 DEF FlInv

LEMMA FlNodeOf ==
  ASSUME NEW h, FlInv(h)
  PROVE  /\ Len(h.list) \in Nat /\ DOMAIN h.list = 1 .. Len(h.list) /\ h.list \in Seq(Node)
         /\ \A i \in 1 .. Len(h.list) :
              /\ h.list[i] \in Node /\ h.list[i].addr \in Nat /\ h.list[i].size \in Nat
              /\ h.list[i].size >= 2 /\ Base <= h.list[i].addr
              /\ h.list[i].addr + h.list[i].size <= End
              /\ After(h.list[i]) = h.list[i].addr + h.list[i].size
  <1>1. Sorted(h.list)
    BY DEF FlInv, Linked
  <1>2. /\ Len(h.list) \in Nat /\ DOMAIN h.list = 1 .. Len(h.list) /\ h.list \in Seq(Node)
        /\ \A i \in 1 .. Len(h.list) :
             /\ h.list[i] \in Node /\ h.list[i].addr \in Nat /\ h.list[i].size \in Nat
             /\ h.list[i].size >= 2 /\ Base <= h.list[i].addr /\ After(h.list[i]) <= End
             /\ After(h.list[i]) = h.list[i].addr + h.list[i].size
    BY <1>1, NodesIn
  <1>3. QED
    BY <1>2

LEMMA FlPaddingIs ==
  ASSUME NEW b \in Node, NEW align \in Nat \ {0}
  PROVE  /\ FlPadding(b, align) \in Nat /\ FlPadding(b, align) >= 2
         /\ (b.addr + FlPadding(b, align)) % align = 0
  <1> DEFINE x == b.addr + 2
             y == align_forward(x, align)
  <1>1. x \in Nat /\ b.addr \in Nat
    BY DEF Node
  <1> HIDE DEF x
  <1>2. y \in Nat /\ y >= x /\ y % align = 0
    BY <1>1, AlignForward
  <1>3. FlPadding(b, align) = y - b.addr
    BY DEF FlPadding, PaddingFor, FlHeader, x
  <1> HIDE DEF y
  <1>4. y - b.addr \in Nat /\ y - b.addr >= 2 /\ b.addr + (y - b.addr) = y
    BY <1>1, <1>2 DEF x
  <1>5. QED
    BY <1>2, <1>3, <1>4

LEMMA FlFindIs ==
  ASSUME NEW h, FlInv(h), NEW n, NEW align, FlFind(h, n, align) # 0
  PROVE  /\ FlFind(h, n, align) \in 1 .. Len(h.list)
         /\ h.list[FlFind(h, n, align)].size
              >= n + FlPadding(h.list[FlFind(h, n, align)], align)
  <1> DEFINE list == h.list
             Big(b) == b.size >= n + FlPadding(b, align)
             i == FirstNode(list, Big)
             S == {k \in 1 .. Len(list) : Big(list[k])}
  <1>1. Len(list) \in Nat /\ DOMAIN list = 1 .. Len(list)
    BY FlNodeOf
  <1>2. FlFind(h, n, align) = i
    BY DEF FlFind
  <1>3. \E k \in DOMAIN list : Big(list[k])
    BY <1>2 DEF FirstNode
  <1>4. S \in SUBSET Nat /\ S # {}
    BY <1>1, <1>3
  <1>5. PICK m \in S : \A x \in Nat : x < m => x \notin S
    BY Zenon, <1>4, LeastIndex
  <1>6. m \in DOMAIN list /\ Big(list[m]) /\ \A j \in 1 .. m - 1 : ~Big(list[j])
    BY <1>1, <1>5
  <1>7. i = CHOOSE k \in DOMAIN list : Big(list[k]) /\ \A j \in 1 .. k - 1 : ~Big(list[j])
    BY Zenon, <1>3 DEF FirstNode
  <1>8. i \in DOMAIN list /\ Big(list[i])
    BY Zenon, <1>6, <1>7
  <1>9. QED
    BY <1>1, <1>2, <1>8

LEMMA FlBehindIs ==
  ASSUME NEW h, FlInv(h), NEW p, FlBehind(h, p) # 0
  PROVE  /\ FlBehind(h, p) \in 1 .. Len(h.list)
         /\ h.list[FlBehind(h, p)].addr = p + FlRoom(h, p)
  <1> DEFINE list == h.list
             Follows(n) == n.addr = p + FlRoom(h, p)
             i == FirstNode(list, Follows)
             S == {k \in 1 .. Len(list) : Follows(list[k])}
  <1>1. Len(list) \in Nat /\ DOMAIN list = 1 .. Len(list)
    BY FlNodeOf
  <1>2. FlBehind(h, p) = i
    BY DEF FlBehind
  <1>3. \E k \in DOMAIN list : Follows(list[k])
    BY <1>2 DEF FirstNode
  <1>4. S \in SUBSET Nat /\ S # {}
    BY <1>1, <1>3
  <1>5. PICK m \in S : \A x \in Nat : x < m => x \notin S
    BY Zenon, <1>4, LeastIndex
  <1>6. m \in DOMAIN list /\ Follows(list[m]) /\ \A j \in 1 .. m - 1 : ~Follows(list[j])
    BY <1>1, <1>5
  <1>7. i = CHOOSE k \in DOMAIN list : Follows(list[k]) /\ \A j \in 1 .. k - 1 : ~Follows(list[j])
    BY Zenon, <1>3 DEF FirstNode
  <1>8. i \in DOMAIN list /\ Follows(list[i])
    BY Zenon, <1>6, <1>7
  <1>9. QED
    BY <1>1, <1>2, <1>8

(* What a call leaves alone. *)
FlAdds(g, h, q) ==
  /\ FlInv(g) /\ g.leaked = h.leaked
  /\ q \in Unit /\ q \notin DOMAIN h.header
  /\ DOMAIN g.header = DOMAIN h.header \cup {q}
  /\ \A r \in DOMAIN h.header : g.header[r] = h.header[r]

LEMMA FlAllocAlignIs ==
  ASSUME NEW h, FlInv(h), NEW asked \in Nat, asked > 0, NEW align \in Nat \ {0},
         NEW r, r = FlAllocAlign(h, asked, align), r.p # NULL
  PROVE  FlAdds(r.mem, h, r.p) /\ r.p % align = 0 /\ FlRoom(r.mem, r.p) >= asked
  <1> DEFINE n == AtLeast(asked, NodeSize)
             i == FlFind(h, n, align)
             node == h.list[i]
             pad == FlPadding(node, align)
             need == n + pad
             q == node.addr + pad
             rest == [addr |-> node.addr + need, size |-> node.size - need]
             stays == FlSplits(rest.size)
             t == IF stays THEN need ELSE node.size
             hd == [block_size |-> t, alignment_padding |-> q - FlHeader - node.addr]
             split == IF stays THEN NodeInsert(h, i + 1, rest) ELSE h
             rem == NodeRemove(split, i)
             g == [rem EXCEPT !.used = @ + t, !.header = Extended(@, q, hd)]
  <1>1. i # 0 /\ r.p = q /\ r.mem = g
    BY DEF FlAllocAlign
  <1>2. FlShaped(h) /\ Linked(h.list) /\ Heap(h) /\ FlDisjoint(h)
    BY DEF FlInv
  <1>3. n \in Nat /\ n >= asked /\ n >= 2
    BY DEF AtLeast, NodeSize
  <1> HIDE DEF n
  <1>4. i \in 1 .. Len(h.list) /\ node.size >= need
    BY <1>1, FlFindIs
  <1> HIDE DEF i
  <1>5. /\ node \in Node /\ node.addr \in Nat /\ node.size \in Nat
        /\ Base <= node.addr /\ node.addr + node.size <= End
        /\ Len(h.list) \in Nat /\ h.list \in Seq(Node)
    BY <1>4, FlNodeOf
  <1> HIDE DEF node
  <1>6. /\ pad \in Nat /\ pad >= 2 /\ q % align = 0
    BY <1>5, FlPaddingIs
  <1> HIDE DEF pad
  <1>7. /\ need \in Nat /\ need > 0 /\ need <= node.size /\ need = n + pad
        /\ q \in Nat /\ q = node.addr + pad
    BY <1>3, <1>4, <1>5, <1>6
  <1> HIDE DEF need
  <1>r. rest = RestOf(node, need) /\ rest.size = node.size - need /\ rest.addr = node.addr + need
    BY DEF RestOf
  <1> HIDE DEF rest
  <1>s. stays \in BOOLEAN /\ (stays => node.size - need >= 2)
    BY <1>5, <1>7, <1>r DEF FlSplits, FlHeader
  <1> HIDE DEF stays
  <1>8. /\ stays \in BOOLEAN /\ (stays => node.size - need >= 2)
        /\ t \in Nat /\ t >= need /\ t <= node.size
        /\ rest = RestOf(node, need)
        /\ stays => rest \in Node
    <2>1. t \in Nat /\ t >= need /\ t <= node.size
      BY <1>5, <1>7, <1>s
    <2>2. stays => rest \in Node
      <3>1. node.addr + need \in Nat /\ (stays => node.size - need \in Nat)
        BY <1>5, <1>7, <1>s
      <3>2. QED
        BY <1>r, <3>1 DEF RestOf, Node
    <2>3. QED
      BY <1>r, <1>s, <2>1, <2>2
  <1>9. t = IF stays THEN need ELSE node.size
    OBVIOUS
  <1> HIDE DEF t
  <1> DEFINE cut == CutFront(h.list, i, need, stays)
  <1>10. /\ Linked(cut) /\ Len(cut) = IF stays THEN Len(h.list) ELSE Len(h.list) - 1
         /\ \A a : a \in FreeSet(cut) <=>
              a \in FreeSet(h.list) /\ ~(node.addr <= a /\ a < node.addr + t)
         /\ \A a \in Int : node.addr <= a /\ a < node.addr + t => a \in FreeSet(h.list)
    <2>1. /\ need \in Nat /\ need > 0 /\ need <= h.list[i].size /\ stays \in BOOLEAN
          /\ (stays => h.list[i].size - need >= 2)
          /\ t = IF stays THEN need ELSE h.list[i].size
      BY <1>7, <1>8, <1>9 DEF node
    <2>2. /\ Linked(cut) /\ Len(cut) = IF stays THEN Len(h.list) ELSE Len(h.list) - 1
          /\ \A a : a \in FreeSet(cut) <=>
               a \in FreeSet(h.list) /\ ~(h.list[i].addr <= a /\ a < h.list[i].addr + t)
          /\ \A a \in Int : h.list[i].addr <= a /\ a < h.list[i].addr + t => a \in FreeSet(h.list)
      BY ONLY <1>2, <1>4, <2>1, CutFrontIs
    <2>3. QED
      BY <2>2 DEF node
  <1>11. /\ DOMAIN split = DOMAIN h
         /\ split.list = IF stays THEN InsertAt(h.list, i + 1, rest) ELSE h.list
         /\ split.block_count = IF stays THEN h.block_count + 1 ELSE h.block_count
         /\ \A f \in DOMAIN h \ ListFields : split[f] = h[f]
    BY Zenon, <1>2 DEF NodeInsert, Heap, ListFields
  <1>12. /\ DOMAIN rem = DOMAIN h
         /\ rem.list = RemoveAt(split.list, i) /\ rem.block_count = split.block_count - 1
         /\ \A f \in DOMAIN h \ ListFields : rem[f] = h[f]
    <2> HIDE DEF split
    <2>1. QED
      BY Zenon, <1>2, <1>11 DEF NodeRemove, Heap, ListFields
  <1>13. rem.list = cut
    <2>1. CASE stays
      <3>1. RemoveAt(InsertAt(h.list, i + 1, rest), i) = [h.list EXCEPT ![i] = rest]
        BY <1>4, <1>5, <1>8, <2>1, Replaced
      <3>2. cut = [h.list EXCEPT ![i] = rest]
        BY <1>8, <2>1 DEF CutFront, node
      <3>3. QED
        BY Zenon, <1>11, <1>12, <2>1, <3>1, <3>2
    <2>2. CASE ~stays
      BY <1>11, <1>12, <2>2 DEF CutFront
    <2>3. QED
      BY <2>1, <2>2
  <1>14. h.block_count = Len(h.list)
    BY <1>2 DEF Heap
  <1>15. rem.block_count = Len(cut)
    BY <1>5, <1>10, <1>11, <1>12, <1>14
  <1> HIDE DEF split, rem, cut, hd, q
  <1>16. /\ rem.used = h.used /\ rem.header = h.header /\ rem.leaked = h.leaked
         /\ DOMAIN rem = {"list", "used", "block_count", "header", "leaked"}
    BY <1>2, <1>12 DEF FlShaped, ListFields
  <1>17. /\ g.list = cut /\ g.block_count = Len(cut) /\ g.used = h.used + t
         /\ g.header = Extended(h.header, q, hd) /\ g.leaked = h.leaked
         /\ DOMAIN g = {"list", "used", "block_count", "header", "leaked"}
    BY <1>13, <1>15, <1>16
  <1> HIDE DEF g
  <1>18. hd \in FlHead /\ hd.block_size = t /\ hd.alignment_padding = pad - 2 /\ pad - 2 \in Nat
    <2>1. q - FlHeader - node.addr = pad - 2 /\ pad - 2 \in Nat
      BY <1>5, <1>6, <1>7 DEF FlHeader
    <2>2. QED
      BY <1>8, <2>1 DEF FlHead, hd
  <1>19. q \in Unit /\ q \in FreeSet(h.list)
    <2>1. /\ Base \in Nat /\ End \in Nat /\ node.addr \in Nat /\ node.size \in Nat
          /\ Base <= node.addr /\ node.addr + node.size <= End
      BY <1>5, Bounds
    <2>2. t \in Nat /\ t <= node.size /\ t >= need /\ need = n + pad /\ n \in Nat /\ n >= 2
          /\ pad \in Nat /\ q = node.addr + pad
      BY <1>3, <1>6, <1>7, <1>8
    <2>3. node.addr <= q /\ q < node.addr + t /\ q \in Int /\ Base <= q /\ q < End
      BY ONLY <2>1, <2>2
    <2>4. QED
      BY <1>10, <2>3, Bounds
  <1>20. q \notin DOMAIN h.header
    <2>1. \A x \in DOMAIN h.header : x \in FlCells(h, x) /\ FlCells(h, x) \cap FreeSet(h.list) = {}
      BY <1>2, FlPlacedIs DEF FlInv, FlDisjoint
    <2>2. QED
      BY <1>19, <2>1
  <1>21. /\ g.header \in Partial(Unit, FlHead) /\ DOMAIN g.header = DOMAIN h.header \cup {q}
         /\ g.header[q] = hd /\ \A x \in DOMAIN h.header : g.header[x] = h.header[x]
    <2>1. h.header \in Partial(Unit, FlHead)
      BY <1>2 DEF FlShaped
    <2>2. g.header = Extended(h.header, q, hd) /\ hd \in FlHead /\ q \in Unit
      BY <1>17, <1>18, <1>19
    <2>3. /\ DOMAIN g.header = DOMAIN h.header \cup {q}
          /\ \A x \in DOMAIN h.header \cup {q} : g.header[x] = IF x = q THEN hd ELSE h.header[x]
      BY ONLY <2>2 DEF Extended
    <2>4. g.header \in Partial(Unit, FlHead)
      BY ONLY <2>1, <2>2, ExtendedIs
    <2>5. QED
      BY <1>20, <2>3, <2>4
  <1>22. FlShaped(g) /\ Linked(g.list) /\ Heap(g)
    <2>1. h.used \in Int /\ h.leaked \in SUBSET Node
      BY <1>2 DEF FlShaped
    <2>2. g.used \in Int
      BY <1>8, <1>17, <2>1
    <2>3. g.list \in Seq(Node) /\ Linked(g.list)
      BY Zenon, <1>10, <1>17 DEF Linked, Sorted
    <2>4. QED
      BY <1>17, <1>21, <2>1, <2>2, <2>3 DEF FlShaped, Heap
  <1>23. /\ FlStart(g, q) = node.addr /\ FlRoom(g, q) = t - 2 - (pad - 2)
         /\ g.header[q].block_size = t /\ g.header[q].alignment_padding = pad - 2
    <2>1. /\ FlStart(g, q) = q - 2 - (pad - 2) /\ FlRoom(g, q) = t - 2 - (pad - 2)
      BY <1>18, <1>21 DEF FlStart, FlRoom, FlHeader
    <2>2. q - 2 - (pad - 2) = node.addr
      BY <1>5, <1>6, <1>7
    <2>3. QED
      BY <1>18, <1>21, <2>1, <2>2
  <1>24. FlPlaced(g, q)
    <2>1. t > 2 + (pad - 2) /\ node.addr + t <= End
      <3>1. /\ t \in Nat /\ t >= need /\ t <= node.size /\ need = n + pad /\ n \in Nat /\ n >= 2
            /\ pad \in Nat /\ node.addr \in Nat /\ node.size \in Nat /\ End \in Nat
            /\ node.addr + node.size <= End
        BY <1>3, <1>5, <1>6, <1>7, <1>8, Bounds
      <3>2. QED
        BY ONLY <3>1
    <2>2. QED
      BY <1>5, <1>23, <2>1 DEF FlPlaced, FlHeader
  <1>25. FlPart(h, q) = {} /\ Cardinality({}) = 0 /\ FlPart(g, q) = FlCells(g, q)
         /\ q \in DOMAIN g.header
    BY <1>20, <1>21, FS_EmptySet DEF FlPart
  <1>26. \A a : a \in FlCells(g, q) <=> a \in Int /\ node.addr <= a /\ a < node.addr + t
    BY <1>22, <1>23, <1>25, FlHeaderIs
  <1>27. Cardinality(FlCells(g, q)) = t
    BY <1>22, <1>23, <1>24, <1>25, FlPlacedIs
  <1>28. /\ FreeSet(g.list) \cup FlPart(g, q) = FreeSet(h.list) \cup FlPart(h, q)
         /\ FlPart(g, q) \cap FreeSet(g.list) = {}
    <2>1. \A a \in FreeSet(h.list) : a \in Int
      BY <1>5, FreeSetIs
    <2>2. \A a : a \in FreeSet(g.list) <=>
            a \in FreeSet(h.list) /\ ~(node.addr <= a /\ a < node.addr + t)
      BY <1>10, <1>17
    <2>3. /\ FreeSet(g.list) \cup FlCells(g, q) = FreeSet(h.list)
          /\ FlCells(g, q) \cap FreeSet(g.list) = {}
      BY ONLY <1>10, <1>26, <2>1, <2>2
    <2>4. QED
      BY <1>25, <2>3
  <1>29. g.used = h.used - Cardinality(FlPart(h, q)) + Cardinality(FlPart(g, q))
    <2>1. h.used \in Int
      BY <1>2 DEF FlShaped
    <2>2. QED
      BY <1>8, <1>17, <1>25, <1>27, <2>1
  <1>30. /\ DOMAIN g.header \ {q} = DOMAIN h.header \ {q}
         /\ \A x \in DOMAIN g.header \ {q} : g.header[x] = h.header[x]
    BY <1>21
  <1>31. FlInv(g)
    <2>1. g.leaked = h.leaked /\ (q \in DOMAIN g.header => FlPlaced(g, q))
      BY <1>17, <1>24
    <2>2. QED
      BY ONLY FlInv(h), <1>22, <1>28, <1>29, <1>30, <2>1, FlRebuilt
  <1>32. FlRoom(g, q) >= asked
    <2>1. FlRoom(g, q) = t - 2 - (pad - 2) /\ t \in Nat /\ t >= need /\ need = n + pad
          /\ n \in Nat /\ pad \in Nat /\ n >= asked
      BY <1>3, <1>6, <1>7, <1>8, <1>23
    <2>2. QED
      BY ONLY <2>1, asked \in Nat
  <1>33. FlAdds(g, h, q)
    BY <1>17, <1>19, <1>20, <1>21, <1>31 DEF FlAdds
  <1>34. QED
    BY <1>1, <1>6, <1>32, <1>33 DEF q

LEMMA FlBlockFits ==
  ASSUME NEW h, FlInv(h), NEW p \in DOMAIN h.header
  PROVE  /\ Fits(FlBlock(h, p)) /\ FlBlock(h, p).addr = FlStart(h, p)
         /\ FlBlock(h, p).size = h.header[p].block_size
         /\ After(FlBlock(h, p)) = FlStart(h, p) + h.header[p].block_size
         /\ Extent(FlBlock(h, p)) = FlCells(h, p)
         /\ Extent(FlBlock(h, p)) \cap FreeSet(h.list) = {}
         /\ p \in Nat /\ FlStart(h, p) <= p /\ p < After(FlBlock(h, p))
  <1> DEFINE b == FlBlock(h, p)
  <1>1. FlShaped(h) /\ FlPlaced(h, p) /\ FlDisjoint(h)
    BY DEF FlInv
  <1>2. /\ b = [addr |-> FlStart(h, p), size |-> h.header[p].block_size]
        /\ h.header[p].block_size \in Nat /\ h.header[p].alignment_padding \in Nat
        /\ FlStart(h, p) = p - 2 - h.header[p].alignment_padding /\ p \in Nat
    BY <1>1, FlHeaderIs
  <1>3. FlStart(h, p) \in Nat
    BY <1>1, FlPlacedIs
  <1>4. /\ h.header[p].block_size > 2 + h.header[p].alignment_padding
        /\ Base <= FlStart(h, p) /\ FlStart(h, p) + h.header[p].block_size <= End
    BY <1>1 DEF FlPlaced, FlHeader
  <1>5. Extent(b) = FlCells(h, p) /\ Extent(b) \cap FreeSet(h.list) = {}
    BY <1>1 DEF FlCells, FlDisjoint
  <1> HIDE DEF b
  <1>6. /\ b \in Node /\ b.addr = FlStart(h, p) /\ b.size = h.header[p].block_size
        /\ After(b) = FlStart(h, p) + h.header[p].block_size
    BY <1>2, <1>3 DEF Node, After
  <1>7. h.header[p].block_size >= 2
    BY <1>2, <1>4
  <1>8. FlStart(h, p) <= p /\ p < FlStart(h, p) + h.header[p].block_size
    BY <1>2, <1>3, <1>4
  <1>9. Fits(b)
    BY <1>4, <1>6, <1>7 DEF Fits, NodeSize
  <1>10. QED
    BY <1>2, <1>5, <1>6, <1>8, <1>9 DEF b

LEMMA FlFreedIs ==
  ASSUME NEW h, FlInv(h), NEW p \in DOMAIN h.header, NEW k, k = FlFreed(h, p)
  PROVE  /\ FlInv(k) /\ DOMAIN k.header = DOMAIN h.header \ {p}
         /\ \A r \in DOMAIN k.header : k.header[r] = h.header[r]
  <1> DEFINE b == FlBlock(h, p)
             header == Restrict(h.header, DOMAIN h.header \ {p})
             taken == [h EXCEPT !.used = @ - h.header[p].block_size, !.header = header]
  <1>1. FlShaped(h) /\ Linked(h.list) /\ Heap(h) /\ FlPlaced(h, p)
    BY DEF FlInv
  <1>2. /\ Fits(b) /\ b.addr = FlStart(h, p) /\ b.size = h.header[p].block_size
        /\ Extent(b) = FlCells(h, p) /\ Extent(b) \cap FreeSet(h.list) = {}
        /\ p \in Nat /\ b.addr <= p /\ p < After(b)
    BY FlBlockFits
  <1>3. k = PutFree(taken, p, b)
    BY DEF FlFreed
  <1>4. DOMAIN header = DOMAIN h.header \ {p} /\ \A r \in DOMAIN header : header[r] = h.header[r]
    BY DEF Restrict
  <1>5. header \in Partial(Unit, FlHead)
    <2>1. h.header \in Partial(Unit, FlHead)
      BY <1>1 DEF FlShaped
    <2>2. QED
      BY <2>1, RestrictIs
  <1> HIDE DEF header, b
  <1>6. /\ taken.list = h.list /\ taken.used = h.used - b.size
        /\ taken.block_count = h.block_count
        /\ taken.header = header /\ taken.leaked = h.leaked
        /\ DOMAIN taken = {"list", "used", "block_count", "header", "leaked"}
    BY <1>1, <1>2 DEF FlShaped
  <1> HIDE DEF taken
  <1>7. Heap(taken) /\ Linked(taken.list) /\ "leaked" \in DOMAIN taken
    BY <1>1, <1>6 DEF Heap
  <1>8. /\ Keeps(k, taken, ListFields \cup {"leaked"}) /\ Heap(k) /\ Linked(k.list)
        /\ \/ /\ k.leaked = taken.leaked
              /\ FreeSet(k.list) = FreeSet(taken.list) \cup Extent(b)
           \/ /\ k.leaked = taken.leaked \cup {b}
              /\ FreeSet(k.list) = FreeSet(taken.list)
    <2>1. Extent(b) \cap FreeSet(taken.list) = {}
      BY <1>2, <1>6
    <2> DEFINE j == PutFree(taken, p, b)
    <2>2. /\ Keeps(j, taken, ListFields \cup {"leaked"}) /\ Heap(j) /\ Linked(j.list)
          /\ \/ /\ j.leaked = taken.leaked
                /\ FreeSet(j.list) = FreeSet(taken.list) \cup Extent(b)
             \/ /\ j.leaked = taken.leaked \cup {b}
                /\ FreeSet(j.list) = FreeSet(taken.list)
      BY ONLY Zenon, <1>2, <1>7, <2>1, PutFreeIs
    <2> HIDE DEF j
    <2>3. k = j
      BY <1>3 DEF j
    <2>4. QED
      BY <2>2, <2>3
  <1>9. /\ k.used = h.used - b.size /\ k.header = header
        /\ DOMAIN k = {"list", "used", "block_count", "header", "leaked"}
    BY <1>6, <1>8 DEF Keeps, ListFields
  <1>10. b \in Node /\ b.size \in Nat /\ h.used \in Int /\ h.leaked \in SUBSET Node
    BY <1>1, <1>2 DEF Fits, Node, FlShaped
  <1>11. FlShaped(k)
    <2>1. k.list \in Seq(Node)
      BY <1>8 DEF Linked, Sorted
    <2>2. k.used \in Int /\ k.leaked \in SUBSET Node
      BY <1>6, <1>8, <1>9, <1>10
    <2>3. QED
      BY <1>5, <1>9, <2>1, <2>2 DEF FlShaped
  <1>12. DOMAIN k.header = DOMAIN h.header \ {p} /\ \A r \in DOMAIN k.header : k.header[r] = h.header[r]
    BY <1>4, <1>9
  <1>13. FlPart(h, p) = FlCells(h, p) /\ FlPart(k, p) = {} /\ Cardinality({}) = 0
    BY <1>12, FS_EmptySet DEF FlPart
  <1>14. Cardinality(FlCells(h, p)) = b.size
    BY <1>1, <1>2, FlPlacedIs
  <1>15. CASE k.leaked = taken.leaked /\ FreeSet(k.list) = FreeSet(taken.list) \cup Extent(b)
    <2>1. k.leaked = h.leaked /\ p \notin DOMAIN k.header
      BY <1>6, <1>12, <1>15
    <2>2. /\ FreeSet(k.list) \cup FlPart(k, p) = FreeSet(h.list) \cup FlPart(h, p)
          /\ FlPart(k, p) \cap FreeSet(k.list) = {}
      BY <1>2, <1>6, <1>13, <1>15
    <2>3. k.used = h.used - Cardinality(FlPart(h, p)) + Cardinality(FlPart(k, p))
      BY <1>9, <1>10, <1>13, <1>14
    <2>4. DOMAIN k.header \ {p} = DOMAIN h.header \ {p}
      BY <1>12
    <2>5. FlInv(k)
      BY <1>8, <1>11, <1>12, <2>1, <2>2, <2>3, <2>4, FlRebuilt
    <2>6. QED
      BY <1>12, <2>5
  <1>16. CASE k.leaked = taken.leaked \cup {b} /\ FreeSet(k.list) = FreeSet(taken.list)
    <2>1. k.leaked = h.leaked \cup {FlBlock(h, p)} /\ FreeSet(k.list) = FreeSet(h.list)
      BY <1>6, <1>16 DEF b
    <2>2. k.used = h.used - Cardinality(FlCells(h, p))
      BY <1>9, <1>14
    <2>3. FlInv(k)
      BY <1>8, <1>11, <1>12, <2>1, <2>2, FlLeaked
    <2>4. QED
      BY <1>12, <2>3
  <1>17. QED
    BY <1>8, <1>15, <1>16

(* A block grows or shrinks at its end. *)
FlResizes(g, h, p) ==
  /\ FlInv(g) /\ g.leaked = h.leaked
  /\ DOMAIN g.header = DOMAIN h.header
  /\ \A r \in DOMAIN h.header \ {p} : g.header[r] = h.header[r]

LEMMA FlResized ==
  ASSUME NEW h, FlInv(h), NEW p \in DOMAIN h.header, NEW x \in Nat,
         x > 2 + h.header[p].alignment_padding, FlStart(h, p) + x <= End,
         NEW g, DOMAIN g = {"list", "used", "block_count", "header", "leaked"},
         Linked(g.list), Heap(g),
         g.used = h.used - h.header[p].block_size + x, g.leaked = h.leaked,
         g.header = [h.header EXCEPT ![p].block_size = x],
         \A a : a \in FreeSet(h.list) \/ a \in FlCells(h, p) <=>
           a \in FreeSet(g.list) \/ (a \in Int /\ FlStart(h, p) <= a /\ a < FlStart(h, p) + x),
         \A a \in FreeSet(g.list) : ~(FlStart(h, p) <= a /\ a < FlStart(h, p) + x)
  PROVE  FlResizes(g, h, p) /\ FlRoom(g, p) = FlRoom(h, p) - h.header[p].block_size + x
  <1> DEFINE hd == [h.header[p] EXCEPT !.block_size = x]
  <1>1. FlShaped(h) /\ FlPlaced(h, p)
    BY DEF FlInv
  <1>2. /\ h.header[p] \in FlHead /\ h.header[p].block_size \in Nat
        /\ h.header[p].alignment_padding \in Nat /\ FlStart(h, p) \in Int
        /\ FlStart(h, p) = p - 2 - h.header[p].alignment_padding /\ p \in Unit
        /\ FlRoom(h, p) = h.header[p].block_size - 2 - h.header[p].alignment_padding
    BY <1>1, FlHeaderIs
  <1>3. hd \in FlHead /\ hd.block_size = x /\ hd.alignment_padding = h.header[p].alignment_padding
    BY <1>2 DEF FlHead
  <1>4. g.header = [h.header EXCEPT ![p] = hd]
    OBVIOUS
  <1> HIDE DEF hd
  <1>5. /\ DOMAIN g.header = DOMAIN h.header /\ g.header[p] = hd /\ p \in DOMAIN g.header
        /\ \A r \in DOMAIN h.header \ {p} : g.header[r] = h.header[r]
    BY <1>4
  <1>6. g.header \in Partial(Unit, FlHead)
    <2>1. h.header \in Partial(Unit, FlHead)
      BY <1>1 DEF FlShaped
    <2>2. QED
      BY ONLY <1>3, <1>4, <2>1, UpdatedIs
  <1>7. FlShaped(g)
    <2>1. g.list \in Seq(Node)
      BY DEF Linked, Sorted
    <2>2. h.used \in Int /\ h.leaked \in SUBSET Node
      BY <1>1 DEF FlShaped
    <2>3. g.used \in Int
      BY <1>2, <2>2
    <2>4. QED
      BY <1>6, <2>1, <2>2, <2>3 DEF FlShaped
  <1>8. /\ FlStart(g, p) = FlStart(h, p) /\ g.header[p].block_size = x
        /\ FlRoom(g, p) = x - 2 - h.header[p].alignment_padding
    BY <1>3, <1>5 DEF FlStart, FlRoom, FlHeader
  <1>9. FlPlaced(g, p)
    BY <1>1, <1>3, <1>5, <1>8 DEF FlPlaced, FlHeader
  <1>10. \A a : a \in FlCells(g, p) <=> a \in Int /\ FlStart(h, p) <= a /\ a < FlStart(h, p) + x
    BY ONLY <1>5, <1>7, <1>8, FlHeaderIs
  <1>11. /\ FlPart(h, p) = FlCells(h, p) /\ FlPart(g, p) = FlCells(g, p)
         /\ Cardinality(FlCells(h, p)) = h.header[p].block_size
         /\ Cardinality(FlCells(g, p)) = x
    <2>1. Cardinality(FlCells(h, p)) = h.header[p].block_size
      BY ONLY <1>1, p \in DOMAIN h.header, FlPlacedIs
    <2>2. Cardinality(FlCells(g, p)) = x
      BY ONLY <1>5, <1>7, <1>8, <1>9, FlPlacedIs
    <2>3. QED
      BY <1>5, <2>1, <2>2 DEF FlPart
  <1>12. /\ FreeSet(g.list) \cup FlPart(g, p) = FreeSet(h.list) \cup FlPart(h, p)
         /\ FlPart(g, p) \cap FreeSet(g.list) = {}
    BY <1>10, <1>11
  <1>13. g.used = h.used - Cardinality(FlPart(h, p)) + Cardinality(FlPart(g, p))
    BY <1>11
  <1>14. /\ DOMAIN g.header \ {p} = DOMAIN h.header \ {p}
         /\ \A r \in DOMAIN g.header \ {p} : g.header[r] = h.header[r]
         /\ p \in DOMAIN g.header => FlPlaced(g, p)
         /\ Linked(g.list) /\ Heap(g) /\ g.leaked = h.leaked /\ FlInv(h)
    BY <1>5, <1>9
  <1>15. FlInv(g)
    BY ONLY <1>7, <1>12, <1>13, <1>14, FlRebuilt
  <1>16. FlRoom(g, p) = FlRoom(h, p) - h.header[p].block_size + x
    BY <1>2, <1>8
  <1>17. QED
    BY <1>5, <1>15, <1>16 DEF FlResizes

LEMMA FlGrownIs ==
  ASSUME NEW h, FlInv(h), NEW p \in DOMAIN h.header, NEW extra \in Nat, extra > 0,
         FlBehind(h, p) # 0, h.list[FlBehind(h, p)].size >= extra,
         NEW g, g = FlGrown(h, p, extra)
  PROVE  FlResizes(g, h, p) /\ FlRoom(g, p) >= FlRoom(h, p) + extra
  <1> DEFINE i == FlBehind(h, p)
             node == h.list[i]
             rest == [addr |-> node.addr + extra, size |-> node.size - extra]
             stays == rest.size >= FlHeader
             t == IF stays THEN extra ELSE node.size
             bs == h.header[p].block_size
             d == h.header[p].alignment_padding
             s == FlStart(h, p)
             x == bs + t
             cut == IF stays THEN [h EXCEPT !.list[i] = rest] ELSE NodeRemove(h, i)
             new == CutFront(h.list, i, extra, stays)
  <1>0. g = [cut EXCEPT !.header[p].block_size = @ + t, !.used = @ + t]
    BY DEF FlGrown
  <1>1. FlShaped(h) /\ Linked(h.list) /\ Heap(h) /\ FlPlaced(h, p)
    BY DEF FlInv
  <1>2. i \in 1 .. Len(h.list) /\ node.addr = p + FlRoom(h, p) /\ node.size >= extra
    BY FlBehindIs
  <1> HIDE DEF i
  <1>3. /\ node \in Node /\ node.addr \in Nat /\ node.size \in Nat
        /\ node.addr + node.size <= End /\ Len(h.list) \in Nat
    BY <1>2, FlNodeOf
  <1>4. /\ bs \in Nat /\ d \in Nat /\ s \in Nat /\ bs > 2 + d
        /\ p + FlRoom(h, p) = s + bs /\ FlRoom(h, p) \in Nat
        /\ \A a : a \in FlCells(h, p) <=> a \in Int /\ s <= a /\ a < s + bs
    <2>1. bs > 2 + d
      BY <1>1 DEF FlPlaced, FlHeader
    <2>2. QED
      BY <1>1, <2>1, FlHeaderIs, FlPlacedIs
  <1> HIDE DEF node
  <1>5. rest = RestOf(node, extra) /\ rest.size = node.size - extra
    BY DEF RestOf
  <1> HIDE DEF rest
  <1>6. stays \in BOOLEAN /\ (stays => node.size - extra >= 2)
    BY <1>5 DEF FlHeader
  <1> HIDE DEF stays
  <1>7. t \in Nat /\ t >= extra /\ t <= node.size /\ t = IF stays THEN extra ELSE node.size
    BY <1>2, <1>3, <1>6
  <1> HIDE DEF t, bs, s, d
  <1>8. /\ Linked(new) /\ Len(new) = IF stays THEN Len(h.list) ELSE Len(h.list) - 1
        /\ \A a : a \in FreeSet(new) <=>
             a \in FreeSet(h.list) /\ ~(node.addr <= a /\ a < node.addr + t)
        /\ \A a \in Int : node.addr <= a /\ a < node.addr + t => a \in FreeSet(h.list)
    <2>1. /\ extra <= h.list[i].size /\ (stays => h.list[i].size - extra >= 2)
          /\ t = IF stays THEN extra ELSE h.list[i].size
      BY <1>2, <1>6, <1>7 DEF node
    <2>2. /\ Linked(new) /\ Len(new) = IF stays THEN Len(h.list) ELSE Len(h.list) - 1
          /\ \A a : a \in FreeSet(new) <=>
               a \in FreeSet(h.list) /\ ~(h.list[i].addr <= a /\ a < h.list[i].addr + t)
          /\ \A a \in Int : h.list[i].addr <= a /\ a < h.list[i].addr + t => a \in FreeSet(h.list)
      BY ONLY <1>1, <1>2, <1>6, <2>1, extra \in Nat, extra > 0, CutFrontIs
    <2>3. QED
      BY <2>2 DEF node
  <1>9. /\ cut.list = new /\ DOMAIN cut = DOMAIN h
        /\ cut.block_count = IF stays THEN h.block_count ELSE h.block_count - 1
        /\ \A f \in DOMAIN h \ ListFields : cut[f] = h[f]
    <2>1. CASE stays
      <3>1. cut = [h EXCEPT !.list[i] = rest]
        BY <2>1
      <3>2. new = [h.list EXCEPT ![i] = rest]
        BY <1>5, <2>1 DEF CutFront, node
      <3> HIDE DEF cut, new
      <3>3. QED
        BY <1>1, <2>1, <3>1, <3>2 DEF Heap, ListFields
    <2>2. CASE ~stays
      <3>1. cut = NodeRemove(h, i) /\ new = RemoveAt(h.list, i)
        BY <2>2 DEF CutFront
      <3> HIDE DEF cut, new
      <3>2. QED
        BY Zenon, <1>1, <2>2, <3>1 DEF NodeRemove, Heap, ListFields
    <2>3. QED
      BY <2>1, <2>2
  <1> HIDE DEF cut, new
  <1>10. /\ cut.used = h.used /\ cut.header = h.header /\ cut.leaked = h.leaked
         /\ DOMAIN cut = {"list", "used", "block_count", "header", "leaked"}
    BY <1>1, <1>9 DEF FlShaped, ListFields
  <1>11. /\ g.list = new /\ g.used = h.used + t /\ g.block_count = cut.block_count
         /\ g.leaked = h.leaked
         /\ g.header = [h.header EXCEPT ![p].block_size = @ + t]
         /\ DOMAIN g = {"list", "used", "block_count", "header", "leaked"}
    BY <1>0, <1>9, <1>10
  <1>12. Linked(g.list) /\ Heap(g)
    <2>1. h.block_count = Len(h.list)
      BY <1>1 DEF Heap
    <2>2. g.block_count = Len(g.list)
      BY <1>8, <1>9, <1>11, <2>1
    <2>3. QED
      BY <1>8, <1>11, <2>2 DEF Heap
  <1>13. g.header = [h.header EXCEPT ![p].block_size = x]
    BY <1>11 DEF bs
  <1>14. x \in Nat /\ x > 2 + d /\ s + x <= End /\ g.used = h.used - bs + x
    <2>1. h.used \in Int
      BY <1>1 DEF FlShaped
    <2>2. End \in Nat
      BY Bounds
    <2>3. /\ bs \in Nat /\ t \in Nat /\ d \in Nat /\ s \in Nat /\ bs > 2 + d /\ t <= node.size
          /\ node.addr = s + bs /\ node.size \in Nat /\ node.addr + node.size <= End
          /\ g.used = h.used + t /\ x = bs + t
      BY <1>2, <1>3, <1>4, <1>7, <1>11
    <2> HIDE DEF x
    <2>4. x \in Nat /\ x > 2 + d /\ s + x <= End
      BY ONLY <2>2, <2>3
    <2>5. g.used = h.used - bs + x
      BY ONLY <2>1, <2>3
    <2>6. QED
      BY <2>4, <2>5
  <1>15. node.addr = s + bs /\ x = bs + t
    BY <1>2, <1>4
  <1> HIDE DEF x
  <1>16. /\ \A a : a \in FreeSet(h.list) \/ a \in FlCells(h, p) <=>
              a \in FreeSet(g.list) \/ (a \in Int /\ s <= a /\ a < s + x)
         /\ \A a \in FreeSet(g.list) : ~(s <= a /\ a < s + x)
    <2>1. \A a \in FreeSet(h.list) : a \in Int /\ a \notin FlCells(h, p)
      <3>1. h.list \in Seq(Node)
        BY FlNodeOf
      <3>2. \A a \in FreeSet(h.list) : a \in Int
        BY <3>1, FreeSetIs
      <3>3. QED
        BY <3>2 DEF FlInv, FlDisjoint
    <2>2. \A a : a \in FreeSet(g.list) <=>
             a \in FreeSet(h.list) /\ ~(s + bs <= a /\ a < s + bs + t)
      BY <1>8, <1>11, <1>15
    <2>3. \A a \in Int : s + bs <= a /\ a < s + bs + t => a \in FreeSet(h.list)
      BY <1>8, <1>15
    <2>4. \A a : a \in FlCells(h, p) <=> a \in Int /\ s <= a /\ a < s + bs
      BY <1>4
    <2>5. s \in Nat /\ bs \in Nat /\ t \in Nat /\ x = bs + t
      BY <1>4, <1>7, <1>15
    <2>6. QED
      BY ONLY <2>1, <2>2, <2>3, <2>4, <2>5
  <1>17. FlResizes(g, h, p) /\ FlRoom(g, p) = FlRoom(h, p) - bs + x
    <2>1. /\ x > 2 + h.header[p].alignment_padding /\ FlStart(h, p) + x <= End
          /\ g.used = h.used - h.header[p].block_size + x
          /\ \A a : a \in FreeSet(h.list) \/ a \in FlCells(h, p) <=>
              a \in FreeSet(g.list) \/ (a \in Int /\ FlStart(h, p) <= a /\ a < FlStart(h, p) + x)
          /\ \A a \in FreeSet(g.list) : ~(FlStart(h, p) <= a /\ a < FlStart(h, p) + x)
      BY <1>14, <1>16 DEF s, bs, d
    <2>2. x \in Nat /\ g.leaked = h.leaked
      BY <1>11, <1>14
    <2>3. FlResizes(g, h, p) /\ FlRoom(g, p) = FlRoom(h, p) - h.header[p].block_size + x
      BY ONLY FlInv(h), p \in DOMAIN h.header, <1>11, <1>12, <1>13, <2>1, <2>2, FlResized
    <2>4. QED
      BY <2>3 DEF bs
  <1>18. QED
    BY <1>4, <1>7, <1>15, <1>17

(* A block goes in front of the first node that does not begin before it. *)
FlFrom(list, from) == LET Above(n) == n.addr >= from IN FirstNode(list, Above)

LEMMA FlPutBack ==
  ASSUME NEW h, Heap(h), Linked(h.list), NEW b, Fits(b), Extent(b) \cap FreeSet(h.list) = {},
         NEW from, from = b.addr, NEW at, at = FlFrom(h.list, from),
         NEW i, i = (IF at = 0 THEN Len(h.list) + 1 ELSE at),
         NEW g, g = MergeIfAdjacent(NodeInsert(h, i, b), i)
  PROVE  /\ Keeps(g, h, ListFields) /\ Heap(g) /\ Linked(g.list)
         /\ FreeSet(g.list) = FreeSet(h.list) \cup Extent(b)
  <1> DEFINE list == h.list
             Above(n) == n.addr >= from
  <1>1. /\ Len(list) \in Nat /\ DOMAIN list = 1 .. Len(list) /\ list \in Seq(Node)
        /\ \A j \in 1 .. Len(list) :
             /\ list[j].addr \in Nat /\ list[j].size \in Nat /\ list[j].size >= 2
             /\ After(list[j]) = list[j].addr + list[j].size
        /\ \A j, k \in 1 .. Len(list) : j < k => After(list[j]) <= list[k].addr
    BY Zenon, NodesIn DEF Linked, Sorted
  <1>2. /\ b.addr \in Nat /\ b.addr < After(b)
    BY DEF Fits, Node, NodeSize, After
  <1>3. \/ at = 0 /\ \A j \in 1 .. Len(list) : ~(list[j].addr >= b.addr)
        \/ /\ at \in 1 .. Len(list) /\ list[at].addr >= b.addr
           /\ \A j \in 1 .. at - 1 : ~(list[j].addr >= b.addr)
    <2>0. at = FirstNode(list, Above)
      BY DEF FlFrom
    <2>1. CASE ~ \E k \in DOMAIN list : Above(list[k])
      BY Zenon, <1>1, <2>0, <2>1 DEF FirstNode
    <2>2. CASE \E k \in DOMAIN list : Above(list[k])
      <3> DEFINE S == {k \in 1 .. Len(list) : Above(list[k])}
      <3>1. S \in SUBSET Nat /\ S # {}
        BY <1>1, <2>2
      <3>2. PICK m \in S : \A x \in Nat : x < m => x \notin S
        BY Zenon, <3>1, LeastIndex
      <3>3. m \in DOMAIN list /\ Above(list[m]) /\ \A j \in 1 .. m - 1 : ~Above(list[j])
        BY <1>1, <3>2
      <3>4. at = CHOOSE k \in DOMAIN list : Above(list[k]) /\ \A j \in 1 .. k - 1 : ~Above(list[j])
        BY Zenon, <2>0, <2>2 DEF FirstNode
      <3>5. at \in DOMAIN list /\ Above(list[at]) /\ \A j \in 1 .. at - 1 : ~Above(list[j])
        BY Zenon, <3>3, <3>4
      <3>6. QED
        BY <1>1, <3>5
    <2>3. QED
      BY <2>1, <2>2
  <1>n. Len(list) \in Nat
    BY <1>1
  <1>u. ASSUME NEW j \in 1 .. Len(list)
        PROVE  /\ list[j].addr \in Nat /\ list[j].size \in Nat /\ list[j].size >= 2
               /\ After(list[j]) = list[j].addr + list[j].size /\ After(list[j]) \in Nat
               /\ list[j].addr <= b.addr => After(list[j]) <= b.addr
               /\ b.addr < list[j].addr => After(b) <= list[j].addr
    <2>1. /\ list[j].addr \in Nat /\ list[j].size \in Nat /\ list[j].size >= 2
          /\ After(list[j]) = list[j].addr + list[j].size
      BY <1>1
    <2>2. /\ list[j].addr <= b.addr => After(list[j]) <= b.addr
          /\ b.addr < list[j].addr => After(b) <= list[j].addr
      BY <1>2, Beside
    <2>3. QED
      BY <2>1, <2>2
  <1>o. ASSUME NEW j \in 1 .. Len(list), NEW k \in 1 .. Len(list), j < k
        PROVE  After(list[j]) <= list[k].addr
    BY <1>1, <1>o
  <1>4. i \in 1 .. Len(list) + 1 /\ i \in Nat \ {0}
    BY ONLY <1>n, <1>3, i = (IF at = 0 THEN Len(h.list) + 1 ELSE at)
  <1>5. ASSUME NEW j \in 1 .. i - 1
        PROVE  j \in 1 .. Len(list) /\ ~(list[j].addr >= b.addr)
    <2>1. CASE at = 0
      BY ONLY <1>n, <1>3, <2>1, j \in 1 .. i - 1, i = (IF at = 0 THEN Len(h.list) + 1 ELSE at)
    <2>2. CASE at # 0
      <3>1. at = i /\ at \in 1 .. Len(list)
        BY ONLY <1>3, <2>2, i = (IF at = 0 THEN Len(h.list) + 1 ELSE at)
      <3>2. j \in 1 .. at - 1
        BY <3>1
      <3>3. ~(list[j].addr >= b.addr)
        BY ONLY <1>3, <2>2, <3>2
      <3>4. QED
        BY ONLY <1>n, <3>1, <3>2, <3>3
    <2>3. QED
      BY <2>1, <2>2
  <1>6. ASSUME NEW j \in i .. Len(list)
        PROVE  j \in 1 .. Len(list) /\ list[j].addr >= b.addr
    <2>1. j \in 1 .. Len(list) /\ i <= Len(list)
      BY ONLY <1>n, <1>4, j \in i .. Len(list)
    <2>2. at # 0
      BY ONLY <1>n, <2>1, i = (IF at = 0 THEN Len(h.list) + 1 ELSE at)
    <2>3. i = at /\ i \in 1 .. Len(list) /\ list[i].addr >= b.addr
      BY ONLY <1>3, <2>2, i = (IF at = 0 THEN Len(h.list) + 1 ELSE at)
    <2>4. CASE j = i
      BY <2>1, <2>3, <2>4
    <2>5. CASE i < j
      <3>1. After(list[i]) <= list[j].addr
        BY <2>1, <2>3, <2>5, <1>o
      <3>2. /\ list[i].addr \in Nat /\ list[i].size \in Nat
            /\ After(list[i]) = list[i].addr + list[i].size
        BY Zenon, <2>3, <1>u
      <3>3. list[j].addr \in Nat
        BY <2>1, <1>u
      <3>4. QED
        BY ONLY <1>2, <2>1, <2>3, <3>1, <3>2, <3>3
    <2>6. QED
      BY ONLY <1>n, <2>1, <2>3, <2>4, <2>5
  <1>8. \A j \in 1 .. i - 1 : After(list[j]) <= b.addr
    <2>1. ASSUME NEW j \in 1 .. i - 1
          PROVE  After(list[j]) <= b.addr
      <3>1. j \in 1 .. Len(list) /\ ~(list[j].addr >= b.addr)
        BY <1>5
      <3>2. list[j].addr \in Nat /\ (list[j].addr <= b.addr => After(list[j]) <= b.addr)
        BY <3>1, <1>u
      <3>3. QED
        BY ONLY <1>2, <3>1, <3>2
    <2>2. QED
      BY <2>1
  <1>9. \A j \in i .. Len(list) : After(b) <= list[j].addr
    <2>1. ASSUME NEW j \in i .. Len(list)
          PROVE  After(b) <= list[j].addr
      <3>1. j \in 1 .. Len(list) /\ list[j].addr >= b.addr
        BY <1>6
      <3>2. /\ list[j].addr \in Nat /\ list[j].size \in Nat /\ list[j].size >= 2
            /\ After(list[j]) = list[j].addr + list[j].size
            /\ list[j].addr <= b.addr => After(list[j]) <= b.addr
            /\ b.addr < list[j].addr => After(b) <= list[j].addr
        BY <3>1, <1>u
      <3>3. QED
        BY ONLY <1>2, <3>1, <3>2
    <2>2. QED
      BY <2>1
  <1> DEFINE ins == NodeInsert(h, i, b)
  <1>10. /\ Keeps(ins, h, ListFields) /\ Heap(ins)
         /\ Sorted(ins.list) /\ Apart(ins.list, {i - 1, i})
         /\ FreeSet(ins.list) = FreeSet(list) \cup Extent(b)
    BY Zenon, <1>4, <1>8, <1>9, NodeInsertIs
  <1>11. g = MergeIfAdjacent(ins, i)
    OBVIOUS
  <1> HIDE DEF ins
  <1>12. /\ Keeps(g, ins, ListFields) /\ Heap(g) /\ Linked(g.list)
         /\ FreeSet(g.list) = FreeSet(ins.list)
    BY ONLY Zenon, <1>4, <1>10, <1>11, MergeIfAdjacentIs
  <1>13. Keeps(g, h, ListFields)
    BY <1>10, <1>12 DEF Keeps
  <1>14. QED
    BY <1>10, <1>12, <1>13

(* The node right behind a block begins earlier. *)
LEMMA FlPulledIs ==
  ASSUME NEW h, FlInv(h), NEW p \in DOMAIN h.header, FlBehind(h, p) # 0,
         NEW spare \in Nat, spare > 0, spare < FlRoom(h, p), NEW from, from = p + FlRoom(h, p) - spare,
         NEW new, new = [h.list EXCEPT ![FlBehind(h, p)] = [addr |-> from, size |-> @.size + spare]]
  PROVE  /\ Linked(new) /\ Len(new) = Len(h.list)
         /\ FreeSet(new) = FreeSet(h.list) \cup (from .. from + spare - 1)
  <1> DEFINE list == h.list
             i == FlBehind(h, p)
             node == list[i]
             end == p + FlRoom(h, p)
             b == [addr |-> from, size |-> node.size + spare]
             blk == FlBlock(h, p)
             s == FlStart(h, p)
  <1>1. Linked(list) /\ FlShaped(h) /\ FlPlaced(h, p)
    BY DEF FlInv
  <1>2. i \in 1 .. Len(list) /\ node.addr = end
    BY FlBehindIs
  <1> HIDE DEF i
  <1>3. /\ Len(list) \in Nat /\ list \in Seq(Node)
        /\ \A j \in 1 .. Len(list) :
             /\ list[j].addr \in Nat /\ list[j].size \in Nat /\ list[j].size >= 2
             /\ After(list[j]) = list[j].addr + list[j].size /\ After(list[j]) <= End
        /\ \A j, k \in 1 .. Len(list) : j < k => After(list[j]) <= list[k].addr
        /\ \A j \in 1 .. Len(list) - 1 : After(list[j]) < list[j + 1].addr
    BY Zenon, <1>1, NodesIn DEF Linked, Sorted, Apart
  <1>4. /\ s \in Nat /\ s + 2 <= p /\ p \in Nat /\ FlRoom(h, p) \in Nat
        /\ end = s + h.header[p].block_size /\ Base <= s
    BY <1>1, FlPlacedIs, FlHeaderIs DEF FlPlaced
  <1>5. /\ Fits(blk) /\ blk.addr = s /\ After(blk) = end
        /\ Extent(blk) \cap FreeSet(list) = {} /\ s <= p /\ p < After(blk)
    BY <1>4, FlBlockFits
  <1> HIDE DEF blk, s
  <1>6. ASSUME NEW j \in 1 .. Len(list)
        PROVE  (list[j].addr <= p => After(list[j]) <= s) /\ (p < list[j].addr => end <= list[j].addr)
    BY Zenon, <1>1, <1>4, <1>5, Beside
  <1>7. from \in Nat /\ end \in Nat /\ p < from /\ from + spare = end
    BY <1>4
  <1> HIDE DEF end
  <1>8. \A j \in 1 .. Len(list) : j < i => After(list[j]) < from
    <2>1. ASSUME NEW j \in 1 .. Len(list), j < i
          PROVE  After(list[j]) < from
      <3>1. /\ After(list[j]) <= end /\ list[j].addr \in Nat /\ list[j].size \in Nat
            /\ list[j].size >= 2 /\ After(list[j]) = list[j].addr + list[j].size
        BY <1>2, <1>3, <2>1
      <3> DEFINE u == list[j].addr
                 w == After(list[j])
      <3>2. (u <= p => w <= s) /\ (p < u => end <= u)
        BY <1>6
      <3>a. u \in Nat /\ w \in Nat /\ u < w /\ w <= end
        BY ONLY <3>1
      <3>3. /\ s \in Nat /\ s + 2 <= p /\ p \in Nat /\ u \in Nat /\ w \in Nat /\ u < w /\ w <= end
            /\ from \in Nat /\ end \in Nat /\ p < from
        BY <1>4, <1>7, <3>a
      <3> HIDE DEF u, w
      <3>4. w < from
        BY ONLY <3>2, <3>3
      <3>5. QED
        BY <3>4 DEF w
    <2>2. QED
      BY <2>1
  <1>9. /\ node.size \in Nat /\ node.size >= 2 /\ After(node) = end + node.size
        /\ After(node) <= End
    BY <1>2, <1>3
  <1>d. node = list[i]
    OBVIOUS
  <1> HIDE DEF node
  <1>10. b.addr = from /\ b.size = node.size + spare /\ b \in Node
    BY <1>7, <1>9 DEF Node
  <1>n. new = [list EXCEPT ![i] = b]
    BY <1>2 DEF i, node
  <1> HIDE DEF b
  <1>11. After(b) = After(node)
    BY <1>7, <1>9, <1>10 DEF After
  <1>12. Fits(b)
    <2>1. b.size >= 2 /\ Base <= b.addr
      BY <1>4, <1>7, <1>9, <1>10, Bounds
    <2>2. QED
      BY <1>9, <1>10, <1>11, <2>1 DEF Fits, NodeSize
  <1>13. /\ \A j \in 1 .. Len(list) : j < i => After(list[j]) <= b.addr
         /\ \A j \in 1 .. Len(list) : i < j => After(b) <= list[j].addr
         /\ i > 1 /\ i - 1 \notin {} => After(list[i - 1]) < b.addr
         /\ i < Len(list) /\ i \notin {} => After(b) < list[i + 1].addr
    <2>1. \A j \in 1 .. Len(list) : j < i => After(list[j]) <= b.addr
      <3>1. ASSUME NEW j \in 1 .. Len(list), j < i
            PROVE  After(list[j]) <= b.addr
        <4>1. /\ After(list[j]) = list[j].addr + list[j].size
              /\ list[j].addr \in Nat /\ list[j].size \in Nat
          BY <1>3
        <4>2. After(list[j]) < from
          BY <1>8, <3>1
        <4>3. QED
          BY ONLY <1>7, <1>10, <4>1, <4>2
      <3>2. QED
        BY <3>1
    <2>2. \A j \in 1 .. Len(list) : i < j => After(b) <= list[j].addr
      BY <1>2, <1>3, <1>11, <1>d
    <2>3. i > 1 => i - 1 \in 1 .. Len(list) /\ i - 1 < i
      BY <1>2, <1>3
    <2>4. i < Len(list) => i \in 1 .. Len(list) - 1
      BY <1>2, <1>3
    <2>5. i < Len(list) => After(list[i]) < list[i + 1].addr
      BY Zenon, <1>3, <2>4
    <2>6. i > 1 => After(list[i - 1]) < b.addr
      BY <1>8, <1>10, <2>3
    <2>7. QED
      BY <1>11, <1>d, <2>1, <2>2, <2>5, <2>6
  <1>14. /\ Sorted([list EXCEPT ![i] = b]) /\ Apart([list EXCEPT ![i] = b], {})
         /\ Len([list EXCEPT ![i] = b]) = Len(list)
         /\ FreeSet([list EXCEPT ![i] = b]) = (FreeSet(list) \ Extent(list[i])) \cup Extent(b)
    BY ONLY Zenon, <1>1, <1>2, <1>12, <1>13, ReplaceLinked
  <1>15. FreeSet(new) = FreeSet(list) \cup (from .. from + spare - 1)
    <2>1. \A a : a \in Extent(list[i]) <=> a \in Int /\ end <= a /\ a < After(node)
      <3>1. list[i].addr \in Int /\ list[i].size \in Int /\ list[i].addr = end
            /\ After(node) = list[i].addr + list[i].size
        BY <1>2, <1>3, <1>9, <1>d
      <3>2. QED
        BY <3>1, ExtentIs
    <2>2. \A a : a \in Extent(b) <=> a \in Int /\ from <= a /\ a < After(node)
      <3>1. b.addr \in Int /\ b.size \in Int /\ b.addr = from /\ After(node) = b.addr + b.size
        BY <1>7, <1>9, <1>10
      <3>2. QED
        BY <3>1, ExtentIs
    <2>3. \A a \in Extent(list[i]) : a \in FreeSet(list)
      BY <1>2 DEF FreeSet
    <2>4. \A a : a \in from .. from + spare - 1 <=> a \in Int /\ from <= a /\ a < end
      BY <1>7
    <2>5. end \in Nat /\ from \in Nat /\ from < end /\ After(node) \in Nat /\ end < After(node)
      BY <1>7, <1>9
    <2>6. \A a : a \in FreeSet(new) <=> a \in FreeSet(list) \/ a \in from .. from + spare - 1
      <3>1. \A a : a \in FreeSet(new) <=>
              (a \in FreeSet(list) /\ a \notin Extent(list[i])) \/ a \in Extent(b)
        BY <1>14, <1>n
      <3>2. QED
        BY ONLY <2>1, <2>2, <2>3, <2>4, <2>5, <3>1
    <2>7. QED
      BY <2>6
  <1>16. QED
    BY <1>14, <1>15, <1>n DEF Linked

LEMMA FlShrunkIs ==
  ASSUME NEW h, FlInv(h), NEW p \in DOMAIN h.header,
         NEW spare \in Nat, spare > 0, spare < FlRoom(h, p), NEW g, g = FlShrunk(h, p, spare)
  PROVE  FlResizes(g, h, p) /\ FlRoom(g, p) >= FlRoom(h, p) - spare
  <1> DEFINE i == FlBehind(h, p)
             from == p + FlRoom(h, p) - spare
             Above(n) == n.addr >= from
             at == FirstNode(h.list, Above)
             pos == IF at = 0 THEN Len(h.list) + 1 ELSE at
             less == [h EXCEPT !.used = @ - spare, !.header[p].block_size = @ - spare]
             b == [addr |-> from, size |-> spare]
             put == MergeIfAdjacent(NodeInsert(less, pos, b), pos)
             list == h.list
             bs == h.header[p].block_size
             d == h.header[p].alignment_padding
             s == FlStart(h, p)
             x == bs - spare
  <1>0. g = IF spare >= NodeSize THEN put
            ELSE IF i = 0 THEN h
            ELSE [less EXCEPT !.list[i] = [addr |-> from, size |-> @.size + spare]]
    BY DEF FlShrunk
  <1>1. FlShaped(h) /\ Linked(list) /\ Heap(h) /\ FlPlaced(h, p) /\ FlDisjoint(h)
    BY DEF FlInv
  <1>2. /\ bs \in Nat /\ d \in Nat /\ s \in Nat /\ bs > 2 + d /\ p \in Nat /\ Base <= s
        /\ p + FlRoom(h, p) = s + bs /\ FlRoom(h, p) \in Nat /\ FlRoom(h, p) = bs - 2 - d
        /\ s + bs <= End /\ End \in Nat /\ Base \in Nat
    <2>1. bs > 2 + d /\ Base <= s /\ s + bs <= End
      BY <1>1 DEF FlPlaced, FlHeader
    <2>2. /\ bs \in Nat /\ d \in Nat /\ s \in Nat /\ p \in Nat
          /\ p + FlRoom(h, p) = s + bs /\ FlRoom(h, p) \in Nat /\ FlRoom(h, p) = bs - 2 - d
      BY <1>1, FlHeaderIs, FlPlacedIs
    <2>3. QED
      BY <2>1, <2>2, Bounds
  <1>3. \A a : a \in FlCells(h, p) <=> a \in Int /\ s <= a /\ a < s + bs
    BY <1>1, FlHeaderIs
  <1>w. h.used \in Int /\ bs = h.header[p].block_size /\ s = FlStart(h, p)
        /\ d = h.header[p].alignment_padding
    BY <1>1 DEF FlShaped
  <1> HIDE DEF bs, d, s
  <1>4. /\ x \in Nat /\ x > 2 + d /\ s + x <= End /\ from = s + x /\ from \in Nat
        /\ from + spare = s + bs /\ s <= from /\ x <= bs /\ h.used - spare = h.used - bs + x
    <2>1. /\ spare \in Nat /\ spare > 0 /\ spare < FlRoom(h, p)
          /\ from = p + FlRoom(h, p) - spare /\ x = bs - spare
      OBVIOUS
    <2> HIDE DEF from, x
    <2>2. QED
      BY ONLY <1>2, <1>w, <2>1
  <1>5. /\ less.list = list /\ less.block_count = h.block_count /\ less.used = h.used - spare
        /\ less.leaked = h.leaked /\ less.header = [h.header EXCEPT ![p].block_size = x]
        /\ DOMAIN less = {"list", "used", "block_count", "header", "leaked"}
    <2>1. less.header = [h.header EXCEPT ![p].block_size = @ - spare]
      BY <1>1 DEF FlShaped
    <2>2. QED
      BY <1>1, <1>w, <2>1 DEF FlShaped
  <1>6. Heap(less) /\ Linked(less.list)
    BY <1>1, <1>5 DEF Heap
  <1> HIDE DEF less
  <1>7. \A a : a \in from .. from + spare - 1 <=> a \in Int /\ from <= a /\ a < s + bs
    BY <1>2, <1>4
  <1>8. ASSUME NEW f, DOMAIN f = {"list", "used", "block_count", "header", "leaked"},
               Linked(f.list), Heap(f), f.used = less.used, f.leaked = less.leaked,
               f.header = less.header,
               FreeSet(f.list) = FreeSet(list) \cup (from .. from + spare - 1)
        PROVE  FlResizes(f, h, p) /\ FlRoom(f, p) >= FlRoom(h, p) - spare
    <2>1. \A a \in FreeSet(list) : a \in Int /\ a \notin FlCells(h, p)
      <3>1. h.list \in Seq(Node)
        BY FlNodeOf
      <3>2. \A a \in FreeSet(list) : a \in Int
        BY <3>1, FreeSetIs
      <3>3. QED
        BY <3>2, <1>1 DEF FlDisjoint
    <2>2. \A a : a \in FreeSet(f.list) <=> a \in FreeSet(list) \/ a \in from .. from + spare - 1
      BY <1>8
    <2>3. /\ \A a : a \in FreeSet(h.list) \/ a \in FlCells(h, p) <=>
                a \in FreeSet(f.list) \/ (a \in Int /\ s <= a /\ a < s + x)
          /\ \A a \in FreeSet(f.list) : ~(s <= a /\ a < s + x)
      <3> HIDE DEF from, x
      <3>1. \A a : a \in FreeSet(h.list) \/ a \in FlCells(h, p) <=>
                a \in FreeSet(f.list) \/ (a \in Int /\ s <= a /\ a < s + x)
        BY ONLY <1>2, <1>3, <1>4, <1>7, <2>2
      <3>2. \A a \in FreeSet(f.list) : ~(s <= a /\ a < s + x)
        BY ONLY <1>2, <1>3, <1>4, <1>7, <2>1, <2>2
      <3>3. QED
        BY <3>1, <3>2
    <2>4. /\ x \in Nat /\ x > 2 + h.header[p].alignment_padding /\ FlStart(h, p) + x <= End
          /\ f.used = h.used - h.header[p].block_size + x /\ f.leaked = h.leaked
          /\ f.header = [h.header EXCEPT ![p].block_size = x]
      BY <1>4, <1>5, <1>8, <1>w
    <2>5. /\ \A a : a \in FreeSet(h.list) \/ a \in FlCells(h, p) <=>
              a \in FreeSet(f.list) \/ (a \in Int /\ FlStart(h, p) <= a /\ a < FlStart(h, p) + x)
          /\ \A a \in FreeSet(f.list) : ~(FlStart(h, p) <= a /\ a < FlStart(h, p) + x)
      BY <2>3, <1>w
    <2> HIDE DEF x
    <2>6. FlResizes(f, h, p) /\ FlRoom(f, p) = FlRoom(h, p) - h.header[p].block_size + x
      BY ONLY FlInv(h), p \in DOMAIN h.header, <1>8, <2>4, <2>5, FlResized
    <2>7. FlRoom(h, p) - h.header[p].block_size + x = FlRoom(h, p) - spare
      BY <1>2, <1>w DEF x
    <2>8. QED
      BY <1>2, <2>6, <2>7
  <1>9. CASE spare >= NodeSize
    <2>1. /\ b.addr = from /\ b.size = spare /\ b \in Node /\ After(b) = s + bs
      BY <1>4 DEF Node, After
    <2>2. Extent(b) = from .. from + spare - 1
      BY <2>1 DEF Extent
    <2> HIDE DEF b
    <2>3. Fits(b)
      <3>1. Base <= from
        BY <1>2, <1>4
      <3>2. QED
        BY <1>2, <1>9, <2>1, <3>1 DEF Fits
    <2>4. Extent(b) \cap FreeSet(less.list) = {}
      <3>1. \A a \in Extent(b) : a \in FlCells(h, p)
        BY <1>2, <1>3, <1>4, <1>7, <2>2
      <3>2. QED
        BY <1>1, <1>5, <3>1 DEF FlDisjoint
    <2>5. at = FlFrom(less.list, from)
      BY <1>5 DEF FlFrom
    <2>6. from = b.addr /\ pos = (IF at = 0 THEN Len(less.list) + 1 ELSE at)
      BY <1>5, <2>1
    <2> HIDE DEF at, pos, from
    <2>7. put = MergeIfAdjacent(NodeInsert(less, pos, b), pos)
      BY DEF b
    <2> HIDE DEF put
    <2>8. /\ Keeps(put, less, ListFields) /\ Heap(put) /\ Linked(put.list)
          /\ FreeSet(put.list) = FreeSet(less.list) \cup Extent(b)
      BY ONLY <1>6, <2>3, <2>4, <2>5, <2>6, <2>7, FlPutBack
    <2>9. /\ DOMAIN put = DOMAIN less /\ put.used = less.used /\ put.leaked = less.leaked
          /\ put.header = less.header
      BY <1>5, <2>8 DEF Keeps, ListFields
    <2>10. g = put
      BY <1>0, <1>9
    <2>11. QED
      BY <1>5, <1>8, <2>2, <2>8, <2>9, <2>10
  <1>10. CASE ~(spare >= NodeSize) /\ i = 0
    <2>1. g = h
      BY <1>0, <1>10
    <2>2. QED
      BY <1>2, <2>1 DEF FlResizes
  <1>11. CASE ~(spare >= NodeSize) /\ i # 0
    <2> DEFINE new == [list EXCEPT ![i] = [addr |-> from, size |-> @.size + spare]]
    <2>1. /\ Linked(new) /\ Len(new) = Len(list)
          /\ FreeSet(new) = FreeSet(list) \cup (from .. from + spare - 1)
      BY <1>11, FlPulledIs
    <2>2. g = [less EXCEPT !.list = new]
      BY <1>0, <1>5, <1>11
    <2> HIDE DEF new, from
    <2>3. /\ g.list = new /\ g.used = less.used /\ g.leaked = less.leaked
          /\ g.header = less.header /\ g.block_count = less.block_count
          /\ DOMAIN g = DOMAIN less
      BY <1>5, <2>2
    <2>4. Heap(g)
      BY <1>1, <1>5, <2>1, <2>3 DEF Heap
    <2>5. QED
      BY <1>5, <1>8, <2>1, <2>3, <2>4
  <1>12. QED
    BY <1>9, <1>10, <1>11

(* The first k nodes. *)
FlFront(list, k) == UNION {Extent(list[i]) : i \in 1 .. k}

LEMMA FlUnits ==
  ASSUME NEW h, FlInv(h)
  PROVE  /\ FreeUnits(h) = Cardinality(FreeSet(h.list)) /\ FreeUnits(h) \in Nat
         /\ IsFiniteSet(FreeSet(h.list)) /\ FreeSet(h.list) \subseteq Unit
  <1> DEFINE list == h.list
             n == Len(list)
             Wrong(k) == ~(/\ IsFiniteSet(FlFront(list, k))
                           /\ SizeUpTo(list, k) = Cardinality(FlFront(list, k)))
             S == {k \in 0 .. n : Wrong(k)}
  <1>1. /\ n \in Nat
        /\ \A i \in 1 .. n : /\ list[i].addr \in Nat /\ list[i].size \in Nat /\ list[i].size >= 2
                            /\ After(list[i]) = list[i].addr + list[i].size
                            /\ Base <= list[i].addr /\ After(list[i]) <= End
    BY FlNodeOf
  <1>2. \A i, j \in 1 .. n : i < j => After(list[i]) <= list[j].addr
    BY DEF FlInv, Linked, Sorted
  <1>3. Sizes(list, n)
    BY <1>1 DEF Sizes
  <1>4. /\ SizeUpTo(list, 0) = 0
        /\ \A m \in 0 .. n : SizeUpTo(list, m) \in Nat
        /\ \A m \in 1 .. n : SizeUpTo(list, m) = SizeUpTo(list, m - 1) + list[m].size
    BY Zenon, <1>1, <1>3, SizeUpToStep
  <1> HIDE DEF list, n
  <1>5. ASSUME NEW i \in 1 .. n
        PROVE  /\ \A a : a \in Extent(list[i]) <=> a \in Int /\ list[i].addr <= a /\ a < After(list[i])
               /\ IsFiniteSet(Extent(list[i])) /\ Cardinality(Extent(list[i])) = list[i].size
               /\ Extent(list[i]) \subseteq Unit
    <2> DEFINE lo == list[i].addr
               hi == lo + list[i].size - 1
    <2>1. lo \in Nat /\ list[i].size \in Nat /\ list[i].size >= 2
          /\ After(list[i]) = lo + list[i].size /\ Base <= lo /\ After(list[i]) <= End
      BY <1>1
    <2>2. Extent(list[i]) = lo .. hi
      BY DEF Extent
    <2>3. hi \in Int /\ ~(lo > hi) /\ hi - lo + 1 = list[i].size /\ After(list[i]) = hi + 1
      BY <2>1
    <2> HIDE DEF lo, hi
    <2>4. IsFiniteSet(lo .. hi) /\ Cardinality(lo .. hi) = hi - lo + 1
      <3>1. lo \in Int /\ hi \in Int /\ ~(lo > hi)
        BY <2>1, <2>3
      <3>2. QED
        BY ONLY <3>1, FS_Interval
    <2>5. \A a : a \in lo .. hi <=> a \in Int /\ lo <= a /\ a < After(list[i])
      BY <2>1, <2>3
    <2>6. lo .. hi \subseteq Unit
      BY <2>1, <2>5, Bounds
    <2>7. QED
      BY <2>2, <2>3, <2>4, <2>5, <2>6 DEF lo
  <1>6. CASE S # {}
    <2>1. S \in SUBSET Nat
      OBVIOUS
    <2>2. PICK k \in S : \A x \in Nat : x < k => x \notin S
      BY Zenon, <1>6, <2>1, LeastIndex
    <2>3. k # 0
      <3>1. FlFront(list, 0) = {}
        BY DEF FlFront
      <3>2. ~Wrong(0)
        BY <1>4, <3>1, FS_EmptySet
      <3>3. QED
        BY <2>2, <3>2
    <2>4. k \in 1 .. n /\ k - 1 \in 0 .. n /\ k - 1 < k /\ k - 1 \in Nat
      BY <1>1, <2>2, <2>3
    <2>5. ~Wrong(k - 1)
      BY <2>2, <2>4
    <2> DEFINE A == FlFront(list, k - 1)
               B == Extent(list[k])
    <2>6. FlFront(list, k) = A \cup B
      <3>1. \A i : i \in 1 .. k <=> i \in 1 .. k - 1 \/ i = k
        BY <2>4
      <3>2. QED
        BY <3>1 DEF FlFront
    <2>7. A \cap B = {}
      <3>1. ASSUME NEW i \in 1 .. k - 1, NEW a \in Extent(list[i])
            PROVE  a \notin B
        <4>1. i \in 1 .. n /\ i < k
          BY ONLY <1>1, <2>4, i \in 1 .. k - 1
        <4>2. After(list[i]) <= list[k].addr
          BY <1>2, <2>4, <4>1
        <4>3. a \in Int /\ a < After(list[i])
          BY <1>5, <4>1
        <4>4. list[i].addr \in Nat /\ list[i].size \in Nat /\ list[k].addr \in Nat
              /\ After(list[i]) = list[i].addr + list[i].size
          BY <1>1, <2>4, <4>1
        <4>5. ~(list[k].addr <= a)
          BY <4>2, <4>3, <4>4
        <4>6. QED
          BY <1>5, <2>4, <4>5
      <3>2. QED
        BY <3>1 DEF FlFront
    <2>8. IsFiniteSet(A) /\ SizeUpTo(list, k - 1) = Cardinality(A)
      BY <2>5
    <2>9. IsFiniteSet(B) /\ Cardinality(B) = list[k].size
      BY <1>5, <2>4
    <2> HIDE DEF A, B
    <2>10. IsFiniteSet(A \cup B) /\ Cardinality(A \cup B) = Cardinality(A) + Cardinality(B)
      BY Zenon, <2>7, <2>8, <2>9, Disjoined
    <2>11. SizeUpTo(list, k) = SizeUpTo(list, k - 1) + list[k].size
      BY <1>4, <2>4
    <2>12. ~Wrong(k)
      BY <2>6, <2>8, <2>9, <2>10, <2>11
    <2>13. QED
      BY <2>2, <2>12
  <1>7. CASE S = {}
    <2>1. n \in 0 .. n
      BY <1>1
    <2>2. ~Wrong(n)
      BY <1>7, <2>1
    <2>3. FlFront(list, n) = FreeSet(list)
      BY DEF FlFront, FreeSet, n
    <2>4. FreeUnits(h) = SizeUpTo(list, n)
      BY DEF FreeUnits, n, list
    <2>5. SizeUpTo(list, n) \in Nat
      BY <1>4, <2>1
    <2>6. FreeSet(list) \subseteq Unit
      BY <1>5 DEF FreeSet, n
    <2>7. QED
      BY <2>2, <2>3, <2>4, <2>5, <2>6 DEF list
  <1>8. QED
    BY <1>6, <1>7

(* Nothing leaked: free and used memory make up the buffer. *)
LEMMA FlAddsUp ==
  ASSUME NEW h, FlInv(h), h.leaked = {}
  PROVE  FreeUnits(h) + h.used = Size
  <1>1. /\ FreeUnits(h) = Cardinality(FreeSet(h.list)) /\ FreeUnits(h) \in Nat
        /\ IsFiniteSet(FreeSet(h.list)) /\ FreeSet(h.list) \subseteq Unit
    BY FlUnits
  <1>2. FlHeld(h) \subseteq Unit /\ IsFiniteSet(FlHeld(h)) /\ h.used = Cardinality(FlHeld(h))
    BY FlHeldIs DEF FlInv
  <1>3. FreeSet(h.list) \cap FlHeld(h) = {}
    BY DEF FlInv, FlDisjoint, FlHeld
  <1>4. FreeSet(h.list) \cup FlHeld(h) = Unit
    <2>1. \A a \in Unit : a \in FreeSet(h.list) \/ a \in FlHeld(h)
      BY DEF FlInv, FlCovered, FlHeld
    <2>2. QED
      BY <1>1, <1>2, <2>1
  <1>5. Cardinality(Unit) = Cardinality(FreeSet(h.list)) + Cardinality(FlHeld(h))
    BY Zenon, <1>1, <1>2, <1>3, <1>4, Disjoined
  <1>6. QED
    BY <1>1, <1>2, <1>5, UnitFinite

LEMMA FlEmptyIs ==
  FlInv(FlEmpty) /\ DOMAIN FlEmpty.header = {} /\ FlEmpty.leaked = {}
  <1> DEFINE b == [addr |-> Base, size |-> Size]
             h == FlEmpty
  <1>1. /\ h.list = <<b>> /\ h.used = 0 /\ h.block_count = 1 /\ h.header = << >>
        /\ h.leaked = {} /\ DOMAIN h = {"list", "used", "block_count", "header", "leaked"}
    BY DEF FlEmpty
  <1>2. b \in Node /\ b.addr = Base /\ b.size = Size /\ After(b) = End
    BY Bounds DEF Node, After, End
  <1> HIDE DEF h, b
  <1>3. <<b>> \in Seq(Node) /\ Len(<<b>>) = 1 /\ <<b>>[1] = b /\ \A k \in 1 .. 1 : k = 1
    BY <1>2
  <1>4. Linked(<<b>>)
    <2>1. Fits(b)
      BY <1>2, Bounds, FlNodeAssumption DEF Fits, NodeSize
    <2>2. QED
      BY <1>3, <2>1 DEF Linked, Sorted, Apart
  <1>5. FreeSet(<<b>>) = Unit
    <2>1. FreeSet(<<b>>) = Extent(b)
      BY <1>3 DEF FreeSet
    <2>2. \A a : a \in Extent(b) <=> a \in Int /\ Base <= a /\ a < Base + Size
      BY <1>2, Bounds, ExtentIs
    <2>3. QED
      BY <2>1, <2>2, Bounds
  <1>6. DOMAIN h.header = {} /\ h.header \in Partial(Unit, FlHead)
    <2>1. DOMAIN << >> = {} /\ << >> = [x \in DOMAIN << >> |-> << >>[x]]
      OBVIOUS
    <2>2. << >> \in Partial(Unit, FlHead)
      BY Zenon, <2>1, PartialIs
    <2>3. QED
      BY <1>1, <2>1, <2>2
  <1>7. FlShaped(h) /\ Heap(h) /\ Linked(h.list)
    BY <1>1, <1>3, <1>4, <1>6 DEF FlShaped, Heap
  <1>8. FlHeld(h) = {} /\ FlCovered(h) /\ FlDisjoint(h)
    BY <1>1, <1>5, <1>6 DEF FlHeld, FlCovered, FlDisjoint
  <1>9. FlInv(h)
    BY <1>1, <1>6, <1>7, <1>8, FS_EmptySet DEF FlInv
  <1>10. QED
    BY <1>1, <1>6, <1>9 DEF h

(* No block was given, none was taken. *)
LEMMA FlAllocNull ==
  ASSUME NEW h, FlInv(h), NEW asked \in Nat, NEW align \in Nat \ {0},
         NEW r, r = FlAllocAlign(h, asked, align), r.p = NULL
  PROVE  r.mem = h
  <1> DEFINE n == AtLeast(asked, NodeSize)
             i == FlFind(h, n, align)
             node == h.list[i]
  <1>1. i # 0 => r.p = node.addr + FlPadding(node, align)
    BY DEF FlAllocAlign
  <1>2. i = 0 => r.mem = h
    BY DEF FlAllocAlign
  <1>3. i # 0 => i \in 1 .. Len(h.list)
    BY FlFindIs
  <1> HIDE DEF i, n
  <1>4. i # 0 => node \in Node /\ node.addr \in Nat
    BY <1>3, FlNodeOf
  <1>5. i # 0 => FlPadding(node, align) \in Nat /\ FlPadding(node, align) >= 2
    BY <1>4, FlPaddingIs
  <1> DEFINE pad == FlPadding(node, align)
  <1> HIDE DEF pad, node
  <1>6. i = 0
    <2>1. ASSUME i # 0
          PROVE  FALSE
      <3>1. node.addr \in Nat /\ pad \in Nat /\ pad >= 2 /\ node.addr + pad = 0
        BY <1>1, <1>4, <1>5, <2>1 DEF pad, NULL
      <3>2. QED
        BY ONLY <3>1
    <2>2. QED
      BY <2>1
  <1>7. QED
    BY <1>2, <1>6

(* Two blocks: what the one is for lies beyond the other's. *)
LEMMA FlApart ==
  ASSUME NEW h, FlInv(h), NEW p \in DOMAIN h.header, NEW q \in DOMAIN h.header, p # q
  PROVE  p + FlRoom(h, p) <= q \/ q + FlRoom(h, q) <= p
  <1>1. FlShaped(h) /\ FlPlaced(h, p) /\ FlPlaced(h, q) /\ FlCells(h, p) \cap FlCells(h, q) = {}
    BY DEF FlInv, FlDisjoint
  <1> DEFINE s == FlStart(h, p)
             t == FlStart(h, q)
             e == p + FlRoom(h, p)
             f == q + FlRoom(h, q)
  <1>2. /\ p \in Nat /\ s \in Nat /\ s + 2 <= p /\ FlRoom(h, p) \in Nat /\ FlRoom(h, p) > 0
        /\ \A a : a \in FlCells(h, p) <=> a \in Int /\ s <= a /\ a < e
    <2>1. /\ s \in Nat /\ s + 2 <= p /\ FlRoom(h, p) \in Nat /\ FlRoom(h, p) > 0
          /\ e = s + h.header[p].block_size
      BY <1>1, FlPlacedIs
    <2>2. p \in Nat /\ \A a : a \in FlCells(h, p) <=>
              a \in Int /\ s <= a /\ a < s + h.header[p].block_size
      BY <1>1, FlHeaderIs
    <2>3. QED
      BY <2>1, <2>2
  <1>3. /\ q \in Nat /\ t \in Nat /\ t + 2 <= q /\ FlRoom(h, q) \in Nat /\ FlRoom(h, q) > 0
        /\ \A a : a \in FlCells(h, q) <=> a \in Int /\ t <= a /\ a < f
    <2>1. /\ t \in Nat /\ t + 2 <= q /\ FlRoom(h, q) \in Nat /\ FlRoom(h, q) > 0
          /\ f = t + h.header[q].block_size
      BY <1>1, FlPlacedIs
    <2>2. q \in Nat /\ \A a : a \in FlCells(h, q) <=>
              a \in Int /\ t <= a /\ a < t + h.header[q].block_size
      BY <1>1, FlHeaderIs
    <2>3. QED
      BY <2>1, <2>2
  <1>4. e \in Nat /\ f \in Nat /\ p < e /\ q < f
    BY <1>2, <1>3
  <1> HIDE DEF s, t, e, f
  <1>5. ~(s <= t /\ t < e) /\ ~(t <= s /\ s < f)
    <2>1. s \in Int /\ t \in Int /\ s <= s /\ t <= t /\ s < e /\ t < f
      BY <1>2, <1>3, <1>4
    <2>2. (s \in FlCells(h, p) /\ t \in FlCells(h, q))
          /\ (t \in FlCells(h, p) <=> s <= t /\ t < e)
          /\ (s \in FlCells(h, q) <=> t <= s /\ s < f)
      BY ONLY <1>2, <1>3, <2>1
    <2>3. QED
      BY <1>1, <2>2
  <1>6. e <= t \/ f <= s
    BY <1>2, <1>3, <1>4, <1>5
  <1>7. e <= q \/ f <= p
    BY <1>2, <1>3, <1>4, <1>6
  <1>8. QED
    BY <1>7 DEF e, f

LEMMA FreelistBegins ==
  ASSUME ClientInit, FreelistInit
  PROVE  FreelistInv
  <1>1. mem = FlEmpty /\ fault = "none" /\ \A v \in Var : ptr[v] = NULL
    BY DEF ClientInit, FreelistInit
  <1>2. FlInv(mem) /\ DOMAIN mem.header = {}
    BY <1>1, FlEmptyIs
  <1>3. DOMAIN mem.header = {ptr[v] : v \in Var} \ {NULL}
    BY <1>1, <1>2
  <1>4. QED
    BY <1>1, <1>2, <1>3 DEF FreelistInv, FlAsserts, Live

LEMMA FlLiveIs ==
  ASSUME Client, FreelistInv, NEW v \in Var, Live(v)
  PROVE  /\ ptr[v] \in DOMAIN mem.header /\ FlRoom(mem, ptr[v]) >= want[v].size
         /\ \A w \in Var \ {v} : ptr[w] # ptr[v]
  <1>1. ptr[v] \in DOMAIN mem.header /\ FlRoom(mem, ptr[v]) >= want[v].size
    BY DEF FreelistInv, Live
  <1>2. ASSUME NEW w \in Var \ {v}
        PROVE  ptr[w] # ptr[v]
    <2>1. /\ ptr[v] \in Nat /\ want[v].size \in Nat /\ want[v].size > 0
          /\ ptr[w] \in Nat /\ want[w].size \in Nat /\ (Live(w) => want[w].size > 0)
      BY VarIs
    <2>2. Live(w) => Beyond(v, ptr[w], want[w].size)
      BY DEF Client
    <2>3. QED
      BY <2>1, <2>2 DEF Beyond, Live
  <1>3. QED
    BY <1>1, <1>2

LEMMA FreelistStays ==
  ASSUME FreelistInv, mem' = mem, ptr' = ptr, want' = want, FlAsserts'
  PROVE  FreelistInv'
  BY DEF FreelistInv, Live

(* "q", which may be where v had its block before, is v's now. *)
LEMMA FlGives ==
  ASSUME Client, FreelistInv, kind = "freelist", kind' = kind,
         fault' \in {"none", "assert", "null", "overrun"}, FlAsserts',
         NEW v \in Var, NEW q, NEW n \in Nat, n > 0, NEW align \in Nat \ {0}, q % align = 0,
         NEW h, mem' = h, FlInv(h),
         DOMAIN h.header = ((DOMAIN mem.header) \ {ptr[v]}) \cup {q},
         q # ptr[v] => q \notin DOMAIN mem.header,
         \A r \in DOMAIN mem.header \ {ptr[v]} : h.header[r] = mem.header[r],
         FlRoom(h, q) >= n, Keep(v, q, n, align)
  PROVE  Client' /\ AbstractStep /\ FreelistInv'
  <1>1. q \in DOMAIN h.header /\ FlShaped(h) /\ FlPlaced(h, q)
    BY DEF FlInv
  <1>2. q \in Unit /\ q \in Nat /\ FlRoom(h, q) \in Nat /\ q + FlRoom(h, q) <= End
    BY <1>1, FlHeaderIs, FlPlacedIs
  <1>3. q + n <= End /\ End \in Nat
    BY <1>2, Bounds
  <1>4. ASSUME NEW w \in Var \ {v}, Live(w)
        PROVE  /\ ptr[w] \in DOMAIN mem.header /\ ptr[w] # ptr[v] /\ ptr[w] # q
               /\ ptr[w] \in DOMAIN h.header /\ FlRoom(h, ptr[w]) = FlRoom(mem, ptr[w])
               /\ FlRoom(h, ptr[w]) >= want[w].size
    <2>1. /\ ptr[w] \in DOMAIN mem.header /\ FlRoom(mem, ptr[w]) >= want[w].size
          /\ ptr[v] # ptr[w]
      BY <1>4, FlLiveIs
    <2>2. ptr[w] # q /\ h.header[ptr[w]] = mem.header[ptr[w]] /\ ptr[w] \in DOMAIN h.header
      BY <2>1
    <2>3. QED
      BY Zenon, <2>1, <2>2, FlSame
  <1>5. \A w \in Var \ {v} : Live(w) => Beyond(w, q, n)
    <2>1. ASSUME NEW w \in Var \ {v}, Live(w)
          PROVE  Beyond(w, q, n)
      <3> DEFINE a == ptr[w]
                 s == want[w].size
                 A == FlRoom(h, a)
                 Q == FlRoom(h, q)
      <3>1. a \in DOMAIN h.header /\ a # q /\ A >= s
        BY <1>4, <2>1
      <3>2. a + A <= q \/ q + Q <= a
        BY <1>1, <3>1, FlApart
      <3>3. a \in Nat /\ s \in Nat /\ A \in Nat
        <4>1. a \in Nat /\ s \in Nat
          BY VarIs
        <4>2. A \in Nat
          BY <1>1, <3>1, FlPlacedIs DEF FlInv
        <4>3. QED
          BY <4>1, <4>2
      <3>4. Q \in Nat /\ Q >= n /\ q \in Nat
        BY <1>2
      <3>5. (q + n <= a \/ a + s <= q) <=> Beyond(w, q, n)
        BY DEF Beyond
      <3> HIDE DEF a, s, A, Q
      <3>6. q + n <= a \/ a + s <= q
        BY ONLY <3>1, <3>2, <3>3, <3>4, n \in Nat
      <3>7. QED
        BY <3>5, <3>6
    <2>2. QED
      BY <2>1
  <1>6. /\ Client' /\ AbstractStep
        /\ Live(v)' /\ ptr'[v] = q /\ want'[v] = [size |-> n, align |-> align]
        /\ \A w \in Var \ {v} : ptr'[w] = ptr[w] /\ want'[w] = want[w]
    <2>1. Measured(q) % AlignOf(align) = 0
      BY DEF AlignOf, Measured
    <2>2. QED
      BY <1>2, <1>3, <1>5, <2>1, GiveStep
  <1>7. DOMAIN h.header = {ptr'[w] : w \in Var} \ {NULL}
    <2>1. DOMAIN mem.header = {ptr[w] : w \in Var} \ {NULL}
      BY DEF FreelistInv
    <2>2. q # NULL
      BY <1>6 DEF Live
    <2>3. \A w \in Var \ {v} : ptr[w] # NULL => ptr[w] # ptr[v]
      BY <1>4 DEF Live
    <2>4. \A x \in DOMAIN h.header : x \in {ptr'[w] : w \in Var} \ {NULL}
      <3>1. ASSUME NEW x \in DOMAIN mem.header, x # ptr[v]
            PROVE  x # NULL /\ \E w \in Var \ {v} : x = ptr'[w]
        <4>1. PICK w \in Var : x = ptr[w]
          BY <2>1
        <4>2. w # v /\ ptr'[w] = x /\ x # NULL
          BY <1>6, <2>1, <3>1, <4>1
        <4>3. QED
          BY <4>2
      <3>2. QED
        BY <1>6, <2>2, <3>1
    <2>5. \A w \in Var : ptr'[w] # NULL => ptr'[w] \in DOMAIN h.header
      BY <1>4, <1>6 DEF Live
    <2>6. QED
      BY <2>4, <2>5
  <1>8. \A w \in Var : Live(w)' => FlRoom(h, ptr'[w]) >= want'[w].size
    BY <1>4, <1>6 DEF Live
  <1>9. FreelistInv'
    BY <1>7, <1>8 DEF FreelistInv
  <1>10. QED
    BY <1>6, <1>9

LEMMA FreelistAllocStep ==
  ASSUME Client, FreelistInv, kind = "freelist", kind' = kind, Running,
         NEW v \in Var, FreelistAlloc(v)
  PROVE  Client' /\ AbstractStep /\ FreelistInv'
  <1>1. PICK n \in Requests, align \in Alignments :
          LET r == FlAllocAlign(mem, n, align)
          IN  mem' = r.mem /\ Keep(v, r.p, n, align)
    BY DEF FreelistAlloc
  <1> DEFINE r == FlAllocAlign(mem, n, align)
  <1>2. /\ mem' = r.mem /\ Keep(v, r.p, n, align) /\ fault' = fault /\ ~Live(v)
        /\ fault \in {"none", "assert", "null", "overrun"}
    BY <1>1 DEF FreelistAlloc, Client, ClientTypeOK
  <1>3. n \in Nat /\ n > 0 /\ align \in Nat \ {0} /\ FlInv(mem) /\ FlAsserts
    BY RequestIs, AlignmentIs DEF FreelistInv
  <1>r. r = FlAllocAlign(mem, n, align)
    OBVIOUS
  <1> HIDE DEF r
  <1>4. CASE r.p = NULL
    <2>1. mem' = mem
      BY ONLY <1>2, <1>3, <1>4, <1>r, FlAllocNull
    <2>2. UNCHANGED <<ptr, want>>
      BY <1>2, <1>4, KeepNull
    <2>3. FlAsserts'
      BY <1>2, <1>3, <2>1 DEF FlAsserts
    <2>4. QED
      BY <1>2, <2>1, <2>2, <2>3, StayStep, FreelistStays
  <1>5. CASE r.p # NULL
    <2>1. FlAdds(r.mem, mem, r.p) /\ r.p % align = 0 /\ FlRoom(r.mem, r.p) >= n
      BY ONLY <1>3, <1>5, <1>r, FlAllocAlignIs
    <2>2. /\ FlInv(r.mem) /\ r.p \in Unit /\ r.p \notin DOMAIN mem.header
          /\ DOMAIN r.mem.header = DOMAIN mem.header \cup {r.p}
          /\ \A x \in DOMAIN mem.header : r.mem.header[x] = mem.header[x]
          /\ r.mem.leaked = mem.leaked
      BY <2>1 DEF FlAdds
    <2>3. ptr[v] \notin DOMAIN mem.header
      BY <1>2 DEF FreelistInv, Live
    <2>4. FlAsserts'
      BY <1>2 DEF FlAsserts, Running
    <2>5. DOMAIN r.mem.header = ((DOMAIN mem.header) \ {ptr[v]}) \cup {r.p}
      BY <2>2, <2>3
    <2>6. QED
      BY <1>2, <1>3, <2>1, <2>2, <2>3, <2>4, <2>5, FlGives
  <1>6. QED
    BY <1>4, <1>5

LEMMA FreelistFreeStep ==
  ASSUME Client, FreelistInv, kind = "freelist", kind' = kind, Running,
         NEW v \in Var, FreelistFree(v)
  PROVE  Client' /\ AbstractStep /\ FreelistInv'
  <1> DEFINE p == ptr[v]
             h == FlFreed(mem, p)
  <1>1. /\ Live(v) /\ mem' = h /\ Forget({v}) /\ fault' = fault /\ FlInv(mem)
        /\ fault' \in {"none", "assert", "null", "overrun"} /\ {v} \in SUBSET Var
    BY DEF FreelistFree, FreelistInv, Client, ClientTypeOK
  <1>2. p \in DOMAIN mem.header /\ \A w \in Var \ {v} : ptr[w] # p
    BY <1>1, FlLiveIs
  <1>3. /\ Client' /\ AbstractStep /\ ~Live(v)' /\ ptr'[v] = NULL
        /\ \A w \in Var \ {v} : ptr'[w] = ptr[w] /\ want'[w] = want[w]
    BY <1>1, ForgetStep
  <1>h. h = FlFreed(mem, p)
    OBVIOUS
  <1> HIDE DEF h, p
  <1>4. /\ FlInv(h) /\ DOMAIN h.header = DOMAIN mem.header \ {p}
        /\ \A r \in DOMAIN h.header : h.header[r] = mem.header[r]
    BY ONLY <1>1, <1>2, <1>h, FlFreedIs
  <1>5. DOMAIN h.header = {ptr'[w] : w \in Var} \ {NULL}
    <2>1. DOMAIN mem.header = {ptr[w] : w \in Var} \ {NULL}
      BY DEF FreelistInv
    <2>2. \A x \in DOMAIN h.header : x # NULL /\ \E w \in Var : x = ptr'[w]
      <3>1. ASSUME NEW x \in DOMAIN h.header
            PROVE  x # NULL /\ \E w \in Var : x = ptr'[w]
        <4>1. x # NULL /\ x # p /\ x \in {ptr[w] : w \in Var}
          BY <1>4, <2>1
        <4>2. PICK w \in Var : x = ptr[w]
          BY <4>1
        <4>3. w # v
          BY <4>1, <4>2 DEF p
        <4>4. QED
          BY <1>3, <4>1, <4>2, <4>3
      <3>2. QED
        BY <3>1
    <2>3. \A w \in Var : ptr'[w] # NULL => ptr'[w] \in DOMAIN h.header
      BY <1>2, <1>3, <1>4, <2>1
    <2>4. QED
      BY <2>2, <2>3
  <1>6. \A w \in Var : Live(w)' => FlRoom(h, ptr'[w]) >= want'[w].size
    <2>1. ASSUME NEW w \in Var, Live(w)'
          PROVE  FlRoom(h, ptr'[w]) >= want'[w].size
      <3>1. w # v /\ Live(w) /\ ptr'[w] = ptr[w] /\ want'[w] = want[w]
        BY <1>3, <2>1 DEF Live
      <3>2. ptr[w] \in DOMAIN mem.header /\ FlRoom(mem, ptr[w]) >= want[w].size /\ ptr[w] # p
        BY <1>2, <3>1, FlLiveIs
      <3>3. h.header[ptr[w]] = mem.header[ptr[w]]
        BY <1>4, <3>2
      <3>4. QED
        BY <3>1, <3>2, <3>3, FlSame
    <2>2. QED
      BY <2>1
  <1>7. FlAsserts'
    BY <1>1 DEF FlAsserts, Running
  <1>8. FreelistInv'
    BY <1>1, <1>4, <1>5, <1>6, <1>7 DEF FreelistInv
  <1>9. QED
    BY <1>3, <1>8

LEMMA FreelistReallocStep ==
  ASSUME Client, FreelistInv, kind = "freelist", kind' = kind, Running,
         NEW v \in Var, FreelistRealloc(v)
  PROVE  Client' /\ AbstractStep /\ FreelistInv'
  <1> DEFINE p == ptr[v]
             align == want[v].align
             old == FlRoom(mem, p)
  <1>1. PICK n \in Requests :
          LET r == FlRealloc(mem, p, n, align)
          IN  mem' = r.mem /\ fault' = r.fault /\ Keep(v, r.p, n, align)
    BY DEF FreelistRealloc
  <1> DEFINE extra == n - old
             spare == old - n
             moved == FlAllocAlign(mem, n, align)
             grown == FlGrown(mem, p, extra)
             shrunk == FlShrunk(mem, p, spare)
             freed == FlFreed(moved.mem, p)
             Fault(h) == IF FreeUnits(h) + h.used = Size THEN "none" ELSE "assert"
  <1>2. Live(v) /\ FlInv(mem) /\ FlAsserts
    BY DEF FreelistRealloc, FreelistInv
  <1>3. p \in DOMAIN mem.header /\ \A w \in Var \ {v} : ptr[w] # p
    BY <1>2, FlLiveIs
  <1>4. n \in Nat /\ n > 0 /\ align \in Nat \ {0} /\ p % align = 0
    BY <1>2, RequestIs, VarIs DEF AlignOf
  <1>5. old \in Nat /\ old > 0
    BY <1>2, <1>3, FlPlacedIs DEF FlInv
  <1>6. \/ mem' = mem /\ fault' = "none" /\ Keep(v, NULL, n, align)
        \/ /\ mem' = mem /\ fault' = "assert" /\ Keep(v, NULL, n, align)
           /\ FreeUnits(mem) < FlHeader
        \/ mem' = mem /\ fault' = "none" /\ Keep(v, p, n, align) /\ n = old
        \/ /\ mem' = grown /\ fault' = Fault(grown) /\ Keep(v, p, n, align) /\ n > old
           /\ FlBehind(mem, p) # 0 /\ mem.list[FlBehind(mem, p)].size >= extra
        \/ /\ mem' = moved.mem /\ fault' = Fault(moved.mem) /\ Keep(v, NULL, n, align)
           /\ moved.p = NULL
        \/ mem' = freed /\ fault' = Fault(freed) /\ Keep(v, moved.p, n, align) /\ moved.p # NULL
        \/ mem' = shrunk /\ fault' = Fault(shrunk) /\ Keep(v, p, n, align) /\ n < old
    <2> DEFINE s == [mem |-> shrunk, p |-> p]
               w == IF FlBehind(mem, p) # 0 /\ mem.list[FlBehind(mem, p)].size >= extra
                    THEN [mem |-> grown, p |-> p]
                    ELSE IF moved.p = NULL THEN moved
                    ELSE [mem |-> freed, p |-> moved.p]
               f == IF n > old THEN w ELSE s
               r == FlRealloc(mem, p, n, align)
    <2>1. FlGrow(mem, p, n, align) = w
      BY DEF FlGrow
    <2>2. r = IF p % align # 0 THEN [mem |-> mem, p |-> NULL, fault |-> "assert"]
              ELSE IF n = old THEN [mem |-> mem, p |-> p, fault |-> "none"]
              ELSE IF FreeUnits(mem) < FlHeader
              THEN [mem |-> mem, p |-> NULL, fault |-> "assert"]
              ELSE IF n > old /\ n - old > FreeUnits(mem) - FlHeader
              THEN [mem |-> mem, p |-> NULL, fault |-> "none"]
              ELSE [mem |-> f.mem, p |-> f.p, fault |-> Fault(f.mem)]
      <3> HIDE DEF w
      <3>1. QED
        BY <2>1 DEF FlRealloc
    <2> DEFINE a == [mem |-> f.mem, p |-> f.p, fault |-> Fault(f.mem)]
    <2> HIDE DEF f
    <2>3. mem' = r.mem /\ fault' = r.fault /\ Keep(v, r.p, n, align)
      BY <1>1
    <2> HIDE DEF r, Fault, old, moved, grown, freed, shrunk
    <2>4. \/ mem' = mem /\ fault' = "none" /\ Keep(v, NULL, n, align)
          \/ /\ mem' = mem /\ fault' = "assert" /\ Keep(v, NULL, n, align)
             /\ FreeUnits(mem) < FlHeader
          \/ mem' = mem /\ fault' = "none" /\ Keep(v, p, n, align) /\ n = old
          \/ mem' = f.mem /\ fault' = Fault(f.mem) /\ Keep(v, f.p, n, align) /\ n # old
      <3> HIDE DEF align
      <3>1. p % align = 0
        BY <1>4
      <3>2. CASE n = old
        BY <2>2, <2>3, <3>1, <3>2
      <3>3. CASE n # old /\ FreeUnits(mem) < FlHeader
        BY <2>2, <2>3, <3>1, <3>3
      <3>4. CASE n # old /\ ~(FreeUnits(mem) < FlHeader) /\ n > old /\ n - old > FreeUnits(mem) - FlHeader
        BY <2>2, <2>3, <3>1, <3>4
      <3>5. CASE n # old /\ ~(FreeUnits(mem) < FlHeader) /\ ~(n > old /\ n - old > FreeUnits(mem) - FlHeader)
        <4>1. r.mem = f.mem /\ r.p = f.p /\ r.fault = Fault(f.mem)
          BY <2>2, <3>1, <3>5
        <4>2. QED
          BY <2>3, <3>5, <4>1
      <3>6. QED
        BY <3>2, <3>3, <3>4, <3>5
    <2>5. n # old => n > old \/ n < old
      BY <1>4, <1>5 DEF old
    <2>6. f = IF n > old THEN w ELSE s
      BY DEF f
    <2> HIDE DEF align, extra
    <2>7. CASE n > old
      <3>1. ~(n = old)
        BY <1>4, <1>5, <2>7 DEF old
      <3>2. f = w
        BY <2>6, <2>7
      <3>3. CASE FlBehind(mem, p) # 0 /\ mem.list[FlBehind(mem, p)].size >= extra
        BY <2>4, <2>7, <3>1, <3>2, <3>3
      <3>4. CASE ~(FlBehind(mem, p) # 0 /\ mem.list[FlBehind(mem, p)].size >= extra) /\ moved.p = NULL
        BY <2>4, <2>7, <3>1, <3>2, <3>4
      <3>5. CASE ~(FlBehind(mem, p) # 0 /\ mem.list[FlBehind(mem, p)].size >= extra) /\ moved.p # NULL
        BY <2>4, <2>7, <3>1, <3>2, <3>5
      <3>6. QED
        BY <3>3, <3>4, <3>5
    <2>8. CASE n < old
      <3>1. ~(n = old) /\ ~(n > old)
        BY <1>4, <1>5, <2>8 DEF old
      <3>2. f = s
        BY <2>6, <3>1
      <3>3. QED
        BY <2>4, <2>8, <3>1, <3>2
    <2>9. CASE n = old
      <3>1. ~(n # old)
        BY <2>9
      <3>2. QED
        BY <2>4, <3>1
    <2>10. QED
      BY <2>5, <2>7, <2>8, <2>9
  <1>7. ASSUME NEW h, FlInv(h), fault' = Fault(h), mem' = h
        PROVE  FlAsserts' /\ fault' \in {"none", "assert", "null", "overrun"}
    <2>1. fault' = "assert" => FreeUnits(h) + h.used # Size
      BY <1>7
    <2>2. fault' = "assert" => h.leaked # {}
      BY <1>7, <2>1, FlAddsUp
    <2>3. QED
      BY <1>7, <2>2 DEF FlAsserts
  <1>8. CASE \/ mem' = mem /\ fault' = "none" /\ Keep(v, NULL, n, align)
             \/ /\ mem' = mem /\ fault' = "assert" /\ Keep(v, NULL, n, align)
                /\ FreeUnits(mem) < FlHeader
    <2>1. mem' = mem /\ Keep(v, NULL, n, align)
      BY <1>8
    <2>2. UNCHANGED <<ptr, want>>
      BY <2>1, KeepNull
    <2>3. FlAsserts' /\ fault' \in {"none", "assert", "null", "overrun"}
      BY <1>8 DEF FlAsserts
    <2>4. QED
      BY <2>1, <2>2, <2>3, StayStep, FreelistStays
  <1>9. ASSUME NEW h, mem' = h, FlResizes(h, mem, p), FlRoom(h, p) >= n, Keep(v, p, n, align),
               FlAsserts', fault' \in {"none", "assert", "null", "overrun"}
        PROVE  Client' /\ AbstractStep /\ FreelistInv'
    <2>1. /\ FlInv(h) /\ DOMAIN h.header = DOMAIN mem.header
          /\ \A r \in DOMAIN mem.header \ {p} : h.header[r] = mem.header[r]
      BY <1>9 DEF FlResizes
    <2>2. DOMAIN h.header = ((DOMAIN mem.header) \ {ptr[v]}) \cup {p}
      BY <1>3, <2>1
    <2>3. \A r \in DOMAIN mem.header \ {ptr[v]} : h.header[r] = mem.header[r]
      BY <2>1
    <2>4. p # ptr[v] => p \notin DOMAIN mem.header
      OBVIOUS
    <2> HIDE DEF p, align
    <2>5. QED
      BY <1>4, <1>9, <2>1, <2>2, <2>3, <2>4, FlGives
  <1> HIDE DEF Fault, p, align, old
  <1>10. CASE mem' = mem /\ fault' = "none" /\ Keep(v, p, n, align) /\ n = old
    <2>1. FlResizes(mem, mem, p) /\ FlRoom(mem, p) >= n
      BY <1>2, <1>5, <1>10 DEF FlResizes, old
    <2>2. FlAsserts'
      BY <1>10 DEF FlAsserts
    <2>3. QED
      BY <1>9, <1>10, <2>1, <2>2
  <1>11. CASE /\ mem' = grown /\ fault' = Fault(grown) /\ Keep(v, p, n, align) /\ n > old
              /\ FlBehind(mem, p) # 0 /\ mem.list[FlBehind(mem, p)].size >= extra
    <2>1. extra \in Nat /\ extra > 0 /\ old + extra = n /\ grown = FlGrown(mem, p, extra)
      BY <1>4, <1>5, <1>11
    <2> HIDE DEF grown, extra
    <2>2. FlResizes(grown, mem, p) /\ FlRoom(grown, p) >= FlRoom(mem, p) + extra
      BY ONLY <1>2, <1>3, <1>11, <2>1, FlGrownIs
    <2>3. FlRoom(grown, p) >= n
      BY <2>1, <2>2 DEF old
    <2>4. FlInv(grown)
      BY <2>2 DEF FlResizes
    <2>5. QED
      BY <1>7, <1>9, <1>11, <2>2, <2>3, <2>4
  <1>12. CASE mem' = shrunk /\ fault' = Fault(shrunk) /\ Keep(v, p, n, align) /\ n < old
    <2>1. /\ spare \in Nat /\ spare > 0 /\ spare < FlRoom(mem, p) /\ old - spare = n
          /\ shrunk = FlShrunk(mem, p, spare)
      BY <1>4, <1>5, <1>12 DEF old
    <2> HIDE DEF shrunk, spare
    <2>2. FlResizes(shrunk, mem, p) /\ FlRoom(shrunk, p) >= FlRoom(mem, p) - spare
      BY ONLY <1>2, <1>3, <2>1, FlShrunkIs
    <2>3. FlRoom(shrunk, p) >= n
      BY <2>1, <2>2 DEF old
    <2>4. FlInv(shrunk)
      BY <2>2 DEF FlResizes
    <2>5. QED
      BY <1>7, <1>9, <1>12, <2>2, <2>3, <2>4
  <1>m. moved = FlAllocAlign(mem, n, align)
    OBVIOUS
  <1>13. CASE /\ mem' = moved.mem /\ fault' = Fault(moved.mem) /\ Keep(v, NULL, n, align)
              /\ moved.p = NULL
    <2> HIDE DEF moved
    <2>1. moved.mem = mem
      BY ONLY <1>2, <1>4, <1>13, <1>m, FlAllocNull
    <2>2. FlAsserts' /\ fault' \in {"none", "assert", "null", "overrun"}
      BY <1>2, <1>7, <1>13, <2>1
    <2>3. UNCHANGED <<ptr, want>>
      BY <1>13, KeepNull
    <2>4. QED
      BY <1>13, <2>1, <2>2, <2>3, StayStep, FreelistStays
  <1>14. CASE mem' = freed /\ fault' = Fault(freed) /\ Keep(v, moved.p, n, align) /\ moved.p # NULL
    <2>0. freed = FlFreed(moved.mem, p)
      OBVIOUS
    <2> HIDE DEF moved, freed
    <2>1. FlAdds(moved.mem, mem, moved.p) /\ moved.p % align = 0 /\ FlRoom(moved.mem, moved.p) >= n
      BY ONLY <1>2, <1>4, <1>14, <1>m, FlAllocAlignIs
    <2> DEFINE a == moved.mem
               q == moved.p
    <2>2. /\ FlInv(a) /\ q \in Unit /\ q \notin DOMAIN mem.header
          /\ DOMAIN a.header = DOMAIN mem.header \cup {q}
          /\ \A x \in DOMAIN mem.header : a.header[x] = mem.header[x]
      BY <2>1 DEF FlAdds
    <2>3. p \in DOMAIN a.header /\ q # p
      BY <1>3, <2>2
    <2>a. freed = FlFreed(a, p) /\ q % align = 0 /\ FlRoom(a, q) >= n /\ Keep(v, q, n, align)
      BY <1>14, <2>0, <2>1
    <2> HIDE DEF a, q
    <2>4. /\ FlInv(freed) /\ DOMAIN freed.header = DOMAIN a.header \ {p}
          /\ \A x \in DOMAIN freed.header : freed.header[x] = a.header[x]
      BY ONLY <2>2, <2>3, <2>a, FlFreedIs
    <2>5. q \in DOMAIN freed.header /\ freed.header[q] = a.header[q]
      BY <2>2, <2>3, <2>4
    <2>6. FlRoom(freed, q) >= n
      BY <2>5, <2>a, FlSame
    <2>7. DOMAIN freed.header = ((DOMAIN mem.header) \ {ptr[v]}) \cup {q}
      BY <2>2, <2>3, <2>4 DEF p
    <2>8. \A x \in DOMAIN mem.header \ {ptr[v]} : freed.header[x] = mem.header[x]
      BY <2>2, <2>4 DEF p
    <2>9. FlAsserts' /\ fault' \in {"none", "assert", "null", "overrun"}
      BY <1>7, <1>14, <2>4
    <2>10. QED
      BY <1>4, <1>14, <2>2, <2>4, <2>6, <2>7, <2>8, <2>9, <2>a, FlGives
  <1> HIDE DEF moved, grown, shrunk, freed, extra, spare
  <1>15. QED
    BY ONLY <1>6, <1>8, <1>10, <1>11, <1>12, <1>13, <1>14

LEMMA FreelistFreeAllStep ==
  ASSUME Client, FreelistInv, kind = "freelist", kind' = kind, Running, FreelistFreeAll
  PROVE  Client' /\ AbstractStep /\ FreelistInv'
  <1>1. /\ mem' = FlEmpty /\ Forget(Var) /\ fault' = "none" /\ Var \in SUBSET Var
    BY DEF FreelistFreeAll, Running
  <1>2. Client' /\ AbstractStep /\ \A w \in Var : ~Live(w)' /\ ptr'[w] = NULL
    BY <1>1, ForgetStep
  <1>3. FlInv(mem') /\ DOMAIN mem'.header = {}
    BY <1>1, FlEmptyIs
  <1>4. FreelistInv'
    BY <1>1, <1>2, <1>3 DEF FreelistInv, FlAsserts
  <1>5. QED
    BY <1>2, <1>4

LEMMA FreelistStep ==
  ASSUME Client, FreelistInv, kind = "freelist", kind' = kind, Running, FreelistNext
  PROVE  Client' /\ AbstractStep /\ FreelistInv'
  BY FreelistAllocStep, FreelistFreeStep, FreelistReallocStep, FreelistFreeAllStep DEF FreelistNext

LEMMA FreelistIsSound ==
  ASSUME Client, FreelistInv
  PROVE  FreelistSound
  <1> DEFINE list == mem.list
             n == Len(list)
             blocks == {FlBlock(mem, p) : p \in DOMAIN mem.header}
             nodes == Range(list)
             all == nodes \cup blocks \cup mem.leaked
  <1>1. /\ FlInv(mem) /\ DOMAIN mem.header = {ptr[v] : v \in Var} \ {NULL}
        /\ \A v \in Var : Live(v) => FlRoom(mem, ptr[v]) >= want[v].size
    BY DEF FreelistInv
  <1>2. Linked(list) /\ Heap(mem) /\ FlCovered(mem) /\ FlDisjoint(mem)
    BY <1>1 DEF FlInv
  <1>3. /\ n \in Nat /\ DOMAIN list = 1 .. n
        /\ \A i \in 1 .. n : /\ list[i].addr \in Nat /\ list[i].size \in Nat /\ list[i].size >= 2
                            /\ After(list[i]) = list[i].addr + list[i].size
        /\ list \in Seq(Node)
    BY <1>1, FlNodeOf
  <1>4. \A b \in nodes : (\E i \in 1 .. n : b = list[i]) /\ Extent(b) \subseteq FreeSet(list)
    BY <1>3 DEF Range, FreeSet
  <1>5. \A b \in blocks : \E p \in DOMAIN mem.header : b = FlBlock(mem, p) /\ Extent(b) = FlCells(mem, p)
    BY DEF FlCells
  <1>6. \A b, c \in nodes : b # c => Extent(b) \cap Extent(c) = {}
    <2>1. ASSUME NEW i \in 1 .. n, NEW j \in 1 .. n, i < j
          PROVE  Extent(list[i]) \cap Extent(list[j]) = {}
      <3>1. After(list[i]) <= list[j].addr
        BY <1>2, <2>1 DEF Linked, Sorted
      <3>2. \A a : a \in Extent(list[i]) <=> a \in Int /\ list[i].addr <= a /\ a < After(list[i])
        BY <1>3, ExtentIs
      <3>3. \A a : a \in Extent(list[j]) <=> a \in Int /\ list[j].addr <= a /\ a < After(list[j])
        BY <1>3, ExtentIs
      <3>4. list[i].addr \in Nat /\ list[i].size \in Nat /\ list[j].addr \in Nat
            /\ After(list[i]) = list[i].addr + list[i].size
        BY Zenon, <1>3
      <3>5. \A a \in Extent(list[i]) : a \notin Extent(list[j])
        BY ONLY <3>1, <3>2, <3>3, <3>4
      <3>6. QED
        BY <3>5
    <2>2. ASSUME NEW b \in nodes, NEW c \in nodes, b # c
          PROVE  Extent(b) \cap Extent(c) = {}
      <3>1. PICK i \in 1 .. n : b = list[i]
        BY <1>4
      <3>2. PICK j \in 1 .. n : c = list[j]
        BY <1>4
      <3>3. i < j \/ j < i
        BY <2>2, <3>1, <3>2
      <3>4. QED
        BY Zenon, <2>1, <3>1, <3>2, <3>3
    <2>3. QED
      BY <2>2
  <1>7. \A b, c \in blocks : b # c => Extent(b) \cap Extent(c) = {}
    BY <1>2, <1>5 DEF FlDisjoint
  <1>8. \A b, c \in mem.leaked : b # c => Extent(b) \cap Extent(c) = {}
    BY <1>2 DEF FlDisjoint
  <1>9. /\ \A b \in nodes, c \in blocks : Extent(b) \cap Extent(c) = {}
        /\ \A b \in nodes, c \in mem.leaked : Extent(b) \cap Extent(c) = {}
        /\ \A b \in blocks, c \in mem.leaked : Extent(b) \cap Extent(c) = {}
    <2>1. \A b \in nodes, c \in blocks : Extent(b) \cap Extent(c) = {}
      BY <1>2, <1>4, <1>5 DEF FlDisjoint
    <2>2. \A b \in nodes, c \in mem.leaked : Extent(b) \cap Extent(c) = {}
      BY <1>2, <1>4 DEF FlDisjoint
    <2>3. \A b \in blocks, c \in mem.leaked : Extent(b) \cap Extent(c) = {}
      BY <1>2, <1>5 DEF FlDisjoint
    <2>4. QED
      BY <2>1, <2>2, <2>3
  <1>10. \A l \in mem.leaked : Extent(l) \subseteq Unit
    <2>1. ASSUME NEW l \in mem.leaked
          PROVE  Extent(l) \subseteq Unit
      <3>1. FlAdrift(l)
        BY <1>1 DEF FlInv
      <3>2. l.addr \in Nat /\ l.size \in Nat /\ Base <= l.addr /\ l.addr + l.size <= End
        BY <3>1 DEF FlAdrift, Node, After
      <3>3. QED
        BY <3>2, ExtentIs, Bounds
    <2>2. QED
      BY <2>1
  <1>11. FreeSet(list) \subseteq Unit
    BY <1>1, FlUnits
  <1>12. \A p \in DOMAIN mem.header : FlCells(mem, p) \subseteq Unit
    BY <1>1, FlPlacedIs DEF FlInv
  <1>13. \A i \in 1 .. n : list[i] \in nodes
    BY <1>3 DEF Range
  <1>14. \A p \in DOMAIN mem.header : FlBlock(mem, p) \in blocks /\ Extent(FlBlock(mem, p)) = FlCells(mem, p)
    BY DEF FlCells
  <1> HIDE DEF nodes, blocks
  <1>15. \A b, c \in all : b # c => Extent(b) \cap Extent(c) = {}
    BY <1>6, <1>7, <1>8, <1>9
  <1>16. UNION {Extent(b) : b \in all} = Unit
    <2>1. \A b \in all : Extent(b) \subseteq Unit
      BY <1>4, <1>5, <1>10, <1>11, <1>12
    <2>2. ASSUME NEW a \in Unit
          PROVE  \E b \in all : a \in Extent(b)
      <3>1. \/ a \in FreeSet(list)
            \/ \E p \in DOMAIN mem.header : a \in FlCells(mem, p)
            \/ \E l \in mem.leaked : a \in Extent(l)
        BY <1>2 DEF FlCovered
      <3>2. CASE a \in FreeSet(list)
        BY <1>13, <3>2 DEF FreeSet
      <3>3. CASE \E p \in DOMAIN mem.header : a \in FlCells(mem, p)
        BY <1>14, <3>3
      <3>4. QED
        BY <3>1, <3>2, <3>3
    <2> HIDE DEF all
    <2>3. QED
      BY <2>1, <2>2
  <1>17. \A i \in 1 .. n - 1 : list[i].addr + list[i].size < list[i + 1].addr
    <2>1. ASSUME NEW i \in 1 .. n - 1
          PROVE  list[i].addr + list[i].size < list[i + 1].addr
      <3>1. After(list[i]) < list[i + 1].addr
        BY <1>2 DEF Linked, Apart
      <3>2. QED
        BY <3>1 DEF After
    <2>2. QED
      BY <2>1
  <1>18. mem.used = Cardinality(UNION {Extent(b) : b \in blocks})
    <2>1. UNION {Extent(b) : b \in blocks} = FlHeld(mem)
      BY <1>5, <1>14 DEF FlHeld
    <2>2. QED
      BY Zenon, <1>1, <2>1 DEF FlInv
  <1>19. mem.block_count = n
    BY <1>2 DEF Heap
  <1>20. QED
    BY <1>1, <1>15, <1>16, <1>17, <1>18, <1>19 DEF FreelistSound, nodes, blocks

-----------------------------------------------------------------------------
(* The buddy allocator: its blocks, each of BuddyAlign times a power of two,
   tile the buffer; "Used" are the ones in use.                            *)
Pow == {BuddyAlign * 2 ^ k : k \in Nat}
Blk == [size : Pow, is_free : BOOLEAN]

Used(bs) == {[addr |-> BlockAt(bs, i), size |-> bs[i].size] : i \in {j \in 1 .. Len(bs) : ~bs[j].is_free}}
Tiling(U) == {bs \in Seq(Blk) : SizeUpTo(bs, Len(bs)) = Size /\ Used(bs) = U}

LEMMA BuddyAlignIs == BuddyAlign \in Nat \ {0} /\ BuddyAlign \in Pow
  <1>1. PICK k \in 0 .. Size : BuddyAlign = 2 ^ k
    BY BuddyAssumption
  <1>2. BuddyAlign \in Nat \ {0}
    BY <1>1, HeapAssumption, PowIs
  <1>3. BuddyAlign = BuddyAlign * 2 ^ 0 /\ 0 \in Nat
    BY <1>2, PowZero
  <1>4. QED
    BY Zenon, <1>2, <1>3 DEF Pow

LEMMA PowSize ==
  ASSUME NEW s \in Pow
  PROVE  /\ s \in Nat /\ s > 0 /\ s % BuddyAlign = 0 /\ 2 * s \in Pow
  <1>1. PICK k \in Nat : s = BuddyAlign * 2 ^ k
    BY DEF Pow
  <1> DEFINE x == 2 ^ k
  <1>2. /\ x \in Nat \ {0} /\ 2 ^ (k + 1) = 2 * x /\ k + 1 \in Nat /\ BuddyAlign \in Nat \ {0}
        /\ s = BuddyAlign * x
    BY <1>1, PowIs, PowStep, BuddyAlignIs
  <1> HIDE DEF x
  <1>3. s \in Nat /\ s > 0 /\ 2 * s = BuddyAlign * (2 * x)
    BY <1>2
  <1>4. s % BuddyAlign = 0
    BY <1>2, Multiple
  <1>5. 2 * s \in Pow
    BY <1>2, <1>3 DEF Pow
  <1>6. QED
    BY <1>3, <1>4, <1>5

LEMMA PowHalf ==
  ASSUME NEW s \in Pow, NEW n \in Pow, n < s
  PROVE  s \div 2 \in Pow /\ 2 * (s \div 2) = s
  <1>1. PICK k \in Nat : s = BuddyAlign * 2 ^ k
    BY DEF Pow
  <1>2. PICK j \in Nat : n = BuddyAlign * 2 ^ j
    BY DEF Pow
  <1>3. k # 0
    <2>1. ASSUME k = 0
          PROVE  FALSE
      <3> DEFINE y == 2 ^ j
      <3>1. s = BuddyAlign * 1 /\ y \in Nat \ {0} /\ n = BuddyAlign * y /\ BuddyAlign \in Nat \ {0}
        BY <1>1, <1>2, <2>1, PowZero, PowIs, BuddyAlignIs
      <3> HIDE DEF y
      <3>2. y >= 1 /\ BuddyAlign * y >= BuddyAlign * 1
        BY <3>1
      <3>3. QED
        BY <3>1, <3>2
    <2>2. QED
      BY <2>1
  <1>4. k - 1 \in Nat /\ (k - 1) + 1 = k
    BY <1>3
  <1> DEFINE x == 2 ^ (k - 1)
  <1>5. x \in Nat /\ 2 ^ k = 2 * x /\ BuddyAlign \in Nat
    BY <1>4, PowStep, PowIs, BuddyAlignIs
  <1>6. BuddyAlign * x \in Pow
    BY <1>4 DEF Pow
  <1> HIDE DEF x
  <1>7. s = 2 * (BuddyAlign * x) /\ BuddyAlign * x \in Nat
    BY <1>1, <1>5
  <1> DEFINE y == BuddyAlign * x
  <1>8. y \in Nat /\ s = 2 * y /\ y \in Pow
    BY <1>6, <1>7
  <1> HIDE DEF y
  <1>9. s \div 2 = y
    BY <1>8
  <1>10. QED
    BY <1>8, <1>9

LEMMA BlocksIs ==
  ASSUME NEW bs \in Seq(Blk)
  PROVE  /\ Len(bs) \in Nat /\ DOMAIN bs = 1 .. Len(bs) /\ Sizes(bs, Len(bs))
         /\ \A i \in 1 .. Len(bs) : /\ bs[i] \in Blk /\ bs[i].size \in Pow /\ bs[i].is_free \in BOOLEAN
                                   /\ bs[i].size \in Nat /\ bs[i].size > 0
         /\ BlockAt(bs, 1) = Base
         /\ \A i \in 1 .. Len(bs) + 1 : BlockAt(bs, i) \in Nat /\ BlockAt(bs, i) >= Base
         /\ \A i \in 1 .. Len(bs) : BlockAt(bs, i + 1) = BlockAt(bs, i) + bs[i].size
         /\ BlockAt(bs, Len(bs) + 1) = Base + SizeUpTo(bs, Len(bs))
  <1> DEFINE n == Len(bs)
  <1>1. n \in Nat /\ DOMAIN bs = 1 .. n /\ \A i \in 1 .. n : bs[i] \in Blk
    BY LenProperties, ElementOfSeq
  <1>2. \A i \in 1 .. n : /\ bs[i].size \in Pow /\ bs[i].is_free \in BOOLEAN
                         /\ bs[i].size \in Nat /\ bs[i].size > 0
    BY <1>1, PowSize DEF Blk
  <1>3. Sizes(bs, n)
    BY <1>2 DEF Sizes
  <1> HIDE DEF n
  <1>4. /\ SizeUpTo(bs, 0) = 0
        /\ \A m \in 0 .. n : SizeUpTo(bs, m) \in Nat
        /\ \A m \in 1 .. n : SizeUpTo(bs, m) = SizeUpTo(bs, m - 1) + bs[m].size
    BY ONLY Zenon, <1>1, <1>3, SizeUpToStep
  <1>5. Base \in Nat
    BY Bounds
  <1>6. BlockAt(bs, 1) = Base
    <2>1. 1 - 1 = 0
      OBVIOUS
    <2>2. QED
      BY <1>4, <1>5, <2>1 DEF BlockAt
  <1>7. \A i \in 1 .. n + 1 : BlockAt(bs, i) \in Nat /\ BlockAt(bs, i) >= Base
    <2>1. \A i \in 1 .. n + 1 : i - 1 \in 0 .. n
      BY <1>1
    <2>2. QED
      BY <1>4, <1>5, <2>1 DEF BlockAt
  <1>8. \A i \in 1 .. n : BlockAt(bs, i + 1) = BlockAt(bs, i) + bs[i].size
    <2>1. ASSUME NEW i \in 1 .. n
          PROVE  BlockAt(bs, i + 1) = BlockAt(bs, i) + bs[i].size
      <3>1. (i + 1) - 1 = i /\ i - 1 \in 0 .. n
        BY <1>1
      <3>2. BlockAt(bs, i + 1) = Base + SizeUpTo(bs, i) /\ BlockAt(bs, i) = Base + SizeUpTo(bs, i - 1)
        BY <3>1 DEF BlockAt
      <3>3. SizeUpTo(bs, i) = SizeUpTo(bs, i - 1) + bs[i].size /\ SizeUpTo(bs, i - 1) \in Nat
            /\ bs[i].size \in Nat
        BY <1>2, <1>4, <3>1
      <3>4. QED
        BY <1>5, <3>2, <3>3
    <2>2. QED
      BY <2>1
  <1>9. BlockAt(bs, n + 1) = Base + SizeUpTo(bs, n)
    <2>1. (n + 1) - 1 = n
      BY <1>1
    <2>2. QED
      BY <2>1 DEF BlockAt
  <1>10. QED
    BY Zenon, <1>1, <1>2, <1>3, <1>6, <1>7, <1>8, <1>9 DEF n

LEMMA BlockOrder ==
  ASSUME NEW bs \in Seq(Blk), NEW i \in 1 .. Len(bs), NEW j \in 1 .. Len(bs) + 1, i < j
  PROVE  BlockAt(bs, i) + bs[i].size <= BlockAt(bs, j)
  <1> DEFINE n == Len(bs)
  <1>1. n \in Nat /\ Sizes(bs, n) /\ BlockAt(bs, i + 1) = BlockAt(bs, i) + bs[i].size
    BY BlocksIs
  <1> HIDE DEF n
  <1>2. i \in 0 .. n /\ j - 1 \in i .. n /\ j - 1 \in 0 .. n /\ (i + 1) - 1 = i
    BY <1>1 DEF n
  <1>3. SizeUpTo(bs, i) <= SizeUpTo(bs, j - 1)
    BY ONLY <1>1, <1>2, SizeUpToGrows
  <1>4. BlockAt(bs, i + 1) = Base + SizeUpTo(bs, i) /\ BlockAt(bs, j) = Base + SizeUpTo(bs, j - 1)
    BY <1>2 DEF BlockAt
  <1>5. SizeUpTo(bs, i) \in Nat /\ SizeUpTo(bs, j - 1) \in Nat
    BY ONLY Zenon, <1>1, <1>2, SizeUpToStep
  <1>6. QED
    BY <1>1, <1>3, <1>4, <1>5, Bounds

(* A block of the sequence begins where no other does. *)
LEMMA BlockAlone ==
  ASSUME NEW bs \in Seq(Blk), NEW i \in 1 .. Len(bs), NEW j \in 1 .. Len(bs),
         BlockAt(bs, i) = BlockAt(bs, j)
  PROVE  i = j
  <1>1. /\ BlockAt(bs, i) \in Nat /\ BlockAt(bs, j) \in Nat /\ bs[i].size \in Nat /\ bs[i].size > 0
        /\ bs[j].size \in Nat /\ bs[j].size > 0 /\ Len(bs) \in Nat
    BY BlocksIs
  <1>2. i < j => BlockAt(bs, i) + bs[i].size <= BlockAt(bs, j)
    BY <1>1, BlockOrder
  <1>3. j < i => BlockAt(bs, j) + bs[j].size <= BlockAt(bs, i)
    BY <1>1, BlockOrder
  <1>4. QED
    BY <1>1, <1>2, <1>3

(* They begin at multiples of the alignment. *)
LEMMA BlockAligned ==
  ASSUME NEW bs \in Seq(Blk)
  PROVE  \A i \in 1 .. Len(bs) + 1 : BlockAt(bs, i) % BuddyAlign = 0
  <1> DEFINE n == Len(bs)
             S == {i \in 1 .. n + 1 : BlockAt(bs, i) % BuddyAlign # 0}
  <1>1. CASE S # {}
    <2>1. S \in SUBSET Nat
      OBVIOUS
    <2>2. PICK i \in S : \A x \in Nat : x < i => x \notin S
      BY Zenon, <1>1, <2>1, LeastIndex
    <2>3. n \in Nat /\ BlockAt(bs, 1) = Base /\ BuddyAlign \in Nat \ {0}
      BY BlocksIs, BuddyAlignIs
    <2>4. i # 1
      BY <2>2, <2>3, BuddyAssumption
    <2>5. i - 1 \in 1 .. n /\ i - 1 \in 1 .. n + 1 /\ i - 1 < i /\ i - 1 \in Nat /\ (i - 1) + 1 = i
      BY <2>2, <2>3, <2>4
    <2>6. BlockAt(bs, i - 1) % BuddyAlign = 0
      BY <2>2, <2>5
    <2>7. /\ BlockAt(bs, i) = BlockAt(bs, i - 1) + bs[i - 1].size
          /\ BlockAt(bs, i - 1) \in Int /\ bs[i - 1].size \in Pow
      BY <2>5, BlocksIs
    <2>8. bs[i - 1].size \in Int /\ bs[i - 1].size % BuddyAlign = 0
      BY <2>7, PowSize
    <2>9. BlockAt(bs, i) % BuddyAlign = 0
      BY <2>3, <2>6, <2>7, <2>8, Multiples
    <2>10. QED
      BY <2>2, <2>9
  <1>2. QED
    BY <1>1

(* cs is bs with block i, a free one, cut in two. *)
Recut(bs, cs, i) ==
  /\ Len(cs) = Len(bs) + 1
  /\ \A j \in 1 .. i - 1 : cs[j] = bs[j]
  /\ \A j \in i + 1 .. Len(bs) : cs[j + 1] = bs[j]
  /\ bs[i].size = cs[i].size + cs[i + 1].size
  /\ bs[i].is_free /\ cs[i].is_free /\ cs[i + 1].is_free

LEMMA RecutSums ==
  ASSUME NEW bs \in Seq(Blk), NEW cs \in Seq(Blk), NEW i \in 1 .. Len(bs), Recut(bs, cs, i)
  PROVE  /\ \A j \in 1 .. i : BlockAt(cs, j) = BlockAt(bs, j)
         /\ \A j \in i + 1 .. Len(bs) + 1 : BlockAt(cs, j + 1) = BlockAt(bs, j)
         /\ SizeUpTo(cs, Len(cs)) = SizeUpTo(bs, Len(bs))
  <1> DEFINE n == Len(bs)
             f == [k \in 0 .. n + 1 |-> IF k < i THEN SizeUpTo(bs, k)
                     ELSE IF k = i THEN SizeUpTo(bs, i - 1) + cs[i].size ELSE SizeUpTo(bs, k - 1)]
  <1>1. /\ n \in Nat /\ Len(cs) = n + 1 /\ Sizes(bs, n) /\ Sizes(cs, n + 1)
        /\ cs[i].size \in Nat /\ cs[i + 1].size \in Nat
    <2>1. n \in Nat /\ Sizes(bs, n) /\ Len(cs) = n + 1 /\ Sizes(cs, Len(cs))
      BY Zenon, BlocksIs DEF Recut
    <2>2. i \in 1 .. Len(cs) /\ i + 1 \in 1 .. Len(cs)
      BY <2>1
    <2>3. QED
      BY <2>1, <2>2 DEF Sizes
  <1>2. /\ SizeUpTo(bs, 0) = 0
        /\ \A m \in 0 .. n : SizeUpTo(bs, m) \in Nat
        /\ \A m \in 1 .. n : SizeUpTo(bs, m) = SizeUpTo(bs, m - 1) + bs[m].size
    BY ONLY Zenon, <1>1, SizeUpToStep
  <1> DEFINE N == 0 .. n + 1
  <1>3. /\ \A k \in N : k < i => f[k] = SizeUpTo(bs, k)
        /\ f[i] = SizeUpTo(bs, i - 1) + cs[i].size
        /\ \A k \in N : k > i => f[k] = SizeUpTo(bs, k - 1)
    BY <1>1
  <1> HIDE DEF f
  <1>4. ASSUME NEW k \in 1 .. n + 1
        PROVE  f[k] = f[k - 1] + cs[k].size
    <2>1. k \in N /\ k - 1 \in N /\ n \in Nat /\ i \in 1 .. n
      BY <1>1
    <2>2. CASE k < i
      <3>1. k - 1 < i /\ k \in 1 .. n /\ k \in 1 .. i - 1
        BY <2>1, <2>2
      <3>2. f[k] = SizeUpTo(bs, k) /\ f[k - 1] = SizeUpTo(bs, k - 1) /\ cs[k] = bs[k]
        BY <1>3, <2>1, <2>2, <3>1 DEF Recut
      <3>3. QED
        BY <1>2, <3>1, <3>2
    <2>3. CASE k = i
      <3>1. k - 1 < i
        BY <2>1, <2>3
      <3>2. f[k - 1] = SizeUpTo(bs, k - 1)
        BY <1>3, <2>1, <3>1
      <3>3. QED
        BY <1>3, <2>3, <3>2
    <2>4. CASE k = i + 1
      <3>1. k > i /\ k - 1 = i /\ i \in 1 .. n /\ i - 1 \in 0 .. n
        BY <2>1, <2>4
      <3>2. f[k] = SizeUpTo(bs, i) /\ f[k - 1] = SizeUpTo(bs, i - 1) + cs[i].size
        BY <1>3, <2>1, <3>1
      <3>3. /\ SizeUpTo(bs, i) = SizeUpTo(bs, i - 1) + (cs[i].size + cs[k].size)
            /\ SizeUpTo(bs, i - 1) \in Nat /\ cs[k].size \in Nat /\ cs[i].size \in Nat
        BY Zenon, <1>1, <1>2, <2>4, <3>1 DEF Recut
      <3>4. QED
        BY <3>2, <3>3
    <2>5. CASE k > i + 1
      <3>1. k > i /\ k - 1 > i /\ k - 1 \in i + 1 .. n /\ k - 1 \in 1 .. n /\ (k - 1) + 1 = k
        BY <2>1, <2>5
      <3>2. f[k] = SizeUpTo(bs, k - 1) /\ f[k - 1] = SizeUpTo(bs, (k - 1) - 1) /\ cs[k] = bs[k - 1]
        BY Zenon, <1>3, <2>1, <3>1 DEF Recut
      <3>3. QED
        BY <1>2, <3>1, <3>2
    <2>6. QED
      BY <2>1, <2>2, <2>3, <2>4, <2>5
  <1>5. f[0] = 0
    <2>1. 0 \in N /\ 0 < i
      BY <1>1
    <2>2. QED
      BY <1>2, <1>3, <2>1
  <1>6. \A m \in 0 .. n + 1 : SizeUpTo(cs, m) = f[m] /\ f[m] \in Nat
    <2>1. Adds(f, cs, n + 1) /\ n + 1 \in Nat
      BY <1>1, <1>4, <1>5 DEF Adds
    <2>2. QED
      BY ONLY <1>1, <2>1, SizeUpToIs
  <1>7. ASSUME NEW j \in 1 .. i
        PROVE  BlockAt(cs, j) = BlockAt(bs, j)
    <2>1. j - 1 \in N /\ j - 1 < i
      BY <1>1
    <2>2. SizeUpTo(cs, j - 1) = SizeUpTo(bs, j - 1)
      BY <1>3, <1>6, <2>1
    <2>3. QED
      BY <2>2 DEF BlockAt
  <1>8. ASSUME NEW j \in i + 1 .. n + 1
        PROVE  BlockAt(cs, j + 1) = BlockAt(bs, j)
    <2>1. j \in N /\ j > i /\ (j + 1) - 1 = j
      BY <1>1
    <2>2. SizeUpTo(cs, j) = SizeUpTo(bs, j - 1)
      BY <1>3, <1>6, <2>1
    <2>3. QED
      BY <2>1, <2>2 DEF BlockAt
  <1>9. SizeUpTo(cs, n + 1) = SizeUpTo(bs, n)
    <2>1. n + 1 \in N /\ n + 1 > i /\ (n + 1) - 1 = n
      BY <1>1
    <2>2. QED
      BY <1>3, <1>6, <2>1
  <1>10. QED
    BY <1>1, <1>7, <1>8, <1>9

LEMMA UsedIs ==
  ASSUME NEW bs
  PROVE  \A u : u \in Used(bs) <=>
           \E j \in 1 .. Len(bs) : ~bs[j].is_free /\ u = [addr |-> BlockAt(bs, j), size |-> bs[j].size]
  BY DEF Used

LEMMA RecutUsed ==
  ASSUME NEW bs \in Seq(Blk), NEW cs \in Seq(Blk), NEW i \in 1 .. Len(bs), Recut(bs, cs, i)
  PROVE  Used(cs) = Used(bs)
  <1>1. /\ Len(bs) \in Nat /\ Len(cs) = Len(bs) + 1
        /\ \A j \in 1 .. i : BlockAt(cs, j) = BlockAt(bs, j)
        /\ \A j \in i + 1 .. Len(bs) + 1 : BlockAt(cs, j + 1) = BlockAt(bs, j)
    BY Zenon, BlocksIs, RecutSums DEF Recut
  <1>2. ASSUME NEW u, u \in Used(cs)
        PROVE  u \in Used(bs)
    <2>1. PICK j \in 1 .. Len(cs) : ~cs[j].is_free /\ u = [addr |-> BlockAt(cs, j), size |-> cs[j].size]
      BY <1>2, UsedIs
    <2>2. j # i /\ j # i + 1
      BY <2>1 DEF Recut
    <2>3. CASE j < i
      <3>1. j \in 1 .. i - 1 /\ j \in 1 .. i /\ j \in 1 .. Len(bs)
        BY <1>1, <2>3
      <3>2. cs[j] = bs[j] /\ BlockAt(cs, j) = BlockAt(bs, j)
        BY <1>1, <3>1 DEF Recut
      <3>3. QED
        BY <2>1, <3>1, <3>2, UsedIs
    <2>4. CASE j > i + 1
      <3>1. j - 1 \in i + 1 .. Len(bs) /\ j - 1 \in i + 1 .. Len(bs) + 1 /\ j - 1 \in 1 .. Len(bs)
            /\ (j - 1) + 1 = j
        BY <1>1, <2>4
      <3>2. cs[j] = bs[j - 1] /\ BlockAt(cs, j) = BlockAt(bs, j - 1)
        BY <1>1, <3>1 DEF Recut
      <3>3. QED
        BY <2>1, <3>1, <3>2, UsedIs
    <2>5. QED
      BY <1>1, <2>2, <2>3, <2>4
  <1>3. ASSUME NEW u, u \in Used(bs)
        PROVE  u \in Used(cs)
    <2>1. PICK j \in 1 .. Len(bs) : ~bs[j].is_free /\ u = [addr |-> BlockAt(bs, j), size |-> bs[j].size]
      BY <1>3, UsedIs
    <2>2. j # i
      BY <2>1 DEF Recut
    <2>3. CASE j < i
      <3>1. j \in 1 .. i - 1 /\ j \in 1 .. i /\ j \in 1 .. Len(cs)
        BY <1>1, <2>3
      <3>2. cs[j] = bs[j] /\ BlockAt(cs, j) = BlockAt(bs, j)
        BY <1>1, <3>1 DEF Recut
      <3>3. QED
        BY <2>1, <3>1, <3>2, UsedIs
    <2>4. CASE j > i
      <3>1. j \in i + 1 .. Len(bs) /\ j \in i + 1 .. Len(bs) + 1 /\ j + 1 \in 1 .. Len(cs)
        BY <1>1, <2>4
      <3>2. cs[j + 1] = bs[j] /\ BlockAt(cs, j + 1) = BlockAt(bs, j)
        BY <1>1, <3>1 DEF Recut
      <3>3. QED
        BY <2>1, <3>1, <3>2, UsedIs
    <2>5. QED
      BY <1>1, <2>2, <2>3, <2>4
  <1>4. QED
    BY Zenon, <1>2, <1>3

LEMMA HalvedIs ==
  ASSUME NEW U, NEW bs \in Tiling(U), NEW i \in 1 .. Len(bs), bs[i].is_free,
         NEW h \in Pow, h = bs[i].size \div 2, 2 * h = bs[i].size
  PROVE  /\ Halved(bs, i) \in Tiling(U)
         /\ Len(Halved(bs, i)) = Len(bs) + 1
         /\ Halved(bs, i)[i + 1] = [size |-> h, is_free |-> TRUE]
  <1> DEFINE b == [size |-> h, is_free |-> TRUE]
             cs == [bs EXCEPT ![i].size = h]
             ds == InsertAt(cs, i + 1, b)
  <1>1. /\ bs \in Seq(Blk) /\ bs[i] \in Blk /\ Len(bs) \in Nat /\ SizeUpTo(bs, Len(bs)) = Size /\ Used(bs) = U
        /\ DOMAIN bs = 1 .. Len(bs) /\ h \in Nat
    BY Zenon, BlocksIs, PowSize DEF Tiling
  <1>2. Halved(bs, i) = ds
    BY DEF Halved
  <1>3. b \in Blk /\ b.size = h /\ b.is_free = TRUE
    BY DEF Blk
  <1>4. /\ cs \in Seq(Blk) /\ Len(cs) = Len(bs) /\ cs[i].size = h /\ cs[i].is_free
        /\ \A j \in 1 .. Len(bs) : j # i => cs[j] = bs[j]
    <2>1. cs = [bs EXCEPT ![i] = [bs[i] EXCEPT !.size = h]]
      OBVIOUS
    <2> DEFINE c == [bs[i] EXCEPT !.size = h]
    <2>2. c \in Blk /\ c.size = h /\ c.is_free
      BY <1>1 DEF Blk
    <2> HIDE DEF c
    <2>3. /\ [bs EXCEPT ![i] = c] \in Seq(Blk) /\ Len([bs EXCEPT ![i] = c]) = Len(bs)
          /\ [bs EXCEPT ![i] = c][i] = c
          /\ \A j \in 1 .. Len(bs) : j # i => [bs EXCEPT ![i] = c][j] = bs[j]
      BY <1>1, <2>2, ExceptSeq
    <2>4. QED
      BY <2>1, <2>2, <2>3 DEF c
  <1> HIDE DEF cs, b
  <1>5. i + 1 \in 1 .. Len(cs) + 1 /\ (i + 1) - 1 = i /\ i \in 1 .. (i + 1) - 1
    BY <1>1, <1>4
  <1>6. /\ ds \in Seq(Blk) /\ Len(ds) = Len(bs) + 1 /\ ds[i + 1] = b
        /\ \A j \in 1 .. i : ds[j] = cs[j]
        /\ \A j \in i + 1 .. Len(bs) : ds[j + 1] = cs[j]
    <2> DEFINE q == i + 1
    <2>1. q \in 1 .. Len(cs) + 1 /\ q - 1 = i /\ q = i + 1
      BY <1>5
    <2> HIDE DEF q
    <2>2. /\ InsertAt(cs, q, b) \in Seq(Blk)
          /\ Len(InsertAt(cs, q, b)) = Len(cs) + 1
          /\ InsertAt(cs, q, b)[q] = b
          /\ \A j \in 1 .. q - 1 : InsertAt(cs, q, b)[j] = cs[j]
          /\ \A j \in q .. Len(cs) : InsertAt(cs, q, b)[j + 1] = cs[j]
      BY ONLY <1>3, <1>4, <2>1, InsertAtIs
    <2>3. QED
      BY <1>4, <2>1, <2>2
  <1> HIDE DEF ds
  <1>7. Recut(bs, ds, i)
    <2>1. ASSUME NEW j \in 1 .. i - 1
          PROVE  ds[j] = bs[j]
      <3>1. j \in 1 .. i /\ j \in 1 .. Len(bs) /\ j # i
        BY <1>1
      <3>2. QED
        BY <1>4, <1>6, <3>1
    <2>2. ASSUME NEW j \in i + 1 .. Len(bs)
          PROVE  ds[j + 1] = bs[j]
      <3>1. j \in 1 .. Len(bs) /\ j # i
        BY <1>1
      <3>2. QED
        BY <1>4, <1>6, <3>1
    <2>3. ds[i] = cs[i]
      BY <1>1, <1>6
    <2>4. QED
      BY <1>1, <1>3, <1>4, <1>6, <2>1, <2>2, <2>3 DEF Recut
  <1>8. SizeUpTo(ds, Len(ds)) = Size /\ Used(ds) = U
    BY Zenon, <1>1, <1>6, <1>7, RecutSums, RecutUsed
  <1>9. QED
    BY Zenon, <1>2, <1>6, <1>8 DEF Tiling, b

LEMMA JoinedIs ==
  ASSUME NEW U, NEW bs \in Tiling(U), NEW i \in 1 .. Len(bs) - 1, Buddies(bs, i)
  PROVE  /\ Joined(bs, i) \in Tiling(U)
         /\ Len(Joined(bs, i)) = Len(bs) - 1
         /\ Joined(bs, i)[i].is_free /\ Joined(bs, i)[i].size = 2 * bs[i].size
         /\ \A j \in 1 .. i - 1 : Joined(bs, i)[j] = bs[j]
  <1> DEFINE cs == [bs EXCEPT ![i].size = 2 * @]
             ds == RemoveAt(cs, i + 1)
  <1>1. /\ bs \in Seq(Blk) /\ Len(bs) \in Nat /\ SizeUpTo(bs, Len(bs)) = Size /\ Used(bs) = U
        /\ DOMAIN bs = 1 .. Len(bs)
    BY BlocksIs DEF Tiling
  <1>2. i \in 1 .. Len(bs) /\ i + 1 \in 1 .. Len(bs)
    BY <1>1
  <1>3. /\ bs[i] \in Blk /\ bs[i + 1] \in Blk /\ bs[i].size \in Pow /\ bs[i].size \in Nat
        /\ 2 * bs[i].size \in Pow /\ bs[i].is_free /\ bs[i + 1].is_free /\ bs[i + 1].size = bs[i].size
    BY <1>1, <1>2, BlocksIs, PowSize DEF Buddies
  <1>4. Joined(bs, i) = ds
    BY DEF Joined
  <1>5. /\ cs \in Seq(Blk) /\ Len(cs) = Len(bs) /\ cs[i].size = 2 * bs[i].size /\ cs[i].is_free
        /\ \A j \in 1 .. Len(bs) : j # i => cs[j] = bs[j]
    <2> DEFINE c == [bs[i] EXCEPT !.size = 2 * bs[i].size]
    <2>1. cs = [bs EXCEPT ![i] = c]
      OBVIOUS
    <2>2. c \in Blk /\ c.size = 2 * bs[i].size /\ c.is_free
      BY <1>3 DEF Blk
    <2> HIDE DEF c
    <2>3. /\ [bs EXCEPT ![i] = c] \in Seq(Blk) /\ Len([bs EXCEPT ![i] = c]) = Len(bs)
          /\ [bs EXCEPT ![i] = c][i] = c
          /\ \A j \in 1 .. Len(bs) : j # i => [bs EXCEPT ![i] = c][j] = bs[j]
      BY <1>1, <1>2, <2>2, ExceptSeq
    <2>4. QED
      BY Zenon, <2>1, <2>2, <2>3
  <1> HIDE DEF cs
  <1>6. /\ ds \in Seq(Blk) /\ Len(ds) = Len(bs) - 1
        /\ \A j \in 1 .. i : ds[j] = cs[j]
        /\ \A j \in i + 1 .. Len(bs) - 1 : ds[j] = cs[j + 1]
    <2>1. i + 1 \in 1 .. Len(cs) /\ (i + 1) - 1 = i
      BY <1>2, <1>5
    <2>2. /\ RemoveAt(cs, i + 1) \in Seq(Blk)
          /\ Len(RemoveAt(cs, i + 1)) = Len(cs) - 1
          /\ \A j \in 1 .. (i + 1) - 1 : RemoveAt(cs, i + 1)[j] = cs[j]
          /\ \A j \in i + 1 .. Len(cs) - 1 : RemoveAt(cs, i + 1)[j] = cs[j + 1]
      BY ONLY Zenon, <1>5, <2>1, RemoveAtIs
    <2>3. QED
      BY <1>5, <2>1, <2>2
  <1> HIDE DEF ds
  <1>7. i \in 1 .. Len(ds) /\ ds[i] = cs[i] /\ i \in 1 .. i
    BY <1>1, <1>2, <1>6
  <1>8. \A j \in 1 .. i - 1 : ds[j] = bs[j]
    BY <1>1, <1>2, <1>5, <1>6
  <1>9. Recut(ds, bs, i)
    <2>1. ASSUME NEW j \in i + 1 .. Len(ds)
          PROVE  bs[j + 1] = ds[j]
      <3>1. j \in i + 1 .. Len(bs) - 1 /\ j + 1 \in 1 .. Len(bs) /\ j + 1 # i
        BY <1>1, <1>2, <1>6
      <3>2. QED
        BY <1>5, <1>6, <3>1
    <2>2. Len(bs) = Len(ds) + 1 /\ ds[i].size = bs[i].size + bs[i + 1].size
      BY <1>1, <1>3, <1>5, <1>6, <1>7
    <2>3. QED
      BY <1>3, <1>5, <1>7, <1>8, <2>1, <2>2 DEF Recut
  <1>10. SizeUpTo(ds, Len(ds)) = Size /\ Used(ds) = U
    BY Zenon, <1>1, <1>6, <1>7, <1>9, RecutSums, RecutUsed
  <1>11. QED
    BY Zenon, <1>4, <1>5, <1>6, <1>7, <1>8, <1>10 DEF Tiling

(* The states of the loop of buddy_block_split(). *)
Splits(U) == {l \in [bs : Tiling(U), i : Nat] : l.i \in 1 .. Len(l.bs) /\ l.bs[l.i].is_free}

LEMMA SplitTurnIs ==
  ASSUME NEW U, NEW l \in Splits(U), NEW n \in Pow
  PROVE  SplitTurn(l, n) \in Splits(U)
  <1>1. /\ l.bs \in Tiling(U) /\ l.i \in 1 .. Len(l.bs) /\ l.bs[l.i].is_free
        /\ Len(l.bs) \in Nat
    BY BlocksIs DEF Splits, Tiling
  <1>2. CASE n < l.bs[l.i].size
    <2> DEFINE h == l.bs[l.i].size \div 2
    <2>1. l.bs[l.i].size \in Pow
      BY <1>1, BlocksIs DEF Tiling
    <2>2. h \in Pow /\ 2 * h = l.bs[l.i].size
      BY <1>2, <2>1, PowHalf
    <2>3. /\ Halved(l.bs, l.i) \in Tiling(U)
          /\ Len(Halved(l.bs, l.i)) = Len(l.bs) + 1
          /\ Halved(l.bs, l.i)[l.i + 1] = [size |-> h, is_free |-> TRUE]
      BY <1>1, <2>2, HalvedIs
    <2> HIDE DEF h
    <2>4. l.i + 1 \in 1 .. Len(l.bs) + 1 /\ l.i + 1 \in Nat
      BY <1>1
    <2>5. SplitTurn(l, n) = [bs |-> Halved(l.bs, l.i), i |-> l.i + 1]
      BY <1>2 DEF SplitTurn
    <2>6. QED
      BY <2>3, <2>4, <2>5 DEF Splits
  <1>3. CASE ~(n < l.bs[l.i].size)
    BY <1>3 DEF SplitTurn
  <1>4. QED
    BY <1>2, <1>3

LEMMA BlockSplitIs ==
  ASSUME NEW U, NEW bs \in Tiling(U), NEW i \in 1 .. Len(bs), bs[i].is_free, NEW n \in Pow
  PROVE  LET r == BlockSplit(bs, i, n)
         IN  r.bs \in Tiling(U) /\ (r.found # 0 => /\ r.found \in 1 .. Len(r.bs)
                                                   /\ r.bs[r.found].is_free /\ n <= r.bs[r.found].size)
  <1> DEFINE s == [bs |-> bs, i |-> i]
             Turn(x) == SplitTurn(x, n)
             G == [x \in Splits(U) |-> Turn(x)]
             E(h) == h = [k \in 0 .. Size |-> IF k = 0 THEN s ELSE Turn(h[k - 1])]
             c == CHOOSE h : E(h)
             l == Turns(Turn, s, Size)
  <1>1. Len(bs) \in Nat /\ Size \in Nat
    BY BlocksIs, HeapAssumption DEF Tiling
  <1>2. s \in Splits(U)
    BY <1>1 DEF Splits
  <1>3. G \in [Splits(U) -> Splits(U)] /\ \A x \in Splits(U) : G[x] = Turn(x)
    BY SplitTurnIs
  <1>4. l = c[Size]
    BY DEF Turns
  <1> HIDE DEF s, G
  <1>5. PICK f \in [0 .. Size -> Splits(U)] : Passes(f, Size, s, G)
    BY ONLY Zenon, <1>1, <1>2, <1>3, Orbit
  <1>6. \A k \in 1 .. Size : k \in 0 .. Size /\ k - 1 \in 0 .. Size /\ k # 0
    BY <1>1
  <1> HIDE DEF Turn
  <1>7. E(f)
    <2>1. \A k \in 0 .. Size : f[k] = IF k = 0 THEN s ELSE Turn(f[k - 1])
      BY <1>3, <1>5, <1>6 DEF Passes
    <2>2. QED
      BY <2>1
  <1>8. E(c)
    BY Zenon, <1>7
  <1> HIDE DEF c
  <1>9. c[0] = s /\ f[0] = s /\ \A k \in 1 .. Size : c[k] = Turn(c[k - 1]) /\ f[k] = Turn(f[k - 1])
    BY <1>1, <1>6, <1>7, <1>8
  <1>10. c[Size] \in Splits(U)
    <2>1. f[0] = c[0] /\ \A k \in 1 .. Size : f[k - 1] = c[k - 1] => f[k] = c[k]
      BY <1>9
    <2>2. QED
      BY ONLY Zenon, <1>1, <1>5, <2>1, SameOrbit
  <1>11. BlockSplit(bs, i, n) = [bs |-> l.bs, found |-> IF n <= l.bs[l.i].size THEN l.i ELSE 0]
    BY DEF BlockSplit, s, Turn
  <1> HIDE DEF l
  <1>12. QED
    BY <1>4, <1>10, <1>11 DEF Splits

(* The states of the loop of buddy_block_find_best(). *)
Scans(U, n) ==
  {l \in [bs : Tiling(U), i : Nat, best : Nat] :
     /\ l.i >= 1 /\ l.best <= Len(l.bs) /\ l.best <= l.i
     /\ l.best # 0 => l.bs[l.best].is_free /\ n <= l.bs[l.best].size}

LEMMA ScanTurnIs ==
  ASSUME NEW U, NEW n \in Pow, NEW l \in Scans(U, n)
  PROVE  ScanTurn(l, n) \in Scans(U, n)
  <1>1. /\ l.bs \in Tiling(U) /\ l.i \in Nat /\ l.best \in Nat /\ Len(l.bs) \in Nat
        /\ l.i >= 1 /\ l.best <= Len(l.bs) /\ l.best <= l.i /\ n \in Nat
        /\ l.best # 0 => l.bs[l.best].is_free /\ n <= l.bs[l.best].size
    BY BlocksIs, PowSize DEF Scans, Tiling
  <1>2. CASE l.i >= Len(l.bs)
    BY <1>2 DEF ScanTurn
  <1>3. CASE ~(l.i >= Len(l.bs)) /\ Buddies(l.bs, l.i)
    <2> DEFINE joined == Joined(l.bs, l.i)
               best == IF Better(joined, l.i, l.best, n) THEN l.i ELSE l.best
    <2>1. l.i \in 1 .. Len(l.bs) - 1 /\ l.i \in 1 .. Len(l.bs)
      BY <1>1, <1>3
    <2>2. /\ joined \in Tiling(U) /\ Len(joined) = Len(l.bs) - 1
          /\ joined[l.i].is_free /\ joined[l.i].size = 2 * l.bs[l.i].size
          /\ \A j \in 1 .. l.i - 1 : joined[j] = l.bs[j]
      <3> DEFINE b == l.bs
                 j == l.i
      <3>1. b \in Tiling(U) /\ j \in 1 .. Len(b) - 1 /\ Buddies(b, j)
        BY <1>3, <2>1, <1>1
      <3> HIDE DEF b, j
      <3>2. /\ Joined(b, j) \in Tiling(U) /\ Len(Joined(b, j)) = Len(b) - 1
            /\ Joined(b, j)[j].is_free /\ Joined(b, j)[j].size = 2 * b[j].size
            /\ \A k \in 1 .. j - 1 : Joined(b, j)[k] = b[k]
        BY ONLY <3>1, JoinedIs
      <3>3. QED
        BY ONLY <3>2 DEF b, j, joined
    <2>3. l.bs[l.i].size \in Nat
      BY Zenon, <1>1, <2>1, BlocksIs DEF Tiling
    <2>4. ScanTurn(l, n) = [bs |-> joined, i |-> l.i + 1, best |-> best]
      BY <1>3 DEF ScanTurn
    <2> HIDE DEF joined
    <2>5. best \in Nat /\ best <= l.i /\ best <= Len(joined)
      BY <1>1, <2>1, <2>2
    <2>6. best # 0 => joined[best].is_free /\ n <= joined[best].size
      <3>1. CASE Better(joined, l.i, l.best, n)
        <4>1. best = l.i /\ joined[l.i].is_free /\ n <= joined[l.i].size
          BY <3>1 DEF Better
        <4>2. QED
          BY <4>1
      <3>2. CASE ~Better(joined, l.i, l.best, n) /\ l.best # 0 /\ l.best # l.i
        <4>1. best = l.best /\ l.best \in 1 .. l.i - 1
          BY <1>1, <3>2
        <4>2. QED
          BY Zenon, <1>1, <2>2, <3>2, <4>1
      <3>3. CASE ~Better(joined, l.i, l.best, n) /\ l.best = l.i
        <4>1. best = l.i /\ n <= l.bs[l.i].size
          BY <1>1, <3>3
        <4>2. QED
          BY <1>1, <2>2, <2>3, <4>1
      <3>4. QED
        BY <3>1, <3>2, <3>3
    <2> HIDE DEF best
    <2>7. QED
      BY <1>1, <2>2, <2>4, <2>5, <2>6 DEF Scans
  <1>4. CASE ~(l.i >= Len(l.bs)) /\ ~Buddies(l.bs, l.i)
    <2> DEFINE left == IF Better(l.bs, l.i, l.best, n) THEN l.i ELSE l.best
               right == IF BetterBuddy(l.bs, l.i + 1, left, n) THEN l.i + 1 ELSE left
               next == IF l.bs[l.i].size <= l.bs[l.i + 1].size THEN l.i + 2 ELSE l.i + 1
    <2>1. ScanTurn(l, n) = [bs |-> l.bs, best |-> right, i |-> next]
      BY <1>4 DEF ScanTurn
    <2>2. left \in Nat /\ left <= l.i /\ (left # 0 => l.bs[left].is_free /\ n <= l.bs[left].size)
      BY <1>1 DEF Better
    <2> HIDE DEF left
    <2>3. right \in Nat /\ right <= l.i + 1 /\ (right # 0 => l.bs[right].is_free /\ n <= l.bs[right].size)
      BY <1>1, <2>2 DEF Better, BetterBuddy
    <2> HIDE DEF right
    <2>4. next \in Nat /\ next >= l.i + 1
      BY <1>1
    <2> HIDE DEF next
    <2>5. right <= next /\ right <= Len(l.bs) /\ next >= 1
      BY <1>1, <1>4, <2>3, <2>4
    <2>6. QED
      BY <1>1, <2>1, <2>3, <2>4, <2>5 DEF Scans
  <1>5. QED
    BY <1>2, <1>3, <1>4

LEMMA ScanBestIs ==
  ASSUME NEW U, NEW bs \in Tiling(U), NEW n \in Pow
  PROVE  ScanBest(bs, n) \in Scans(U, n)
  <1> DEFINE m == Len(bs)
             s == [bs |-> bs, i |-> 1, best |-> 0]
             Turn(x) == ScanTurn(x, n)
             G == [x \in Scans(U, n) |-> Turn(x)]
             E(h) == h = [k \in 0 .. m |-> IF k = 0 THEN s ELSE Turn(h[k - 1])]
             c == CHOOSE h : E(h)
  <1>1. m \in Nat
    BY BlocksIs DEF Tiling
  <1>2. s \in Scans(U, n)
    BY <1>1 DEF Scans
  <1>3. G \in [Scans(U, n) -> Scans(U, n)] /\ \A x \in Scans(U, n) : G[x] = Turn(x)
    BY ScanTurnIs
  <1>4. ScanBest(bs, n) = c[m]
    BY DEF Turns, ScanBest
  <1> HIDE DEF m
  <1> HIDE DEF s, G
  <1>5. PICK f \in [0 .. m -> Scans(U, n)] : Passes(f, m, s, G)
    BY ONLY <1>1, <1>2, <1>3, Orbit
  <1>6. \A k \in 1 .. m : k \in 0 .. m /\ k - 1 \in 0 .. m /\ k # 0
    BY <1>1
  <1> HIDE DEF Turn
  <1>7. E(f)
    <2>1. \A k \in 0 .. m : f[k] = IF k = 0 THEN s ELSE Turn(f[k - 1])
      BY <1>3, <1>5, <1>6 DEF Passes
    <2>2. QED
      BY <2>1
  <1>8. E(c)
    BY Zenon, <1>7
  <1> HIDE DEF c
  <1>9. c[0] = s /\ f[0] = s /\ \A k \in 1 .. m : c[k] = Turn(c[k - 1]) /\ f[k] = Turn(f[k - 1])
    BY <1>1, <1>6, <1>7, <1>8
  <1>10. c[m] \in Scans(U, n)
    <2>1. f[0] = c[0] /\ \A k \in 1 .. m : f[k - 1] = c[k - 1] => f[k] = c[k]
      BY <1>9
    <2>2. QED
      BY ONLY Zenon, <1>1, <1>5, <2>1, SameOrbit
  <1>11. QED
    BY <1>4, <1>10

(* buddy_block_find_best() keeps the blocks in use, and finds a free one that is
   large enough, if any.                                                   *)
LEMMA FindBestBlockIs ==
  ASSUME NEW U, NEW bs \in Tiling(U), NEW n \in Pow
  PROVE  LET r == FindBestBlock(bs, n)
         IN  r.bs \in Tiling(U) /\ (r.found # 0 => /\ r.found \in 1 .. Len(r.bs)
                                                   /\ r.bs[r.found].is_free /\ n <= r.bs[r.found].size)
  <1> DEFINE scan == ScanBest(bs, n)
  <1>1. CASE Len(bs) = 1 /\ bs[1].is_free
    <2>1. FindBestBlock(bs, n) = BlockSplit(bs, 1, n) /\ 1 \in 1 .. Len(bs)
      BY <1>1 DEF FindBestBlock
    <2>2. QED
      BY <1>1, <2>1, BlockSplitIs
  <1>2. CASE ~(Len(bs) = 1 /\ bs[1].is_free) /\ scan.best # 0
    <2>1. FindBestBlock(bs, n) = BlockSplit(scan.bs, scan.best, n)
      BY <1>2 DEF FindBestBlock
    <2>2. /\ scan.bs \in Tiling(U) /\ scan.best \in Nat /\ scan.best <= Len(scan.bs)
          /\ scan.bs[scan.best].is_free /\ Len(scan.bs) \in Nat
      BY Zenon, <1>2, ScanBestIs, BlocksIs DEF Scans, Tiling
    <2> HIDE DEF scan
    <2>3. scan.best \in 1 .. Len(scan.bs)
      BY <1>2, <2>2
    <2>4. QED
      BY <2>1, <2>2, <2>3, BlockSplitIs
  <1>3. CASE ~(Len(bs) = 1 /\ bs[1].is_free) /\ ~(scan.best # 0)
    <2>1. FindBestBlock(bs, n) = [bs |-> scan.bs, found |-> 0]
      BY <1>3 DEF FindBestBlock
    <2>2. scan.bs \in Tiling(U)
      BY ScanBestIs DEF Scans
    <2>3. QED
      BY <2>1, <2>2
  <1>4. QED
    BY <1>1, <1>2, <1>3

(* The states of the loops of buddy_block_coalescence(). *)
Joins(U) == {l \in [bs : Tiling(U), i : Nat, again : BOOLEAN] : l.i >= 1}

LEMMA PassTurnIs ==
  ASSUME NEW U, NEW l \in Joins(U)
  PROVE  PassTurn(l) \in Joins(U)
  <1>1. /\ l.bs \in Tiling(U) /\ l.i \in Nat /\ l.i >= 1 /\ l.again \in BOOLEAN
        /\ Len(l.bs) \in Nat
    BY BlocksIs DEF Joins, Tiling
  <1>2. CASE l.i >= Len(l.bs)
    BY <1>2 DEF PassTurn
  <1>3. CASE ~(l.i >= Len(l.bs)) /\ Buddies(l.bs, l.i)
    <2>1. l.i \in 1 .. Len(l.bs) - 1
      BY <1>1, <1>3
    <2>2. Joined(l.bs, l.i) \in Tiling(U)
      BY <1>1, <1>3, <2>1, JoinedIs
    <2>3. PassTurn(l) =
            [bs |-> Joined(l.bs, l.i), i |-> l.i + 1, again |-> l.again \/ l.i + 1 < Len(l.bs)]
      BY <1>3 DEF PassTurn
    <2>4. QED
      BY <1>1, <2>2, <2>3 DEF Joins
  <1>4. CASE ~(l.i >= Len(l.bs)) /\ ~Buddies(l.bs, l.i)
    <2> DEFINE next == IF l.bs[l.i].size < l.bs[l.i + 1].size THEN l.i + 1 ELSE l.i + 2
    <2>1. PassTurn(l) = [l EXCEPT !.i = next]
      BY <1>4 DEF PassTurn
    <2>2. next \in Nat /\ next >= 1
      BY <1>1
    <2> HIDE DEF next
    <2>3. QED
      BY <1>1, <2>1, <2>2 DEF Joins
  <1>5. QED
    BY <1>2, <1>3, <1>4

LEMMA CoalescePassIs ==
  ASSUME NEW U, NEW l \in Joins(U)
  PROVE  CoalescePass(l) \in Joins(U)
  <1> DEFINE m == Len(l.bs)
             s == [bs |-> l.bs, i |-> 1, again |-> FALSE]
             Turn(x) == PassTurn(x)
             G == [x \in Joins(U) |-> Turn(x)]
             E(h) == h = [k \in 0 .. m |-> IF k = 0 THEN s ELSE Turn(h[k - 1])]
             c == CHOOSE h : E(h)
  <1>1. m \in Nat
    BY BlocksIs DEF Joins, Tiling
  <1>2. s \in Joins(U)
    BY DEF Joins
  <1>3. G \in [Joins(U) -> Joins(U)] /\ \A x \in Joins(U) : G[x] = Turn(x)
    BY PassTurnIs
  <1>4. CoalescePass(l) = IF l.again THEN c[m] ELSE l
    BY DEF Turns, CoalescePass
  <1> HIDE DEF m
  <1> HIDE DEF s, G
  <1>5. PICK f \in [0 .. m -> Joins(U)] : Passes(f, m, s, G)
    BY ONLY <1>1, <1>2, <1>3, Orbit
  <1>6. \A k \in 1 .. m : k \in 0 .. m /\ k - 1 \in 0 .. m /\ k # 0
    BY <1>1
  <1> HIDE DEF Turn
  <1>7. E(f)
    <2>1. \A k \in 0 .. m : f[k] = IF k = 0 THEN s ELSE Turn(f[k - 1])
      BY <1>3, <1>5, <1>6 DEF Passes
    <2>2. QED
      BY <2>1
  <1>8. E(c)
    BY Zenon, <1>7
  <1> HIDE DEF c
  <1>9. c[0] = s /\ f[0] = s /\ \A k \in 1 .. m : c[k] = Turn(c[k - 1]) /\ f[k] = Turn(f[k - 1])
    BY <1>1, <1>6, <1>7, <1>8
  <1>10. c[m] \in Joins(U)
    <2>1. f[0] = c[0] /\ \A k \in 1 .. m : f[k - 1] = c[k - 1] => f[k] = c[k]
      BY <1>9
    <2>2. QED
      BY ONLY Zenon, <1>1, <1>5, <2>1, SameOrbit
  <1>11. QED
    BY <1>4, <1>10

LEMMA CoalescedIs ==
  ASSUME NEW U, NEW bs \in Tiling(U)
  PROVE  Coalesced(bs) \in Tiling(U)
  <1> DEFINE m == Len(bs)
             s == [bs |-> bs, i |-> 1, again |-> TRUE]
             Turn(x) == CoalescePass(x)
             G == [x \in Joins(U) |-> Turn(x)]
             E(h) == h = [k \in 0 .. m |-> IF k = 0 THEN s ELSE Turn(h[k - 1])]
             c == CHOOSE h : E(h)
  <1>1. m \in Nat
    BY BlocksIs DEF Tiling
  <1>2. s \in Joins(U)
    BY DEF Joins
  <1>3. G \in [Joins(U) -> Joins(U)] /\ \A x \in Joins(U) : G[x] = Turn(x)
    BY CoalescePassIs
  <1>4. Coalesced(bs) = c[m].bs
    BY DEF Turns, Coalesced
  <1> HIDE DEF m
  <1> HIDE DEF s, G
  <1>5. PICK f \in [0 .. m -> Joins(U)] : Passes(f, m, s, G)
    BY ONLY <1>1, <1>2, <1>3, Orbit
  <1>6. \A k \in 1 .. m : k \in 0 .. m /\ k - 1 \in 0 .. m /\ k # 0
    BY <1>1
  <1> HIDE DEF Turn
  <1>7. E(f)
    <2>1. \A k \in 0 .. m : f[k] = IF k = 0 THEN s ELSE Turn(f[k - 1])
      BY <1>3, <1>5, <1>6 DEF Passes
    <2>2. QED
      BY <2>1
  <1>8. E(c)
    BY Zenon, <1>7
  <1> HIDE DEF c
  <1>9. c[0] = s /\ f[0] = s /\ \A k \in 1 .. m : c[k] = Turn(c[k - 1]) /\ f[k] = Turn(f[k - 1])
    BY <1>1, <1>6, <1>7, <1>8
  <1>10. c[m] \in Joins(U)
    <2>1. f[0] = c[0] /\ \A k \in 1 .. m : f[k - 1] = c[k - 1] => f[k] = c[k]
      BY <1>9
    <2>2. QED
      BY ONLY Zenon, <1>1, <1>5, <2>1, SameOrbit
  <1>11. QED
    BY <1>4, <1>10 DEF Joins

(* A block changes hands. *)
Flagged(bs, cs, i, b) == cs = [bs EXCEPT ![i].is_free = b]

LEMMA FlagIs ==
  ASSUME NEW bs \in Seq(Blk), NEW i \in 1 .. Len(bs), NEW b \in BOOLEAN,
         NEW cs, Flagged(bs, cs, i, b)
  PROVE  /\ cs \in Seq(Blk) /\ Len(cs) = Len(bs) /\ cs[i].is_free = b /\ cs[i].size = bs[i].size
         /\ \A j \in 1 .. Len(bs) : cs[j].size = bs[j].size /\ (j # i => cs[j] = bs[j])
         /\ SizeUpTo(cs, Len(cs)) = SizeUpTo(bs, Len(bs))
         /\ \A j \in 1 .. Len(bs) : BlockAt(cs, j) = BlockAt(bs, j)
  <1> DEFINE n == Len(bs)
             c == [bs[i] EXCEPT !.is_free = b]
             f == [k \in 0 .. n |-> SizeUpTo(bs, k)]
  <1>1. n \in Nat /\ Sizes(bs, n) /\ bs[i] \in Blk /\ DOMAIN bs = 1 .. n
    BY BlocksIs
  <1>2. cs = [bs EXCEPT ![i] = c]
    BY DEF Flagged
  <1>3. c \in Blk /\ c.size = bs[i].size /\ c.is_free = b
    BY <1>1 DEF Blk
  <1> HIDE DEF c
  <1>4. /\ [bs EXCEPT ![i] = c] \in Seq(Blk) /\ Len([bs EXCEPT ![i] = c]) = Len(bs)
        /\ [bs EXCEPT ![i] = c][i] = c
        /\ \A j \in 1 .. Len(bs) : j # i => [bs EXCEPT ![i] = c][j] = bs[j]
    BY <1>3, ExceptSeq
  <1>5. /\ cs \in Seq(Blk) /\ Len(cs) = n /\ cs[i] = c
        /\ \A j \in 1 .. n : j # i => cs[j] = bs[j]
    BY <1>2, <1>4
  <1>6. \A j \in 1 .. n : cs[j].size = bs[j].size
    BY <1>3, <1>5
  <1>7. Sizes(cs, n)
    BY <1>1, <1>6 DEF Sizes
  <1> HIDE DEF n
  <1>8. /\ SizeUpTo(bs, 0) = 0
        /\ \A m \in 0 .. n : SizeUpTo(bs, m) \in Nat
        /\ \A m \in 1 .. n : SizeUpTo(bs, m) = SizeUpTo(bs, m - 1) + bs[m].size
    BY ONLY Zenon, <1>1, SizeUpToStep
  <1>9. Adds(f, cs, n)
    <2>1. /\ 0 \in 0 .. n /\ \A k \in 1 .. n : k \in 0 .. n /\ k - 1 \in 0 .. n
      BY <1>1
    <2>2. \A k \in 0 .. n : f[k] = SizeUpTo(bs, k)
      OBVIOUS
    <2> HIDE DEF f
    <2>3. QED
      BY <1>6, <1>8, <2>1, <2>2 DEF Adds
  <1>10. \A m \in 0 .. n : SizeUpTo(cs, m) = SizeUpTo(bs, m)
    <2>1. \A m \in 0 .. n : f[m] = SizeUpTo(bs, m)
      OBVIOUS
    <2> HIDE DEF f
    <2>2. \A m \in 0 .. n : SizeUpTo(cs, m) = f[m]
      BY ONLY <1>1, <1>7, <1>9, SizeUpToIs
    <2>3. QED
      BY <2>1, <2>2
  <1>11. \A j \in 1 .. n : BlockAt(cs, j) = BlockAt(bs, j)
    <2>1. ASSUME NEW j \in 1 .. n
          PROVE  BlockAt(cs, j) = BlockAt(bs, j)
      <3>1. j - 1 \in 0 .. n
        BY <1>1
      <3>2. SizeUpTo(cs, j - 1) = SizeUpTo(bs, j - 1)
        BY <1>10, <3>1
      <3>3. QED
        BY <3>2 DEF BlockAt
    <2>2. QED
      BY <2>1
  <1>12. SizeUpTo(cs, n) = SizeUpTo(bs, n)
    <2>1. n \in 0 .. n
      BY <1>1
    <2>2. QED
      BY <1>10, <2>1
  <1>13. QED
    BY <1>3, <1>5, <1>6, <1>11, <1>12 DEF n

LEMMA TakenIs ==
  ASSUME NEW U, NEW bs \in Tiling(U), NEW i \in 1 .. Len(bs), bs[i].is_free,
         NEW cs, cs = [bs EXCEPT ![i].is_free = FALSE]
  PROVE  cs \in Tiling(U \cup {[addr |-> BlockAt(bs, i), size |-> bs[i].size]})
  <1> DEFINE u0 == [addr |-> BlockAt(bs, i), size |-> bs[i].size]
  <1>1. bs \in Seq(Blk) /\ SizeUpTo(bs, Len(bs)) = Size /\ Used(bs) = U /\ Len(bs) \in Nat
    BY BlocksIs DEF Tiling
  <1>2. /\ cs \in Seq(Blk) /\ Len(cs) = Len(bs) /\ cs[i].is_free = FALSE
        /\ \A j \in 1 .. Len(bs) : cs[j].size = bs[j].size /\ (j # i => cs[j] = bs[j])
        /\ SizeUpTo(cs, Len(cs)) = Size
        /\ \A j \in 1 .. Len(bs) : BlockAt(cs, j) = BlockAt(bs, j)
    <2> DEFINE b == FALSE
    <2>1. b \in BOOLEAN /\ Flagged(bs, cs, i, b) /\ i \in 1 .. Len(bs)
      BY DEF Flagged
    <2>2. b = FALSE
      OBVIOUS
    <2> HIDE DEF b
    <2>3. /\ cs \in Seq(Blk) /\ Len(cs) = Len(bs) /\ cs[i].is_free = b
          /\ \A j \in 1 .. Len(bs) : cs[j].size = bs[j].size /\ (j # i => cs[j] = bs[j])
          /\ SizeUpTo(cs, Len(cs)) = SizeUpTo(bs, Len(bs))
          /\ \A j \in 1 .. Len(bs) : BlockAt(cs, j) = BlockAt(bs, j)
      BY ONLY <1>1, <2>1, FlagIs
    <2>4. QED
      BY Zenon, <1>1, <2>2, <2>3
  <1>3. \A j \in 1 .. Len(bs) : BlockAt(cs, j) = BlockAt(bs, j)
    BY Zenon, <1>2
  <1>4. \A u : u \in Used(cs) <=> u \in U \/ u = u0
    <2>1. ASSUME NEW u, u \in Used(cs)
          PROVE  u \in U \/ u = u0
      <3>1. PICK j \in 1 .. Len(bs) : ~cs[j].is_free /\ u = [addr |-> BlockAt(cs, j), size |-> cs[j].size]
        <4>1. \E j \in 1 .. Len(cs) : ~cs[j].is_free /\ u = [addr |-> BlockAt(cs, j), size |-> cs[j].size]
          BY ONLY <2>1, UsedIs
        <4>2. QED
          BY <1>2, <4>1
      <3>2. u = [addr |-> BlockAt(bs, j), size |-> bs[j].size]
        BY <1>2, <1>3, <3>1
      <3>3. CASE j = i
        BY <3>2, <3>3
      <3>4. CASE j # i
        BY <1>1, <1>2, <3>1, <3>2, <3>4, UsedIs
      <3>5. QED
        BY <3>3, <3>4
    <2>2. ASSUME NEW u, u \in U
          PROVE  u \in Used(cs)
      <3>1. PICK j \in 1 .. Len(bs) : ~bs[j].is_free /\ u = [addr |-> BlockAt(bs, j), size |-> bs[j].size]
        BY <1>1, <2>2, UsedIs
      <3>2. j # i
        BY <3>1
      <3>3. j \in 1 .. Len(cs) /\ ~cs[j].is_free /\ u = [addr |-> BlockAt(cs, j), size |-> cs[j].size]
        BY <1>2, <1>3, <3>1, <3>2
      <3>4. QED
        BY Zenon, <3>3, UsedIs
    <2>3. u0 \in Used(cs)
      <3>1. i \in 1 .. Len(cs) /\ ~cs[i].is_free /\ u0 = [addr |-> BlockAt(cs, i), size |-> cs[i].size]
        BY <1>2, <1>3
      <3>2. QED
        BY Zenon, <3>1, UsedIs
    <2>4. QED
      BY Zenon, <2>1, <2>2, <2>3
  <1> HIDE DEF u0
  <1>5. Used(cs) = U \cup {u0}
    BY Zenon, <1>4
  <1>6. QED
    BY Zenon, <1>2, <1>5 DEF Tiling, u0

LEMMA FreedIs ==
  ASSUME NEW U, NEW bs \in Tiling(U), NEW i \in 1 .. Len(bs),
         NEW cs, cs = [bs EXCEPT ![i].is_free = TRUE]
  PROVE  cs \in Tiling({u \in U : u.addr # BlockAt(bs, i)})
  <1>1. bs \in Seq(Blk) /\ SizeUpTo(bs, Len(bs)) = Size /\ Used(bs) = U /\ Len(bs) \in Nat
    BY BlocksIs DEF Tiling
  <1>2. /\ cs \in Seq(Blk) /\ Len(cs) = Len(bs) /\ cs[i].is_free = TRUE
        /\ \A j \in 1 .. Len(bs) : cs[j].size = bs[j].size /\ (j # i => cs[j] = bs[j])
        /\ SizeUpTo(cs, Len(cs)) = Size
        /\ \A j \in 1 .. Len(bs) : BlockAt(cs, j) = BlockAt(bs, j)
    <2> DEFINE b == TRUE
    <2>1. b \in BOOLEAN /\ Flagged(bs, cs, i, b) /\ i \in 1 .. Len(bs)
      BY DEF Flagged
    <2>2. b = TRUE
      OBVIOUS
    <2> HIDE DEF b
    <2>3. /\ cs \in Seq(Blk) /\ Len(cs) = Len(bs) /\ cs[i].is_free = b
          /\ \A j \in 1 .. Len(bs) : cs[j].size = bs[j].size /\ (j # i => cs[j] = bs[j])
          /\ SizeUpTo(cs, Len(cs)) = SizeUpTo(bs, Len(bs))
          /\ \A j \in 1 .. Len(bs) : BlockAt(cs, j) = BlockAt(bs, j)
      BY ONLY <1>1, <2>1, FlagIs
    <2>4. QED
      BY Zenon, <1>1, <2>2, <2>3
  <1>3. \A j \in 1 .. Len(bs) : BlockAt(cs, j) = BlockAt(bs, j)
    BY Zenon, <1>2
  <1>4. \A u : u \in Used(cs) <=> u \in U /\ u.addr # BlockAt(bs, i)
    <2>1. ASSUME NEW u, u \in Used(cs)
          PROVE  u \in U /\ u.addr # BlockAt(bs, i)
      <3>1. PICK j \in 1 .. Len(bs) : ~cs[j].is_free /\ u = [addr |-> BlockAt(cs, j), size |-> cs[j].size]
        <4>1. \E j \in 1 .. Len(cs) : ~cs[j].is_free /\ u = [addr |-> BlockAt(cs, j), size |-> cs[j].size]
          BY ONLY <2>1, UsedIs
        <4>2. QED
          BY <1>2, <4>1
      <3>2. u = [addr |-> BlockAt(bs, j), size |-> bs[j].size] /\ j # i
        BY <1>2, <1>3, <3>1
      <3>3. u \in U
        BY <1>1, <1>2, <3>1, <3>2, UsedIs
      <3>4. BlockAt(bs, j) # BlockAt(bs, i)
        BY <1>1, <3>2, BlockAlone
      <3>5. QED
        BY <3>2, <3>3, <3>4
    <2>2. ASSUME NEW u, u \in U, u.addr # BlockAt(bs, i)
          PROVE  u \in Used(cs)
      <3>1. PICK j \in 1 .. Len(bs) : ~bs[j].is_free /\ u = [addr |-> BlockAt(bs, j), size |-> bs[j].size]
        BY <1>1, <2>2, UsedIs
      <3>2. j # i
        BY <2>2, <3>1
      <3>3. j \in 1 .. Len(cs) /\ ~cs[j].is_free /\ u = [addr |-> BlockAt(cs, j), size |-> cs[j].size]
        BY <1>2, <1>3, <3>1, <3>2
      <3>4. QED
        BY Zenon, <3>3, UsedIs
    <2>3. QED
      BY Zenon, <2>1, <2>2
  <1>5. Used(cs) = {u \in U : u.addr # BlockAt(bs, i)}
    BY Zenon, <1>4
  <1>6. QED
    BY Zenon, <1>2, <1>5 DEF Tiling

(* buddy_block_size_required() adds the size of a header to what is asked for,
   and buddy_allocator_alloc() returns the address behind the alignment: what is
   asked for fits when it is a multiple of the alignment, as it always is when
   the alignment is that of a header.                                      *)
BuddyRoom == \A n \in Requests : n % BuddyAlign = 0

LEMMA SizeRequiredIs ==
  ASSUME BuddyRoom, NEW n \in Requests
  PROVE  SizeRequired(n) \in Pow /\ SizeRequired(n) >= BuddyAlign + n
  <1> DEFINE sizes == {BuddyAlign * 2 ^ k : k \in 0 .. n}
             size == align_forward(n + 1, BuddyAlign)
             S == {s \in sizes : s >= size}
             x == 2 ^ n
  <1>1. n \in Nat /\ n > 0 /\ BuddyAlign \in Nat \ {0} /\ n % BuddyAlign = 0 /\ n + 1 \in Nat
    BY RequestIs, BuddyAlignIs DEF BuddyRoom
  <1>2. size \in Nat /\ size >= n + 1 /\ size < n + 1 + BuddyAlign /\ size % BuddyAlign = 0
    BY Zenon, <1>1, AlignForward
  <1> HIDE DEF size
  <1>3. size >= n + BuddyAlign
    <2>1. (size - n) % BuddyAlign = 0 /\ size - n > 0 /\ size - n \in Int
      <3>1. size \in Int /\ n \in Int
        BY <1>1, <1>2
      <3>2. (size - n) % BuddyAlign = 0
        BY ONLY Zenon, <1>1, <1>2, <3>1, Multiples
      <3>3. QED
        BY <1>1, <1>2, <3>2
    <2> DEFINE g == size - n
    <2> HIDE DEF g
    <2>2. g >= BuddyAlign
      BY <1>1, <2>1, MultipleGap DEF g
    <2>3. QED
      BY <1>1, <1>2, <2>2 DEF g
  <1>4. sizes \in SUBSET Pow /\ sizes \in SUBSET Nat
    <2>1. sizes \in SUBSET Pow
      BY DEF Pow
    <2>2. QED
      BY <2>1, PowSize
  <1>5. BuddyAlign * x \in S
    <2>1. BuddyAlign * x \in sizes /\ x \in Nat /\ x >= n + 1
      BY <1>1, PowIs
    <2>2. BuddyAlign * x >= size
      <3> HIDE DEF x
      <3>1. x = n + 1 + (x - (n + 1)) /\ x - (n + 1) \in Nat
        BY <1>1, <2>1
      <3> DEFINE y == x - (n + 1)
                 a == BuddyAlign - 1
      <3>2. y \in Nat /\ a \in Nat /\ BuddyAlign = a + 1
        BY <1>1, <3>1
      <3>3. BuddyAlign * x = BuddyAlign * (n + 1) + BuddyAlign * y
        BY <1>1, <3>1
      <3>4. BuddyAlign * (n + 1) = a * n + n + BuddyAlign
        BY <1>1, <3>2
      <3>5. a * n \in Nat /\ BuddyAlign * y \in Nat
        BY <1>1, <3>2
      <3> HIDE DEF y, a
      <3>6. QED
        BY <1>1, <1>2, <3>3, <3>4, <3>5
    <2>3. QED
      BY <2>1, <2>2
  <1> HIDE DEF sizes, x
  <1>6. PICK m \in S : \A y \in Nat : y < m => y \notin S
    <2>1. S \in SUBSET Nat /\ S # {}
      BY Zenon, <1>4, <1>5
    <2>2. QED
      BY Zenon, <2>1, LeastIndex
  <1>7. m \in sizes /\ m >= size /\ \A t \in sizes : t >= size => m <= t
    BY <1>4, <1>6
  <1>8. SizeRequired(n) = CHOOSE s \in sizes : s >= size /\ \A t \in sizes : t >= size => s <= t
    BY DEF SizeRequired, sizes, size
  <1>9. SizeRequired(n) \in sizes /\ SizeRequired(n) >= size
    BY <1>7, <1>8
  <1>10. SizeRequired(n) \in Pow /\ SizeRequired(n) \in Nat
    BY Zenon, <1>4, <1>9
  <1> DEFINE r == SizeRequired(n)
  <1> HIDE DEF r
  <1>11. r >= BuddyAlign + n
    <2>1. r \in Nat /\ r >= size
      BY <1>9, <1>10 DEF r
    <2>2. QED
      BY <1>1, <1>2, <1>3, <2>1
  <1>12. QED
    BY <1>10, <1>11 DEF r

(* The blocks tile the buffer; the ones in use are the client's, and each has room
   for what was asked for behind its header.                               *)
BuddyHolds(v, u) == ptr[v] = u.addr + BuddyAlign /\ u.size >= BuddyAlign + want[v].size

BuddyInv ==
  /\ mem \in Tiling(Used(mem))
  /\ \A v \in Var : Live(v) => \E u \in Used(mem) : BuddyHolds(v, u)
  /\ \A u \in Used(mem) : \E v \in Var : Live(v) /\ ptr[v] = u.addr + BuddyAlign

LEMMA BuddyBegins ==
  ASSUME ClientInit, BuddyInit
  PROVE  BuddyInv
  <1> DEFINE b == [size |-> Size, is_free |-> TRUE]
             bs == <<b>>
  <1>1. mem = bs /\ \A v \in Var : ~Live(v)
    BY DEF ClientInit, BuddyInit, Live
  <1>2. Size \in Nat /\ Size \in Pow
    <2>1. PICK k \in 0 .. Size : Size = BuddyAlign * 2 ^ k
      BY BuddyAssumption
    <2>2. QED
      BY <2>1, HeapAssumption DEF Pow
  <1>3. b \in Blk /\ b.is_free /\ b.size = Size
    BY <1>2 DEF Blk
  <1> HIDE DEF b
  <1>4. bs \in Seq(Blk) /\ Len(bs) = 1 /\ bs[1] = b
    BY <1>3
  <1> HIDE DEF bs
  <1>5. Used(bs) = {}
    BY <1>3, <1>4 DEF Used
  <1>6. SizeUpTo(bs, Len(bs)) = Size
    <2>1. Sizes(bs, 1)
      BY <1>2, <1>3, <1>4 DEF Sizes
    <2>2. /\ SizeUpTo(bs, 0) = 0
          /\ \A m \in 1 .. 1 : SizeUpTo(bs, m) = SizeUpTo(bs, m - 1) + bs[m].size
      BY <2>1, SizeUpToStep
    <2>3. 1 \in 1 .. 1 /\ 1 - 1 = 0
      OBVIOUS
    <2>4. SizeUpTo(bs, 1) = 0 + Size
      BY <1>3, <1>4, <2>2, <2>3
    <2>5. QED
      BY <1>2, <1>4, <2>4
  <1>7. QED
    BY <1>1, <1>4, <1>5, <1>6 DEF BuddyInv, Tiling

LEMMA BuddyStays ==
  ASSUME BuddyInv, ptr' = ptr, want' = want, mem' \in Tiling(Used(mem))
  PROVE  BuddyInv'
  <1>1. Used(mem') = Used(mem)
    BY DEF Tiling
  <1>2. QED
    BY <1>1 DEF BuddyInv, Live, BuddyHolds

(* Blocks of one client's variable. *)
LEMMA PtrAlone ==
  ASSUME Client, NEW v \in Var, NEW w \in Var, Live(v), Live(w), ptr[v] = ptr[w]
  PROVE  v = w
  <1>1. /\ ptr[v] \in Nat /\ want[v].size \in Nat /\ want[v].size > 0
        /\ ptr[w] \in Nat /\ want[w].size \in Nat /\ want[w].size > 0
    BY VarIs
  <1>2. v # w => Beyond(v, ptr[w], want[w].size)
    BY DEF Client
  <1>3. QED
    BY <1>1, <1>2 DEF Beyond

(* What a block in use says. *)
LEMMA UsedIn ==
  ASSUME NEW U, NEW bs \in Tiling(U), NEW u \in U
  PROVE  /\ u.addr \in Nat /\ u.size \in Nat /\ u.size > 0 /\ u.addr >= Base
         /\ \E j \in 1 .. Len(bs) : ~bs[j].is_free /\ u.addr = BlockAt(bs, j) /\ u.size = bs[j].size
  <1>1. bs \in Seq(Blk) /\ Used(bs) = U
    BY DEF Tiling
  <1>2. PICK j \in 1 .. Len(bs) : ~bs[j].is_free /\ u = [addr |-> BlockAt(bs, j), size |-> bs[j].size]
    BY <1>1, UsedIs
  <1>3. u.addr = BlockAt(bs, j) /\ u.size = bs[j].size
    BY <1>2
  <1>4. /\ bs[j].size \in Nat /\ bs[j].size > 0 /\ j \in 1 .. Len(bs) + 1
        /\ BlockAt(bs, j) \in Nat /\ BlockAt(bs, j) >= Base
    BY <1>1, BlocksIs
  <1>5. QED
    BY <1>2, <1>3, <1>4

(* A free block lies beyond those in use, and in the buffer. *)
LEMMA FreeIn ==
  ASSUME NEW U, NEW bs \in Tiling(U), NEW i \in 1 .. Len(bs), bs[i].is_free
  PROVE  /\ BlockAt(bs, i) \in Nat /\ bs[i].size \in Nat /\ BlockAt(bs, i) >= Base
         /\ BlockAt(bs, i) + bs[i].size <= End /\ BlockAt(bs, i) % BuddyAlign = 0
         /\ \A u \in U : u.addr + u.size <= BlockAt(bs, i) \/ BlockAt(bs, i) + bs[i].size <= u.addr
  <1>1. bs \in Seq(Blk) /\ SizeUpTo(bs, Len(bs)) = Size
    BY DEF Tiling
  <1>2. /\ Len(bs) \in Nat /\ bs[i].size \in Nat /\ BlockAt(bs, i) \in Nat /\ BlockAt(bs, i) >= Base
        /\ BlockAt(bs, Len(bs) + 1) = End /\ BlockAt(bs, i) % BuddyAlign = 0
    BY <1>1, BlocksIs, BlockAligned, Bounds
  <1>3. BlockAt(bs, i) + bs[i].size <= End
    <2>1. Len(bs) + 1 \in 1 .. Len(bs) + 1 /\ i < Len(bs) + 1
      BY <1>2
    <2>2. BlockAt(bs, i) + bs[i].size <= BlockAt(bs, Len(bs) + 1)
      BY <1>1, <2>1, BlockOrder
    <2>3. QED
      BY <1>2, <2>2
  <1>4. ASSUME NEW u \in U
        PROVE  u.addr + u.size <= BlockAt(bs, i) \/ BlockAt(bs, i) + bs[i].size <= u.addr
    <2>1. PICK j \in 1 .. Len(bs) : ~bs[j].is_free /\ u.addr = BlockAt(bs, j) /\ u.size = bs[j].size
      BY UsedIn
    <2>2. i \in 1 .. Len(bs) + 1 /\ j \in 1 .. Len(bs) + 1 /\ (i < j \/ j < i)
      BY <1>2, <2>1
    <2>3. i < j => BlockAt(bs, i) + bs[i].size <= BlockAt(bs, j)
      BY <1>1, <2>2, BlockOrder
    <2>4. j < i => BlockAt(bs, j) + bs[j].size <= BlockAt(bs, i)
      BY <1>1, <2>2, BlockOrder
    <2>5. QED
      BY <2>1, <2>2, <2>3, <2>4
  <1>5. QED
    BY <1>2, <1>3, <1>4

LEMMA BuddyAllocStep ==
  ASSUME Client, BuddyInv, BuddyRoom, kind = "buddy", kind' = kind, NEW v \in Var, BuddyAlloc(v)
  PROVE  Client' /\ AbstractStep /\ BuddyInv'
  <1> DEFINE U == Used(mem)
  <1>1. PICK n \in Requests :
          LET size == SizeRequired(n)
              first == FindBestBlock(mem, size)
              r == IF first.found # 0 THEN first ELSE FindBestBlock(Coalesced(first.bs), size)
          IN  IF r.found = 0 THEN mem' = r.bs /\ UNCHANGED <<ptr, want>>
              ELSE /\ mem' = [r.bs EXCEPT ![r.found].is_free = FALSE]
                   /\ Keep(v, BlockAt(r.bs, r.found) + BuddyAlign, n, BuddyAlign)
    BY Zenon DEF BuddyAlloc
  <1> DEFINE size == SizeRequired(n)
             first == FindBestBlock(mem, size)
             second == FindBestBlock(Coalesced(first.bs), size)
             r == IF first.found # 0 THEN first ELSE second
             bs == r.bs
             i == r.found
             cs == [bs EXCEPT ![i].is_free = FALSE]
             a == BlockAt(bs, i)
             p == a + BuddyAlign
  <1>2. fault' \in {"none", "assert", "null", "overrun"} /\ ~Live(v)
    BY DEF BuddyAlloc, Client, ClientTypeOK
  <1>3. /\ n \in Nat /\ n > 0 /\ size \in Pow /\ size >= BuddyAlign + n
        /\ BuddyAlign \in Nat \ {0} /\ size \in Nat
    BY Zenon, RequestIs, SizeRequiredIs, BuddyAlignIs, PowSize
  <1>4. \/ i = 0 /\ mem' = bs /\ UNCHANGED <<ptr, want>>
        \/ i # 0 /\ mem' = cs /\ Keep(v, p, n, BuddyAlign)
    BY <1>1
  <1>5. mem \in Tiling(U)
    BY DEF BuddyInv
  <1> HIDE DEF size, U
  <1>6. bs \in Tiling(U) /\ (i # 0 => i \in 1 .. Len(bs) /\ bs[i].is_free /\ size <= bs[i].size)
    <2>1. first.bs \in Tiling(U) /\ (first.found # 0 => /\ first.found \in 1 .. Len(first.bs)
                                                       /\ first.bs[first.found].is_free
                                                       /\ size <= first.bs[first.found].size)
      BY <1>3, <1>5, FindBestBlockIs
    <2> HIDE DEF first
    <2>2. Coalesced(first.bs) \in Tiling(U)
      BY <2>1, CoalescedIs
    <2>3. second.bs \in Tiling(U) /\ (second.found # 0 => /\ second.found \in 1 .. Len(second.bs)
                                                         /\ second.bs[second.found].is_free
                                                         /\ size <= second.bs[second.found].size)
      BY <1>3, <2>2, FindBestBlockIs
    <2> HIDE DEF second
    <2>4. QED
      BY <2>1, <2>3
  <1> HIDE DEF first, second, bs, i
  <1>7. CASE i = 0
    <2>1. mem' \in Tiling(U) /\ UNCHANGED <<ptr, want>>
      BY <1>4, <1>6, <1>7
    <2>2. Client' /\ AbstractStep
      BY <1>2, <2>1, StayStep
    <2>3. QED
      BY <2>1, <2>2, BuddyStays DEF U
  <1>8. CASE i # 0
    <2>1. /\ bs \in Tiling(U) /\ i \in 1 .. Len(bs) /\ bs[i].is_free /\ size <= bs[i].size
          /\ mem' = cs /\ Keep(v, p, n, BuddyAlign)
      BY <1>4, <1>6, <1>8
    <2>2. /\ a \in Nat /\ bs[i].size \in Nat /\ a >= Base /\ a + bs[i].size <= End /\ a % BuddyAlign = 0
          /\ \A u \in U : u.addr + u.size <= a \/ a + bs[i].size <= u.addr
      BY <2>1, FreeIn
    <2> DEFINE u0 == [addr |-> a, size |-> bs[i].size]
    <2>3. mem' \in Tiling(U \cup {u0})
      BY Zenon, <2>1, TakenIs
    <2>4. u0.addr = a /\ u0.size = bs[i].size
      OBVIOUS
    <2> HIDE DEF a, u0
    <2>5. p \in Unit /\ p + n <= End /\ p + n <= a + bs[i].size /\ p \in Nat
      <3> DEFINE b == bs[i].size
      <3>1. /\ b \in Nat /\ size <= b /\ a \in Nat /\ a >= Base /\ a + b <= End
            /\ p = a + BuddyAlign /\ Base \in Nat /\ End \in Nat
        BY <2>1, <2>2, Bounds
      <3> HIDE DEF b, p
      <3>2. p \in Nat /\ p + n <= End /\ p + n <= a + b /\ p >= Base /\ p < End
        BY <1>3, <3>1
      <3>3. p \in Unit
        BY <3>2, Bounds
      <3>4. QED
        BY <3>2, <3>3 DEF b
    <2>6. Measured(p) % AlignOf(BuddyAlign) = 0
      <3>1. BuddyAlign % BuddyAlign = 0
        <4>1. BuddyAlign = BuddyAlign * 1
          BY <1>3
        <4>2. QED
          BY <1>3, <4>1, Multiple
      <3>2. AlignOf(BuddyAlign) = BuddyAlign /\ Measured(p) = p
        BY DEF AlignOf, Measured
      <3>3. a \in Int /\ BuddyAlign \in Int
        BY <1>3, <2>2
      <3>4. (a + BuddyAlign) % BuddyAlign = 0
        BY Zenon, <1>3, <2>2, <3>1, <3>3, Multiples
      <3>5. QED
        BY <3>2, <3>4
    <2>7. ASSUME NEW w \in Var \ {v}, Live(w)
          PROVE  Beyond(w, p, n)
      <3>1. PICK u \in U : BuddyHolds(w, u)
        BY <2>7 DEF BuddyInv, U
      <3>2. /\ u.addr \in Nat /\ u.size \in Nat /\ ptr[w] = u.addr + BuddyAlign
            /\ u.size >= BuddyAlign + want[w].size
        BY <1>5, <3>1, UsedIn DEF BuddyHolds
      <3>3. ptr[w] \in Nat /\ want[w].size \in Nat
        BY VarIs
      <3>4. u.addr + u.size <= a \/ a + bs[i].size <= u.addr
        BY <2>2
      <3>5. QED
        BY <1>3, <2>2, <2>5, <3>2, <3>3, <3>4 DEF Beyond
    <2> HIDE DEF p
    <2>8. /\ Client' /\ AbstractStep
          /\ Live(v)' /\ ptr'[v] = p /\ want'[v] = [size |-> n, align |-> BuddyAlign]
          /\ \A w \in Var \ {v} : ptr'[w] = ptr[w] /\ want'[w] = want[w]
      BY <1>2, <1>3, <2>1, <2>5, <2>6, <2>7, GiveStep
    <2>9. Used(mem') = U \cup {u0}
      BY <2>3 DEF Tiling
    <2>10. ptr'[v] = u0.addr + BuddyAlign /\ u0.size >= BuddyAlign + n
      BY <1>3, <2>1, <2>2, <2>4, <2>8 DEF p
    <2>11. \A w \in Var : Live(w)' => \E u \in Used(mem') : BuddyHolds(w, u)'
      <3>1. ASSUME NEW w \in Var, Live(w)'
            PROVE  \E u \in Used(mem') : BuddyHolds(w, u)'
        <4>1. CASE w = v
          BY <2>8, <2>9, <2>10, <4>1 DEF BuddyHolds
        <4>2. CASE w # v
          <5>1. Live(w) /\ ptr'[w] = ptr[w] /\ want'[w] = want[w]
            BY <2>8, <3>1, <4>2 DEF Live
          <5>2. PICK u \in U : BuddyHolds(w, u)
            BY <5>1 DEF BuddyInv, U
          <5>3. QED
            BY <2>9, <5>1, <5>2 DEF BuddyHolds
        <4>3. QED
          BY <4>1, <4>2
      <3>2. QED
        BY <3>1
    <2>12. \A u \in Used(mem') : \E w \in Var : Live(w)' /\ ptr'[w] = u.addr + BuddyAlign
      <3>1. ASSUME NEW u \in U
            PROVE  \E w \in Var : Live(w)' /\ ptr'[w] = u.addr + BuddyAlign
        <4>1. PICK w \in Var : Live(w) /\ ptr[w] = u.addr + BuddyAlign
          BY DEF BuddyInv, U
        <4>2. w # v
          BY <1>2, <4>1
        <4>3. QED
          BY <2>8, <4>1, <4>2 DEF Live
      <3>2. QED
        BY <2>8, <2>9, <2>10, <3>1
    <2>13. QED
      BY <2>3, <2>8, <2>9, <2>11, <2>12 DEF BuddyInv
  <1>9. QED
    BY <1>7, <1>8

LEMMA BuddyFreeStep ==
  ASSUME Client, BuddyInv, kind = "buddy", kind' = kind, NEW v \in Var, BuddyFree(v)
  PROVE  Client' /\ AbstractStep /\ BuddyInv'
  <1> DEFINE U == Used(mem)
  <1>1. /\ Live(v) /\ Forget({v}) /\ {v} \in SUBSET Var
        /\ fault' \in {"none", "assert", "null", "overrun"}
    BY DEF BuddyFree, Client, ClientTypeOK
  <1>2. mem \in Tiling(U) /\ mem \in Seq(Blk) /\ BuddyAlign \in Nat
    BY BuddyAlignIs DEF BuddyInv, Tiling
  <1>3. PICK i \in 1 .. Len(mem) :
          /\ BlockAt(mem, i) = ptr[v] - BuddyAlign
          /\ mem' = Coalesced([mem EXCEPT ![i].is_free = TRUE])
    <2>1. DOMAIN mem = 1 .. Len(mem)
      BY <1>2, BlocksIs
    <2>2. QED
      BY Zenon, <2>1 DEF BuddyFree
  <1> DEFINE a == BlockAt(mem, i)
             cs == [mem EXCEPT ![i].is_free = TRUE]
             W == {u \in U : u.addr # a}
  <1>4. mem' \in Tiling(W)
    <2>1. cs \in Tiling(W)
      BY <1>2, FreedIs
    <2>2. QED
      BY <1>3, <2>1, CoalescedIs
  <1>5. Used(mem') = W
    BY <1>4 DEF Tiling
  <1>6. /\ Client' /\ AbstractStep
        /\ ~Live(v)'
        /\ \A w \in Var \ {v} : ptr'[w] = ptr[w] /\ want'[w] = want[w]
    BY <1>1, ForgetStep
  <1>7. ptr[v] \in Nat /\ a = ptr[v] - BuddyAlign /\ a \in Nat
    <2>1. a \in Nat
      BY <1>2, BlocksIs
    <2>2. QED
      BY <1>3, <2>1, VarIs
  <1> HIDE DEF U, a
  <1>8. ASSUME NEW w \in Var, Live(w)'
        PROVE  \E u \in Used(mem') : BuddyHolds(w, u)'
    <2>1. w # v /\ Live(w) /\ ptr'[w] = ptr[w] /\ want'[w] = want[w]
      BY <1>6, <1>8 DEF Live
    <2>2. PICK u \in U : BuddyHolds(w, u)
      BY <2>1 DEF BuddyInv, U
    <2>3. u.addr \in Nat /\ ptr[w] = u.addr + BuddyAlign
      BY <1>2, <2>2, UsedIn DEF BuddyHolds
    <2>4. ptr[w] # ptr[v]
      BY <1>1, <2>1, PtrAlone
    <2>5. u.addr # a
      BY <1>2, <1>7, <2>3, <2>4
    <2>6. QED
      BY <1>5, <2>1, <2>2, <2>5 DEF BuddyHolds
  <1>9. ASSUME NEW u \in Used(mem')
        PROVE  \E w \in Var : Live(w)' /\ ptr'[w] = u.addr + BuddyAlign
    <2>1. u \in U /\ u.addr # a
      BY <1>5, <1>9
    <2>2. PICK w \in Var : Live(w) /\ ptr[w] = u.addr + BuddyAlign
      BY <2>1 DEF BuddyInv, U
    <2>3. u.addr \in Nat
      BY <1>2, <2>1, UsedIn
    <2>4. w # v
      BY <1>2, <1>7, <2>1, <2>2, <2>3
    <2>5. QED
      BY <1>6, <2>2, <2>4 DEF Live
  <1>10. QED
    BY <1>4, <1>5, <1>6, <1>8, <1>9 DEF BuddyInv

LEMMA BuddyStep ==
  ASSUME Client, BuddyInv, BuddyRoom, kind = "buddy", kind' = kind, BuddyNext
  PROVE  Client' /\ AbstractStep /\ BuddyInv'
  BY BuddyAllocStep, BuddyFreeStep DEF BuddyNext

LEMMA BuddyIsSound ==
  ASSUME Client, BuddyInv
  PROVE  BuddySound
  <1> DEFINE U == Used(mem)
             J == {i \in DOMAIN mem : ~mem[i].is_free}
             L == {v \in Var : Live(v)}
             n == Len(mem)
             owner(j) == CHOOSE v \in Var : Live(v) /\ ptr[v] = BlockAt(mem, j) + BuddyAlign
             g == [j \in J |-> owner(j)]
  <1>1. /\ mem \in Seq(Blk) /\ mem \in Tiling(U) /\ SizeUpTo(mem, n) = Size
        /\ n \in Nat /\ DOMAIN mem = 1 .. n /\ BuddyAlign \in Nat
        /\ BlockAt(mem, n + 1) = Base + SizeUpTo(mem, n)
    BY BlocksIs, BuddyAlignIs DEF BuddyInv, Tiling
  <1>2. BlockAt(mem, n + 1) = End
    BY <1>1, Bounds
  <1>3. ASSUME NEW v \in L
        PROVE  \E j \in J : BlockAt(mem, j) + BuddyAlign = ptr[v] /\ mem[j].size >= BuddyAlign + want[v].size
    <2>1. PICK u \in U : BuddyHolds(v, u)
      BY DEF BuddyInv
    <2>2. PICK j \in 1 .. n : ~mem[j].is_free /\ u.addr = BlockAt(mem, j) /\ u.size = mem[j].size
      BY <1>1, UsedIn
    <2>3. QED
      BY <1>1, <2>1, <2>2 DEF BuddyHolds
  <1>4. ASSUME NEW j \in J
        PROVE  /\ g[j] \in L /\ ptr[g[j]] = BlockAt(mem, j) + BuddyAlign
               /\ BlockAt(mem, j) \in Nat /\ j \in 1 .. n
    <2>1. j \in 1 .. n /\ ~mem[j].is_free /\ j \in 1 .. n + 1
      BY <1>1
    <2> DEFINE u == [addr |-> BlockAt(mem, j), size |-> mem[j].size]
    <2>2. u \in U
      BY <1>1, <2>1, UsedIs
    <2>3. u.addr = BlockAt(mem, j)
      OBVIOUS
    <2>4. \E v \in Var : Live(v) /\ ptr[v] = BlockAt(mem, j) + BuddyAlign
      <3> HIDE DEF u
      <3>1. \E v \in Var : Live(v) /\ ptr[v] = u.addr + BuddyAlign
        BY <2>2 DEF BuddyInv
      <3>2. QED
        BY <2>3, <3>1
    <2>5. g[j] = CHOOSE v \in Var : Live(v) /\ ptr[v] = BlockAt(mem, j) + BuddyAlign
      OBVIOUS
    <2> HIDE DEF g
    <2>6. BlockAt(mem, j) \in Nat
      BY <1>1, <2>1, BlocksIs
    <2>7. QED
      BY <2>1, <2>4, <2>5, <2>6
  <1>5. g = [j \in J |-> owner(j)] /\ \A j \in J : g[j] = owner(j)
    OBVIOUS
  <1> HIDE DEF J, owner, g
  <1>6. ASSUME NEW j \in J, NEW k \in J, g[j] = g[k]
        PROVE  j = k
    <2>1. BlockAt(mem, j) = BlockAt(mem, k) /\ j \in 1 .. Len(mem) /\ k \in 1 .. Len(mem)
      BY <1>1, <1>4, <1>6
    <2>2. QED
      BY <1>1, <2>1, BlockAlone
  <1>7. ASSUME NEW v \in L
        PROVE  \E j \in J : g[j] = v
    <2>1. PICK j \in J : BlockAt(mem, j) + BuddyAlign = ptr[v]
      BY <1>3
    <2>2. g[j] \in L /\ ptr[g[j]] = ptr[v]
      BY <1>4, <2>1
    <2>3. QED
      BY <2>2, PtrAlone
  <1>8. g \in [J -> L]
    BY <1>4, <1>5
  <1>9. ExistsBijection(J, L)
    <2>1. g \in Bijection(J, L)
      BY <1>6, <1>7, <1>8 DEF Bijection, Injection, Surjection, IsInjective
    <2>2. QED
      BY Zenon, <2>1 DEF ExistsBijection
  <1>10. IsFiniteSet(J)
    <2>1. IsFiniteSet(1 .. n) /\ J \subseteq 1 .. n
      BY <1>1, FS_Interval DEF J
    <2>2. QED
      BY Zenon, <2>1, FS_Subset
  <1>11. Cardinality(J) = Cardinality(L)
    BY <1>9, <1>10, FS_Bijection
  <1>12. \A v \in Var : Live(v) =>
           \E i \in DOMAIN mem : /\ BlockAt(mem, i) + BuddyAlign = ptr[v]
                                 /\ ~mem[i].is_free /\ mem[i].size >= BuddyAlign + want[v].size
    BY <1>3 DEF J
  <1>13. QED
    BY <1>2, <1>11, <1>12 DEF BuddySound, J

-----------------------------------------------------------------------------
(* All of them. *)
LEMMA ArenaIsSound ==
  ASSUME ArenaInv
  PROVE  ArenaSound
  BY DEF ArenaInv, Within, ArenaSound

Simple ==
  /\ Client
  /\ kind = "arena" => ArenaInv
  /\ kind = "stack" => StackInv
  /\ kind = "chunks" => ChunkInv
  /\ kind = "bitmap" => BitmapInv
  /\ kind = "buddy" => BuddyInv
  /\ kind = "freelist" => FreelistInv
AllInv == kind \in Kind /\ (kind # "tlsf" => Simple) /\ (kind = "tlsf" => TlsfInv)

LEMMA AllBegin == Init => AllInv
  <1>1. ASSUME Init, kind # "tlsf"
        PROVE  Simple
    <2>1. ClientInit /\ kind \in Kind
      BY <1>1 DEF Init
    <2>2. Client
      BY <2>1, HeapAssumption DEF ClientInit, Client, ClientTypeOK, Live, NULL, NoRequest, Unit
    <2>3. /\ kind = "arena" => ArenaInit
          /\ kind = "stack" => StackInit
          /\ kind = "chunks" => ChunkInit
          /\ kind = "bitmap" => BitmapInit
          /\ kind = "buddy" => BuddyInit
          /\ kind = "freelist" => FreelistInit
      BY <1>1 DEF Init
    <2>4. kind = "arena" => ArenaInv
      BY <2>1, <2>3, ArenaBegins
    <2>5. kind = "stack" => StackInv
      BY <2>1, <2>3, StackBegins
    <2>6. kind = "chunks" => ChunkInv
      BY <2>1, <2>3, ChunkBegins
    <2>7. kind = "bitmap" => BitmapInv
      BY <2>1, <2>3, BitmapBegins
    <2>8. kind = "buddy" => BuddyInv
      BY <2>1, <2>3, BuddyBegins
    <2>9. kind = "freelist" => FreelistInv
      BY <2>1, <2>3, FreelistBegins
    <2>10. QED
      BY <2>2, <2>4, <2>5, <2>6, <2>7, <2>8, <2>9 DEF Simple
  <1>2. ASSUME Init, kind = "tlsf"
        PROVE  TlsfInv
    BY <1>2, TlsfBegins DEF Init
  <1>3. QED
    BY <1>1, <1>2 DEF Init, AllInv

(* Of the buddy allocator alone something is asked. *)
Roomy == kind = "buddy" => BuddyRoom

LEMMA SimpleStep ==
  ASSUME Roomy, Simple, kind \in Kind, kind # "tlsf", Next
  PROVE  Simple' /\ AbstractStep
  <1>1. Client /\ Running /\ kind' = kind
    BY DEF Next, Simple
  <1>2. CASE kind = "arena"
    <2>1. ArenaInv /\ ArenaNext
      BY <1>2 DEF Simple, Next
    <2>2. QED
      BY <1>1, <1>2, <2>1, ArenaStep DEF Simple
  <1>3. CASE kind = "stack"
    <2>1. StackInv /\ StackNext
      BY <1>3 DEF Simple, Next
    <2>2. QED
      BY <1>1, <1>3, <2>1, StackStep DEF Simple
  <1>4. CASE kind = "chunks"
    <2>1. ChunkInv /\ ChunkNext
      BY <1>4 DEF Simple, Next
    <2>2. QED
      BY <1>1, <1>4, <2>1, ChunkStep DEF Simple
  <1>5. CASE kind = "bitmap"
    <2>1. BitmapInv /\ BitmapNext
      BY <1>5 DEF Simple, Next
    <2>2. QED
      BY <1>1, <1>5, <2>1, BitmapStep DEF Simple
  <1>6. CASE kind = "buddy"
    <2>1. BuddyInv /\ BuddyNext /\ BuddyRoom
      BY <1>6 DEF Simple, Next, Roomy
    <2>2. QED
      BY <1>1, <1>6, <2>1, BuddyStep DEF Simple
  <1>7. CASE kind = "freelist"
    <2>1. FreelistInv /\ FreelistNext
      BY <1>7 DEF Simple, Next
    <2>2. QED
      BY <1>1, <1>7, <2>1, FreelistStep DEF Simple
  <1>8. QED
    BY <1>2, <1>3, <1>4, <1>5, <1>6, <1>7 DEF Kind

LEMMA SimpleStays ==
  ASSUME Simple, UNCHANGED vars
  PROVE  Simple' /\ AbstractStep
  <1>1. /\ kind' = kind /\ mem' = mem /\ ptr' = ptr /\ want' = want /\ fault' = fault
    BY DEF vars
  <1>2. Client'
    BY <1>1 DEF Simple, Client, ClientTypeOK, Live, Room, Beyond, AlignOf, Measured
  <1>3. (kind = "arena" => ArenaInv)'
    BY <1>1 DEF Simple, ArenaInv, Live, Within
  <1>4. (kind = "stack" => StackInv)'
    BY <1>1 DEF Simple, StackInv, Live
  <1>5. (kind = "chunks" => ChunkInv)'
    BY Zenon, <1>1 DEF Simple, ChunkInv, Live
  <1>6. (kind = "bitmap" => BitmapInv)'
    BY <1>1 DEF Simple, BitmapInv, Live
  <1>7. (kind = "buddy" => BuddyInv)'
    BY <1>1 DEF Simple, BuddyInv, BuddyHolds, Live
  <1>8. (kind = "freelist" => FreelistInv)'
    BY <1>1 DEF Simple, FreelistInv, FlAsserts, Live
  <1>9. \A v \in Var : BlockOf(v)' = BlockOf(v)
    BY <1>1 DEF BlockOf, Live, T!BlockOf
  <1>10. QED
    BY <1>2, <1>3, <1>4, <1>5, <1>6, <1>7, <1>8, <1>9 DEF Simple, AbstractStep

(* Tlsf has variables of its own for the client, and goes on by itself. *)
LEMMA AllStep ==
  ASSUME Roomy, AllInv, [Next]_vars
  PROVE  AllInv' /\ AbstractStep
  <1>1. kind' = kind
    BY DEF Next, vars
  <1>2. CASE kind # "tlsf"
    <2>1. Simple' /\ AbstractStep
      BY <1>2, SimpleStep, SimpleStays DEF AllInv
    <2>2. QED
      BY <1>1, <1>2, <2>1 DEF AllInv
  <1>3. CASE kind = "tlsf"
    <2>1. CASE Next
      <3>1. TlsfInv /\ T!Next
        BY <1>3, <2>1 DEF Next, AllInv
      <3>2. TlsfInv' /\ AbstractStep
        BY <1>1, <1>3, <3>1, TlsfStep
      <3>3. QED
        BY <1>1, <1>3, <3>2 DEF AllInv
    <2>2. CASE UNCHANGED vars
      <3>1. TlsfInv' /\ AbstractStep
        BY <1>3, <2>2, TlsfStays DEF AllInv
      <3>2. QED
        BY <1>1, <1>3, <3>1 DEF AllInv
    <2>3. QED
      BY <2>1, <2>2
  <1>4. QED
    BY <1>2, <1>3

LEMMA RoomyStays ==
  ASSUME [Next]_vars
  PROVE  Roomy' <=> Roomy
  <1>1. kind' = kind
    BY DEF Next, vars
  <1>2. QED
    BY <1>1 DEF Roomy, BuddyRoom

LEMMA AllInvAlways == Spec => [](Roomy => AllInv)
  <1>1. Init => (Roomy => AllInv)
    BY AllBegin
  <1>2. (Roomy => AllInv) /\ [Next]_vars => (Roomy => AllInv)'
    BY AllStep, RoomyStays
  <1>3. QED
    BY <1>1, <1>2, PTL DEF Spec

LEMMA RoomyAlways == Spec /\ Roomy => []Roomy
  <1>1. Roomy /\ [Next]_vars => Roomy'
    BY RoomyStays
  <1>2. QED
    BY <1>1, PTL DEF Spec

(* The client's variables and the fault hold what their types say: no pointer
   leaves the buffer, whichever of the allocators is used.                 *)
THEOREM AllocatorsTyped == Spec /\ Roomy => []TypeOK
  <1>1. AllInv => TypeOK
    BY TlsfIsTyped DEF AllInv, Simple, Client, TypeOK
  <1>2. QED
    BY <1>1, AllInvAlways, RoomyAlways, PTL

(* A pointer is a multiple of the alignment it was asked for with; the pool's,
   whose buffer is used as it was given, is that far from the buffer's
   beginning.                                                              *)
THEOREM AllocatorsAlign == Spec /\ Roomy => []Aligned
  <1>1. AllInv => Aligned
    BY DEF AllInv, Simple, Client, Room, AlignOf, Measured, Aligned
  <1>2. QED
    BY <1>1, AllInvAlways, RoomyAlways, PTL

(* The pool's pointers are aligned themselves where its buffer is: then
   pool_init() loses nothing by keeping the buffer as it was given.        *)
PoolAligned == kind = "chunks" => \A v \in Var : Live(v) => ptr[v] % want[v].align = 0

THEOREM PoolAligns ==
  ASSUME Base % ChunkAlign = 0
  PROVE  Spec /\ Roomy => []PoolAligned
  <1>1. AllInv => PoolAligned
    <2>1. ASSUME AllInv, kind = "chunks", NEW v \in Var, Live(v)
          PROVE  ptr[v] % want[v].align = 0
      <3>1. want[v].align = ChunkAlign /\ ptr[v] \in Chunk
        <4>1. Simple
          BY <2>1 DEF AllInv
        <4>2. ChunkInv
          BY <2>1, <4>1 DEF Simple
        <4>3. ptr[v] \in Chunk /\ want[v] = [size |-> ChunkSize, align |-> ChunkAlign]
          BY <2>1, <4>2 DEF ChunkInv
        <4>4. QED
          BY <4>3
      <3>2. (ptr[v] - Base) % ChunkAlign = 0 /\ ptr[v] \in Nat
        BY <3>1, ChunksApart
      <3>3. Base \in Nat /\ ChunkAlign \in Nat \ {0}
        BY Bounds, ChunkIs
      <3> DEFINE d == ptr[v] - Base
      <3>4. d \in Int /\ ptr[v] = Base + d
        BY <3>2, <3>3
      <3> HIDE DEF d
      <3>5. (Base + d) % ChunkAlign = 0
        BY <3>2, <3>3, <3>4, Multiples DEF d
      <3>6. QED
        BY <3>1, <3>4, <3>5
    <2>2. QED
      BY <2>1 DEF PoolAligned
  <1>2. QED
    BY <1>1, AllInvAlways, RoomyAlways, PTL

(* What each allocator wrote down agrees with the blocks that are in use; for Tlsf,
   its blocks tile the buffer, and a free one is on the list of its size class and
   on no other.                                                            *)
THEOREM AllocatorsAgree == Spec /\ Roomy => []Sound
  <1>1. AllInv /\ kind = "tlsf" => Sound
    <2>1. ASSUME AllInv, kind = "tlsf"
          PROVE  Sound
      <3>1. T!Tiled /\ T!ListsAgree
        BY <2>1, TlsfIsTiled, TlsfListsAgree DEF AllInv
      <3>2. QED
        BY <2>1, <3>1 DEF Sound
    <2>2. QED
      BY <2>1
  <1>2. AllInv /\ kind # "tlsf" => Sound
    <2>1. ASSUME AllInv, kind # "tlsf"
          PROVE  Sound
      <3>1. Client /\ Simple /\ kind \in Kind
        BY <2>1 DEF AllInv, Simple
      <3>2. CASE kind = "arena"
        BY <3>1, <3>2, ArenaIsSound DEF Simple, Sound
      <3>3. CASE kind = "stack"
        BY <3>1, <3>3, StackIsSound DEF Simple, Sound
      <3>4. CASE kind = "chunks"
        BY <3>1, <3>4, ChunkIsSound DEF Simple, Sound
      <3>5. CASE kind = "bitmap"
        BY <3>1, <3>5, BitmapIsSound DEF Simple, Sound
      <3>6. CASE kind = "buddy"
        BY <3>1, <3>6, BuddyIsSound DEF Simple, Sound
      <3>7. CASE kind = "freelist"
        BY <3>1, <3>7, FreelistIsSound DEF Simple, Sound
      <3>8. QED
        BY <2>1, <3>1, <3>2, <3>3, <3>4, <3>5, <3>6, <3>7 DEF Kind
    <2>2. QED
      BY <2>1
  <1>3. AllInv => Sound
    BY <1>1, <1>2
  <1>4. QED
    BY <1>3, AllInvAlways, RoomyAlways, PTL

(* The asserts of freelist_realloc() fail only when memory is short, or was
   leaked by a resize.                                                     *)
THEOREM FreelistAsserts == Spec => []AssertsHold
  <1>1. (Roomy => AllInv) => AssertsHold
    <2>1. CASE kind = "freelist"
      <3>1. Roomy
        BY <2>1 DEF Roomy
      <3>2. AllInv => FreelistInv
        BY <2>1 DEF AllInv, Simple
      <3>3. QED
        BY <3>1, <3>2 DEF FreelistInv, FlAsserts, AssertsHold
    <2>2. QED
      BY <2>1 DEF AssertsHold
  <1>2. QED
    BY <1>1, AllInvAlways, RoomyAlways, PTL

(* Each of them implements Heap: what a pointer was asked to hold overlaps nothing
   else, and no call disturbs the block of another pointer.                *)
THEOREM AllocatorsImplementHeap == Spec /\ Roomy => Refinement
  <1>1. Init => Abstract!HInit
    <2>1. ASSUME Init
          PROVE  \A v \in Var : BlockOf(v) = {}
      <3>1. CASE kind # "tlsf"
        <4>1. ClientInit
          BY <2>1, <3>1 DEF Init
        <4>2. QED
          BY <3>1, <4>1 DEF ClientInit, BlockOf, Live
      <3>2. CASE kind = "tlsf"
        <4>1. ptr = [v \in Var |-> T!NoAllocation]
          BY <2>1, <3>2 DEF Init, T!Init
        <4>2. \A v \in Var : T!BlockOf(v) = {}
          BY <4>1 DEF T!BlockOf
        <4>3. QED
          BY <3>2, <4>2 DEF BlockOf
      <3>3. QED
        BY <3>1, <3>2
    <2>2. QED
      BY <2>1 DEF Abstract!HInit
  <1>2. Roomy /\ AllInv /\ [Next]_vars => [Abstract!HNext]_[v \in Var |-> BlockOf(v)]
    BY AllStep DEF AbstractStep
  <1>3. QED
    BY <1>1, <1>2, AllInvAlways, RoomyAlways, PTL DEF Spec, Refinement, Abstract!HSpec

(* allocate() of Tlsf takes a block of the smallest size class whose blocks are all
   large enough, and runs out of memory only when no such block is free.   *)
THEOREM TlsfFitsWell == Spec => FitsWell
  <1>1. (Roomy => AllInv) => (kind = "tlsf" => T!FitStep)
    <2>1. kind = "tlsf" => Roomy
      BY DEF Roomy
    <2>2. AllInv => (kind = "tlsf" => TlsfInv)
      BY DEF AllInv
    <2>3. QED
      BY <2>1, <2>2, TlsfFits
  <1>2. QED
    BY <1>1, AllInvAlways, RoomyAlways, PTL DEF Spec, FitsWell
=============================================================================
