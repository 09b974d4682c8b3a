------------------------------ MODULE SlotPool ------------------------------
(***************************************************************************)
(* The handle pool for one thread of src/common/memory/sebi_pool.h, on the *)
(* Stack of src/common/containers/stack.hpp.  Indices, generations and     *)
(* capacities are unsigned numbers of one width.  The client keeps every   *)
(* handle, and recycles and uses also those it recycled before.            *)
(***************************************************************************)
EXTENDS Container

CONSTANTS
  IndexMod,   (* 2^16 in the code                                          *)
  PoolCap,    (* the first capacity, 64 in the code                        *)
  MaxGen      (* bound of the model on the recycles of a slot              *)

ASSUME SlotPoolAssumption ==
  /\ IndexMod \in {2 ^ k : k \in 1 .. 16}
  /\ PoolCap \in {2 ^ k : k \in 1 .. 15} /\ PoolCap < IndexMod
  /\ MaxGen \in Nat

-----------------------------------------------------------------------------
(* Stack<IndexType>. *)
Empty == IndexMod - 1       (* top_ of an empty stack *)
Full(f) == (f.top + 1) % IndexMod >= Capacity(f.data)
PushSafe(f, i) == [f EXCEPT !.data[(f.top + 1) % IndexMod] = i, !.top = (@ + 1) % IndexMod]

(* The largest capacity is one below the largest number. *)
Expand(f) ==
  LET max == IndexMod - 2
      cap == Capacity(f.data)
  IN  [f EXCEPT !.data = Grown(@, IF cap >= max \div 2 THEN max ELSE 2 * cap)]

Push(f, i) == PushSafe(IF Full(f) THEN Expand(f) ELSE f, i)

Reserve(f, n) == IF n <= Capacity(f.data) THEN f ELSE [f EXCEPT !.data = Grown(@, n)]

RECURSIVE Filled(_, _, _)
Filled(f, from, to) == IF from > to THEN f ELSE Filled(PushSafe(f, from), from + 1, to)

RECURSIVE FilledDown(_, _)
FilledDown(f, from) == IF from < 0 THEN f ELSE FilledDown(PushSafe(f, from), from - 1)

-----------------------------------------------------------------------------
(* Pool.  live is history: the handles that were not recycled yet; given, the
   handles the client ever got.                                            *)
PoolInit ==
  s = [free |-> FilledDown([data |-> Cells(PoolCap), top |-> Empty], PoolCap - 1),
       gen |-> [i \in 0 .. PoolCap - 1 |-> 0],
       capacity |-> PoolCap, num |-> 0,
       live |-> {}, given |-> {}, fault |-> "none"]

(* Mutant of PoolExpanded: the generations start again. *)
PoolExpandedAnew(p) ==
  LET n == 2 * p.capacity
  IN  [p EXCEPT !.capacity = n, !.gen = [i \in 0 .. n - 1 |-> 0],
                !.free = Filled(Reserve(@, n), p.capacity, n - 1)]

(* expand(): the new slots are free, and their generation is 0. *)
PoolExpanded(p) ==
  LET n == 2 * p.capacity
  IN  [p EXCEPT !.capacity = n,
                !.gen = [i \in 0 .. n - 1 |-> IF i \in DOMAIN @ THEN @[i] ELSE 0],
                !.free = Filled(Reserve(@, n), p.capacity, n - 1)]

PoolFull == s.num + 1 >= s.capacity

(* allocate() *)
PoolAllocate ==
  LET p == IF PoolFull THEN PoolExpanded(s) ELSE s
      i == p.free.data[p.free.top]
      h == [index |-> i, gen |-> p.gen[i]]
  IN  /\ PoolFull => 2 * s.capacity < IndexMod
      /\ s' = [p EXCEPT !.num = @ + 1, !.free.top = (@ - 1) % IndexMod,
                        !.live = @ \cup {h}, !.given = @ \cup {h}]
      /\ out' = [handle |-> h, valid |-> TRUE]

(* The doubled capacity does not fit its type and is 0: expand() clears what
   lies behind arrays of no length.                                        *)
PoolOverrun ==
  /\ PoolFull /\ 2 * s.capacity >= IndexMod
  /\ s' = Stopped(s, "overrun")
  /\ UNCHANGED out

(* recycle().  The assert about the generation holds also where it wraps, since
   the sum is an int.                                                      *)
PoolRecycle(h) ==
  /\ h.gen = s.gen[h.index] => h.gen < MaxGen
  /\ s' = IF h.gen # s.gen[h.index] THEN s
          ELSE [s EXCEPT !.free = Push(@, h.index),
                         !.gen[h.index] = (@ + 1) % IndexMod,
                         !.num = (@ - 1) % IndexMod,
                         !.live = @ \ {h}]
  /\ UNCHANGED out

(* get(): whether it is a pointer. *)
PoolGet(h) ==
  /\ out' = [handle |-> h, valid |-> h.gen = s.gen[h.index]]
  /\ UNCHANGED s

PoolNext ==
  \/ PoolAllocate \/ PoolOverrun
  \/ \E h \in s.given : PoolRecycle(h) \/ PoolGet(h)

(* A slot is on the stack or in the hands of the client, never both. *)
PoolSound ==
  LET free == [k \in 1 .. (s.free.top + 1) % IndexMod |-> s.free.data[k - 1]]
  IN  /\ IsInjective(free)
      /\ ToSet(free) = (0 .. s.capacity - 1) \ {h.index : h \in s.live}
      /\ s.num = Cardinality(s.live)
      /\ \A h, g \in s.live : h.index = g.index => h = g
=============================================================================
