--------------------------- MODULE StackAllocator ---------------------------
(***************************************************************************)
(* The stack of src/common/memory/stack_alloc_forward.h: an offset, and a  *)
(* header in front of each block with the padding to take back.  A unit is *)
(* a byte, and so is a header.                                             *)
(***************************************************************************)
EXTENDS BufferClient, Functions

CONSTANTS
  PadBits,     (* the width of a header's padding, 8 in the code            *)
  MaxAlign     (* the largest alignment it keeps, 128 in the code           *)

ASSUME StackAssumption == PadBits \in Nat /\ MaxAlign \in {2 ^ k : k \in 0 .. PadBits - 1}

StackEmpty == [offset |-> 0, padding |-> << >>]

Capped(align) == IF align > MaxAlign THEN MaxAlign ELSE align

(* stack_alloc_align(): the stack after the call, and what it returns. *)
StackAllocAlign(m, n, asked) ==
  LET padding == PaddingFor(Base + m.offset, Capped(asked), 1)
      p == Base + m.offset + padding
  IN  IF m.offset + padding + n > Size THEN [mem |-> m, p |-> NULL]
      ELSE [mem |-> [offset |-> m.offset + padding + n,
                     padding |-> Extended(m.padding, p, padding % 2 ^ PadBits)],
            p |-> p]

(* stack_free(): p and everything above it.  What is freed already lies above
   the offset, and the call returns at once.                               *)
StackFreed(m, p) ==
  IF p >= Base + m.offset THEN m
  ELSE [offset |-> p - m.padding[p] - Base,
        padding |-> Restrict(m.padding, {q \in DOMAIN m.padding : q < p})]

(* Mutant of OnTop: any block grows in place. *)
OnTopAny(m, p, old) == TRUE

(* The block of "old" units at p is the last one. *)
OnTop(m, p, old) == p = Base + m.offset - old

(* stack_resize_align() of a block that is in use, to n # 0 units. *)
StackResizeAlign(m, p, old, n, align) ==
  LET moved == StackAllocAlign(m, n, align)
  IN  IF p >= Base + m.offset THEN [mem |-> m, p |-> NULL, fault |-> "none"]
      ELSE IF old = n THEN [mem |-> m, p |-> p, fault |-> "none"]
      ELSE IF ~OnTop(m, p, old)
      THEN [mem |-> moved.mem, p |-> moved.p,
            fault |-> IF moved.p = NULL THEN "null" ELSE "none"]
      ELSE IF m.offset + n - old > Size THEN [mem |-> m, p |-> NULL, fault |-> "none"]
      ELSE [mem |-> [m EXCEPT !.offset = @ + n - old], p |-> p, fault |-> "none"]

StackInit == mem = StackEmpty

StackAlloc(v) ==
  /\ ~Live(v)
  /\ \E n \in Requests, align \in Alignments :
       LET r == StackAllocAlign(mem, n, align)
       IN  mem' = r.mem /\ Keep(v, r.p, n, align)
  /\ UNCHANGED fault

(* stack_free() and a resize to 0. *)
StackFree(v) ==
  /\ Live(v)
  /\ mem' = StackFreed(mem, ptr[v])
  /\ Forget({w \in Var : ptr[w] >= ptr[v]})
  /\ UNCHANGED fault

StackResize(v) ==
  /\ Live(v)
  /\ \E n \in Requests :
       LET r == StackResizeAlign(mem, ptr[v], want[v].size, n, want[v].align)
       IN  /\ mem' = r.mem
           /\ fault' = r.fault
           /\ Keep(v, r.p, n, want[v].align)

StackFreeAll ==
  /\ mem' = StackEmpty
  /\ Forget(Var)
  /\ UNCHANGED fault

StackNext ==
  \/ \E v \in Var : StackAlloc(v) \/ StackFree(v) \/ StackResize(v)
  \/ StackFreeAll

(* A header gives back exactly what its block took: the padding ends where the
   block below, or the buffer, begins.                                     *)
StackSound ==
  /\ mem.offset \in 0 .. Size
  /\ \A v \in Var : Live(v) =>
       /\ ptr[v] \in DOMAIN mem.padding
       /\ ptr[v] + want[v].size <= Base + mem.offset
  /\ \A p \in DOMAIN mem.padding :
       /\ mem.padding[p] \in 1 .. MaxAlign
       /\ \A v \in Var : Live(v) /\ ptr[v] < p => ptr[v] + want[v].size <= p - mem.padding[p]
=============================================================================
