------------------------------- MODULE Arena --------------------------------
(***************************************************************************)
(* The arena of src/common/memory/linear_alloc.h: an offset that grows,    *)
(* and temporary scopes that roll it back.  A unit is a byte.              *)
(***************************************************************************)
EXTENDS BufferClient

(* "temp" holds the Temp_Arena_Memory of the scope that is open, if any. *)
ArenaEmpty == [prev_offset |-> 0, curr_offset |-> 0, temp |-> {}]

(* arena_alloc_align(): the arena after the call, and what it returns. *)
ArenaAllocAlign(m, n, align) ==
  LET offset == align_forward(Base + m.curr_offset, align) - Base
  IN  IF offset + n <= Size
      THEN [mem |-> [prev_offset |-> offset, curr_offset |-> offset + n, temp |-> m.temp],
            p |-> Base + offset]
      ELSE [mem |-> m, p |-> NULL]

(* Mutant of ArenaInPlace: a block before the last grows in place, too. *)
ArenaInPlaceAny(m, p) == Base + m.prev_offset >= p

(* p was the last allocation. *)
ArenaInPlace(m, p) == Base + m.prev_offset = p

(* arena_resize_align() from "old" to n units.  In place it does not look where
   the buffer ends, and clears what it gained; elsewhere it copies to what
   arena_alloc_align() returned.                                           *)
ArenaResizeAlign(m, p, old, n, align) ==
  LET moved == ArenaAllocAlign(m, n, align)
  IN  IF ~ArenaInPlace(m, p)
      THEN [mem |-> moved.mem, p |-> moved.p,
            fault |-> IF moved.p = NULL THEN "null" ELSE "none"]
      ELSE IF n > old /\ m.curr_offset + (n - old) > Size
      THEN [mem |-> m, p |-> NULL, fault |-> "overrun"]
      ELSE [mem |-> [m EXCEPT !.curr_offset = m.prev_offset + n], p |-> p, fault |-> "none"]

ArenaInit == mem = ArenaEmpty

ArenaAlloc(v) ==
  /\ ~Live(v)
  /\ \E n \in Requests, align \in Alignments :
       LET r == ArenaAllocAlign(mem, n, align)
       IN  mem' = r.mem /\ Keep(v, r.p, n, align)
  /\ UNCHANGED fault

(* What was allocated since the open scope began. *)
InScope(v) == \A t \in mem.temp : ptr[v] >= Base + t.curr_offset

(* The client resizes within a scope only what it allocated there: the end of
   the scope rolls back what a block from before has gained.               *)
ArenaResize(v) ==
  /\ Live(v) /\ InScope(v)
  /\ \E n \in Requests :
       LET r == ArenaResizeAlign(mem, ptr[v], want[v].size, n, want[v].align)
       IN  /\ mem' = r.mem
           /\ fault' = r.fault
           /\ Keep(v, r.p, n, want[v].align)

(* arena_free() does nothing. *)
ArenaFree(v) ==
  /\ Live(v)
  /\ Forget({v})
  /\ UNCHANGED <<mem, fault>>

ArenaFreeAll ==
  /\ mem.temp = {}
  /\ mem' = ArenaEmpty
  /\ Forget(Var)
  /\ UNCHANGED fault

TempBegin ==
  /\ mem.temp = {}
  /\ mem' = [mem EXCEPT !.temp =
       {[prev_offset |-> mem.prev_offset, curr_offset |-> mem.curr_offset]}]
  /\ UNCHANGED <<ptr, want, fault>>

TempEnd ==
  /\ \E t \in mem.temp :
       mem' = [prev_offset |-> t.prev_offset, curr_offset |-> t.curr_offset, temp |-> {}]
  /\ Forget({v \in Var : InScope(v)})
  /\ UNCHANGED fault

ArenaNext ==
  \/ \E v \in Var : ArenaAlloc(v) \/ ArenaResize(v) \/ ArenaFree(v)
  \/ ArenaFreeAll \/ TempBegin \/ TempEnd

(* Everything allocated lies below the offset. *)
ArenaSound ==
  /\ mem.prev_offset <= mem.curr_offset
  /\ mem.curr_offset <= Size
  /\ \A v \in Var : Live(v) => ptr[v] + want[v].size <= Base + mem.curr_offset
=============================================================================
