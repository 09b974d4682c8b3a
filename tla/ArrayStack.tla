----------------------------- MODULE ArrayStack -----------------------------
(***************************************************************************)
(* The stack of src/common/containers/stack.h.                             *)
(***************************************************************************)
EXTENDS Container

StackInit == s = [arr |-> Cells(InitCap), top |-> -1, fault |-> "none"]

StackFull == s.top + 1 >= Capacity(s.arr)

StackPush(x) ==
  LET a == IF StackFull THEN Grown(s.arr, 2 * Capacity(s.arr)) ELSE s.arr
  IN  /\ s.top + 1 < MaxLen
      /\ s' = [s EXCEPT !.arr = [a EXCEPT ![s.top + 1] = x], !.top = @ + 1]
      /\ UNCHANGED out

(* realloc() fails, and nothing looks at what it returned. *)
StackNoMemory == StackFull /\ s' = Stopped(s, "null") /\ UNCHANGED out

(* The cell is filled with a pattern. *)
StackPop ==
  /\ out' = IF s.top = -1 THEN Zero ELSE s.arr[s.top]
  /\ s' = IF s.top = -1 THEN s ELSE [s EXCEPT !.arr[s.top] = Garbage, !.top = @ - 1]

StackClear == s' = [s EXCEPT !.top = -1] /\ UNCHANGED out

(* The index is unsigned and top is not: compared with it, the -1 of an empty
   stack is the largest number of all, and the cell before the array is read. *)
StackPeek(i) ==
  IF s.top = -1
  THEN s' = Stopped(s, "overrun") /\ UNCHANGED out
  ELSE /\ out' = IF i > s.top THEN Zero ELSE s.arr[s.top - i]
       /\ UNCHANGED s

StackNext ==
  \/ \E x \in Item : StackPush(x)
  \/ \E i \in 0 .. MaxLen : StackPeek(i)
  \/ StackPop \/ StackClear \/ StackNoMemory

StackItems == [i \in 1 .. s.top + 1 |-> s.arr[i - 1]]
StackSound == s.top < Capacity(s.arr)
=============================================================================
