------------------------------ MODULE DynArray ------------------------------
(***************************************************************************)
(* The dynamic array of src/common/containers/darr.h.                      *)
(***************************************************************************)
EXTENDS Container

ArrayInit == s = [arr |-> Cells(InitCap), length |-> 0, fault |-> "none"]

ArrayFull == s.length + 1 > Capacity(s.arr)

ArrayPush(x) ==
  LET a == IF ArrayFull THEN Grown(s.arr, 2 * Capacity(s.arr)) ELSE s.arr
  IN  /\ s.length < MaxLen
      /\ s' = [s EXCEPT !.arr = [a EXCEPT ![s.length] = x], !.length = @ + 1]
      /\ UNCHANGED out

ArrayNoMemory == ArrayFull /\ s' = Stopped(s, "assert") /\ UNCHANGED out

ArrayGet(i) ==
  /\ out' = IF i >= s.length THEN Zero ELSE s.arr[i]
  /\ UNCHANGED s

ArrayUpdate(i, x) ==
  /\ i < s.length
  /\ s' = [s EXCEPT !.arr[i] = x]
  /\ UNCHANGED out

(* What is behind the index moves down by one. *)
ArrayRemoveAt(i) ==
  /\ i < s.length
  /\ s' = [s EXCEPT !.length = @ - 1,
                    !.arr = [j \in DOMAIN @ |-> IF j \in i .. s.length - 2 THEN @[j + 1] ELSE @[j]]]
  /\ UNCHANGED out

ArrayNext ==
  \/ \E x \in Item : ArrayPush(x)
  \/ \E i \in 0 .. MaxLen : ArrayGet(i) \/ ArrayRemoveAt(i) \/ \E x \in Item : ArrayUpdate(i, x)
  \/ ArrayNoMemory

ArrayItems == [i \in 1 .. s.length |-> s.arr[i - 1]]
ArraySound == s.length <= Capacity(s.arr)
=============================================================================
