------------------------------- MODULE Queue --------------------------------
(***************************************************************************)
(* The queue of src/common/containers/queue.h: a circular array that       *)
(* doubles when it is full.                                                *)
(***************************************************************************)
EXTENDS Container

(* queue_create_cap().  A queue of length 0 has no front: SIZE_MAX. *)
NoFront == -1
QueueInit == s = [arr |-> Cells(InitCap), front |-> NoFront, length |-> 0, fault |-> "none"]

Ringed(a, f, n) == [arr |-> a, front |-> f, length |-> n, fault |-> s.fault]

(* Mutant of Expanded: the items that had wrapped around stay where they are. *)
ExpandedUnwrapped(arr, f, n) ==
  LET a == Grown(arr, 2 * Capacity(arr))
  IN  [i \in DOMAIN a |-> IF i < n THEN a[f + i] ELSE a[i]]

(* Mutant of Expanded: the array grows by a fixed step. *)
ExpandedByTwo(arr, f, n) == [i \in 0 .. n + 1 |-> IF i < n THEN arr[(f + i) % n] ELSE Garbage]

(* queue_expand() of a queue whose n items fill the array; its front becomes
   0.  What had wrapped around goes behind the old end, and then everything to
   the front, cell by cell upwards.                                        *)
Expanded(arr, f, n) ==
  LET a == Grown(arr, 2 * Capacity(arr))
      behind == [i \in DOMAIN a |-> IF i - n \in 0 .. f - 1 THEN a[i - n] ELSE a[i]]
  IN  IF f = 0 THEN a ELSE [i \in DOMAIN a |-> IF i < n THEN behind[f + i] ELSE behind[i]]

QueueFull == s.length = Capacity(s.arr)

QueuePush(x) ==
  LET front == IF s.length = 0 THEN 0 ELSE s.front
      a == IF QueueFull THEN Expanded(s.arr, front, s.length) ELSE s.arr
      f == IF QueueFull THEN 0 ELSE front
  IN  /\ s.length < MaxLen
      /\ s' = Ringed([a EXCEPT ![(f + s.length) % Capacity(a)] = x], f, s.length + 1)
      /\ UNCHANGED out

(* realloc() fails: the items are moved before the assert looks. *)
QueueNoMemory ==
  /\ QueueFull
  /\ s' = Stopped(s, IF s.front > 0 THEN "null" ELSE "assert")
  /\ UNCHANGED out

QueuePop ==
  /\ out' = IF s.length = 0 THEN Zero ELSE s.arr[s.front]
  /\ s' = IF s.length = 0 THEN s
          ELSE Ringed(s.arr, (s.front + 1) % Capacity(s.arr), s.length - 1)

QueuePeek(i) ==
  /\ out' = IF i >= s.length THEN Zero ELSE s.arr[(s.front + i) % Capacity(s.arr)]
  /\ UNCHANGED s

QueueClear ==
  /\ s' = Ringed(s.arr, NoFront, 0)
  /\ UNCHANGED out

QueueNext ==
  \/ \E x \in Item : QueuePush(x)
  \/ \E i \in 0 .. MaxLen : QueuePeek(i)
  \/ QueuePop \/ QueueClear \/ QueueNoMemory

QueueItems == [i \in 1 .. s.length |-> s.arr[(s.front + i - 1) % Capacity(s.arr)]]

QueueSound ==
  /\ s.length <= Capacity(s.arr)
  /\ s.length > 0 => s.front \in DOMAIN s.arr
=============================================================================
