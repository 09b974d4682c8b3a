-------------------------------- MODULE Lifo --------------------------------
(***************************************************************************)
(* What a bounded stack shared by threads promises: push and pop each take *)
(* effect at one moment, and a pop returns what was pushed last.           *)
(***************************************************************************)
EXTENDS Naturals, Sequences

CONSTANTS
  Thread,   (* the threads that push and pop *)
  Item,     (* what they push                *)
  Cap       (* how many items fit            *)

VARIABLES
  items,    (* the stack, its top at the end       *)
  popped    (* what each thread has popped so far  *)

lvars == <<items, popped>>

LInit == items = << >> /\ popped = [t \in Thread |-> << >>]

LPush(x) ==
  /\ Len(items) < Cap
  /\ items' = Append(items, x)
  /\ UNCHANGED popped

LPop(t) ==
  /\ items # << >>
  /\ items' = SubSeq(items, 1, Len(items) - 1)
  /\ popped' = [popped EXCEPT ![t] = Append(@, items[Len(items)])]

LNext == (\E x \in Item : LPush(x)) \/ (\E t \in Thread : LPop(t))

LSpec == LInit /\ [][LNext]_lvars
=============================================================================
