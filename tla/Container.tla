----------------------------- MODULE Container ------------------------------
(***************************************************************************)
(* What the data structures of src/common/containers share: one client     *)
(* calls one structure.  Allocation may fail in every call that allocates. *)
(***************************************************************************)
EXTENDS Integers, SequencesExt

CONSTANTS
  Key,       (* the keys of the trees, below SINT32_MAX                     *)
  Item,      (* what the client puts into the arrays                        *)
  InitCap,   (* the capacity an array is created with, a power of two       *)
  MaxLen     (* bound of the model on the length of an array                *)

ASSUME ContainerAssumption ==
  /\ Key \subseteq Nat \ {0} /\ Item \subseteq Nat \ {0}
  /\ InitCap \in {1, 2, 4, 8}
  /\ MaxLen \in Nat

VARIABLES
  s,     (* the structure; s.fault is "none", or what stopped the program: a
            failed "assert", an access through "null", or one outside an
            array ("overrun") or behind the end of a C string ("overread")  *)
  out    (* what the last call returned                                     *)

Zero == 0        (* (T){0} *)
Garbage == -1    (* a cell nobody has written since it was allocated *)

Running == s.fault = "none"
Stopped(t, why) == [t EXCEPT !.fault = why]

(* An array of n cells, and one that realloc() has made n cells long. *)
Cells(n) == [i \in 0 .. n - 1 |-> Garbage]
Grown(a, n) == [i \in 0 .. n - 1 |-> IF i \in DOMAIN a THEN a[i] ELSE Garbage]
Capacity(a) == Cardinality(DOMAIN a)
=============================================================================
