------------------------------- MODULE Buffer -------------------------------
(***************************************************************************)
(* What every allocator of src/common/memory shares: a buffer it was given *)
(* and the arithmetic of aligned addresses in memory.h.                    *)
(*                                                                         *)
(* Addresses and sizes count units; how many bytes a unit stands for is    *)
(* said by the module of each allocator.                                   *)
(***************************************************************************)
EXTENDS Integers

CONSTANTS
  Var,         (* the client's pointer variables                           *)
  Base, Size,  (* the buffer: where it begins, and its length              *)
  Requests,    (* the sizes the client asks for                            *)
  Alignments   (* the alignments it asks for, powers of two                *)

ASSUME HeapAssumption ==
  /\ Base \in Nat \ {0}
  /\ Size \in Nat \ {0}
  /\ Requests \subseteq Nat \ {0}
  /\ Alignments \subseteq {1, 2, 4, 8, 16}

NULL == 0
End == Base + Size
Unit == Base .. End - 1

AtLeast(x, y) == IF x < y THEN y ELSE x

(* The sizes of the first n members of s together. *)
SizeUpTo(s, n) ==
  LET sum[k \in 0 .. n] == IF k = 0 THEN 0 ELSE sum[k - 1] + s[k].size
  IN  sum[n]

(* f with e at x, whether or not there was something. *)
Extended(f, x, e) == [y \in DOMAIN f \cup {x} |-> IF y = x THEN e ELSE f[y]]

align_forward(a, align) == a + ((align - (a % align)) % align)

(* Mutant of PaddingFor: the header comes behind the alignment. *)
PaddingLate(a, align, header) == align_forward(a, align) - a + header

(* calc_padding_with_header(): what lies between a and the first aligned
   address that leaves room for a header.                                  *)
PaddingFor(a, align, header) == align_forward(a + header, align) - a
=============================================================================
