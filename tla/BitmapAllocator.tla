-------------------------- MODULE BitmapAllocator ---------------------------
(***************************************************************************)
(* The allocator of src/common/memory/bitmapped_alloc.h: one bit per       *)
(* block, on when the block is free.  A unit is a block (SIZE_CLASS_BYTES),*)
(* and a mask is the set of the bits that are on in it.                    *)
(***************************************************************************)
EXTENDS BufferClient, FiniteSetsExt

CONSTANTS
  MaskLen,     (* MASK_LEN, 4 in the code                                   *)
  MaskBits     (* the width of a mask, 32 in the code                       *)

ASSUME MaskAssumption == MaskLen \in Nat \ {0} /\ MaskBits \in Nat \ {0}
                         /\ MaskLen * MaskBits <= Size

Mask == 0 .. MaskLen - 1
Bit == 0 .. MaskBits - 1

BitmapInit == mem = [m \in Mask |-> Bit]

(* The first mask with a bit on; a set of one, or of none. *)
FirstMask ==
  LET some == {m \in Mask : mem[m] # {}} IN IF some = {} THEN {} ELSE {Min(some)}

(* bitmap_allocator_alloc().  When every mask is 0 it reads mask[-1]. *)
BitmapAlloc(v) ==
  /\ ~Live(v)
  /\ IF FirstMask = {}
     THEN fault' = "overrun" /\ UNCHANGED <<mem, ptr, want>>
     ELSE /\ \E m \in FirstMask :
               LET bit == Min(mem[m])
               IN  /\ mem' = [mem EXCEPT ![m] = @ \ {bit}]
                   /\ Keep(v, Base + m * MaskBits + bit, 1, 1)
          /\ UNCHANGED fault

(* bitmap_allocator_free() *)
BitmapFree(v) ==
  /\ Live(v)
  /\ LET index == ptr[v] - Base
     IN  mem' = [mem EXCEPT ![index \div MaskBits] = @ \cup {index % MaskBits}]
  /\ Forget({v})
  /\ UNCHANGED fault

BitmapNext == \E v \in Var : BitmapAlloc(v) \/ BitmapFree(v)

(* A bit is off exactly while a variable points to its block. *)
BitmapSound ==
  {ptr[v] : v \in Var} \ {NULL}
    = {Base + m * MaskBits + b : m \in Mask, b \in Bit} \
        UNION {{Base + m * MaskBits + b : b \in mem[m]} : m \in Mask}
=============================================================================
