----------------------------- MODULE Allocators -----------------------------
(***************************************************************************)
(* The sequential allocators of src/common/memory, each with a client.     *)
(* alloc_api (memory.h) lets a client swap one for another: Init chooses   *)
(* one of them, and every behaviour is that of the one it chose.           *)
(***************************************************************************)
EXTENDS Arena, StackAllocator, ChunkPool, BitmapAllocator, BuddyAllocator, Freelist

CONSTANTS
  L2Log2, Bits, MaxAllocs,    (* of Tlsf                                   *)
  TlsfRequests                (* what its client asks for                  *)

VARIABLE kind

T == INSTANCE Tlsf WITH tlsf <- mem, Requests <- TlsfRequests

ASSUME TlsfConstants == T!TlsfAssumption /\ 2 ^ Bits - 1 <= Size

vars == <<kind, mem, ptr, want, fault>>

Kind == {"arena", "stack", "chunks", "bitmap", "buddy", "freelist", "tlsf"}

Init ==
  /\ kind \in Kind
  /\ want = [v \in Var |-> NoRequest]
  /\ \/ ClientInit /\ kind = "arena" /\ ArenaInit
     \/ ClientInit /\ kind = "stack" /\ StackInit
     \/ ClientInit /\ kind = "chunks" /\ ChunkInit
     \/ ClientInit /\ kind = "bitmap" /\ BitmapInit
     \/ ClientInit /\ kind = "buddy" /\ BuddyInit
     \/ ClientInit /\ kind = "freelist" /\ FreelistInit
     \/ T!Init /\ kind = "tlsf"

Next ==
  /\ Running
  /\ \/ kind = "arena" /\ ArenaNext
     \/ kind = "stack" /\ StackNext
     \/ kind = "chunks" /\ ChunkNext
     \/ kind = "bitmap" /\ BitmapNext
     \/ kind = "buddy" /\ BuddyNext
     \/ kind = "freelist" /\ FreelistNext
     \/ kind = "tlsf" /\ T!Next /\ UNCHANGED want
  /\ UNCHANGED kind

Spec == Init /\ [][Next]_vars

-----------------------------------------------------------------------------
TypeOK ==
  /\ kind \in Kind
  /\ IF kind = "tlsf" THEN T!TypeOK ELSE ClientTypeOK

(* A pointer is a multiple of the alignment that was asked for, of MaxAlign
   for the stack; also after a resize moved the block.  The pool does not "align
   backing buffer" as pool_alloc.h:40 says, line 53 keeps it as it was given: a
   chunk is as many alignments away from the buffer's beginning, and a multiple
   of its alignment only where the buffer is.                              *)
Aligned ==
  kind # "tlsf" => \A v \in Var : Live(v) =>
    (IF kind = "chunks" THEN ptr[v] - Base ELSE ptr[v])
      % (IF kind = "stack" THEN Capped(want[v].align) ELSE want[v].align) = 0

(* What each allocator wrote down agrees with the blocks that are in use. *)
Sound ==
  CASE kind = "arena" -> ArenaSound
    [] kind = "stack" -> StackSound
    [] kind = "chunks" -> ChunkSound
    [] kind = "bitmap" -> BitmapSound
    [] kind = "buddy" -> BuddySound
    [] kind = "freelist" -> FreelistSound
    [] kind = "tlsf" -> T!Tiled /\ T!ListsAgree

(* The asserts of freelist_realloc() fail only when memory is short, or was
   leaked: used and free memory add up after every call that leaks nothing. *)
AssertsHold ==
  kind = "freelist" /\ fault = "assert" => mem.leaked # {} \/ FreeUnits(mem) < FlHeader

(* Tlsf takes the first class that must fit, see FitStep. *)
FitsWell == [][kind = "tlsf" => T!FitStep]_vars

(* buddy_block_coalescence() goes on (buddy_alloc.h:161) "until there are no
   more buddies to coalesce": none are left after a free.                  *)
FreeCoalesces ==
  [][kind = "buddy" => \A v \in Var :
       Live(v) /\ ~Live(v)' => \A i \in 1 .. Len(mem') - 1 : ~Buddies(mem', i)]_vars

(* Each of them implements Heap: what a pointer was asked to hold overlaps
   nothing else, and no call disturbs the block of another pointer.        *)
BlockOf(v) ==
  IF kind = "tlsf" THEN {Base + o : o \in T!BlockOf(v)}
  ELSE IF Live(v) THEN ptr[v] .. ptr[v] + want[v].size - 1 ELSE {}

Abstract == INSTANCE Heap WITH block <- [v \in Var |-> BlockOf(v)]

Refinement == Abstract!HSpec

(* For model checking: the variables are alike. *)
VarSymmetry == Permutations(Var)

=============================================================================
