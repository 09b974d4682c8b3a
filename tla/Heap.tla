-------------------------------- MODULE Heap --------------------------------
(***************************************************************************)
(* What an allocator over one buffer promises its clients, whatever its    *)
(* bookkeeping looks like: the block behind a pointer overlaps no other    *)
(* block, and a call that is made for one pointer leaves the blocks of the *)
(* others where they are.                                                  *)
(***************************************************************************)
EXTENDS Naturals

CONSTANTS
  Var,    (* the client's pointer variables *)
  Unit    (* the addresses of the buffer    *)

VARIABLE
  block   (* the addresses of the block each variable points to, {} for NULL *)

HInit == block = [v \in Var |-> {}]

(* Allocation, reallocation, release and relocation of one block: the new
   place is taken from the buffer and from nobody.                         *)
HChange(v) ==
  /\ block'[v] \subseteq Unit
  /\ \A w \in Var \ {v} : block'[v] \cap block[w] = {}
  /\ block' = [block EXCEPT ![v] = block'[v]]

(* A variable takes over the block of another. *)
HMove(v, w) == block[w] = {} /\ block' = [block EXCEPT ![w] = block[v], ![v] = {}]

(* Some calls release the blocks of several variables. *)
HForget(S) == block' = [v \in Var |-> IF v \in S THEN {} ELSE block[v]]

HNext ==
  \/ \E v \in Var : HChange(v)
  \/ \E v, w \in Var : HMove(v, w)
  \/ \E S \in SUBSET Var : HForget(S)

HSpec == HInit /\ [][HNext]_block

HDisjoint == \A v, w \in Var : v # w => block[v] \cap block[w] = {}
=============================================================================
