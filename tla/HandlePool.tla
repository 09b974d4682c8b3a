----------------------------- MODULE HandlePool -----------------------------
(***************************************************************************)
(* What a handle pool promises its clients, whatever the free list, the    *)
(* deferred deletes and the locks of src/common/memory/sebi_pool.h look    *)
(* like: a slot is free, or owned by one thread, or retired (recycled but  *)
(* not yet swept).  A sweep frees every retired slot and moves it to its   *)
(* next generation, which is what makes handles to it stale.               *)
(***************************************************************************)
EXTENDS Naturals

CONSTANTS
  Thread,   (* the threads that call the pool *)
  Slot      (* the indices of the pool        *)

VARIABLES
  free,     (* the slots nobody may use                     *)
  owner,    (* the slots each thread owns                   *)
  retired,  (* the slots recycled since the last sweep      *)
  age       (* how often each slot has been recycled        *)

avars == <<free, owner, retired, age>>

AInit ==
  /\ free = Slot
  /\ owner = [t \in Thread |-> {}]
  /\ retired = {}
  /\ age = [s \in Slot |-> 0]

AAllocate(t) ==
  \E s \in free :
    /\ free' = free \ {s}
    /\ owner' = [owner EXCEPT ![t] = @ \cup {s}]
    /\ UNCHANGED <<retired, age>>

ARecycle(t) ==
  \E s \in owner[t] :
    /\ owner' = [owner EXCEPT ![t] = @ \ {s}]
    /\ retired' = retired \cup {s}
    /\ UNCHANGED <<free, age>>

ASweep ==
  /\ free' = free \cup retired
  /\ retired' = {}
  /\ age' = [s \in Slot |-> IF s \in retired THEN age[s] + 1 ELSE age[s]]
  /\ UNCHANGED owner

ANext == (\E t \in Thread : AAllocate(t) \/ ARecycle(t)) \/ ASweep

ASpec == AInit /\ [][ANext]_avars

(* Whatever is retired is swept at some time. *)
ASwept == \A s \in Slot : (s \in retired) ~> (s \in free)
=============================================================================
