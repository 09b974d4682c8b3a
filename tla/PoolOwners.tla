----------------------------- MODULE PoolOwners -----------------------------
(***************************************************************************)
(* ThreadSafePool driven the way the tests ConcurrentAllocationStress and  *)
(* RandomStress drive it: a handle belongs to the thread that allocated it *)
(* and only that thread recycles it, once, while the fixture's timer       *)
(* thread calls cleanup().                                                 *)
(***************************************************************************)
EXTENDS ThreadSafePool

CONSTANTS
  MaxGen,      (* bound: a slot is recycled at most MaxGen times           *)
  Overcommit   (* may clients ask for a slot when none is left?            *)

(* allocations_per_thread * num_threads never exceeds max_capacity_allowed in
   the tests: that is Overcommit = FALSE.                                  *)
ASSUME ClientAssumption ==
  /\ MaxGen \in Nat
  /\ Overcommit \in BOOLEAN

VARIABLE
  held         (* the handles each thread has allocated and not recycled   *)

vars == <<arr, top, generations, batched, bcount, cpc, pc, slot, arg, aborted,
          held>>

HeldBy(t) == {h.index : h \in held[t]}
Owned(t) == InFlight(t) \cup HeldBy(t)
Outstanding == (UNION {Owned(t) : t \in Thread}) \cup Retired

(* The clients' side of the bargain, which the pool does not check. *)
RoomLeft == Overcommit \/ ~(Slot \subseteq Outstanding)

Init ==
  /\ PoolInit
  /\ held = [t \in Thread |-> {}]

Allocate(t) ==
  /\ RoomLeft
  /\ AllocPop(t)
  /\ UNCHANGED held

AllocateDone(t) ==
  /\ AllocRead(t)
  /\ held' = [held EXCEPT ![t] = @ \cup {NewHandle(t)}]

Release(t) ==
  \E h \in held[t] :
    /\ generations[h.index] < MaxGen
    /\ Recycle(t, h)
    /\ held' = [held EXCEPT ![t] = @ \ {h}]

ReleaseDone(t) == RecycleStore(t) /\ UNCHANGED held

Sweep == Cleanup /\ UNCHANGED held

Next ==
  \/ \E t \in Thread : Allocate(t) \/ AllocateDone(t) \/ Release(t) \/ ReleaseDone(t)
  \/ Sweep

Spec == Init /\ [][Next]_vars

(* A call that holds the lock runs to its end, and the timer keeps calling
   cleanup().  Nothing makes a client call the pool, and the lock prefers
   nobody: WF of the sweep is enough because the calls are finitely many,
   MaxGen of them for a slot, as in the tests' bounded loops.              *)
Fairness ==
  /\ \A t \in Thread : WF_vars(AllocateDone(t)) /\ WF_vars(ReleaseDone(t))
  /\ WF_vars(Sweep)

FairSpec == Spec /\ Fairness

-----------------------------------------------------------------------------
TypeOK ==
  /\ PoolTypeOK
  /\ held \in [Thread -> SUBSET Handle]

(* No slot is in two places: on the stack twice, popped by two threads, in
   two handles, in a handle and on the stack or in the batch.  This is the
   test's comment "no two handles should point to the same index inside the
   pool" (line 484) for every moment of every interleaving of allocate(),
   recycle() and cleanup().                                                *)
UniqueOwner ==
  /\ \A j, k \in 0 .. Depth - 1 : arr[j] = arr[k] => j = k
  /\ \A t \in Thread : \A g, h \in held[t] : g.index = h.index => g = h
  /\ \A t \in Thread : InFlight(t) \cap HeldBy(t) = {}
  /\ \A t, u \in Thread : t # u => Owned(t) \cap Owned(u) = {}
  /\ \A t \in Thread : Owned(t) \cap (OnStack \cup Retired) = {}
  /\ OnStack \cap Retired = {}

(* No slot is lost: each is on the stack, owned, or waiting for cleanup(). *)
NoSlotLost == Slot \subseteq OnStack \cup Outstanding

(* get() finds the object of every handle its owner has not recycled, as the
   test's EXPECT_EQ(failed_allocations.load(), 0) wants (line 502).        *)
OwnedHandlesValid == \A t \in Thread : \A h \in held[t] : Valid(h)

(* The pool implements HandlePool: allocate() takes effect with its fetch_sub,
   recycle() with its fetch_add, cleanup() with its push.                  *)
SweptAge == [s \in Slot |->
  IF cpc = "bump" /\ \E k \in 0 .. BatchedCount - 1 : batched[k] = s
  THEN generations[s] + 1 ELSE generations[s]]

Abstract == INSTANCE HandlePool WITH
  free <- OnStack, owner <- [t \in Thread |-> Owned(t)],
  retired <- Retired, age <- SweptAge

Refinement == Abstract!ASpec

(* Every recycled slot comes back: none stays in the batch for ever. *)
RecycledComesBack == Abstract!ASwept
=============================================================================
