------------------------------ MODULE PoolStorm ------------------------------
(***************************************************************************)
(* ThreadSafePool driven the way the test RecycleStorm drives it: every    *)
(* thread knows every handle, gets its object and, when the get succeeded, *)
(* recycles the handle, although another thread (or the same one) may have *)
(* recycled it meanwhile.  Threads also go on allocating, as RandomStress  *)
(* does, so that what the recycles did to the free list shows.             *)
(***************************************************************************)
EXTENDS ThreadSafePool

CONSTANTS
  MaxAllocs,   (* bound: allocate() is called at most MaxAllocs times       *)
  MaxRecycles  (* bound: recycle() is called at most MaxRecycles times; a
                  test thread makes at most cycles_per_thread calls         *)

ASSUME StormAssumption == MaxAllocs \in Nat /\ MaxRecycles \in Nat

VARIABLES
  shared,      (* the handles allocate() returned, which everybody knows    *)
  got,         (* per thread: the handles its last get() found an object for*)
  allocs,      (* the calls of allocate() so far                            *)
  recycles     (* the calls of recycle() so far                             *)

client == <<shared, got, allocs, recycles>>
vars == <<arr, top, generations, batched, bcount, cpc, pc, slot, arg, aborted,
          shared, got, allocs, recycles>>

Init ==
  /\ PoolInit
  /\ shared = {}
  /\ got = [t \in Thread |-> {}]
  /\ allocs = 0
  /\ recycles = 0

(* Only while a slot is on the stack: a pop of the empty stack reads outside it. *)
Allocate(t) ==
  /\ allocs < MaxAllocs
  /\ Depth > 0
  /\ AllocPop(t)
  /\ allocs' = allocs + 1
  /\ UNCHANGED <<shared, got, recycles>>

AllocateDone(t) ==
  /\ AllocRead(t)
  /\ shared' = shared \cup {NewHandle(t)}
  /\ UNCHANGED <<got, allocs, recycles>>

(* get(): the whole call runs under the shared lock and changes nothing; the
   pointer it returns is used, and the handle recycled, after the unlock.  *)
Get(t) ==
  /\ LockShared(t)
  /\ \E h \in shared : got' = [got EXCEPT ![t] = IF Valid(h) THEN {h} ELSE {}]
  /\ UNCHANGED <<pool, shared, allocs, recycles>>

Release(t) ==
  \E h \in got[t] :
    /\ recycles < MaxRecycles
    /\ Recycle(t, h)
    /\ got' = [got EXCEPT ![t] = {}]
    /\ recycles' = recycles + 1
    /\ UNCHANGED <<shared, allocs>>

ReleaseDone(t) == RecycleStore(t) /\ UNCHANGED client

Sweep == Cleanup /\ UNCHANGED client

Next ==
  \/ \E t \in Thread : \/ Allocate(t) \/ AllocateDone(t) \/ Get(t)
                       \/ Release(t) \/ ReleaseDone(t)
  \/ Sweep

Spec == Init /\ [][Next]_vars

-----------------------------------------------------------------------------
TypeOK ==
  /\ PoolTypeOK
  /\ shared \subseteq Handle
  /\ got \in [Thread -> SUBSET shared]
  /\ allocs \in 0 .. MaxAllocs
  /\ recycles \in 0 .. MaxRecycles

InUse == UNION {InFlight(t) : t \in Thread}
LiveHandles == {h \in shared : Valid(h)}

(* Whatever the threads recycle, and how often, no slot is lost: each is on
   the stack, popped, in the batch, or some handle to it is valid.         *)
NoSlotLost ==
  Slot \subseteq OnStack \cup InUse \cup Retired \cup {h.index : h \in LiveHandles}

(* A handle get() has refused is refused for ever, however often the slot is
   handed out again ("the handle should be invalid now", lines 404-407).   *)
StaleForEver == [][\A h \in shared : ~Valid(h) => ~Valid(h)']_vars

(* An object stays reachable until the cleanup that follows its recycle()
   (line 394, "Object should still be accessible until cleanup"): a handle
   becomes stale only in cleanup(), and only if its slot was recycled.     *)
AccessibleUntilCleanup ==
  [][\A h \in shared : Valid(h) /\ ~Valid(h)' =>
       cpc = "bump" /\ h.index \in {batched[k] : k \in 0 .. bcount - 1}]_vars

(* The comment of line 484, "no two handles should point to the same index
   inside the pool": a handle allocate() is about to return was never returned
   before and is not being returned to another thread.                     *)
HandedOutOnce ==
  \A t \in Allocating :
    /\ NewHandle(t) \notin shared
    /\ \A u \in Allocating \ {t} : NewHandle(u) # NewHandle(t)

(* recycle() of a stale handle returns (line 247, "[InvalidHandle]
   returning..."): it never stops the program.                             *)
StaleRecycleReturns == ~aborted
=============================================================================
