--------------------------- MODULE ThreadSafePool ---------------------------
(***************************************************************************)
(* ThreadSafePool<T> and its free list ThreadSafePoolStack<IndexType>, of  *)
(* src/common/memory/sebi_pool.h.                                          *)
(*                                                                         *)
(* allocate(), recycle() and get() run under a shared lock of rw_mtx,      *)
(* cleanup() under the exclusive one.  Under the shared lock the only      *)
(* synchronisation is one atomic read-modify-write per call, on top_ or on *)
(* batched_deletes_count_: a call is two steps, the lock with the atomic   *)
(* operation, and the array access with the unlock.  A thread holds the    *)
(* shared lock exactly while its pc is not "idle", and the sweeper holds   *)
(* the exclusive one exactly while cpc is not "idle".                      *)
(*                                                                         *)
(* The clients (who calls what with which handle) are in PoolOwners and in *)
(* PoolStorm, which complete the actions of this module.                   *)
(***************************************************************************)
EXTENDS Integers, FiniteSets

CONSTANTS
  Thread,   (* the threads that allocate, recycle and get                  *)
  Cap,      (* initial_capacity                                            *)
  IdxMod    (* the number of values of IndexType: 65536 for a uint16_t     *)

(* capacity is an IndexType: at most max_capacity_allowed, IdxMod - 1. *)
ASSUME CapAssumption ==
  /\ Cap \in Nat \ {0}
  /\ IdxMod \in Nat
  /\ Cap < IdxMod

VARIABLES
  arr,          (* freelist_.arr_                                          *)
  top,          (* freelist_.top_                                          *)
  generations,  (* generations_, 64 bits wide                              *)
  batched,      (* batched_deletes_                                        *)
  bcount,       (* batched_deletes_count_, 64 bits wide                    *)
  cpc,          (* where cleanup() is: "idle", "bump" or "reset"           *)
  pc,           (* where each thread is: "idle", "alloc" or "recycle"      *)
  slot,         (* the local i of pop(), the local batch_index of recycle()
                   (both, and arg, are cleared when the call returns)      *)
  arg,          (* the handle recycle() was called with                    *)
  aborted       (* an assert failed: the process is gone                   *)

pool == <<arr, top, generations, batched, bcount, cpc, pc, slot, arg, aborted>>

Idx == 0 .. IdxMod - 1
Slot == 0 .. Cap - 1
Handle == [index : Idx, gen : Idx]
NoHandle == [index |-> 0, gen |-> 0]

(* The value an IndexType variable takes when x is stored in it, for an x
   that is at most one turn away from the type's range.                    *)
Wrap(x) == IF x < 0 THEN x + IdxMod ELSE IF x >= IdxMod THEN x - IdxMod ELSE x

(* The constructors: the stack holds Cap-1 .. 0 with index 0 on top, and the
   rest of the backing buffer is zero (VirtualAlloc).                      *)
PoolInit ==
  /\ arr = [k \in Idx |-> IF k < Cap THEN (Cap - 1) - k ELSE 0]
  /\ top = Cap - 1
  /\ generations = [i \in Idx |-> 0]
  /\ batched = [k \in Idx |-> 0]
  /\ bcount = 0
  /\ cpc = "idle"
  /\ pc = [t \in Thread |-> "idle"]
  /\ slot = [t \in Thread |-> 0]
  /\ arg = [t \in Thread |-> NoHandle]
  /\ aborted = FALSE

(* A shared lock can be taken unless cleanup() runs. *)
LockShared(t) == ~aborted /\ cpc = "idle" /\ pc[t] = "idle"

(* The test get() and recycle() make of a handle. *)
Valid(h) == h.gen = generations[h.index]

-----------------------------------------------------------------------------
(* allocate(): lock, top_.fetch_sub(1); there is no test for an empty stack. *)
AllocPop(t) ==
  /\ LockShared(t)
  /\ slot' = [slot EXCEPT ![t] = top]
  /\ top' = Wrap(top - 1)
  /\ pc' = [pc EXCEPT ![t] = "alloc"]
  /\ UNCHANGED <<arr, generations, batched, bcount, cpc, arg, aborted>>

(* The handle allocate() returns: gen_ keeps the low bits of the counter. *)
NewHandle(t) ==
  LET i == arr[slot[t]]
  IN  [index |-> i, gen |-> generations[i] % IdxMod]

(* allocate(): read arr_[i] and its generation, unlock, return NewHandle(t).
   INVALID_INDEX_ fails the assert.                                        *)
AllocRead(t) ==
  /\ ~aborted
  /\ pc[t] = "alloc"
  /\ aborted' = (arr[slot[t]] = IdxMod - 1)
  /\ pc' = [pc EXCEPT ![t] = "idle"]
  /\ slot' = [slot EXCEPT ![t] = 0]
  /\ UNCHANGED <<arr, top, generations, batched, bcount, cpc, arg>>

(* Mutant of RecycleCount: the handle is made stale at once, not in cleanup(). *)
RecycleCountEager(t, h) ==
  /\ LockShared(t)
  /\ Valid(h)
  /\ slot' = [slot EXCEPT ![t] = bcount % IdxMod]
  /\ arg' = [arg EXCEPT ![t] = h]
  /\ bcount' = bcount + 1
  /\ pc' = [pc EXCEPT ![t] = "recycle"]
  /\ generations' = [generations EXCEPT ![h.index] = @ + 1]
  /\ UNCHANGED <<arr, top, batched, cpc, aborted>>

(* recycle() of a valid handle: lock, batched_deletes_count_.fetch_add(1). *)
RecycleCount(t, h) ==
  /\ LockShared(t)
  /\ Valid(h)
  /\ slot' = [slot EXCEPT ![t] = bcount % IdxMod]
  /\ arg' = [arg EXCEPT ![t] = h]
  /\ bcount' = bcount + 1
  /\ pc' = [pc EXCEPT ![t] = "recycle"]
  /\ UNCHANGED <<arr, top, generations, batched, cpc, aborted>>

(* Mutant of RecycleStore: reads the counter again for its cell. *)
RecycleStoreReread(t) ==
  /\ ~aborted
  /\ pc[t] = "recycle"
  /\ batched' = [batched EXCEPT ![(bcount - 1) % IdxMod] = arg[t].index]
  /\ pc' = [pc EXCEPT ![t] = "idle"]
  /\ slot' = [slot EXCEPT ![t] = 0]
  /\ arg' = [arg EXCEPT ![t] = NoHandle]
  /\ UNCHANGED <<arr, top, generations, bcount, cpc, aborted>>

(* recycle(): batched_deletes_[batch_index] = index, unlock.  The array has
   IdxMod - 1 cells; the one behind them is freelist_.arr_[0].             *)
RecycleStore(t) ==
  /\ ~aborted
  /\ pc[t] = "recycle"
  /\ IF slot[t] = IdxMod - 1
     THEN arr' = [arr EXCEPT ![0] = arg[t].index] /\ batched' = batched
     ELSE batched' = [batched EXCEPT ![slot[t]] = arg[t].index] /\ arr' = arr
  /\ pc' = [pc EXCEPT ![t] = "idle"]
  /\ slot' = [slot EXCEPT ![t] = 0]
  /\ arg' = [arg EXCEPT ![t] = NoHandle]
  /\ UNCHANGED <<top, generations, bcount, cpc, aborted>>

(* recycle() of a stale handle: the assert compares handle.gen_ with the
   generation of slot number gen_; where it holds, the call returns.       *)
RecycleStale(t, h) ==
  /\ LockShared(t)
  /\ ~Valid(h)
  /\ aborted' = ~(h.gen < generations[h.gen])
  /\ UNCHANGED <<arr, top, generations, batched, bcount, cpc, pc, slot, arg>>

Recycle(t, h) == RecycleCount(t, h) \/ RecycleStale(t, h)

-----------------------------------------------------------------------------
(* The count cleanup() works with: an IndexType. *)
BatchedCount == bcount % IdxMod

(* Where cell k lies behind the top of the stack: pushes fill cells 0, 1, ... *)
AboveTop(k) == Wrap(k - Wrap(top + 1))

(* push_multiple(). *)
PushBatch ==
  /\ arr' = [k \in Idx |-> IF AboveTop(k) < BatchedCount
                           THEN batched[AboveTop(k)] ELSE arr[k]]
  /\ top' = Wrap(top + BatchedCount)

(* Mutants of CleanupPush: it takes a shared lock only; ... *)
CleanupPushShared ==
  /\ ~aborted
  /\ cpc = "idle"
  /\ PushBatch
  /\ cpc' = "bump"
  /\ UNCHANGED <<generations, batched, bcount, pc, slot, arg, aborted>>

(* ... top_ is wider than IndexType and does not wrap; ... *)
CleanupPushWide ==
  /\ ~aborted
  /\ cpc = "idle"
  /\ \A t \in Thread : pc[t] = "idle"
  /\ arr' = [k \in Idx |-> IF AboveTop(k) < BatchedCount
                           THEN batched[AboveTop(k)] ELSE arr[k]]
  /\ top' = top + BatchedCount
  /\ cpc' = "bump"
  /\ UNCHANGED <<generations, batched, bcount, pc, slot, arg, aborted>>

(* ... it skips a batch of one. *)
CleanupPushLazy ==
  /\ ~aborted
  /\ cpc = "idle"
  /\ \A t \in Thread : pc[t] = "idle"
  /\ bcount # 1
  /\ PushBatch
  /\ cpc' = "bump"
  /\ UNCHANGED <<generations, batched, bcount, pc, slot, arg, aborted>>

(* cleanup(): the exclusive lock, then freelist_.push_multiple(). *)
CleanupPush ==
  /\ ~aborted
  /\ cpc = "idle"
  /\ \A t \in Thread : pc[t] = "idle"
  /\ PushBatch
  /\ cpc' = "bump"
  /\ UNCHANGED <<generations, batched, bcount, pc, slot, arg, aborted>>

(* How often index i is among the first n cells of the batch. *)
Recycled(i, n) == Cardinality({k \in 0 .. n - 1 : batched[k] = i})

(* Mutants of CleanupBump: one cell too many; ... *)
CleanupBumpBeyond ==
  /\ cpc = "bump"
  /\ generations' = [i \in Idx |-> generations[i] + Recycled(i, BatchedCount + 1)]
  /\ cpc' = "reset"
  /\ UNCHANGED <<arr, top, batched, bcount, pc, slot, arg, aborted>>

(* ... no new generation; ... *)
CleanupBumpNot ==
  /\ cpc = "bump"
  /\ cpc' = "reset"
  /\ UNCHANGED <<arr, top, generations, batched, bcount, pc, slot, arg, aborted>>

(* ... a counter that has only two values. *)
CleanupBumpNarrow ==
  /\ cpc = "bump"
  /\ generations' = [i \in Idx |-> (generations[i] + Recycled(i, BatchedCount)) % 2]
  /\ cpc' = "reset"
  /\ UNCHANGED <<arr, top, batched, bcount, pc, slot, arg, aborted>>

(* cleanup(): ++generations_[batched_deletes_[i]] for every i. *)
CleanupBump ==
  /\ cpc = "bump"
  /\ generations' = [i \in Idx |-> generations[i] + Recycled(i, BatchedCount)]
  /\ cpc' = "reset"
  /\ UNCHANGED <<arr, top, batched, bcount, pc, slot, arg, aborted>>

(* cleanup(): batched_deletes_count_ = 0, unlock. *)
CleanupReset ==
  /\ cpc = "reset"
  /\ bcount' = 0
  /\ cpc' = "idle"
  /\ UNCHANGED <<arr, top, generations, batched, pc, slot, arg, aborted>>

Cleanup == CleanupPush \/ CleanupBump \/ CleanupReset

-----------------------------------------------------------------------------
(* Where the slots are. *)

(* The number of indices on the stack: top_ is -1 when there is none. *)
Depth == IF top = IdxMod - 1 THEN 0 ELSE top + 1

OnStack == {arr[k] : k \in 0 .. Depth - 1}

Allocating == {t \in Thread : pc[t] = "alloc"}
Storing == {t \in Thread : pc[t] = "recycle"}

(* What thread t has popped and not yet returned to its client. *)
InFlight(t) == IF pc[t] = "alloc" THEN {arr[slot[t]]} ELSE {}

(* The cells of the batch that have been written. *)
Stored == (0 .. bcount - 1) \ {slot[t] : t \in Storing}

(* What was recycled and is not yet back on the stack. *)
Retired == IF cpc # "idle" THEN {}
           ELSE {batched[k] : k \in Stored} \cup {arg[t].index : t \in Storing}

PoolTypeOK ==
  /\ arr \in [Idx -> Idx]
  /\ top \in Idx
  /\ generations \in [Idx -> Nat]
  /\ batched \in [Idx -> Idx]
  /\ bcount \in Nat
  /\ cpc \in {"idle", "bump", "reset"}
  /\ pc \in [Thread -> {"idle", "alloc", "recycle"}]
  /\ slot \in [Thread -> Idx]
  /\ arg \in [Thread -> Handle]
  /\ aborted \in BOOLEAN
=============================================================================
