-------------------------- MODULE PoolOwners_proofs --------------------------
(***************************************************************************)
(* Proofs about PoolOwners, for every set of threads, every capacity and   *)
(* every index width: slots are neither shared nor lost, handles in use    *)
(* stay valid, and the pool implements HandlePool.  They hold for clients  *)
(* that respect the two limits the code does not enforce (Disciplined).    *)
(***************************************************************************)
EXTENDS PoolOwners, FiniteSetTheorems, TLAPS

(* No client allocates from an empty pool, and no slot is recycled so often
   that its generation no longer fits the handle's gen_.                   *)
Disciplined == Overcommit = FALSE /\ MaxGen < IdxMod

-----------------------------------------------------------------------------
(* The inductive invariant. *)

(* cleanup() and the other calls exclude each other. *)
LockInv == cpc # "idle" => \A t \in Thread : pc[t] = "idle"

(* The stack and what was popped from it hold indices of the pool. *)
StackInv ==
  /\ top = IdxMod - 1 \/ top < Cap
  /\ \A k \in 0 .. Depth - 1 : arr[k] \in Slot
  /\ \A t \in Thread : pc[t] = "alloc" => arr[slot[t]] \in Slot

(* While no cleanup() runs, the batch holds each index once: in a cell that has
   been written, or with the thread that is about to write its cell.       *)
BatchInv ==
  cpc = "idle" =>
    /\ \A k \in Stored : batched[k] \in Slot
    /\ \A j, k \in Stored : batched[j] = batched[k] => j = k
    /\ \A t \in Storing : /\ slot[t] < bcount
                          /\ arg[t].index \in Slot
                          /\ \A k \in Stored : batched[k] # arg[t].index
    /\ \A t, u \in Storing : t # u => /\ slot[t] # slot[u]
                                      /\ arg[t].index # arg[u].index

(* During cleanup() the batch is complete and, before the bump, stale: no
   handle in use names one of its slots.                                   *)
SweepInv ==
  cpc # "idle" =>
    /\ bcount <= Cap
    /\ \A k \in 0 .. bcount - 1 : batched[k] \in Slot
    /\ \A j, k \in 0 .. bcount - 1 : batched[j] = batched[k] => j = k
    /\ cpc = "bump" => \A t \in Thread : \A h \in held[t] :
                         \A k \in 0 .. bcount - 1 : batched[k] # h.index

(* Handles in use are valid and in range; a slot that is going to be bumped
   has a generation to spare.                                              *)
GenInv ==
  /\ \A s \in Slot : generations[s] <= MaxGen
  /\ \A t \in Thread : \A h \in held[t] : h.index \in Slot /\ Valid(h)
  /\ \A s \in Retired : generations[s] < MaxGen
  /\ cpc = "bump" => \A k \in 0 .. bcount - 1 : generations[batched[k]] < MaxGen

IInv ==
  /\ TypeOK
  /\ LockInv
  /\ StackInv
  /\ BatchInv
  /\ SweepInv
  /\ GenInv
  /\ UniqueOwner
  /\ NoSlotLost

-----------------------------------------------------------------------------
(* Wrap brings sums and differences of indices back into the type's range. *)
LEMMA WrapRange ==
  ASSUME NEW x \in Idx, NEW y \in Idx
  PROVE  Wrap(x + y) \in Idx /\ Wrap(x - y) \in Idx
  BY CapAssumption DEF Wrap, Idx

(* A value of the type's range is its own residue. *)
LEMMA SmallResidue ==
  ASSUME NEW x \in Nat, x < IdxMod
  PROVE  x % IdxMod = x
  BY CapAssumption

LEMMA Residue ==
  ASSUME NEW x \in Nat
  PROVE  x % IdxMod \in Idx
  BY CapAssumption DEF Idx

(* How often an index is in the batch is a number. *)
LEMMA RecycledIsNat ==
  ASSUME NEW n \in Nat, NEW i
  PROVE  Recycled(i, n) \in Nat
  <1>1. IsFiniteSet(0 .. n - 1)
    BY FS_Interval
  <1>2. {k \in 0 .. n - 1 : batched[k] = i} \in SUBSET (0 .. n - 1)
    OBVIOUS
  <1>3. IsFiniteSet({k \in 0 .. n - 1 : batched[k] = i})
    BY <1>1, <1>2, FS_Subset
  <1>4. QED
    BY <1>3, FS_CardinalityType DEF Recycled

-----------------------------------------------------------------------------
(* Every variable keeps its type, whatever the clients do: top_ and the cells
   of the arrays never leave the range of an IndexType.                    *)
LEMMA TypeInit == Init => TypeOK
  <1> SUFFICES ASSUME Init
               PROVE  TypeOK
    OBVIOUS
  <1>1. 0 \in Idx /\ NoHandle \in Handle /\ Cap - 1 \in Idx
    BY CapAssumption DEF Idx, Handle, NoHandle
  <1>2. \A k \in Idx : (IF k < Cap THEN (Cap - 1) - k ELSE 0) \in Idx
    BY CapAssumption DEF Idx
  <1>3. arr \in [Idx -> Idx]
    BY <1>2 DEF Init, PoolInit
  <1>4. QED
    BY <1>1, <1>3 DEF Init, PoolInit, TypeOK, PoolTypeOK

LEMMA TypeNext == TypeOK /\ [Next]_vars => TypeOK'
  <1> SUFFICES ASSUME TypeOK, [Next]_vars
               PROVE  TypeOK'
    OBVIOUS
  <1> USE DEF TypeOK, PoolTypeOK
  <1>1. ASSUME NEW t \in Thread, Allocate(t)
        PROVE  TypeOK'
    <2>1. Wrap(top - 1) \in Idx
      BY CapAssumption DEF Idx, Wrap
    <2>2. QED
      BY <1>1, <2>1 DEF Allocate, AllocPop
  <1>2. ASSUME NEW t \in Thread, AllocateDone(t)
        PROVE  TypeOK'
    <2>1. NewHandle(t) \in Handle
      BY Residue DEF NewHandle, Handle
    <2>2. 0 \in Idx
      BY CapAssumption DEF Idx
    <2>3. QED
      BY <1>2, <2>1, <2>2 DEF AllocateDone, AllocRead
  <1>3. ASSUME NEW t \in Thread, NEW h \in held[t], RecycleCount(t, h),
               held' = [held EXCEPT ![t] = @ \ {h}]
        PROVE  TypeOK'
    BY <1>3, Residue DEF RecycleCount
  <1>4. ASSUME NEW t \in Thread, NEW h \in held[t], RecycleStale(t, h),
               held' = [held EXCEPT ![t] = @ \ {h}]
        PROVE  TypeOK'
    BY <1>4 DEF RecycleStale
  <1>5. ASSUME NEW t \in Thread, ReleaseDone(t)
        PROVE  TypeOK'
    <2>1. 0 \in Idx /\ NoHandle \in Handle
      BY CapAssumption DEF Idx, Handle, NoHandle
    <2>2. arg[t].index \in Idx
      BY DEF Handle
    <2>3. QED
      BY <1>5, <2>1, <2>2 DEF ReleaseDone, RecycleStore
  <1>6. CASE CleanupPush /\ UNCHANGED held
    <2>1. Wrap(top + 1) \in Idx
      BY CapAssumption DEF Idx, Wrap
    <2>2. \A k \in Idx : AboveTop(k) \in Idx
      BY <2>1, WrapRange DEF AboveTop
    <2>3. BatchedCount \in Idx
      BY Residue DEF BatchedCount
    <2>4. Wrap(top + BatchedCount) \in Idx
      BY <2>3, WrapRange
    <2>5. arr' \in [Idx -> Idx]
      BY <1>6, <2>2 DEF CleanupPush, PushBatch
    <2>6. QED
      BY <1>6, <2>4, <2>5 DEF CleanupPush, PushBatch
  <1>7. CASE CleanupBump /\ UNCHANGED held
    <2>1. BatchedCount \in Nat
      BY CapAssumption DEF BatchedCount
    <2>2. \A i \in Idx : Recycled(i, BatchedCount) \in Nat
      BY <2>1, RecycledIsNat
    <2>3. generations' \in [Idx -> Nat]
      BY <1>7, <2>2 DEF CleanupBump
    <2>4. QED
      BY <1>7, <2>3 DEF CleanupBump
  <1>8. CASE CleanupReset /\ UNCHANGED held
    BY <1>8 DEF CleanupReset
  <1>9. CASE UNCHANGED vars
    BY <1>9 DEF vars
  <1>10. QED
    BY <1>1, <1>2, <1>3, <1>4, <1>5, <1>6, <1>7, <1>8, <1>9
    DEF Next, Release, Recycle, Sweep, Cleanup

THEOREM TypeCorrect == Spec => []TypeOK
  BY TypeInit, TypeNext, PTL DEF Spec

-----------------------------------------------------------------------------
(* The rest of the invariant: first the initial states. *)
LEMMA InvInit == Init => IInv
  <1> SUFFICES ASSUME Init
               PROVE  IInv
    OBVIOUS
  <1>1. TypeOK
    BY TypeInit
  <1>2. Depth = Cap
    BY CapAssumption DEF Init, PoolInit, Depth
  <1>3. \A k \in 0 .. Depth - 1 : arr[k] = (Cap - 1) - k
    BY <1>2, CapAssumption DEF Init, PoolInit, Idx
  <1>4. OnStack = Slot
    <2>1. ASSUME NEW s \in Slot
          PROVE  s \in OnStack
      <3>1. (Cap - 1) - s \in 0 .. Depth - 1 /\ arr[(Cap - 1) - s] = s
        BY <1>2, <1>3, CapAssumption DEF Slot
      <3>2. QED
        BY <3>1 DEF OnStack
    <2>2. ASSUME NEW s \in OnStack
          PROVE  s \in Slot
      BY <1>2, <1>3, CapAssumption DEF OnStack, Slot
    <2>3. QED
      BY <2>1, <2>2
  <1>5. Storing = {} /\ Stored = {} /\ Retired = {}
    BY DEF Init, PoolInit, Storing, Stored, Retired
  <1>6. \A t \in Thread : Owned(t) = {}
    BY DEF Init, PoolInit, Owned, InFlight, HeldBy
  <1>7. LockInv /\ BatchInv /\ SweepInv
    BY <1>5 DEF Init, PoolInit, LockInv, BatchInv, SweepInv
  <1>8. StackInv
    BY <1>2, <1>3, CapAssumption DEF Init, PoolInit, StackInv, Slot
  <1>9. GenInv
    BY <1>5, CapAssumption, ClientAssumption DEF Init, PoolInit, GenInv, Slot, Idx
  <1>10. UniqueOwner
    <2>1. \A j, k \in 0 .. Depth - 1 : arr[j] = arr[k] => j = k
      BY <1>2, <1>3, CapAssumption
    <2>2. \A t \in Thread : held[t] = {}
      BY DEF Init
    <2>3. QED
      BY <1>5, <1>6, <2>1, <2>2 DEF UniqueOwner, Owned
  <1>11. NoSlotLost
    BY <1>4 DEF NoSlotLost
  <1>12. QED
    BY <1>1, <1>7, <1>8, <1>9, <1>10, <1>11 DEF IInv

-----------------------------------------------------------------------------
(* allocate(), first step: the index on top moves from the stack to the caller. *)
LEMMA AllocateStep ==
  ASSUME IInv, Disciplined, TypeOK', NEW t \in Thread, Allocate(t)
  PROVE  /\ IInv'
         /\ \E x \in OnStack :
              /\ OnStack' = OnStack \ {x}
              /\ Owned(t)' = Owned(t) \cup {x}
         /\ \A u \in Thread : u # t => Owned(u)' = Owned(u)
         /\ Retired' = Retired
         /\ UNCHANGED <<cpc, generations, batched, bcount>>
  <1> DEFINE x == arr[top]
  <1>0. /\ TypeOK /\ StackInv /\ UniqueOwner /\ NoSlotLost
        /\ cpc = "idle" /\ pc[t] = "idle"
        /\ top' = Wrap(top - 1)
        /\ slot' = [slot EXCEPT ![t] = top]
        /\ pc' = [pc EXCEPT ![t] = "alloc"]
        /\ UNCHANGED <<arr, generations, batched, bcount, cpc, arg, aborted, held>>
    BY DEF IInv, Allocate, AllocPop, LockShared
  <1>1. Depth >= 1 /\ Depth = top + 1 /\ top \in 0 .. Cap - 1
    <2>1. PICK s \in Slot : s \notin Outstanding
      BY DEF Allocate, RoomLeft, Disciplined
    <2>2. s \in OnStack
      BY <1>0, <2>1 DEF NoSlotLost
    <2>3. PICK k \in 0 .. Depth - 1 : arr[k] = s
      BY <2>2 DEF OnStack
    <2>4. top \in Nat
      BY <1>0 DEF TypeOK, PoolTypeOK, Idx
    <2>5. top # IdxMod - 1
      BY <2>3 DEF Depth
    <2>6. QED
      BY <1>0, <2>4, <2>5, CapAssumption DEF Depth, StackInv
  <1>2. Depth' = top
    BY <1>0, <1>1, CapAssumption DEF Depth, Wrap
  <1>3. x \in OnStack
    BY <1>1 DEF OnStack
  <1>4. OnStack' = OnStack \ {x}
    BY <1>0, <1>1, <1>2, CapAssumption DEF OnStack, UniqueOwner
  <1>5. InFlight(t)' = {x} /\ InFlight(t) = {}
    BY <1>0 DEF InFlight, TypeOK, PoolTypeOK
  <1>6. \A u \in Thread : u # t => InFlight(u)' = InFlight(u)
    BY <1>0 DEF InFlight, TypeOK, PoolTypeOK
  <1>7. \A u \in Thread : HeldBy(u)' = HeldBy(u)
    BY <1>0 DEF HeldBy
  <1>8. Owned(t)' = Owned(t) \cup {x} /\ \A u \in Thread : u # t => Owned(u)' = Owned(u)
    BY <1>5, <1>6, <1>7 DEF Owned
  <1>9. Storing' = Storing
    BY <1>0 DEF Storing, TypeOK, PoolTypeOK
  <1>10. \A u \in Storing : u # t /\ slot'[u] = slot[u]
    BY <1>0 DEF Storing, TypeOK, PoolTypeOK
  <1>11. Stored' = Stored
    BY <1>0, <1>9, <1>10 DEF Stored
  <1>12. Retired' = Retired
    BY <1>0, <1>9, <1>10, <1>11 DEF Retired
  <1>13. LockInv' /\ SweepInv'
    BY <1>0 DEF LockInv, SweepInv
  <1>14. BatchInv'
    BY <1>0, <1>9, <1>10, <1>11 DEF BatchInv, IInv
  <1>15. StackInv'
    <2>1. top' = IdxMod - 1 \/ top' < Cap
      BY <1>0, <1>1, CapAssumption DEF Wrap
    <2>2. \A k \in 0 .. Depth' - 1 : arr'[k] \in Slot
      BY <1>0, <1>1, <1>2 DEF StackInv
    <2>3. \A u \in Thread : pc'[u] = "alloc" => arr'[slot'[u]] \in Slot
      BY <1>0, <1>1 DEF StackInv, TypeOK, PoolTypeOK
    <2>4. QED
      BY <2>1, <2>2, <2>3 DEF StackInv
  <1>16. GenInv'
    BY <1>0, <1>12 DEF GenInv, IInv, Valid
  <1>17. UniqueOwner'
    <2>1. \A j, k \in 0 .. Depth' - 1 : arr'[j] = arr'[k] => j = k
      BY <1>0, <1>1, <1>2 DEF UniqueOwner
    <2>2. \A u \in Thread : \A g, h \in held'[u] : g.index = h.index => g = h
      BY <1>0 DEF UniqueOwner
    <2>3. \A u \in Thread : InFlight(u)' \cap HeldBy(u)' = {}
      BY <1>0, <1>3, <1>5, <1>6, <1>7 DEF UniqueOwner, Owned
    <2>4. \A u, v \in Thread : u # v => Owned(u)' \cap Owned(v)' = {}
      BY <1>0, <1>3, <1>8 DEF UniqueOwner
    <2>5. \A u \in Thread : Owned(u)' \cap (OnStack' \cup Retired') = {}
      BY <1>0, <1>3, <1>4, <1>8, <1>12 DEF UniqueOwner
    <2>6. OnStack' \cap Retired' = {}
      BY <1>0, <1>4, <1>12 DEF UniqueOwner
    <2>7. QED
      BY <2>1, <2>2, <2>3, <2>4, <2>5, <2>6 DEF UniqueOwner
  <1>18. NoSlotLost'
    <2>1. Outstanding' = Outstanding \cup {x}
      BY <1>8, <1>12 DEF Outstanding
    <2>2. QED
      BY <1>0, <1>4, <2>1 DEF NoSlotLost, Slot
  <1>19. QED
    BY <1>0, <1>3, <1>4, <1>8, <1>12, <1>13, <1>14, <1>15, <1>16, <1>17, <1>18 DEF IInv

(* allocate(), second step: the index becomes a handle of the caller. *)
LEMMA AllocateDoneStep ==
  ASSUME IInv, Disciplined, TypeOK', NEW t \in Thread, AllocateDone(t)
  PROVE  /\ IInv'
         /\ OnStack' = OnStack
         /\ \A u \in Thread : Owned(u)' = Owned(u)
         /\ Retired' = Retired
         /\ UNCHANGED <<cpc, generations, batched, bcount>>
  <1> DEFINE h == NewHandle(t)
  <1>0. /\ TypeOK /\ StackInv /\ UniqueOwner /\ NoSlotLost /\ GenInv
        /\ pc[t] = "alloc"
        /\ slot' = [slot EXCEPT ![t] = 0]
        /\ pc' = [pc EXCEPT ![t] = "idle"]
        /\ held' = [held EXCEPT ![t] = @ \cup {h}]
        /\ UNCHANGED <<arr, top, generations, batched, bcount, cpc, arg>>
    BY DEF IInv, AllocateDone, AllocRead
  <1>1. cpc = "idle"
    BY <1>0 DEF IInv, LockInv, TypeOK, PoolTypeOK
  <1>2. h.index = arr[slot[t]] /\ h.index \in Slot /\ Valid(h)
    <2>1. h.index = arr[slot[t]] /\ h.gen = generations[h.index] % IdxMod
      BY DEF NewHandle
    <2>2. h.index \in Slot
      BY <1>0, <2>1 DEF StackInv
    <2>3. h.index \in Idx
      BY <2>2, CapAssumption DEF Slot, Idx
    <2>4. generations[h.index] \in Nat
      BY <1>0, <2>3 DEF TypeOK, PoolTypeOK
    <2>5. generations[h.index] < IdxMod
      BY <1>0, <2>2, <2>4, CapAssumption, ClientAssumption DEF GenInv, Disciplined
    <2>6. QED
      BY <2>1, <2>2, <2>4, <2>5, SmallResidue DEF Valid
  <1>3. OnStack' = OnStack /\ Depth' = Depth
    BY <1>0 DEF OnStack, Depth
  <1>4. InFlight(t) = {h.index} /\ InFlight(t)' = {}
    BY <1>0, <1>2 DEF InFlight, TypeOK, PoolTypeOK
  <1>5. HeldBy(t)' = HeldBy(t) \cup {h.index}
    BY <1>0 DEF HeldBy, TypeOK
  <1>6. \A u \in Thread : u # t => /\ InFlight(u)' = InFlight(u)
                                   /\ HeldBy(u)' = HeldBy(u)
    BY <1>0 DEF InFlight, HeldBy, TypeOK, PoolTypeOK
  <1>7. \A u \in Thread : Owned(u)' = Owned(u)
    BY <1>4, <1>5, <1>6 DEF Owned
  <1>8. Storing' = Storing
    BY <1>0 DEF Storing, TypeOK, PoolTypeOK
  <1>9. \A u \in Storing : u # t /\ slot'[u] = slot[u]
    BY <1>0 DEF Storing, TypeOK, PoolTypeOK
  <1>10. Stored' = Stored
    BY <1>0, <1>8, <1>9 DEF Stored
  <1>11. Retired' = Retired
    BY <1>0, <1>8, <1>9, <1>10 DEF Retired
  <1>12. LockInv' /\ SweepInv'
    BY <1>0, <1>1 DEF LockInv, SweepInv
  <1>13. BatchInv'
    BY <1>0, <1>8, <1>9, <1>10 DEF BatchInv, IInv
  <1>14. StackInv'
    BY <1>0, <1>3 DEF StackInv, TypeOK, PoolTypeOK
  <1>15. GenInv'
    <2>1. \A u \in Thread : \A g \in held'[u] : g.index \in Slot /\ Valid(g)'
      BY <1>0, <1>2 DEF GenInv, Valid, TypeOK
    <2>2. QED
      BY <1>0, <1>1, <1>11, <2>1 DEF GenInv
  <1>16. UniqueOwner'
    <2>1. \A u \in Thread : \A f, g \in held'[u] : f.index = g.index => f = g
      <3>1. \A g \in held[t] : g.index # h.index
        BY <1>0, <1>4 DEF UniqueOwner, HeldBy
      <3>2. QED
        BY <1>0, <3>1 DEF UniqueOwner, TypeOK
    <2>2. \A u \in Thread : InFlight(u)' \cap HeldBy(u)' = {}
      BY <1>0, <1>4, <1>6 DEF UniqueOwner
    <2>3. QED
      BY <1>0, <1>3, <1>7, <1>11, <2>1, <2>2 DEF UniqueOwner
  <1>17. NoSlotLost'
    <2>1. Outstanding' = Outstanding
      BY <1>7, <1>11 DEF Outstanding
    <2>2. QED
      BY <1>0, <1>3, <2>1 DEF NoSlotLost, Slot
  <1>18. QED
    BY <1>0, <1>3, <1>7, <1>11, <1>12, <1>13, <1>14, <1>15, <1>16, <1>17 DEF IInv

(* A set of consecutive numbers that maps one-to-one into the slots is at most
   as long as the pool.                                                    *)
LEMMA AtMostCap ==
  ASSUME NEW n \in Nat, NEW f \in [0 .. n - 1 -> Slot],
         \A j, k \in 0 .. n - 1 : f[j] = f[k] => j = k
  PROVE  n <= Cap
  <1>1. IsFiniteSet(0 .. n - 1) /\ Cardinality(0 .. n - 1) = n
    BY FS_Interval
  <1>2. IsFiniteSet(Slot) /\ Cardinality(Slot) = Cap
    BY FS_Interval, CapAssumption DEF Slot
  <1>3. SUFFICES ASSUME Cap < n
                 PROVE  FALSE
    BY CapAssumption
  <1>4. \E j, k \in 0 .. n - 1 : j # k /\ f[j] = f[k]
    BY <1>1, <1>2, <1>3, FS_PigeonHole
  <1>5. QED
    BY <1>4

(* The batch never holds more entries than the pool has slots, although calls
   of recycle() reserve their cells before they write them.                *)
LEMMA BatchBound ==
  ASSUME IInv, cpc = "idle"
  PROVE  bcount <= Cap
  <1> DEFINE f == [k \in 0 .. bcount - 1 |->
                     IF k \in Stored THEN batched[k]
                     ELSE arg[CHOOSE t \in Storing : slot[t] = k].index]
  <1>1. bcount \in Nat
    BY DEF IInv, TypeOK, PoolTypeOK
  <1>2. ASSUME NEW k \in 0 .. bcount - 1, k \notin Stored
        PROVE  \E t \in Storing : slot[t] = k /\ f[k] = arg[t].index
    <2>1. \E t \in Storing : slot[t] = k
      BY <1>2 DEF Stored
    <2>2. f[k] = arg[CHOOSE t \in Storing : slot[t] = k].index
      BY <1>2
    <2>3. QED
      BY <2>1, <2>2
  <1>3. \A k \in Stored : k \in 0 .. bcount - 1 /\ f[k] = batched[k]
    BY DEF Stored
  <1>4. f \in [0 .. bcount - 1 -> Slot]
    <2>1. \A k \in 0 .. bcount - 1 : f[k] \in Slot
      BY <1>2, <1>3 DEF IInv, BatchInv
    <2>2. QED
      BY <2>1
  <1>5. ASSUME NEW j \in 0 .. bcount - 1, NEW k \in 0 .. bcount - 1, f[j] = f[k]
        PROVE  j = k
    <2> HIDE DEF f
    <2>1. CASE j \in Stored /\ k \in Stored
      BY <1>3, <1>5, <2>1 DEF IInv, BatchInv
    <2>2. CASE j \in Stored /\ k \notin Stored
      BY <1>2, <1>3, <1>5, <2>2 DEF IInv, BatchInv
    <2>3. CASE j \notin Stored /\ k \in Stored
      BY <1>2, <1>3, <1>5, <2>3 DEF IInv, BatchInv
    <2>4. CASE j \notin Stored /\ k \notin Stored
      <3>1. PICK t \in Storing : slot[t] = j /\ f[j] = arg[t].index
        BY <1>2, <2>4
      <3>2. PICK u \in Storing : slot[u] = k /\ f[k] = arg[u].index
        BY <1>2, <2>4
      <3>3. QED
        BY <1>5, <3>1, <3>2 DEF IInv, BatchInv
    <2>5. QED
      BY <2>1, <2>2, <2>3, <2>4
  <1> HIDE DEF f
  <1>6. QED
    BY <1>1, <1>4, <1>5, AtMostCap

(* recycle(), first step: the slot leaves its owner and joins the batch. *)
LEMMA ReleaseStep ==
  ASSUME IInv, Disciplined, TypeOK', NEW t \in Thread, Release(t)
  PROVE  /\ IInv'
         /\ \E s \in Owned(t) :
              /\ Owned(t)' = Owned(t) \ {s}
              /\ Retired' = Retired \cup {s}
         /\ \A u \in Thread : u # t => Owned(u)' = Owned(u)
         /\ OnStack' = OnStack
         /\ UNCHANGED <<cpc, generations, batched>>
  <1>1. PICK h \in held[t] : /\ generations[h.index] < MaxGen
                             /\ RecycleCount(t, h)
                             /\ held' = [held EXCEPT ![t] = @ \ {h}]
    <2>1. \A h \in held[t] : ~RecycleStale(t, h)
      BY DEF IInv, GenInv, RecycleStale
    <2>2. QED
      BY <2>1 DEF Release, Recycle
  <1> DEFINE s == h.index
  <1>2. cpc = "idle" /\ pc[t] = "idle"
    BY <1>1 DEF RecycleCount, LockShared
  <1>3. bcount % IdxMod = bcount /\ bcount \in Nat
    <2>1. bcount \in Nat /\ bcount < IdxMod
      BY <1>2, BatchBound, CapAssumption DEF IInv, TypeOK, PoolTypeOK
    <2>2. QED
      BY <2>1, SmallResidue
  <1>0. /\ TypeOK /\ StackInv /\ UniqueOwner /\ NoSlotLost /\ GenInv /\ BatchInv
        /\ slot' = [slot EXCEPT ![t] = bcount]
        /\ arg' = [arg EXCEPT ![t] = h]
        /\ bcount' = bcount + 1
        /\ pc' = [pc EXCEPT ![t] = "recycle"]
        /\ UNCHANGED <<arr, top, generations, batched, cpc, aborted>>
    BY <1>1, <1>3 DEF IInv, RecycleCount
  <1>4. s \in Slot /\ s \in HeldBy(t)
    BY <1>0 DEF GenInv, HeldBy
  <1>5. OnStack' = OnStack /\ Depth' = Depth
    BY <1>0 DEF OnStack, Depth
  <1>6. InFlight(t) = {} /\ InFlight(t)' = {}
    BY <1>0, <1>2 DEF InFlight, TypeOK, PoolTypeOK
  <1>7. HeldBy(t)' = HeldBy(t) \ {s}
    BY <1>0, <1>1 DEF HeldBy, TypeOK, UniqueOwner
  <1>8. \A u \in Thread : u # t => /\ InFlight(u)' = InFlight(u)
                                   /\ HeldBy(u)' = HeldBy(u)
    BY <1>0, <1>1 DEF InFlight, HeldBy, TypeOK, PoolTypeOK
  <1>9. Owned(t)' = Owned(t) \ {s} /\ \A u \in Thread : u # t => Owned(u)' = Owned(u)
    BY <1>6, <1>7, <1>8 DEF Owned
  <1>10. s \in Owned(t)
    BY <1>4 DEF Owned
  <1>11. Storing' = Storing \cup {t} /\ t \notin Storing
    BY <1>0, <1>2 DEF Storing, TypeOK, PoolTypeOK
  <1>12. /\ slot'[t] = bcount /\ arg'[t] = h
         /\ \A u \in Storing : u # t /\ slot'[u] = slot[u] /\ arg'[u] = arg[u]
    BY <1>0, <1>11 DEF Storing, TypeOK, PoolTypeOK
  <1>13. \A u \in Storing : slot[u] < bcount
    BY <1>0, <1>2 DEF BatchInv
  <1>14. Stored' = Stored
    <2>1. {slot'[u] : u \in Storing'} = {slot[u] : u \in Storing} \cup {bcount}
      BY <1>11, <1>12
    <2>2. Stored' = (0 .. bcount) \ ({slot[u] : u \in Storing} \cup {bcount})
      <3>1. bcount' - 1 = bcount
        BY <1>0, <1>3
      <3>2. QED
        BY <2>1, <3>1 DEF Stored
    <2>3. (0 .. bcount) \ {bcount} = 0 .. bcount - 1
      BY <1>3
    <2>4. \A A : (0 .. bcount) \ (A \cup {bcount}) = (0 .. bcount - 1) \ A
      BY <2>3
    <2>5. QED
      BY <2>2, <2>4 DEF Stored
  <1>15. Retired' = Retired \cup {s}
    <2>1. {arg'[u].index : u \in Storing'} = {arg[u].index : u \in Storing} \cup {s}
      BY <1>11, <1>12
    <2>2. QED
      BY <1>0, <1>2, <1>14, <2>1 DEF Retired
  <1>16. s \notin Retired /\ s \notin OnStack
    BY <1>0, <1>10 DEF UniqueOwner
  <1>17. LockInv' /\ SweepInv'
    BY <1>0, <1>2 DEF LockInv, SweepInv
  <1>18. BatchInv'
    <2>1. \A u \in Storing : arg[u].index # s
      BY <1>2, <1>16 DEF Retired
    <2>2. \A k \in Stored : batched[k] # s
      BY <1>2, <1>16 DEF Retired
    <2>3. \A u \in Storing' : /\ slot'[u] < bcount'
                              /\ arg'[u].index \in Slot
                              /\ \A k \in Stored' : batched'[k] # arg'[u].index
      <3>1. \A u \in Storing : slot[u] \in Nat
        BY <1>0 DEF TypeOK, PoolTypeOK, Idx, Storing
      <3>2. QED
        BY <1>0, <1>2, <1>3, <1>4, <1>11, <1>12, <1>13, <1>14, <2>2, <3>1 DEF BatchInv
    <2>4. \A u, v \in Storing' : u # v => /\ slot'[u] # slot'[v]
                                          /\ arg'[u].index # arg'[v].index
      BY <1>0, <1>2, <1>3, <1>11, <1>12, <1>13, <2>1 DEF BatchInv
    <2>5. QED
      BY <1>0, <1>2, <1>14, <2>3, <2>4 DEF BatchInv
  <1>19. StackInv'
    BY <1>0, <1>5 DEF StackInv, TypeOK, PoolTypeOK
  <1>20. GenInv'
    <2>1. \A u \in Thread : held'[u] \subseteq held[u]
      BY <1>1, <1>0 DEF TypeOK
    <2>2. \A u \in Thread : \A g \in held'[u] : g.index \in Slot /\ Valid(g)'
      BY <1>0, <2>1 DEF GenInv, Valid
    <2>3. \A r \in Retired' : generations'[r] < MaxGen
      BY <1>0, <1>1, <1>15 DEF GenInv
    <2>4. QED
      BY <1>0, <1>2, <2>2, <2>3 DEF GenInv
  <1>21. UniqueOwner'
    <2>1. \A u \in Thread : held'[u] \subseteq held[u]
      BY <1>1, <1>0 DEF TypeOK
    <2>2. \A u \in Thread : \A f, g \in held'[u] : f.index = g.index => f = g
      BY <1>0, <2>1 DEF UniqueOwner
    <2>3. \A u \in Thread : InFlight(u)' \cap HeldBy(u)' = {}
      BY <1>0, <1>6, <1>8 DEF UniqueOwner
    <2>4. \A u \in Thread : Owned(u)' \subseteq Owned(u)
      BY <1>9
    <2>5. \A u \in Thread : s \notin Owned(u)'
      BY <1>0, <1>9, <1>10 DEF UniqueOwner
    <2>6. \A u, v \in Thread : u # v => Owned(u)' \cap Owned(v)' = {}
      BY <1>0, <2>4 DEF UniqueOwner
    <2>7. \A u \in Thread : Owned(u)' \cap (OnStack' \cup Retired') = {}
      BY <1>0, <1>5, <1>15, <2>4, <2>5 DEF UniqueOwner
    <2>8. OnStack' \cap Retired' = {}
      BY <1>0, <1>5, <1>15, <1>16 DEF UniqueOwner
    <2>9. QED
      BY <1>0, <1>5, <2>2, <2>3, <2>6, <2>7, <2>8 DEF UniqueOwner
  <1>22. NoSlotLost'
    <2>1. ASSUME NEW x \in Outstanding
          PROVE  x \in Outstanding'
      <3>1. CASE x \in Retired
        BY <1>15, <3>1 DEF Outstanding
      <3>2. CASE \E u \in Thread : x \in Owned(u)
        <4>1. PICK u \in Thread : x \in Owned(u)
          BY <3>2
        <4>2. x \in Owned(u)' \/ x = s
          BY <1>9, <4>1
        <4>3. QED
          BY <1>15, <4>2 DEF Outstanding
      <3>3. QED
        BY <3>1, <3>2 DEF Outstanding
    <2>2. QED
      BY <1>0, <1>5, <2>1 DEF NoSlotLost, Slot
  <1>23. QED
    BY <1>0, <1>5, <1>9, <1>10, <1>15, <1>17, <1>18, <1>19, <1>20, <1>21, <1>22 DEF IInv

(* recycle(), second step: the index is written to the cell reserved for it. *)
LEMMA ReleaseDoneStep ==
  ASSUME IInv, Disciplined, TypeOK', NEW t \in Thread, ReleaseDone(t)
  PROVE  /\ IInv'
         /\ OnStack' = OnStack
         /\ \A u \in Thread : Owned(u)' = Owned(u)
         /\ Retired' = Retired
         /\ cpc = "idle"
         /\ UNCHANGED <<cpc, generations>>
  <1> DEFINE s == arg[t].index
             c == slot[t]
  <1>1. cpc = "idle"
    BY DEF ReleaseDone, RecycleStore, IInv, LockInv, TypeOK, PoolTypeOK
  <1>2. /\ t \in Storing /\ c \in Nat /\ c < bcount /\ bcount \in Nat
        /\ s \in Slot
    BY <1>1 DEF ReleaseDone, RecycleStore, IInv, BatchInv, Storing,
                TypeOK, PoolTypeOK, Idx
  <1>3. c # IdxMod - 1 /\ c \in Idx
    <2>1. bcount <= Cap
      BY <1>1, BatchBound
    <2>2. QED
      BY <1>2, <2>1, CapAssumption DEF Idx
  <1>0. /\ TypeOK /\ StackInv /\ UniqueOwner /\ NoSlotLost /\ GenInv /\ BatchInv
        /\ pc[t] = "recycle"
        /\ batched' = [batched EXCEPT ![c] = s]
        /\ slot' = [slot EXCEPT ![t] = 0]
        /\ arg' = [arg EXCEPT ![t] = NoHandle]
        /\ pc' = [pc EXCEPT ![t] = "idle"]
        /\ UNCHANGED <<arr, top, generations, bcount, cpc, held>>
    BY <1>3 DEF IInv, ReleaseDone, RecycleStore
  <1>4. OnStack' = OnStack /\ Depth' = Depth
    BY <1>0 DEF OnStack, Depth
  <1>5. \A u \in Thread : InFlight(u)' = InFlight(u) /\ HeldBy(u)' = HeldBy(u)
    BY <1>0 DEF InFlight, HeldBy, TypeOK, PoolTypeOK
  <1>6. \A u \in Thread : Owned(u)' = Owned(u)
    BY <1>5 DEF Owned
  <1>7. Storing' = Storing \ {t}
    BY <1>0 DEF Storing, TypeOK, PoolTypeOK
  <1>8. \A u \in Storing' : slot'[u] = slot[u] /\ arg'[u] = arg[u] /\ slot[u] # c
    BY <1>0, <1>1, <1>2, <1>7 DEF BatchInv, Storing, TypeOK, PoolTypeOK
  <1>9. Stored' = Stored \cup {c}
    <2>1. {slot'[u] : u \in Storing'} = {slot[u] : u \in Storing} \ {c}
      BY <1>2, <1>7, <1>8
    <2>2. c \in 0 .. bcount - 1
      BY <1>2
    <2>3. QED
      BY <1>0, <2>1, <2>2 DEF Stored
  <1>10. c \notin Stored
    BY <1>2 DEF Stored
  <1>11. batched'[c] = s /\ \A k \in Stored : batched'[k] = batched[k]
    <2>1. \A k \in Stored : k \in Nat /\ k < bcount
      BY <1>2 DEF Stored
    <2>2. bcount <= Cap
      BY <1>1, BatchBound
    <2>3. Stored \subseteq Idx
      BY <1>2, <2>1, <2>2, CapAssumption DEF Idx
    <2>4. QED
      BY <1>0, <1>3, <1>10, <2>3 DEF TypeOK, PoolTypeOK
  <1>12. Retired' = Retired
    <2>1. {batched'[k] : k \in Stored'} = {batched[k] : k \in Stored} \cup {s}
      BY <1>9, <1>11
    <2>2. {arg'[u].index : u \in Storing'} \cup {s} = {arg[u].index : u \in Storing}
      BY <1>2, <1>7, <1>8
    <2>3. Retired' = {batched'[k] : k \in Stored'} \cup {arg'[u].index : u \in Storing'}
      BY <1>0, <1>1 DEF Retired
    <2>4. Retired = {batched[k] : k \in Stored} \cup {arg[u].index : u \in Storing}
      BY <1>1 DEF Retired
    <2>5. QED
      BY <2>1, <2>2, <2>3, <2>4
  <1>13. LockInv' /\ SweepInv'
    BY <1>0, <1>1 DEF LockInv, SweepInv
  <1>14. BatchInv'
    <2>1. \A k \in Stored : batched[k] # s
      BY <1>0, <1>1, <1>2 DEF BatchInv
    <2>2. \A k \in Stored' : batched'[k] \in Slot
      BY <1>0, <1>1, <1>2, <1>9, <1>11 DEF BatchInv
    <2>3. \A j, k \in Stored' : batched'[j] = batched'[k] => j = k
      BY <1>0, <1>1, <1>9, <1>11, <2>1 DEF BatchInv
    <2>4. \A u \in Storing' : /\ slot'[u] < bcount'
                              /\ arg'[u].index \in Slot
                              /\ \A k \in Stored' : batched'[k] # arg'[u].index
      BY <1>0, <1>1, <1>2, <1>7, <1>8, <1>9, <1>11 DEF BatchInv
    <2>5. \A u, v \in Storing' : u # v => /\ slot'[u] # slot'[v]
                                          /\ arg'[u].index # arg'[v].index
      BY <1>0, <1>1, <1>7, <1>8 DEF BatchInv
    <2>6. QED
      BY <2>2, <2>3, <2>4, <2>5 DEF BatchInv
  <1>15. StackInv'
    BY <1>0, <1>4 DEF StackInv, TypeOK, PoolTypeOK
  <1>16. GenInv'
    BY <1>0, <1>1, <1>12 DEF GenInv, Valid
  <1>17. UniqueOwner'
    BY <1>0, <1>4, <1>5, <1>6, <1>12 DEF UniqueOwner
  <1>18. NoSlotLost'
    <2>1. Outstanding' = Outstanding
      BY <1>6, <1>12 DEF Outstanding
    <2>2. QED
      BY <1>0, <1>4, <2>1 DEF NoSlotLost, Slot
  <1>19. QED
    BY <1>0, <1>1, <1>4, <1>6, <1>12, <1>13, <1>14, <1>15, <1>16, <1>17, <1>18 DEF IInv

-----------------------------------------------------------------------------
(* While nobody else has the lock the batch is complete. *)
LEMMA BatchComplete ==
  ASSUME IInv, cpc = "idle", \A t \in Thread : pc[t] = "idle"
  PROVE  /\ bcount \in Nat /\ bcount <= Cap /\ BatchedCount = bcount
         /\ \A k \in 0 .. bcount - 1 : batched[k] \in Slot
         /\ \A j, k \in 0 .. bcount - 1 : batched[j] = batched[k] => j = k
         /\ Retired = {batched[k] : k \in 0 .. bcount - 1}
  <1>1. Storing = {}
    BY DEF Storing
  <1>2. Stored = 0 .. bcount - 1
    BY <1>1 DEF Stored
  <1>3. bcount \in Nat /\ bcount <= Cap
    BY BatchBound DEF IInv, TypeOK, PoolTypeOK
  <1>4. BatchedCount = bcount
    BY <1>3, SmallResidue, CapAssumption DEF BatchedCount
  <1>5. QED
    BY <1>1, <1>2, <1>3, <1>4 DEF IInv, BatchInv, Retired

(* There is room on the stack for the whole batch. *)
LEMMA PushRoom ==
  ASSUME IInv, cpc = "idle", \A t \in Thread : pc[t] = "idle"
  PROVE  Depth \in Nat /\ Depth + bcount <= Cap
  <1>1. Depth \in Nat
    BY CapAssumption DEF Depth, IInv, TypeOK, PoolTypeOK, Idx
  <1>2. bcount \in Nat
    BY BatchComplete
  <1> DEFINE n == Depth + bcount
             f == [k \in 0 .. n - 1 |-> IF k < Depth THEN arr[k] ELSE batched[k - Depth]]
  <1>3. \A k \in 0 .. n - 1 : f[k] = IF k < Depth THEN arr[k] ELSE batched[k - Depth]
    OBVIOUS
  <1>4. \A k \in 0 .. n - 1 : k < Depth => k \in 0 .. Depth - 1 /\ f[k] \in OnStack
    BY <1>1, <1>2, <1>3 DEF OnStack
  <1>5. \A k \in 0 .. n - 1 : ~(k < Depth) => /\ k - Depth \in 0 .. bcount - 1
                                             /\ f[k] \in Retired
    <2>1. \A k \in 0 .. n - 1 : ~(k < Depth) => k - Depth \in 0 .. bcount - 1
      BY <1>1, <1>2
    <2>2. QED
      BY <1>3, <2>1, BatchComplete
  <1>6. f \in [0 .. n - 1 -> Slot]
    <2>1. \A k \in 0 .. n - 1 : f[k] \in Slot
      <3>1. OnStack \subseteq Slot
        BY DEF IInv, StackInv, OnStack
      <3>2. Retired \subseteq Slot
        BY BatchComplete
      <3>3. QED
        BY <1>4, <1>5, <3>1, <3>2
    <2>2. QED
      BY <2>1
  <1>7. ASSUME NEW j \in 0 .. n - 1, NEW k \in 0 .. n - 1, f[j] = f[k]
        PROVE  j = k
    <2>0. OnStack \cap Retired = {}
      BY DEF IInv, UniqueOwner
    <2>1. CASE j < Depth /\ k < Depth
      <3>1. arr[j] = arr[k]
        BY <1>3, <1>7, <2>1
      <3>2. QED
        BY <1>4, <2>1, <3>1 DEF IInv, UniqueOwner
    <2>2. CASE ~(j < Depth) /\ ~(k < Depth)
      <3>1. batched[j - Depth] = batched[k - Depth]
        BY <1>3, <1>7, <2>2
      <3>2. j - Depth = k - Depth
        BY <1>5, <2>2, <3>1, BatchComplete
      <3>3. QED
        BY <1>1, <1>2, <3>2
    <2>3. QED
      BY <1>4, <1>5, <1>7, <2>0, <2>1, <2>2
  <1> HIDE DEF f
  <1>8. n <= Cap
    BY <1>1, <1>2, <1>6, <1>7, AtMostCap
  <1>9. QED
    BY <1>1, <1>8

(* cleanup(), the push: what was retired is on the stack, above what was. *)
LEMMA PushStep ==
  ASSUME IInv, Disciplined, TypeOK', CleanupPush, UNCHANGED held
  PROVE  /\ IInv'
         /\ OnStack' = OnStack \cup Retired
         /\ Retired' = {}
         /\ \A u \in Thread : Owned(u)' = Owned(u)
         /\ Retired = {batched[k] : k \in 0 .. bcount - 1}
         /\ BatchedCount = bcount /\ bcount \in Nat
         /\ cpc = "idle" /\ cpc' = "bump"
         /\ UNCHANGED <<generations, batched, bcount>>
  <1>0. /\ TypeOK /\ StackInv /\ UniqueOwner /\ NoSlotLost /\ GenInv
        /\ cpc = "idle" /\ cpc' = "bump"
        /\ \A t \in Thread : pc[t] = "idle"
        /\ UNCHANGED <<generations, batched, bcount, pc, slot, arg, held>>
    BY DEF IInv, CleanupPush
  <1>1. /\ bcount \in Nat /\ bcount <= Cap /\ BatchedCount = bcount
        /\ \A k \in 0 .. bcount - 1 : batched[k] \in Slot
        /\ \A j, k \in 0 .. bcount - 1 : batched[j] = batched[k] => j = k
        /\ Retired = {batched[k] : k \in 0 .. bcount - 1}
    BY <1>0, BatchComplete
  <1>2. Depth \in Nat /\ Depth + bcount <= Cap
    BY <1>0, PushRoom
  <1>3. Wrap(top + 1) = Depth
    <2>1. top \in 0 .. IdxMod - 1
      BY <1>0 DEF TypeOK, PoolTypeOK, Idx
    <2>2. QED
      BY <2>1, CapAssumption DEF Wrap, Depth
  <1>4. /\ \A k \in Idx : k < Depth => AboveTop(k) >= bcount
        /\ \A k \in Idx : k >= Depth => AboveTop(k) = k - Depth
    BY <1>1, <1>2, <1>3, CapAssumption DEF AboveTop, Wrap, Idx
  <1>5. /\ \A k \in 0 .. Depth - 1 : arr'[k] = arr[k]
        /\ \A k \in 0 .. bcount - 1 : arr'[Depth + k] = batched[k]
    <2>1. arr' = [k \in Idx |-> IF AboveTop(k) < bcount THEN batched[AboveTop(k)] ELSE arr[k]]
      BY <1>1 DEF CleanupPush, PushBatch
    <2>2. ASSUME NEW k \in 0 .. Depth - 1
          PROVE  arr'[k] = arr[k]
      <3>1. k \in Idx /\ k < Depth
        BY <1>1, <1>2, CapAssumption DEF Idx
      <3>2. AboveTop(k) \in Int /\ AboveTop(k) >= bcount
        BY <1>2, <1>3, <1>4, <3>1, CapAssumption DEF AboveTop, Wrap, Idx
      <3>3. QED
        BY <1>1, <2>1, <3>1, <3>2
    <2>3. ASSUME NEW k \in 0 .. bcount - 1
          PROVE  arr'[Depth + k] = batched[k]
      <3>1. Depth + k \in Idx /\ Depth + k >= Depth /\ (Depth + k) - Depth = k
        BY <1>1, <1>2, CapAssumption DEF Idx
      <3>2. AboveTop(Depth + k) = k
        BY <1>4, <3>1
      <3>3. QED
        BY <1>1, <2>1, <3>1, <3>2
    <2>4. QED
      BY <2>2, <2>3
  <1>6. Depth' = Depth + bcount /\ (top' = IdxMod - 1 \/ top' < Cap)
    <2>1. top' = Wrap(top + bcount)
      BY <1>1 DEF CleanupPush, PushBatch
    <2>2. top \in 0 .. IdxMod - 1 /\ (top = IdxMod - 1 \/ top < Cap)
      BY <1>0 DEF StackInv, TypeOK, PoolTypeOK, Idx
    <2>3. QED
      BY <1>1, <1>2, <2>1, <2>2, CapAssumption DEF Depth, Wrap
  <1>7. \A k \in 0 .. Depth' - 1 :
          \/ k \in 0 .. Depth - 1 /\ arr'[k] = arr[k]
          \/ k - Depth \in 0 .. bcount - 1 /\ arr'[k] = batched[k - Depth]
    <2>1. ASSUME NEW k \in 0 .. Depth' - 1, k \notin 0 .. Depth - 1
          PROVE  k - Depth \in 0 .. bcount - 1 /\ arr'[k] = batched[k - Depth]
      <3>1. k - Depth \in 0 .. bcount - 1 /\ Depth + (k - Depth) = k
        BY <1>1, <1>2, <1>6, <2>1
      <3>2. QED
        BY <1>5, <3>1
    <2>2. QED
      BY <1>5, <2>1
  <1>8. OnStack' = OnStack \cup Retired
    <2>1. OnStack' \subseteq OnStack \cup Retired
      BY <1>1, <1>7 DEF OnStack
    <2>2. OnStack \subseteq OnStack'
      <3>1. \A k \in 0 .. Depth - 1 : k \in 0 .. Depth' - 1
        BY <1>1, <1>2, <1>6
      <3>2. QED
        BY <1>5, <3>1 DEF OnStack
    <2>3. Retired \subseteq OnStack'
      <3>1. \A k \in 0 .. bcount - 1 : Depth + k \in 0 .. Depth' - 1
        BY <1>1, <1>2, <1>6
      <3>2. QED
        BY <1>1, <1>5, <3>1 DEF OnStack
    <2>4. QED
      BY <2>1, <2>2, <2>3
  <1>9. Retired' = {}
    BY <1>0 DEF Retired
  <1>10. \A u \in Thread : /\ InFlight(u)' = {} /\ InFlight(u) = {}
                           /\ HeldBy(u)' = HeldBy(u)
    BY <1>0 DEF InFlight, HeldBy
  <1>11. \A u \in Thread : Owned(u)' = Owned(u)
    BY <1>10 DEF Owned
  <1>12. LockInv' /\ BatchInv'
    BY <1>0 DEF LockInv, BatchInv
  <1>13. StackInv'
    <2>1. \A k \in 0 .. Depth' - 1 : arr'[k] \in Slot
      BY <1>0, <1>1, <1>7 DEF StackInv
    <2>2. QED
      BY <1>0, <1>6, <2>1 DEF StackInv
  <1>14. SweepInv'
    <2>1. \A t \in Thread : \A h \in held[t] :
            \A k \in 0 .. bcount - 1 : batched[k] # h.index
      <3>1. \A t \in Thread : \A h \in held[t] : h.index \in Owned(t)
        BY DEF Owned, HeldBy
      <3>2. \A t \in Thread : Owned(t) \cap Retired = {}
        BY <1>0 DEF UniqueOwner
      <3>3. QED
        BY <1>1, <3>1, <3>2
    <2>2. QED
      BY <1>0, <1>1, <2>1 DEF SweepInv
  <1>15. GenInv'
    <2>1. \A k \in 0 .. bcount - 1 : generations[batched[k]] < MaxGen
      BY <1>0, <1>1 DEF GenInv
    <2>2. QED
      BY <1>0, <1>9, <2>1 DEF GenInv, Valid
  <1>16. UniqueOwner'
    <2>1. \A j, k \in 0 .. Depth' - 1 : arr'[j] = arr'[k] => j = k
      <3>1. \A k \in 0 .. Depth - 1 : arr[k] \in OnStack
        BY DEF OnStack
      <3>2. \A k \in 0 .. bcount - 1 : batched[k] \in Retired
        BY <1>1
      <3>3. OnStack \cap Retired = {}
        BY <1>0 DEF UniqueOwner
      <3>4. ASSUME NEW j \in 0 .. Depth' - 1, NEW k \in 0 .. Depth' - 1, arr'[j] = arr'[k]
            PROVE  j = k
        <4>1. CASE j \in 0 .. Depth - 1 /\ k \in 0 .. Depth - 1
          <5>1. arr[j] = arr[k]
            BY <1>5, <3>4, <4>1
          <5>2. QED
            BY <1>0, <4>1, <5>1 DEF UniqueOwner
        <4>2. CASE j \notin 0 .. Depth - 1 /\ k \notin 0 .. Depth - 1
          <5>1. j - Depth = k - Depth
            BY <1>1, <1>7, <3>4, <4>2
          <5>2. j \in Int /\ k \in Int
            OBVIOUS
          <5>3. QED
            BY <1>2, <5>1, <5>2
        <4>3. \A i \in 0 .. Depth - 1 : arr'[i] \in OnStack
          BY <1>5, <3>1
        <4>4. \A i \in 0 .. Depth' - 1 : i \notin 0 .. Depth - 1 => arr'[i] \in Retired
          <5>1. ASSUME NEW i \in 0 .. Depth' - 1, i \notin 0 .. Depth - 1
                PROVE  arr'[i] \in Retired
            <6>1. i - Depth \in 0 .. bcount - 1 /\ arr'[i] = batched[i - Depth]
              BY <1>7, <5>1
            <6>2. QED
              BY <3>2, <6>1
          <5>2. QED
            BY <5>1
        <4>5. QED
          BY <3>3, <3>4, <4>1, <4>2, <4>3, <4>4
      <3>5. QED
        BY <3>4
    <2>2. QED
      BY <1>0, <1>8, <1>9, <1>10, <1>11, <2>1 DEF UniqueOwner
  <1>17. NoSlotLost'
    <2>1. ASSUME NEW x \in OnStack \cup Outstanding
          PROVE  x \in OnStack' \cup Outstanding'
      <3>1. CASE x \in OnStack \cup Retired
        BY <1>8, <3>1
      <3>2. CASE \E u \in Thread : x \in Owned(u)
        BY <1>11, <3>2 DEF Outstanding
      <3>3. QED
        BY <3>1, <3>2 DEF Outstanding
    <2>2. QED
      BY <1>0, <2>1 DEF NoSlotLost, Slot
  <1>18. QED
    BY <1>0, <1>1, <1>8, <1>9, <1>11, <1>12, <1>13, <1>14, <1>15, <1>16, <1>17 DEF IInv

(* How often an index is in a batch that holds each index once. *)
LEMMA RecycledOnce ==
  ASSUME NEW n \in Nat, NEW i,
         \A j, k \in 0 .. n - 1 : batched[j] = batched[k] => j = k
  PROVE  Recycled(i, n) = IF \E k \in 0 .. n - 1 : batched[k] = i THEN 1 ELSE 0
  <1> DEFINE cells == {k \in 0 .. n - 1 : batched[k] = i}
  <1>1. CASE \E k \in 0 .. n - 1 : batched[k] = i
    <2>1. PICK k \in 0 .. n - 1 : batched[k] = i
      BY <1>1
    <2>2. cells = {k}
      BY <2>1
    <2>3. Cardinality(cells) = 1
      BY <2>2, FS_Singleton
    <2>4. QED
      BY <1>1, <2>3 DEF Recycled
  <1>2. CASE ~ \E k \in 0 .. n - 1 : batched[k] = i
    <2>1. cells = {}
      BY <1>2
    <2>2. Cardinality(cells) = 0
      BY <2>1, FS_EmptySet
    <2>3. QED
      BY <1>2, <2>2 DEF Recycled
  <1>3. QED
    BY <1>1, <1>2

(* cleanup(), the bump: the slots that were recycled, and only those, begin
   their next generation.                                                  *)
LEMMA BumpStep ==
  ASSUME IInv, Disciplined, TypeOK', CleanupBump, UNCHANGED held
  PROVE  /\ IInv'
         /\ OnStack' = OnStack
         /\ Retired' = Retired
         /\ \A u \in Thread : Owned(u)' = Owned(u)
         /\ cpc = "bump" /\ cpc' = "reset"
         /\ BatchedCount = bcount /\ bcount \in Nat
         /\ \A s \in Slot : generations'[s] =
              IF \E k \in 0 .. bcount - 1 : batched[k] = s
              THEN generations[s] + 1 ELSE generations[s]
         /\ UNCHANGED <<batched, bcount>>
  <1>0. /\ TypeOK /\ StackInv /\ UniqueOwner /\ NoSlotLost /\ GenInv /\ SweepInv
        /\ cpc = "bump" /\ cpc' = "reset"
        /\ \A t \in Thread : pc[t] = "idle"
        /\ UNCHANGED <<arr, top, batched, bcount, pc, slot, arg, held>>
    BY DEF IInv, CleanupBump, LockInv
  <1>1. bcount \in Nat /\ bcount <= Cap /\ BatchedCount = bcount
    <2>1. bcount \in Nat /\ bcount <= Cap /\ bcount < IdxMod
      BY <1>0, CapAssumption DEF SweepInv, TypeOK, PoolTypeOK
    <2>2. QED
      BY <2>1, SmallResidue DEF BatchedCount
  <1>2. \A s \in Slot : generations'[s] =
          IF \E k \in 0 .. bcount - 1 : batched[k] = s
          THEN generations[s] + 1 ELSE generations[s]
    <2>1. ASSUME NEW s \in Slot
          PROVE  generations'[s] = IF \E k \in 0 .. bcount - 1 : batched[k] = s
                                   THEN generations[s] + 1 ELSE generations[s]
      <3>1. s \in Idx
        BY CapAssumption DEF Slot, Idx
      <3>2. generations'[s] = generations[s] + Recycled(s, bcount)
        BY <1>1, <3>1 DEF CleanupBump
      <3>3. Recycled(s, bcount) = IF \E k \in 0 .. bcount - 1 : batched[k] = s
                                  THEN 1 ELSE 0
        BY <1>0, <1>1, RecycledOnce DEF SweepInv
      <3>4. generations[s] \in Nat
        BY <1>0, <3>1 DEF TypeOK, PoolTypeOK
      <3>5. QED
        BY <3>2, <3>3, <3>4
    <2>2. QED
      BY <2>1
  <1>3. OnStack' = OnStack /\ Depth' = Depth
    BY <1>0 DEF OnStack, Depth
  <1>4. Retired = {} /\ Retired' = {}
    BY <1>0 DEF Retired
  <1>5. \A u \in Thread : InFlight(u)' = InFlight(u) /\ HeldBy(u)' = HeldBy(u)
    BY <1>0 DEF InFlight, HeldBy
  <1>6. \A u \in Thread : Owned(u)' = Owned(u)
    BY <1>5 DEF Owned
  <1>7. LockInv' /\ BatchInv' /\ SweepInv' /\ StackInv'
    BY <1>0, <1>3 DEF LockInv, BatchInv, SweepInv, StackInv
  <1>8. GenInv'
    <2>1. \A s \in Slot : generations'[s] <= MaxGen
      <3>1. ASSUME NEW s \in Slot
            PROVE  generations'[s] <= MaxGen
        <4>1. generations[s] \in Nat
          BY <1>0, CapAssumption DEF TypeOK, PoolTypeOK, Slot, Idx
        <4>2. CASE \E k \in 0 .. bcount - 1 : batched[k] = s
          BY <1>0, <1>2, <4>1, <4>2, ClientAssumption DEF GenInv
        <4>3. CASE ~ \E k \in 0 .. bcount - 1 : batched[k] = s
          BY <1>0, <1>2, <4>3 DEF GenInv
        <4>4. QED
          BY <4>2, <4>3
      <3>2. QED
        BY <3>1
    <2>2. \A t \in Thread : \A h \in held'[t] : h.index \in Slot /\ Valid(h)'
      BY <1>0, <1>2 DEF GenInv, SweepInv, Valid
    <2>3. QED
      BY <1>0, <1>4, <2>1, <2>2 DEF GenInv
  <1>9. UniqueOwner'
    BY <1>0, <1>3, <1>4, <1>5, <1>6 DEF UniqueOwner
  <1>10. NoSlotLost'
    <2>1. Outstanding' = Outstanding
      BY <1>4, <1>6 DEF Outstanding
    <2>2. QED
      BY <1>0, <1>3, <2>1 DEF NoSlotLost, Slot
  <1>11. QED
    BY <1>0, <1>1, <1>2, <1>3, <1>4, <1>6, <1>7, <1>8, <1>9, <1>10 DEF IInv

(* cleanup(), the reset: an empty batch, and the lock is free again. *)
LEMMA ResetStep ==
  ASSUME IInv, Disciplined, TypeOK', CleanupReset, UNCHANGED held
  PROVE  /\ IInv'
         /\ OnStack' = OnStack
         /\ Retired' = Retired
         /\ \A u \in Thread : Owned(u)' = Owned(u)
         /\ cpc = "reset" /\ cpc' = "idle"
         /\ UNCHANGED <<generations, batched>>
  <1>0. /\ TypeOK /\ StackInv /\ UniqueOwner /\ NoSlotLost /\ GenInv
        /\ cpc = "reset" /\ cpc' = "idle" /\ bcount' = 0
        /\ \A t \in Thread : pc[t] = "idle"
        /\ UNCHANGED <<arr, top, generations, batched, pc, slot, arg, held>>
    BY DEF IInv, CleanupReset, LockInv
  <1>1. OnStack' = OnStack /\ Depth' = Depth
    BY <1>0 DEF OnStack, Depth
  <1>2. Storing' = {} /\ Stored' = {}
    <2>1. Storing' = {}
      BY <1>0 DEF Storing
    <2>2. 0 .. bcount' - 1 = {}
      BY <1>0
    <2>3. QED
      BY <2>1, <2>2 DEF Stored
  <1>3. Retired = {} /\ Retired' = {}
    BY <1>0, <1>2 DEF Retired
  <1>4. \A u \in Thread : InFlight(u)' = InFlight(u) /\ HeldBy(u)' = HeldBy(u)
    BY <1>0 DEF InFlight, HeldBy
  <1>5. \A u \in Thread : Owned(u)' = Owned(u)
    BY <1>4 DEF Owned
  <1>6. LockInv' /\ BatchInv' /\ SweepInv' /\ StackInv'
    BY <1>0, <1>1, <1>2 DEF LockInv, BatchInv, SweepInv, StackInv
  <1>7. GenInv'
    BY <1>0, <1>3 DEF GenInv, Valid
  <1>8. UniqueOwner'
    BY <1>0, <1>1, <1>3, <1>4, <1>5 DEF UniqueOwner
  <1>9. NoSlotLost'
    <2>1. Outstanding' = Outstanding
      BY <1>3, <1>5 DEF Outstanding
    <2>2. QED
      BY <1>0, <1>1, <2>1 DEF NoSlotLost, Slot
  <1>10. QED
    BY <1>0, <1>1, <1>3, <1>5, <1>6, <1>7, <1>8, <1>9 DEF IInv

-----------------------------------------------------------------------------
(* Every step is one of seven, or leaves everything as it was. *)
LEMMA StepCases ==
  ASSUME [Next]_vars
  PROVE  \/ \E t \in Thread : Allocate(t) \/ AllocateDone(t) \/ Release(t) \/ ReleaseDone(t)
         \/ (CleanupPush \/ CleanupBump \/ CleanupReset) /\ UNCHANGED held
         \/ UNCHANGED vars
  BY DEF Next, Sweep, Cleanup

LEMMA InvStutter ==
  ASSUME IInv, UNCHANGED vars
  PROVE  /\ IInv'
         /\ OnStack' = OnStack /\ Retired' = Retired
         /\ \A u \in Thread : Owned(u)' = Owned(u)
         /\ UNCHANGED <<cpc, generations, batched, bcount>>
  <1>1. /\ UNCHANGED <<arr, top, generations, batched, bcount, cpc, pc, slot, arg, aborted>>
        /\ UNCHANGED held
    BY DEF vars
  <1>2. /\ OnStack' = OnStack /\ Depth' = Depth
        /\ Storing' = Storing /\ Stored' = Stored /\ Retired' = Retired
        /\ \A u \in Thread : InFlight(u)' = InFlight(u) /\ HeldBy(u)' = HeldBy(u)
    BY <1>1 DEF OnStack, Depth, Storing, Stored, Retired, InFlight, HeldBy
  <1>3. \A u \in Thread : Owned(u)' = Owned(u)
    BY <1>2 DEF Owned
  <1>4. TypeOK' /\ LockInv' /\ StackInv' /\ SweepInv'
    BY <1>1, <1>2 DEF IInv, TypeOK, PoolTypeOK, LockInv, StackInv, SweepInv
  <1>5. BatchInv' /\ GenInv'
    BY <1>1, <1>2 DEF IInv, BatchInv, GenInv, Valid
  <1>6. UniqueOwner'
    BY <1>1, <1>2, <1>3 DEF IInv, UniqueOwner
  <1>7. NoSlotLost'
    <2>1. Outstanding' = Outstanding
      BY <1>2, <1>3 DEF Outstanding
    <2>2. QED
      BY <1>2, <2>1 DEF IInv, NoSlotLost, Slot
  <1>8. QED
    BY <1>1, <1>2, <1>3, <1>4, <1>5, <1>6, <1>7 DEF IInv

LEMMA InvNext == Disciplined => (IInv /\ [Next]_vars => IInv')
  <1> SUFFICES ASSUME Disciplined, IInv, [Next]_vars
               PROVE  IInv'
    OBVIOUS
  <1>1. TypeOK'
    BY TypeNext DEF IInv
  <1>2. QED
    BY <1>1, StepCases, AllocateStep, AllocateDoneStep, ReleaseStep, ReleaseDoneStep,
       PushStep, BumpStep, ResetStep, InvStutter

LEMMA InvCorrect == Disciplined => (Spec => []IInv)
  <1>1. Disciplined => (IInv /\ [Next]_vars => IInv')
    BY InvNext
  <1>2. CASE Disciplined
    <2>1. IInv /\ [Next]_vars => IInv'
      BY <1>1, <1>2
    <2>2. QED
      BY <2>1, InvInit, PTL DEF Spec
  <1>3. QED
    BY <1>2

(* No two handles, calls, stack cells or batch cells name the same slot. *)
THEOREM UniqueOwnership == Disciplined => (Spec => []UniqueOwner)
  <1>1. IInv => UniqueOwner
    BY DEF IInv
  <1>2. QED
    BY <1>1, InvCorrect, PTL

(* No slot is ever lost to the pool. *)
THEOREM NothingLost == Disciplined => (Spec => []NoSlotLost)
  <1>1. IInv => NoSlotLost
    BY DEF IInv
  <1>2. QED
    BY <1>1, InvCorrect, PTL

(* get() never refuses a handle that its owner has not recycled. *)
THEOREM HandlesStayValid == Disciplined => (Spec => []OwnedHandlesValid)
  <1>1. IInv => OwnedHandlesValid
    BY DEF IInv, GenInv, OwnedHandlesValid
  <1>2. QED
    BY <1>1, InvCorrect, PTL

-----------------------------------------------------------------------------
(* Refinement: each step of the pool is a step of HandlePool or changes nothing
   a client of HandlePool can see.                                         *)
LEMMA RefinesInit == Init => Abstract!AInit
  <1> SUFFICES ASSUME Init
               PROVE  Abstract!AInit
    OBVIOUS
  <1>1. IInv
    BY InvInit
  <1>2. Retired = {} /\ \A t \in Thread : Owned(t) = {}
    BY DEF Init, PoolInit, Retired, Storing, Stored, Owned, InFlight, HeldBy
  <1>3. OnStack = Slot
    <2>1. Outstanding = {}
      BY <1>2 DEF Outstanding
    <2>2. QED
      BY <1>1, <2>1 DEF IInv, NoSlotLost, StackInv, OnStack
  <1>4. SweptAge = [s \in Slot |-> 0]
    <2>1. \A s \in Slot : s \in Idx
      BY CapAssumption DEF Slot, Idx
    <2>2. QED
      BY <2>1 DEF Init, PoolInit, SweptAge
  <1>5. QED
    BY <1>2, <1>3, <1>4 DEF Abstract!AInit

(* The ages are the same unless a slot's generation or the batch changes. *)
LEMMA AgeKept ==
  ASSUME IInv, UNCHANGED generations,
         \/ UNCHANGED <<cpc, batched, bcount>>
         \/ cpc # "bump" /\ cpc' # "bump"
  PROVE  SweptAge' = SweptAge
  BY DEF SweptAge, BatchedCount

LEMMA RefinesNext == Disciplined => (IInv /\ [Next]_vars => [Abstract!ANext]_(Abstract!avars))
  <1> SUFFICES ASSUME Disciplined, IInv, [Next]_vars
               PROVE  [Abstract!ANext]_(Abstract!avars)
    OBVIOUS
  <1> DEFINE owns == [t \in Thread |-> Owned(t)]
  <1>0. TypeOK'
    BY TypeNext DEF IInv
  <1>1. ASSUME OnStack' = OnStack, Retired' = Retired, SweptAge' = SweptAge,
               \A u \in Thread : Owned(u)' = Owned(u)
        PROVE  UNCHANGED Abstract!avars
    BY <1>1 DEF Abstract!avars
  <1>2. ASSUME NEW t \in Thread, Allocate(t)
        PROVE  Abstract!AAllocate(t)
    <2>1. PICK x \in OnStack : OnStack' = OnStack \ {x} /\ Owned(t)' = Owned(t) \cup {x}
      BY <1>0, <1>2, AllocateStep
    <2>2. /\ \A u \in Thread : u # t => Owned(u)' = Owned(u)
          /\ Retired' = Retired
          /\ UNCHANGED <<cpc, generations, batched, bcount>>
      BY <1>0, <1>2, AllocateStep
    <2>3. SweptAge' = SweptAge
      BY <2>2, AgeKept
    <2>4. owns' = [owns EXCEPT ![t] = @ \cup {x}]
      BY <2>1, <2>2
    <2>5. QED
      BY <2>1, <2>2, <2>3, <2>4 DEF Abstract!AAllocate
  <1>3. ASSUME NEW t \in Thread, AllocateDone(t)
        PROVE  UNCHANGED Abstract!avars
    BY <1>0, <1>1, <1>3, AllocateDoneStep, AgeKept
  <1>4. ASSUME NEW t \in Thread, Release(t)
        PROVE  Abstract!ARecycle(t)
    <2>1. PICK s \in Owned(t) : Owned(t)' = Owned(t) \ {s} /\ Retired' = Retired \cup {s}
      BY <1>0, <1>4, ReleaseStep
    <2>2. /\ \A u \in Thread : u # t => Owned(u)' = Owned(u)
          /\ OnStack' = OnStack
          /\ UNCHANGED <<cpc, generations, batched>>
      BY <1>0, <1>4, ReleaseStep
    <2>3. SweptAge' = SweptAge
      <3>1. cpc = "idle"
        BY <1>4 DEF Release, Recycle, RecycleCount, RecycleStale, LockShared
      <3>2. QED
        BY <2>2, <3>1, AgeKept
    <2>4. owns' = [owns EXCEPT ![t] = @ \ {s}]
      BY <2>1, <2>2
    <2>5. QED
      BY <2>1, <2>2, <2>3, <2>4 DEF Abstract!ARecycle
  <1>5. ASSUME NEW t \in Thread, ReleaseDone(t)
        PROVE  UNCHANGED Abstract!avars
    <2>1. SweptAge' = SweptAge
      BY <1>0, <1>5, ReleaseDoneStep, AgeKept
    <2>2. QED
      BY <1>0, <1>1, <1>5, <2>1, ReleaseDoneStep
  <1>6. ASSUME CleanupPush, UNCHANGED held
        PROVE  Abstract!ASweep
    <2>1. /\ OnStack' = OnStack \cup Retired /\ Retired' = {}
          /\ \A u \in Thread : Owned(u)' = Owned(u)
          /\ Retired = {batched[k] : k \in 0 .. bcount - 1}
          /\ BatchedCount = bcount
          /\ cpc = "idle" /\ cpc' = "bump"
          /\ UNCHANGED <<generations, batched, bcount>>
      BY <1>0, <1>6, PushStep
    <2>2. SweptAge = [s \in Slot |-> generations[s]]
      BY <2>1 DEF SweptAge
    <2>3. SweptAge' = [s \in Slot |-> IF s \in Retired THEN generations[s] + 1
                                      ELSE generations[s]]
      BY <2>1 DEF SweptAge, BatchedCount
    <2>4. SweptAge' = [s \in Slot |-> IF s \in Retired THEN SweptAge[s] + 1
                                      ELSE SweptAge[s]]
      BY <2>2, <2>3
    <2>5. owns' = owns
      BY <2>1
    <2>6. QED
      BY <2>1, <2>4, <2>5 DEF Abstract!ASweep
  <1>7. ASSUME CleanupBump, UNCHANGED held
        PROVE  UNCHANGED Abstract!avars
    <2>1. SweptAge' = SweptAge
      BY <1>0, <1>7, BumpStep DEF SweptAge
    <2>2. QED
      BY <1>0, <1>1, <1>7, <2>1, BumpStep
  <1>8. ASSUME CleanupReset, UNCHANGED held
        PROVE  UNCHANGED Abstract!avars
    <2>1. SweptAge' = SweptAge
      BY <1>0, <1>8, ResetStep, AgeKept
    <2>2. QED
      BY <1>0, <1>1, <1>8, <2>1, ResetStep
  <1>9. CASE UNCHANGED vars
    BY <1>1, <1>9, InvStutter, AgeKept
  <1>10. QED
    BY <1>2, <1>3, <1>4, <1>5, <1>6, <1>7, <1>8, <1>9, StepCases DEF Abstract!ANext

(* The pool implements HandlePool. *)
THEOREM PoolImplementsHandlePool == Disciplined => (Spec => Refinement)
  <1>1. CASE Disciplined
    <2>1. IInv /\ [Next]_vars => [Abstract!ANext]_(Abstract!avars)
      BY <1>1, RefinesNext
    <2>2. Spec => []IInv
      BY <1>1, InvCorrect
    <2>3. QED
      BY <2>1, <2>2, RefinesInit, PTL DEF Spec, Refinement, Abstract!ASpec
  <1>2. QED
    BY <1>1
=============================================================================
