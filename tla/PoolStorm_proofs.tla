-------------------------- MODULE PoolStorm_proofs --------------------------
(***************************************************************************)
(* Proofs about PoolStorm, for every set of threads, every capacity and    *)
(* every index width: whatever handles the threads recycle, and however    *)
(* often, a stale handle stays stale, an object stays reachable until the  *)
(* cleanup() after its recycle(), and no slot is lost.                     *)
(***************************************************************************)
EXTENDS PoolStorm, FiniteSetTheorems, TLAPS

(* The one hypothesis, of NothingLost only.  A slot recycled twice is pushed
   twice, so nothing in the code keeps the batch and the stack within their
   arrays; RecycleStorm does: its capacity and its calls of recycle() together
   are far fewer than the 65536 values of its IndexType.                   *)
Moderate == Cap + MaxRecycles < IdxMod

-----------------------------------------------------------------------------
(* The inductive invariant. *)

(* cleanup() and the other calls exclude each other. *)
LockInv == cpc # "idle" => \A t \in Thread : pc[t] = "idle"

(* A handle carries a generation its slot has had. *)
HandleInv == \A h \in shared : h.gen <= generations[h.index]

(* Each recycle() adds one to a generation and one cell to the stack, at most,
   and until the sweep has done so it is counted in the batch.             *)
CountInv ==
  /\ \A i \in Idx :
       generations[i] + (IF cpc = "reset" THEN 0 ELSE bcount) <= recycles
  /\ Depth + (IF cpc = "idle" THEN bcount ELSE 0) <= Cap + recycles

(* Two threads that are storing have two cells of the batch to store to. *)
StoreInv ==
  /\ \A t \in Storing : slot[t] < bcount
  /\ \A t, u \in Storing : t # u => slot[t] # slot[u]

(* Before its generations are bumped, the batch has reached the stack. *)
BumpInv == cpc = "bump" => \A k \in 0 .. bcount - 1 : batched[k] \in OnStack

(* What the action properties need holds without Moderate. *)
StaleInv == TypeOK /\ HandleInv

IInv ==
  /\ StaleInv
  /\ LockInv
  /\ CountInv
  /\ StoreInv
  /\ BumpInv
  /\ NoSlotLost
-----------------------------------------------------------------------------
(* Wrap brings sums and differences of indices back into the type's range. *)
LEMMA WrapRange ==
  ASSUME NEW x \in Idx, NEW y \in Idx
  PROVE  Wrap(x + y) \in Idx /\ Wrap(x - y) \in Idx
  BY CapAssumption DEF Wrap, Idx

(* A value of the type's range is its own residue. *)
LEMMA SmallResidue ==
  ASSUME NEW x \in Nat, x < IdxMod
  PROVE  x % IdxMod = x
  BY CapAssumption

LEMMA Residue ==
  ASSUME NEW x \in Nat
  PROVE  x % IdxMod \in Idx
  BY CapAssumption DEF Idx

(* How often an index is in the batch is a number. *)
LEMMA RecycledIsNat ==
  ASSUME NEW n \in Nat, NEW i
  PROVE  Recycled(i, n) \in Nat
  <1>1. IsFiniteSet(0 .. n - 1)
    BY FS_Interval
  <1>2. {k \in 0 .. n - 1 : batched[k] = i} \in SUBSET (0 .. n - 1)
    OBVIOUS
  <1>3. IsFiniteSet({k \in 0 .. n - 1 : batched[k] = i})
    BY <1>1, <1>2, FS_Subset
  <1>4. QED
    BY <1>3, FS_CardinalityType DEF Recycled

-----------------------------------------------------------------------------
LEMMA RecycledAtMost ==
  ASSUME NEW n \in Nat, NEW i
  PROVE  Recycled(i, n) <= n
  <1> DEFINE cells == {k \in 0 .. n - 1 : batched[k] = i}
  <1>1. IsFiniteSet(0 .. n - 1) /\ Cardinality(0 .. n - 1) = n
    BY FS_Interval
  <1>2. cells \subseteq 0 .. n - 1
    OBVIOUS
  <1>3. Cardinality(cells) <= Cardinality(0 .. n - 1)
    BY <1>1, <1>2, FS_Subset
  <1>4. QED
    BY <1>1, <1>3 DEF Recycled

-----------------------------------------------------------------------------
(* Every variable keeps its type, whatever the clients recycle, and nobody
   invents a handle or a generation: that needs no hypothesis.             *)
LEMMA TypeInit == Init => TypeOK
  <1> SUFFICES ASSUME Init
               PROVE  TypeOK
    OBVIOUS
  <1>1. 0 \in Idx /\ NoHandle \in Handle /\ Cap - 1 \in Idx
    BY CapAssumption DEF Idx, Handle, NoHandle
  <1>2. \A k \in Idx : (IF k < Cap THEN (Cap - 1) - k ELSE 0) \in Idx
    BY CapAssumption DEF Idx
  <1>3. arr \in [Idx -> Idx]
    BY <1>2 DEF Init, PoolInit
  <1>4. PoolTypeOK
    BY <1>1, <1>3 DEF Init, PoolInit, PoolTypeOK
  <1>5. QED
    BY <1>4, StormAssumption DEF Init, TypeOK

(* Generations only grow, and only cleanup() makes them. *)
LEMMA GenerationsGrow ==
  ASSUME TypeOK, [Next]_vars
  PROVE  /\ generations' \in [Idx -> Nat]
         /\ \A i \in Idx : generations'[i] >= generations[i]
         /\ \A i \in Idx : generations'[i] # generations[i] =>
              /\ cpc = "bump"
              /\ i \in {batched[k] : k \in 0 .. bcount - 1}
  <1> USE DEF TypeOK, PoolTypeOK
  <1>1. CASE CleanupBump
    <2>1. BatchedCount \in Nat /\ BatchedCount <= bcount
      BY CapAssumption DEF BatchedCount
    <2>2. ASSUME NEW i \in Idx
          PROVE  /\ generations'[i] = generations[i] + Recycled(i, BatchedCount)
                 /\ Recycled(i, BatchedCount) \in Nat
                 /\ Recycled(i, BatchedCount) # 0 =>
                      i \in {batched[k] : k \in 0 .. bcount - 1}
      <3>1. generations'[i] = generations[i] + Recycled(i, BatchedCount)
        BY <1>1 DEF CleanupBump
      <3>2. Recycled(i, BatchedCount) \in Nat
        BY <2>1, RecycledIsNat
      <3>3. ASSUME i \notin {batched[k] : k \in 0 .. bcount - 1}
            PROVE  Recycled(i, BatchedCount) = 0
        <4>1. 0 .. BatchedCount - 1 \subseteq 0 .. bcount - 1
          BY <2>1
        <4>2. {k \in 0 .. BatchedCount - 1 : batched[k] = i} = {}
          BY <3>3, <4>1
        <4>3. QED
          BY <4>2, FS_EmptySet DEF Recycled
      <3>4. QED
        BY <3>1, <3>2, <3>3
    <2>3. generations' = [i \in Idx |-> generations[i] + Recycled(i, BatchedCount)]
      BY <1>1 DEF CleanupBump
    <2>4. generations' \in [Idx -> Nat]
      BY <2>2, <2>3
    <2>5. \A i \in Idx : generations'[i] >= generations[i]
      BY <2>2
    <2>6. \A i \in Idx : generations'[i] # generations[i] =>
            i \in {batched[k] : k \in 0 .. bcount - 1}
      BY <2>2
    <2>7. QED
      BY <1>1, <2>4, <2>5, <2>6 DEF CleanupBump
  <1>2. CASE UNCHANGED generations
    BY <1>2
  <1>3. QED
    BY <1>1, <1>2 DEF Next, vars, Allocate, AllocPop, AllocateDone, AllocRead, Get, pool,
       Release, Recycle, RecycleCount, RecycleStale, ReleaseDone, RecycleStore,
       Sweep, Cleanup, CleanupPush, CleanupReset

(* A handle allocate() returns is well formed and names a generation its slot
   has: gen_ may have lost bits of it, which makes it smaller.             *)
LEMMA HandleMade ==
  ASSUME TypeOK, NEW t \in Thread
  PROVE  /\ NewHandle(t) \in Handle
         /\ NewHandle(t).index = arr[slot[t]]
         /\ NewHandle(t).gen = generations[arr[slot[t]]] % IdxMod
         /\ NewHandle(t).gen <= generations[NewHandle(t).index]
  <1>1. arr[slot[t]] \in Idx /\ generations[arr[slot[t]]] \in Nat
    BY DEF TypeOK, PoolTypeOK
  <1>2. \A x \in Nat : x % IdxMod <= x
    BY CapAssumption
  <1>3. QED
    BY <1>1, <1>2, Residue DEF NewHandle, Handle

LEMMA TypeNext == TypeOK /\ [Next]_vars => TypeOK'
  <1> SUFFICES ASSUME TypeOK, [Next]_vars
               PROVE  TypeOK'
    OBVIOUS
  <1> USE DEF TypeOK, PoolTypeOK
  <1>0. 0 \in Idx /\ NoHandle \in Handle
    BY CapAssumption DEF Idx, Handle, NoHandle
  <1>1. ASSUME NEW t \in Thread, Allocate(t)
        PROVE  TypeOK'
    <2>1. Wrap(top - 1) \in Idx
      BY CapAssumption DEF Idx, Wrap
    <2>2. allocs' \in 0 .. MaxAllocs
      BY <1>1, StormAssumption DEF Allocate
    <2>3. QED
      BY <1>1, <2>1, <2>2 DEF Allocate, AllocPop
  <1>2. ASSUME NEW t \in Thread, AllocateDone(t)
        PROVE  TypeOK'
    <2>1. shared' \subseteq Handle /\ shared \subseteq shared'
      BY <1>2, HandleMade DEF AllocateDone
    <2>2. got' \in [Thread -> SUBSET shared']
      BY <1>2, <2>1 DEF AllocateDone
    <2>3. aborted' \in BOOLEAN
      BY <1>2 DEF AllocateDone, AllocRead
    <2>4. QED
      BY <1>0, <1>2, <2>1, <2>2, <2>3 DEF AllocateDone, AllocRead
  <1>3. ASSUME NEW t \in Thread, Get(t)
        PROVE  TypeOK'
    BY <1>3 DEF Get, pool
  <1>4. ASSUME NEW t \in Thread, Release(t)
        PROVE  TypeOK'
    <2>1. PICK h \in got[t] : /\ recycles < MaxRecycles
                              /\ Recycle(t, h)
                              /\ got' = [got EXCEPT ![t] = {}]
                              /\ recycles' = recycles + 1
                              /\ UNCHANGED <<shared, allocs>>
      BY <1>4 DEF Release
    <2>2. h \in Handle /\ recycles' \in 0 .. MaxRecycles
      BY <2>1, StormAssumption
    <2>3. got' \in [Thread -> SUBSET shared']
      BY <2>1
    <2>4. CASE RecycleCount(t, h)
      BY <2>1, <2>2, <2>3, <2>4, Residue DEF RecycleCount
    <2>5. CASE RecycleStale(t, h)
      BY <2>1, <2>2, <2>3, <2>5 DEF RecycleStale
    <2>6. QED
      BY <2>1, <2>4, <2>5 DEF Recycle
  <1>5. ASSUME NEW t \in Thread, ReleaseDone(t)
        PROVE  TypeOK'
    <2>1. arg[t].index \in Idx
      BY DEF Handle
    <2>2. QED
      BY <1>0, <1>5, <2>1 DEF ReleaseDone, RecycleStore, client
  <1>6. CASE CleanupPush /\ UNCHANGED client
    <2>1. Wrap(top + 1) \in Idx
      BY CapAssumption DEF Idx, Wrap
    <2>2. \A k \in Idx : AboveTop(k) \in Idx
      BY <2>1, WrapRange DEF AboveTop
    <2>3. BatchedCount \in Idx
      BY Residue DEF BatchedCount
    <2>4. Wrap(top + BatchedCount) \in Idx
      BY <2>3, WrapRange
    <2>5. arr' \in [Idx -> Idx]
      BY <1>6, <2>2 DEF CleanupPush, PushBatch
    <2>6. QED
      BY <1>6, <2>4, <2>5 DEF CleanupPush, PushBatch, client
  <1>7. CASE CleanupBump /\ UNCHANGED client
    BY <1>7, GenerationsGrow DEF CleanupBump, client
  <1>8. CASE CleanupReset /\ UNCHANGED client
    BY <1>8 DEF CleanupReset, client
  <1>9. CASE UNCHANGED vars
    BY <1>9 DEF vars
  <1>10. QED
    BY <1>1, <1>2, <1>3, <1>4, <1>5, <1>6, <1>7, <1>8, <1>9 DEF Next, Sweep, Cleanup

(* Every variable keeps its type: top_ and the cells of the arrays stay in the
   range of an IndexType even when slots are recycled twice.               *)
THEOREM TypeCorrect == Spec => []TypeOK
  BY TypeInit, TypeNext, PTL DEF Spec

-----------------------------------------------------------------------------
(* Stale handles: the two action properties, still with no hypothesis. *)
LEMMA StaleInit == Init => StaleInv
  BY TypeInit DEF Init, StaleInv, HandleInv

LEMMA StaleNext == StaleInv /\ [Next]_vars => StaleInv'
  <1> SUFFICES ASSUME StaleInv, [Next]_vars
               PROVE  StaleInv'
    OBVIOUS
  <1>1. TypeOK /\ TypeOK' /\ HandleInv
    BY TypeNext DEF StaleInv
  <1>2. \A h \in shared : /\ h.index \in Idx /\ h.gen \in Nat
                          /\ h.gen <= generations'[h.index]
    <2>1. ASSUME NEW h \in shared
          PROVE  /\ h.index \in Idx /\ h.gen \in Nat
                 /\ h.gen <= generations'[h.index]
      <3>1. h.index \in Idx /\ h.gen \in Nat
        BY <1>1 DEF TypeOK, Handle, Idx
      <3>2. h.gen <= generations[h.index]
        BY <1>1 DEF HandleInv
      <3>3. generations[h.index] \in Nat /\ generations'[h.index] \in Nat
        BY <1>1, <3>1 DEF TypeOK, PoolTypeOK
      <3>4. generations'[h.index] >= generations[h.index]
        BY <1>1, <3>1, GenerationsGrow
      <3>5. QED
        BY <3>1, <3>2, <3>3, <3>4
    <2>2. QED
      BY <2>1
  <1>3. HandleInv'
    <2>1. CASE \E t \in Thread : AllocateDone(t)
      <3>1. PICK t \in Thread : AllocateDone(t)
        BY <2>1
      <3>2. shared' = shared \cup {NewHandle(t)} /\ generations' = generations
        BY <3>1 DEF AllocateDone, AllocRead
      <3>3. QED
        BY <1>1, <1>2, <3>2, HandleMade DEF HandleInv
    <2>2. CASE shared' = shared
      BY <1>2, <2>2 DEF HandleInv
    <2>3. QED
      BY <2>1, <2>2 DEF Next, vars, Allocate, Get, Release, ReleaseDone, Sweep, client
  <1>4. QED
    BY <1>1, <1>3 DEF StaleInv

LEMMA StaleCorrect == Spec => []StaleInv
  BY StaleInit, StaleNext, PTL DEF Spec

(* A handle get() has refused is refused for ever. *)
THEOREM NeverRevived == Spec => StaleForEver
  <1>1. StaleInv /\ [Next]_vars => [\A h \in shared : ~Valid(h) => ~Valid(h)']_vars
    <2> SUFFICES ASSUME StaleInv, [Next]_vars, NEW h \in shared, ~Valid(h)
                 PROVE  ~Valid(h)'
      OBVIOUS
    <2>1. h.index \in Idx /\ h.gen \in Nat
      BY DEF StaleInv, TypeOK, Handle, Idx
    <2>2. /\ generations[h.index] \in Nat /\ generations'[h.index] \in Nat
          /\ generations'[h.index] >= generations[h.index]
      BY <2>1, GenerationsGrow DEF StaleInv, TypeOK, PoolTypeOK
    <2>3. h.gen < generations[h.index]
      BY <2>1, <2>2 DEF StaleInv, HandleInv, Valid
    <2>4. h.gen # generations'[h.index]
      BY <2>1, <2>2, <2>3
    <2>5. QED
      BY <2>4 DEF Valid
  <1>2. QED
    BY <1>1, StaleCorrect, PTL DEF Spec, StaleForEver

(* An object stays reachable until the cleanup() that follows its recycle(). *)
THEOREM ReachableUntilCleanup == Spec => AccessibleUntilCleanup
  <1>1. StaleInv /\ [Next]_vars =>
          [\A h \in shared : Valid(h) /\ ~Valid(h)' =>
             cpc = "bump" /\ h.index \in {batched[k] : k \in 0 .. bcount - 1}]_vars
    <2> SUFFICES ASSUME StaleInv, [Next]_vars, NEW h \in shared, Valid(h), ~Valid(h)'
                 PROVE  cpc = "bump" /\ h.index \in {batched[k] : k \in 0 .. bcount - 1}
      OBVIOUS
    <2>1. h.index \in Idx /\ TypeOK
      BY DEF StaleInv, TypeOK, Handle
    <2>2. generations'[h.index] # generations[h.index]
      BY DEF Valid
    <2>3. QED
      BY <2>1, <2>2, GenerationsGrow
  <1>2. QED
    BY <1>1, StaleCorrect, PTL DEF Spec, AccessibleUntilCleanup

-----------------------------------------------------------------------------
(* The initial states: every slot is on the stack. *)
LEMMA InvInit == Moderate /\ Init => IInv
  <1> SUFFICES ASSUME Moderate, Init
               PROVE  IInv
    OBVIOUS
  <1>1. StaleInv
    BY StaleInit
  <1>2. Depth = Cap
    BY CapAssumption DEF Init, PoolInit, Depth
  <1>3. Slot \subseteq OnStack
    <2>1. ASSUME NEW s \in Slot
          PROVE  s \in OnStack
      <3>1. /\ (Cap - 1) - s \in 0 .. Depth - 1
            /\ (Cap - 1) - s \in Idx /\ (Cap - 1) - s < Cap
            /\ (Cap - 1) - ((Cap - 1) - s) = s
        BY <1>2, CapAssumption DEF Slot, Idx
      <3>2. arr[(Cap - 1) - s] = s
        BY <3>1 DEF Init, PoolInit
      <3>3. QED
        BY <3>1, <3>2 DEF OnStack
    <2>2. QED
      BY <2>1
  <1>4. LockInv /\ StoreInv /\ BumpInv
    BY DEF Init, PoolInit, LockInv, StoreInv, BumpInv, Storing
  <1>5. CountInv
    BY <1>2, CapAssumption DEF Init, PoolInit, CountInv
  <1>6. NoSlotLost
    BY <1>3 DEF NoSlotLost
  <1>7. QED
    BY <1>1, <1>3, <1>4, <1>5, <1>6 DEF IInv

(* What a step must keep for no slot to be lost. *)
LEMMA SlotsKept ==
  ASSUME NoSlotLost,
         OnStack \subseteq OnStack' \cup InUse',
         InUse \subseteq InUse' \cup {h.index : h \in LiveHandles'},
         Retired \subseteq Retired' \cup OnStack',
         \A h \in LiveHandles : h \in LiveHandles' \/ h.index \in OnStack'
  PROVE  NoSlotLost'
  <1>1. ASSUME NEW s \in Slot
        PROVE  s \in (OnStack' \cup InUse' \cup Retired') \cup {h.index : h \in LiveHandles'}
    BY DEF NoSlotLost
  <1>2. Slot' = Slot
    BY DEF Slot
  <1>3. QED
    BY <1>1, <1>2 DEF NoSlotLost

(* The numbers the steps compute with. *)
LEMMA Numbers ==
  ASSUME IInv, Moderate
  PROVE  /\ Depth \in Nat /\ bcount \in Nat /\ recycles \in Nat
         /\ recycles <= MaxRecycles /\ MaxRecycles \in Nat
         /\ Depth = IF top = IdxMod - 1 THEN 0 ELSE top + 1
         /\ top \in 0 .. IdxMod - 1
         /\ cpc # "reset" => bcount <= recycles
         /\ cpc # "reset" => BatchedCount = bcount
  <1>1. /\ top \in 0 .. IdxMod - 1 /\ bcount \in Nat
        /\ recycles \in 0 .. MaxRecycles
    BY DEF IInv, StaleInv, TypeOK, PoolTypeOK, Idx
  <1>2. Depth \in Nat
    BY <1>1, CapAssumption DEF Depth
  <1>3. cpc # "reset" => bcount <= recycles
    <2>1. 0 \in Idx
      BY CapAssumption DEF Idx
    <2>2. generations[0] \in Nat
      BY <2>1 DEF IInv, StaleInv, TypeOK, PoolTypeOK
    <2>3. cpc # "reset" => generations[0] + bcount <= recycles
      BY <2>1 DEF IInv, CountInv
    <2>4. QED
      BY <1>1, <2>2, <2>3
  <1>4. cpc # "reset" => BatchedCount = bcount
    BY <1>1, <1>3, StormAssumption, CapAssumption, SmallResidue DEF Moderate, BatchedCount
  <1>5. QED
    BY <1>1, <1>2, <1>3, <1>4, StormAssumption DEF Depth

(* allocate(), first step: the index on top moves from the stack to the caller. *)
LEMMA AllocateStep ==
  ASSUME IInv, Moderate, StaleInv', NEW t \in Thread, Allocate(t)
  PROVE  IInv'
  <1>0. /\ TypeOK /\ cpc = "idle" /\ pc[t] = "idle" /\ Depth > 0
        /\ top' = Wrap(top - 1)
        /\ slot' = [slot EXCEPT ![t] = top]
        /\ pc' = [pc EXCEPT ![t] = "alloc"]
        /\ UNCHANGED <<arr, generations, batched, bcount, cpc, arg, aborted, shared, got, recycles>>
    BY DEF IInv, StaleInv, Allocate, AllocPop, LockShared
  <1>1. Depth = top + 1 /\ top \in Nat /\ Depth' = top
    BY <1>0, Numbers, CapAssumption DEF Depth, Wrap
  <1>2. OnStack = OnStack' \cup {arr[top]}
    <2>1. 0 .. Depth - 1 = (0 .. Depth' - 1) \cup {top}
      BY <1>1
    <2>2. QED
      BY <1>0, <2>1 DEF OnStack
  <1>3. InFlight(t)' = {arr[top]} /\ InFlight(t) = {}
    BY <1>0 DEF InFlight, TypeOK, PoolTypeOK
  <1>4. \A u \in Thread : u # t => InFlight(u)' = InFlight(u)
    BY <1>0 DEF InFlight, TypeOK, PoolTypeOK
  <1>5. InUse' = InUse \cup {arr[top]}
    BY <1>3, <1>4 DEF InUse
  <1>6. Storing' = Storing /\ \A u \in Storing : slot'[u] = slot[u]
    BY <1>0 DEF Storing, TypeOK, PoolTypeOK
  <1>7. Stored' = Stored
    BY <1>0, <1>6 DEF Stored
  <1>8. Retired' = Retired
    BY <1>0, <1>6, <1>7 DEF Retired
  <1>9. LiveHandles' = LiveHandles
    BY <1>0 DEF LiveHandles, Valid
  <1>10. NoSlotLost'
    BY <1>2, <1>5, <1>8, <1>9, SlotsKept DEF IInv
  <1>11. StoreInv'
    BY <1>0, <1>6 DEF IInv, StoreInv
  <1>12. CountInv'
    BY <1>0, <1>1, Numbers, CapAssumption DEF IInv, CountInv
  <1>13. LockInv' /\ BumpInv'
    BY <1>0 DEF LockInv, BumpInv
  <1>14. QED
    BY <1>10, <1>11, <1>12, <1>13 DEF IInv

(* allocate(), second step: the handle it returns is valid, because no slot has
   been recycled so often that its generation does not fit gen_.           *)
LEMMA AllocateDoneStep ==
  ASSUME IInv, Moderate, StaleInv', NEW t \in Thread, AllocateDone(t)
  PROVE  IInv'
  <1>0. /\ TypeOK /\ pc[t] = "alloc"
        /\ slot' = [slot EXCEPT ![t] = 0]
        /\ pc' = [pc EXCEPT ![t] = "idle"]
        /\ shared' = shared \cup {NewHandle(t)}
        /\ UNCHANGED <<arr, top, generations, batched, bcount, cpc, arg, recycles>>
    BY DEF IInv, StaleInv, AllocateDone, AllocRead
  <1>1. cpc = "idle"
    BY <1>0 DEF IInv, LockInv
  <1>2. OnStack' = OnStack /\ Depth' = Depth
    BY <1>0 DEF OnStack, Depth
  <1>3. PICK new : /\ shared' = shared \cup {new}
                   /\ new.index = arr[slot[t]]
                   /\ new.gen = generations[new.index]
    <2> DEFINE i == arr[slot[t]]
    <2>1. i \in Idx /\ generations[i] \in Nat
      BY <1>0 DEF TypeOK, PoolTypeOK
    <2>2. generations[i] < IdxMod
      <3>1. generations[i] + bcount <= recycles
        BY <1>1, <2>1 DEF IInv, CountInv
      <3>2. QED
        BY <2>1, <3>1, Numbers, CapAssumption DEF Moderate
    <2>3. generations[i] % IdxMod = generations[i]
      BY <2>1, <2>2, SmallResidue
    <2>4. QED
      BY <1>0, <2>3, HandleMade
  <1>4. InFlight(t) = {arr[slot[t]]}
    BY <1>0 DEF InFlight
  <1>5. \A u \in Thread : u # t => InFlight(u)' = InFlight(u)
    BY <1>0 DEF InFlight, TypeOK, PoolTypeOK
  <1>6. LiveHandles \cup {new} \subseteq LiveHandles'
    BY <1>0, <1>3 DEF LiveHandles, Valid
  <1>7. InUse \subseteq InUse' \cup {h.index : h \in LiveHandles'}
    <2>1. arr[slot[t]] \in {h.index : h \in LiveHandles'}
      BY <1>3, <1>6
    <2>2. QED
      BY <1>4, <1>5, <2>1 DEF InUse
  <1>8. Storing' = Storing /\ \A u \in Storing : slot'[u] = slot[u]
    BY <1>0 DEF Storing, TypeOK, PoolTypeOK
  <1>9. Stored' = Stored
    BY <1>0, <1>8 DEF Stored
  <1>10. Retired' = Retired
    BY <1>0, <1>8, <1>9 DEF Retired
  <1>11. NoSlotLost'
    BY <1>2, <1>6, <1>7, <1>10, SlotsKept DEF IInv
  <1>12. StoreInv'
    BY <1>0, <1>8 DEF IInv, StoreInv
  <1>13. CountInv' /\ LockInv' /\ BumpInv'
    BY <1>0, <1>1, <1>2 DEF IInv, CountInv, LockInv, BumpInv
  <1>14. QED
    BY <1>11, <1>12, <1>13 DEF IInv

(* recycle(): the handle stays valid, and a cell of the batch is the caller's. *)
LEMMA ReleaseStep ==
  ASSUME IInv, Moderate, StaleInv', NEW t \in Thread, Release(t)
  PROVE  IInv'
  <1>1. PICK h \in got[t] : /\ recycles < MaxRecycles
                            /\ Recycle(t, h)
                            /\ recycles' = recycles + 1
                            /\ UNCHANGED shared
    BY DEF Release
  <1>0. /\ TypeOK /\ cpc = "idle" /\ pc[t] = "idle"
        /\ UNCHANGED <<arr, top, generations, batched, cpc>>
    BY <1>1 DEF IInv, StaleInv, Recycle, RecycleCount, RecycleStale, LockShared
  <1>2. OnStack' = OnStack /\ Depth' = Depth
    BY <1>0 DEF OnStack, Depth
  <1>3. LiveHandles' = LiveHandles
    BY <1>0, <1>1 DEF LiveHandles, Valid
  <1>4. LockInv' /\ BumpInv'
    BY <1>0 DEF LockInv, BumpInv
  <1>5. ASSUME RecycleCount(t, h)
        PROVE  IInv'
    <2>0. /\ slot' = [slot EXCEPT ![t] = bcount]
          /\ arg' = [arg EXCEPT ![t] = h]
          /\ bcount' = bcount + 1
          /\ pc' = [pc EXCEPT ![t] = "recycle"]
      BY <1>0, <1>5, Numbers DEF RecycleCount, BatchedCount
    <2>1. \A u \in Thread : InFlight(u)' = InFlight(u)
      BY <1>0, <2>0 DEF InFlight, TypeOK, PoolTypeOK
    <2>2. InUse' = InUse
      BY <2>1 DEF InUse
    <2>3. /\ Storing' = Storing \cup {t} /\ t \notin Storing
          /\ slot'[t] = bcount
          /\ \A u \in Storing : slot'[u] = slot[u] /\ arg'[u] = arg[u]
      BY <1>0, <2>0 DEF Storing, TypeOK, PoolTypeOK
    <2>4. Stored' = Stored
      <3>1. {slot'[u] : u \in Storing'} = {slot[u] : u \in Storing} \cup {bcount}
        BY <2>3
      <3>2. 0 .. bcount' - 1 = (0 .. bcount - 1) \cup {bcount}
        BY <2>0, Numbers
      <3>3. bcount \notin 0 .. bcount - 1
        BY Numbers
      <3>4. QED
        BY <3>1, <3>2, <3>3 DEF Stored
    <2>5. Retired \subseteq Retired'
      BY <1>0, <2>3, <2>4 DEF Retired
    <2>6. NoSlotLost'
      BY <1>2, <1>3, <2>2, <2>5, SlotsKept DEF IInv
    <2>7. StoreInv'
      <3>1. \A u \in Storing : slot[u] \in Nat /\ slot[u] < bcount
        BY <1>0 DEF IInv, StoreInv, Storing, TypeOK, PoolTypeOK, Idx
      <3>2. QED
        BY <2>0, <2>3, <3>1, Numbers DEF IInv, StoreInv
    <2>8. CountInv'
      BY <1>0, <1>1, <1>2, <2>0, Numbers, CapAssumption DEF IInv, CountInv, TypeOK, PoolTypeOK
    <2>9. QED
      BY <1>4, <2>6, <2>7, <2>8 DEF IInv
  <1>6. ASSUME RecycleStale(t, h)
        PROVE  IInv'
    <2>0. UNCHANGED <<bcount, pc, slot, arg>>
      BY <1>6 DEF RecycleStale
    <2>1. InUse' = InUse
      BY <1>0, <2>0 DEF InUse, InFlight
    <2>2. Storing' = Storing /\ Stored' = Stored
      BY <2>0 DEF Storing, Stored
    <2>3. Retired' = Retired
      BY <1>0, <2>0, <2>2 DEF Retired
    <2>4. NoSlotLost'
      BY <1>2, <1>3, <2>1, <2>3, SlotsKept DEF IInv
    <2>5. StoreInv'
      BY <2>0, <2>2 DEF IInv, StoreInv
    <2>6. CountInv'
      BY <1>0, <1>1, <1>2, <2>0, Numbers, CapAssumption DEF IInv, CountInv, TypeOK, PoolTypeOK
    <2>7. QED
      BY <1>4, <2>4, <2>5, <2>6 DEF IInv
  <1>7. QED
    BY <1>1, <1>5, <1>6 DEF Recycle

(* recycle(), the store: the thread's cell of the batch gets its index. *)
LEMMA ReleaseDoneStep ==
  ASSUME IInv, Moderate, StaleInv', NEW t \in Thread, ReleaseDone(t)
  PROVE  IInv'
  <1> DEFINE c == slot[t]
             i == arg[t].index
  <1>1. TypeOK /\ cpc = "idle" /\ t \in Storing
    BY DEF IInv, StaleInv, LockInv, ReleaseDone, RecycleStore, Storing
  <1>2. c \in Idx /\ c \in Nat /\ c < bcount /\ c # IdxMod - 1 /\ i \in Idx
    <2>1. c \in Idx /\ c \in Nat /\ c < bcount /\ i \in Idx
      BY <1>1 DEF IInv, StoreInv, TypeOK, PoolTypeOK, Idx, Handle
    <2>2. QED
      BY <1>1, <2>1, Numbers, CapAssumption DEF Moderate
  <1>0. /\ batched' = [batched EXCEPT ![c] = i]
        /\ slot' = [slot EXCEPT ![t] = 0]
        /\ arg' = [arg EXCEPT ![t] = NoHandle]
        /\ pc[t] = "recycle" /\ pc' = [pc EXCEPT ![t] = "idle"]
        /\ UNCHANGED <<arr, top, generations, bcount, cpc, shared, recycles>>
    BY <1>2 DEF ReleaseDone, RecycleStore, client
  <1>3. OnStack' = OnStack /\ Depth' = Depth
    BY <1>0 DEF OnStack, Depth
  <1>4. InUse' = InUse
    <2>1. \A u \in Thread : InFlight(u)' = InFlight(u)
      BY <1>0, <1>1 DEF InFlight, TypeOK, PoolTypeOK
    <2>2. QED
      BY <2>1 DEF InUse
  <1>5. LiveHandles' = LiveHandles
    BY <1>0 DEF LiveHandles, Valid
  <1>6. Storing' = Storing \ {t}
    BY <1>0, <1>1 DEF Storing, TypeOK, PoolTypeOK
  <1>7. \A u \in Storing' : slot'[u] = slot[u] /\ arg'[u] = arg[u] /\ slot[u] # c
    BY <1>0, <1>1, <1>6 DEF IInv, StoreInv, Storing, TypeOK, PoolTypeOK
  <1>8. Stored' = Stored \cup {c} /\ c \notin Stored
    <2>1. {slot'[u] : u \in Storing'} = {slot[u] : u \in Storing} \ {c}
      BY <1>1, <1>6, <1>7
    <2>2. c \in 0 .. bcount - 1
      BY <1>2, Numbers
    <2>3. QED
      BY <1>0, <1>1, <2>1, <2>2 DEF Stored
  <1>9. batched'[c] = i /\ \A k \in Stored : batched'[k] = batched[k]
    <2>1. \A k \in Stored : k \in Idx
      BY <1>1, Numbers, CapAssumption DEF Stored, Idx, Moderate
    <2>2. QED
      BY <1>0, <1>1, <1>2, <1>8, <2>1 DEF TypeOK, PoolTypeOK
  <1>10. Retired' = Retired
    <2>1. {batched'[k] : k \in Stored'} = {batched[k] : k \in Stored} \cup {i}
      BY <1>8, <1>9
    <2>2. {arg'[u].index : u \in Storing'} \cup {i} = {arg[u].index : u \in Storing}
      BY <1>1, <1>6, <1>7
    <2>3. Retired' = {batched'[k] : k \in Stored'} \cup {arg'[u].index : u \in Storing'}
      BY <1>0, <1>1 DEF Retired
    <2>4. Retired = {batched[k] : k \in Stored} \cup {arg[u].index : u \in Storing}
      BY <1>1 DEF Retired
    <2>5. QED
      BY <2>1, <2>2, <2>3, <2>4
  <1>11. NoSlotLost'
    BY <1>3, <1>4, <1>5, <1>10, SlotsKept DEF IInv
  <1>12. StoreInv'
    BY <1>0, <1>6, <1>7 DEF IInv, StoreInv
  <1>13. CountInv' /\ LockInv' /\ BumpInv'
    BY <1>0, <1>1, <1>3 DEF IInv, CountInv, LockInv, BumpInv
  <1>14. QED
    BY <1>11, <1>12, <1>13 DEF IInv

(* cleanup(), the push: stack and batch together fit the array, so what was
   recycled is on top of the stack, which keeps what it held.              *)
LEMMA PushStep ==
  ASSUME IInv, Moderate, StaleInv', CleanupPush, UNCHANGED client
  PROVE  IInv'
  <1>0. /\ TypeOK /\ cpc = "idle" /\ cpc' = "bump"
        /\ \A t \in Thread : pc[t] = "idle"
        /\ UNCHANGED <<generations, batched, bcount, pc, slot, arg, shared, recycles>>
    BY DEF IInv, StaleInv, CleanupPush, client
  <1>1. /\ Depth \in Nat /\ bcount \in Nat /\ BatchedCount = bcount
        /\ Depth + bcount < IdxMod
        /\ top \in 0 .. IdxMod - 1
    <2>1. Depth + bcount <= Cap + recycles
      BY <1>0 DEF IInv, CountInv
    <2>2. QED
      BY <1>0, <2>1, Numbers, CapAssumption DEF Moderate
  <1>2. Wrap(top + 1) = Depth
    BY <1>1, CapAssumption DEF Wrap, Depth
  <1>3. /\ \A k \in Idx : k < Depth => AboveTop(k) \in Int /\ AboveTop(k) >= bcount
        /\ \A k \in Idx : k >= Depth => AboveTop(k) = k - Depth
    BY <1>1, <1>2, CapAssumption DEF AboveTop, Wrap, Idx
  <1>4. arr' = [k \in Idx |-> IF AboveTop(k) < bcount THEN batched[AboveTop(k)] ELSE arr[k]]
    BY <1>1 DEF CleanupPush, PushBatch
  <1>5. \A k \in 0 .. Depth - 1 : arr'[k] = arr[k]
    <2>1. ASSUME NEW k \in 0 .. Depth - 1
          PROVE  arr'[k] = arr[k]
      <3>1. k \in Idx /\ k < Depth
        BY <1>1, CapAssumption DEF Idx
      <3>2. AboveTop(k) \in Int /\ AboveTop(k) >= bcount
        BY <1>3, <3>1
      <3>3. QED
        BY <1>1, <1>4, <3>1, <3>2
    <2>2. QED
      BY <2>1
  <1>6. \A k \in 0 .. bcount - 1 : arr'[Depth + k] = batched[k]
    <2>1. ASSUME NEW k \in 0 .. bcount - 1
          PROVE  arr'[Depth + k] = batched[k]
      <3>1. Depth + k \in Idx /\ Depth + k >= Depth /\ (Depth + k) - Depth = k
        BY <1>1, CapAssumption DEF Idx
      <3>2. AboveTop(Depth + k) = k
        BY <1>3, <3>1
      <3>3. QED
        BY <1>1, <1>4, <3>1, <3>2
    <2>2. QED
      BY <2>1
  <1>7. Depth' = Depth + bcount
    <2>1. top' = Wrap(top + bcount)
      BY <1>1 DEF CleanupPush, PushBatch
    <2>2. QED
      BY <1>1, <2>1, CapAssumption DEF Depth, Wrap
  <1>8. OnStack \subseteq OnStack'
    <2>1. \A k \in 0 .. Depth - 1 : k \in 0 .. Depth' - 1
      BY <1>1, <1>7
    <2>2. QED
      BY <1>5, <2>1 DEF OnStack
  <1>9. \A k \in 0 .. bcount - 1 : batched[k] \in OnStack'
    <2>1. \A k \in 0 .. bcount - 1 : Depth + k \in 0 .. Depth' - 1
      BY <1>1, <1>7
    <2>2. QED
      BY <1>6, <2>1 DEF OnStack
  <1>10. Storing = {} /\ Storing' = {}
    BY <1>0 DEF Storing
  <1>11. Retired \subseteq OnStack'
    <2>1. Stored = 0 .. bcount - 1
      BY <1>10 DEF Stored
    <2>2. Retired = {batched[k] : k \in 0 .. bcount - 1}
      BY <1>0, <1>10, <2>1 DEF Retired
    <2>3. QED
      BY <1>9, <2>2
  <1>12. InUse = {} /\ LiveHandles' = LiveHandles
    BY <1>0 DEF InUse, InFlight, LiveHandles, Valid
  <1>13. NoSlotLost'
    BY <1>8, <1>11, <1>12, SlotsKept DEF IInv
  <1>14. CountInv'
    <2>1. \A i \in Idx : generations[i] + bcount <= recycles
      BY <1>0 DEF IInv, CountInv
    <2>2. Depth + bcount <= Cap + recycles
      BY <1>0 DEF IInv, CountInv
    <2>3. QED
      BY <1>0, <1>1, <1>7, <2>1, <2>2 DEF CountInv
  <1>15. LockInv' /\ StoreInv' /\ BumpInv'
    BY <1>0, <1>9, <1>10 DEF LockInv, StoreInv, BumpInv
  <1>16. QED
    BY <1>13, <1>14, <1>15 DEF IInv

(* cleanup(), the bump: a handle it makes stale names a slot that is already on
   the stack, and no generation grows by more than the batch has cells.    *)
LEMMA BumpStep ==
  ASSUME IInv, Moderate, StaleInv', CleanupBump, UNCHANGED client
  PROVE  IInv'
  <1>0. /\ TypeOK /\ cpc = "bump" /\ cpc' = "reset"
        /\ \A t \in Thread : pc[t] = "idle"
        /\ UNCHANGED <<arr, top, batched, bcount, pc, slot, arg, shared, recycles>>
    BY DEF IInv, StaleInv, LockInv, CleanupBump, client
  <1>1. bcount \in Nat /\ BatchedCount = bcount
    BY <1>0, Numbers
  <1>2. OnStack' = OnStack /\ Depth' = Depth
    BY <1>0 DEF OnStack, Depth
  <1>3. Storing' = {}
    BY <1>0 DEF Storing
  <1>4. InUse = {} /\ Retired = {}
    BY <1>0 DEF InUse, InFlight, Retired
  <1>5. \A h \in LiveHandles : h \in LiveHandles' \/ h.index \in OnStack'
    <2>1. ASSUME NEW h \in LiveHandles, h \notin LiveHandles'
          PROVE  h.index \in OnStack
      <3>1. h \in shared /\ h.index \in Idx
        BY <1>0 DEF LiveHandles, TypeOK, Handle
      <3>2. generations'[h.index] # generations[h.index]
        BY <1>0, <2>1 DEF LiveHandles, Valid
      <3>3. [Next]_vars
        BY DEF Next, Sweep, Cleanup
      <3>4. h.index \in {batched[k] : k \in 0 .. bcount - 1}
        BY <1>0, <3>1, <3>2, <3>3, GenerationsGrow
      <3>5. QED
        BY <1>0, <3>4 DEF IInv, BumpInv
    <2>2. QED
      BY <1>2, <2>1
  <1>6. NoSlotLost'
    BY <1>2, <1>4, <1>5, SlotsKept DEF IInv
  <1>7. \A i \in Idx : generations'[i] <= recycles
    <2>1. ASSUME NEW i \in Idx
          PROVE  generations'[i] <= recycles
      <3>1. generations'[i] = generations[i] + Recycled(i, bcount)
        BY <1>1 DEF CleanupBump
      <3>2. Recycled(i, bcount) \in Nat /\ Recycled(i, bcount) <= bcount
        BY <1>1, RecycledAtMost, RecycledIsNat
      <3>3. generations[i] + bcount <= recycles /\ generations[i] \in Nat
        BY <1>0 DEF IInv, CountInv, TypeOK, PoolTypeOK
      <3>4. QED
        BY <1>1, <3>1, <3>2, <3>3, Numbers
    <2>2. QED
      BY <2>1
  <1>8. CountInv'
    <2>1. \A i \in Idx : generations'[i] \in Nat
      BY DEF StaleInv, TypeOK, PoolTypeOK
    <2>2. QED
      BY <1>0, <1>2, <1>7, <2>1 DEF IInv, CountInv
  <1>9. LockInv' /\ StoreInv' /\ BumpInv'
    BY <1>0, <1>3 DEF LockInv, StoreInv, BumpInv
  <1>10. QED
    BY <1>6, <1>8, <1>9 DEF IInv

(* cleanup(), the reset: an empty batch, and the lock is free again. *)
LEMMA ResetStep ==
  ASSUME IInv, Moderate, StaleInv', CleanupReset, UNCHANGED client
  PROVE  IInv'
  <1>0. /\ TypeOK /\ cpc = "reset" /\ cpc' = "idle" /\ bcount' = 0
        /\ \A t \in Thread : pc[t] = "idle"
        /\ UNCHANGED <<arr, top, generations, batched, pc, slot, arg, shared, recycles>>
    BY DEF IInv, StaleInv, LockInv, CleanupReset, client
  <1>1. OnStack' = OnStack /\ Depth' = Depth
    BY <1>0 DEF OnStack, Depth
  <1>2. Storing' = {}
    BY <1>0 DEF Storing
  <1>3. InUse = {} /\ Retired = {} /\ LiveHandles' = LiveHandles
    BY <1>0 DEF InUse, InFlight, Retired, LiveHandles, Valid
  <1>4. NoSlotLost'
    BY <1>1, <1>3, SlotsKept DEF IInv
  <1>5. CountInv'
    BY <1>0, <1>1 DEF IInv, CountInv
  <1>6. LockInv' /\ StoreInv' /\ BumpInv'
    BY <1>0, <1>2 DEF LockInv, StoreInv, BumpInv
  <1>7. QED
    BY <1>4, <1>5, <1>6 DEF IInv

LEMMA InvStutter ==
  ASSUME IInv, UNCHANGED <<pool, shared, recycles>>, StaleInv'
  PROVE  IInv'
  <1>1. UNCHANGED <<arr, top, generations, batched, bcount, cpc, pc, slot, arg,
                    shared, recycles>>
    BY DEF pool
  <1>2. /\ OnStack' = OnStack /\ Depth' = Depth /\ Storing' = Storing
        /\ Stored' = Stored /\ InUse' = InUse /\ LiveHandles' = LiveHandles
    BY <1>1 DEF OnStack, Depth, Storing, Stored, InUse, InFlight, LiveHandles, Valid
  <1>3. Retired' = Retired
    BY <1>1, <1>2 DEF Retired
  <1>4. NoSlotLost'
    BY <1>2, <1>3, SlotsKept DEF IInv
  <1>5. LockInv' /\ CountInv' /\ StoreInv' /\ BumpInv'
    BY <1>1, <1>2 DEF IInv, LockInv, CountInv, StoreInv, BumpInv
  <1>6. QED
    BY <1>4, <1>5 DEF IInv

LEMMA InvNext == Moderate => (IInv /\ [Next]_vars => IInv')
  <1> SUFFICES ASSUME Moderate, IInv, [Next]_vars
               PROVE  IInv'
    OBVIOUS
  <1>1. StaleInv'
    BY StaleNext DEF IInv
  <1>2. ASSUME NEW t \in Thread, Get(t)
        PROVE  UNCHANGED <<pool, shared, recycles>>
    BY <1>2 DEF Get
  <1>3. ASSUME UNCHANGED vars
        PROVE  UNCHANGED <<pool, shared, recycles>>
    BY <1>3 DEF vars, pool
  <1>4. QED
    BY <1>1, <1>2, <1>3, AllocateStep, AllocateDoneStep, ReleaseStep, ReleaseDoneStep,
       PushStep, BumpStep, ResetStep, InvStutter DEF Next, Sweep, Cleanup

LEMMA InvCorrect == Moderate => (Spec => []IInv)
  <1>1. CASE Moderate
    <2>1. Init => IInv
      BY <1>1, InvInit
    <2>2. IInv /\ [Next]_vars => IInv'
      BY <1>1, InvNext
    <2>3. QED
      BY <2>1, <2>2, PTL DEF Spec
  <1>2. QED
    BY <1>1

(* Whatever is recycled, and however often, no slot is lost. *)
THEOREM NothingLost == Moderate => (Spec => []NoSlotLost)
  <1>1. IInv => NoSlotLost
    BY DEF IInv
  <1>2. QED
    BY <1>1, InvCorrect, PTL
=============================================================================
