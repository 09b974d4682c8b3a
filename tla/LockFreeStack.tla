---------------------------- MODULE LockFreeStack ----------------------------
(***************************************************************************)
(* LockFreeStackArray of src/common/containers/stack.hpp, with the threads *)
(* of its test: pushers that retry while the stack is full, and poppers    *)
(* that retry while it is empty.                                           *)
(*                                                                         *)
(* state_ is one atomic word: the number of items and a pending bit, which *)
(* a thread sets with a compare-exchange before it touches the array.  The *)
(* cells of the array are plain memory: what a thread reads there depends  *)
(* on the writes it has synchronised with.  A store with release order     *)
(* publishes the writes its thread knows of, a load with acquire order     *)
(* learns them, and a relaxed compare-exchange learns nothing.  A read of  *)
(* a cell returns the last write the reader knows of, or a later one.      *)
(***************************************************************************)
EXTENDS Integers, Sequences, FiniteSets

CONSTANTS
  Pusher, Popper,   (* the test's threads                                  *)
  Rounds,           (* num_iterations, of every thread                     *)
  Cap,              (* capacity_                                           *)
  Fenced            (* does the compare-exchange order memory all the same,
                       as the locked instruction of an x86 does?           *)

ASSUME StackAssumption ==
  /\ Pusher \cap Popper = {}
  /\ Rounds \in Nat
  /\ Cap \in Nat \ {0}
  /\ Fenced \in BOOLEAN

VARIABLES
  state,    (* state_: [count, pending]                                    *)
  known,    (* per cell: the writes that state_ publishes                  *)
  cells,    (* data_: per cell, what malloc() left there and all writes    *)
  view,     (* per thread and cell: the writes it knows of                 *)
  pc,       (* "idle", "try", "access" or "release"                        *)
  current,  (* the local current_state                                     *)
  result,   (* the local result of pop(): none or one item                 *)
  round,    (* how many calls of the thread have succeeded                 *)
  popped    (* what each thread has popped                                 *)

vars == <<state, known, cells, view, pc, current, result, round, popped>>

Thread == Pusher \cup Popper
Cell == 1 .. Cap
Datum == Pusher \X (0 .. Rounds)
Uninitialised == << >>
State == [count : 0 .. Cap, pending : BOOLEAN]

Later(f, g) == [c \in Cell |-> IF f[c] < g[c] THEN g[c] ELSE f[c]]

Init ==
  /\ state = [count |-> 0, pending |-> FALSE]
  /\ known = [c \in Cell |-> 1]
  /\ cells = [c \in Cell |-> << Uninitialised >>]
  /\ view = [t \in Thread |-> known]
  /\ pc = [t \in Thread |-> "idle"]
  /\ current = [t \in Thread |-> state]
  /\ result = [t \in Thread |-> << >>]
  /\ round = [t \in Thread |-> 0]
  /\ popped = [t \in Thread |-> << >>]

(* state_.load(acquire). *)
LoadAcquire(t) ==
  /\ current' = [current EXCEPT ![t] = state]
  /\ view' = [view EXCEPT ![t] = Later(@, known)]

(* push() or pop() is called: its first load. *)
Call(t) ==
  /\ pc[t] = "idle"
  /\ round[t] < Rounds
  /\ LoadAcquire(t)
  /\ pc' = [pc EXCEPT ![t] = "try"]
  /\ UNCHANGED <<state, known, cells, result, round, popped>>

(* Mutant of Spin: tests the value it has for ever. *)
SpinBlind(t) ==
  /\ pc[t] = "try"
  /\ current[t].pending
  /\ UNCHANGED vars

(* Another thread holds the pending bit: yield and load again. *)
Spin(t) ==
  /\ pc[t] = "try"
  /\ current[t].pending
  /\ LoadAcquire(t)
  /\ UNCHANGED <<state, known, cells, pc, result, round, popped>>

(* Mutant of Refused: a stack of capacity_ items takes one more. *)
RefusedLate(t) == current[t].count = IF t \in Pusher THEN Cap + 1 ELSE 0

(* push() of a full stack returns false, pop() of an empty one nothing. *)
Refused(t) == current[t].count = IF t \in Pusher THEN Cap ELSE 0

Return(t) ==
  /\ pc[t] = "try"
  /\ ~current[t].pending
  /\ Refused(t)
  /\ pc' = [pc EXCEPT ![t] = "idle"]
  /\ UNCHANGED <<state, known, cells, view, current, result, round, popped>>

Ready(t) == pc[t] = "try" /\ ~current[t].pending /\ ~Refused(t)

(* The count after the call of t. *)
NewCount(t) == IF t \in Pusher THEN current[t].count + 1 ELSE current[t].count - 1

(* Mutant of Acquire: a plain store, which does not compare. *)
AcquireBlind(t) ==
  /\ Ready(t)
  /\ state' = [count |-> NewCount(t), pending |-> TRUE]
  /\ pc' = [pc EXCEPT ![t] = "access"]
  /\ UNCHANGED <<known, cells, view, current, result, round, popped>>

(* compare_exchange_weak() succeeds.  It is a relaxed read-modify-write, so
   what state_ publishes stays published.                                  *)
Acquire(t) ==
  /\ Ready(t)
  /\ current[t] = state
  /\ state' = [count |-> NewCount(t), pending |-> TRUE]
  /\ pc' = [pc EXCEPT ![t] = "access"]
  /\ view' = IF Fenced THEN [view EXCEPT ![t] = Later(@, known)] ELSE view
  /\ UNCHANGED <<known, cells, current, result, round, popped>>

(* compare_exchange_weak() fails, because state_ has changed or for no reason;
   it loads state_ with relaxed order.                                     *)
CasFails(t) ==
  /\ Ready(t)
  /\ current' = [current EXCEPT ![t] = state]
  /\ UNCHANGED <<state, known, cells, view, pc, result, round, popped>>

(* push(): data_[count] = item. *)
WriteCell(t) ==
  /\ pc[t] = "access"
  /\ t \in Pusher
  /\ LET c == current[t].count + 1
     IN  /\ cells' = [cells EXCEPT ![c] = Append(@, <<t, round[t]>>)]
         /\ view' = [view EXCEPT ![t][c] = Len(cells[c]) + 1]
  /\ pc' = [pc EXCEPT ![t] = "release"]
  /\ UNCHANGED <<state, known, current, result, round, popped>>

(* pop(): result = data_[count - 1]. *)
ReadCell(t) ==
  /\ pc[t] = "access"
  /\ t \in Popper
  /\ LET c == current[t].count
     IN  \E w \in view[t][c] .. Len(cells[c]) :
           /\ result' = [result EXCEPT ![t] = << cells[c][w] >>]
           /\ view' = [view EXCEPT ![t][c] = w]
  /\ pc' = [pc EXCEPT ![t] = "release"]
  /\ UNCHANGED <<state, known, cells, current, round, popped>>

(* Mutant of Release: the store is relaxed. *)
ReleaseRelaxed(t) ==
  /\ pc[t] = "release"
  /\ state' = [count |-> NewCount(t), pending |-> FALSE]
  /\ popped' = [popped EXCEPT ![t] = @ \o result[t]]
  /\ result' = [result EXCEPT ![t] = << >>]
  /\ round' = [round EXCEPT ![t] = @ + 1]
  /\ pc' = [pc EXCEPT ![t] = "idle"]
  /\ UNCHANGED <<known, cells, view, current>>

(* state_.store(new count, release), and the call returns. *)
Release(t) ==
  /\ pc[t] = "release"
  /\ state' = [count |-> NewCount(t), pending |-> FALSE]
  /\ known' = view[t]
  /\ popped' = [popped EXCEPT ![t] = @ \o result[t]]
  /\ result' = [result EXCEPT ![t] = << >>]
  /\ round' = [round EXCEPT ![t] = @ + 1]
  /\ pc' = [pc EXCEPT ![t] = "idle"]
  /\ UNCHANGED <<cells, view, current>>

Step(t) ==
  \/ Call(t) \/ Spin(t) \/ Return(t) \/ Acquire(t) \/ CasFails(t)
  \/ WriteCell(t) \/ ReadCell(t) \/ Release(t)

(* The test joins its threads and ends. *)
Finished == \A t \in Thread : round[t] = Rounds

Next == (\E t \in Thread : Step(t)) \/ (Finished /\ UNCHANGED vars)

Spec == Init /\ [][Next]_vars

(* Every thread is scheduled for ever, and a compare-exchange that could
   succeed does not fail for ever for no reason.  Nobody else is favoured: a
   thread may lose the exchange as often as another call succeeds.         *)
FairSpec ==
  /\ Spec
  /\ \A t \in Thread : WF_vars(Step(t)) /\ WF_vars(Acquire(t))

-----------------------------------------------------------------------------
TypeOK ==
  /\ state \in State
  /\ DOMAIN known = Cell
  /\ DOMAIN cells = Cell
  /\ \A c \in Cell : /\ \A w \in 2 .. Len(cells[c]) : cells[c][w] \in Datum
                     /\ known[c] \in 1 .. Len(cells[c])
                     /\ \A t \in Thread : view[t][c] \in 1 .. Len(cells[c])
  /\ pc \in [Thread -> {"idle", "try", "access", "release"}]
  /\ current \in [Thread -> State]
  /\ \A t \in Thread : result[t] # << >> => pc[t] = "release" /\ t \in Popper
  /\ round \in [Thread -> 0 .. Rounds]
  /\ \A t \in Thread : Len(popped[t]) <= round[t]

Owners == {t \in Thread : pc[t] \in {"access", "release"}}

(* The pending bit is a lock: one thread holds it while the bit is set, nobody
   while it is not, and the word its owner is going to store is the one it took
   the lock with, without the bit.  So neither a stale current_state nor one
   that has come back to an old value lets a second thread in.             *)
PendingIsLock ==
  /\ state.pending = (Owners # {})
  /\ \A t, u \in Owners : t = u
  /\ \A t \in Owners : state.count = NewCount(t)

(* The items a client would find, until the release that ends a call. *)
Size == IF Owners = {} THEN state.count
        ELSE LET t == CHOOSE t \in Owners : TRUE IN current[t].count
Newest(c) == cells[c][Len(cells[c])]

Abstract == INSTANCE Lifo WITH Item <- Datum, items <- [c \in 1 .. Size |-> Newest(c)]

(* The stack implements Lifo: each call takes effect with its release store,
   no item is lost or popped twice, and the order is last in, first out.   *)
Refinement == Abstract!LSpec

(* What lockfree_stack_test() waits for and asserts: all threads are joined, and
   the stack is empty.                                                     *)
TestEnds == <>(Finished /\ state = [count |-> 0, pending |-> FALSE])

(* "This write is protected: No pop will read from this slot while the pending
   bit is set" (line 135): a pop reads the item that was pushed last to its
   cell.                                                                   *)
ReadsNewest ==
  \A t \in Popper : pc[t] = "release" => result[t] = << Newest(current[t].count) >>
=============================================================================
