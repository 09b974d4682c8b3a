------------------------ MODULE StackQueue_proofs ------------------------
(***************************************************************************)
(* Proofs about LockFreeStack, for every set of threads, every capacity    *)
(* and every number of rounds: the pending bit is a lock whatever the      *)
(* memory order, and the stack implements Lifo where the exchange orders   *)
(* memory (Fenced).  The second part is about Queue alone, for every       *)
(* capacity it starts with and every length: it is a first-in-first-out    *)
(* queue, whatever wraps around and whenever its array doubles.            *)
(***************************************************************************)
EXTENDS LockFreeStack, Queue, FiniteSetTheorems, SequenceTheorems, TLAPS

(* What a cell can hold. *)
Value == Datum \cup {Uninitialised}

(* Types, in the form that says that each variable is a function. *)
ShapeInv ==
  /\ state \in State
  /\ known \in [Cell -> Nat]
  /\ cells \in [Cell -> Seq(Value)]
  /\ view \in [Thread -> [Cell -> Nat]]
  /\ pc \in [Thread -> {"idle", "try", "access", "release"}]
  /\ current \in [Thread -> State]
  /\ result \in [Thread -> Seq(Value)]
  /\ round \in [Thread -> 0 .. Rounds]
  /\ popped \in [Thread -> Seq(Value)]

(* The word a thread took the lock with had no pending bit, and the call was
   not refused: the count it is going to store is in range.                *)
LockInv ==
  /\ PendingIsLock
  /\ \A t \in Owners : ~current[t].pending /\ ~Refused(t)

(* What is published and what a thread knows was written; what was written
   after malloc() are items.                                               *)
CellInv ==
  \A c \in Cell :
    /\ known[c] \in 1 .. Len(cells[c])
    /\ \A t \in Thread : view[t][c] \in 1 .. Len(cells[c])
    /\ \A w \in 2 .. Len(cells[c]) : cells[c][w] \in Datum

(* A thread has a result exactly between the read of pop() and its return, and
   has popped at most one item a round.                                    *)
ResultInv ==
  \A t \in Thread :
    /\ IF pc[t] = "release" /\ t \in Popper
       THEN Len(result[t]) = 1 ELSE result[t] = << >>
    /\ pc[t] # "idle" => round[t] < Rounds
    /\ Len(popped[t]) <= round[t]

IInv == ShapeInv /\ LockInv /\ CellInv /\ ResultInv

-----------------------------------------------------------------------------
(* Where the exchange orders memory: state_ publishes everything while nobody
   holds the lock, and the thread that holds it knows everything.          *)
PublishInv ==
  /\ Owners = {} => \A c \in Cell : known[c] = Len(cells[c])
  /\ \A t \in Owners : \A c \in Cell : view[t][c] = Len(cells[c])

(* The cells below the count hold items, and so does the cell a push has just
   written.                                                                *)
FilledInv ==
  /\ \A c \in 1 .. Size : Len(cells[c]) >= 2
  /\ \A t \in Pusher : pc[t] = "release" => Len(cells[current[t].count + 1]) >= 2

(* A pop has read what was written last. *)
NewestInv ==
  \A t \in Popper : pc[t] = "release" => result[t] = << Newest(current[t].count) >>

FInv == IInv /\ PublishInv /\ FilledInv /\ NewestInv

-----------------------------------------------------------------------------
(* Types: the initial states and each step. *)
LEMMA ThreadParts ==
  /\ \A t \in Thread : t \in Pusher \/ t \in Popper
  /\ \A t \in Pusher : t \in Thread /\ t \notin Popper
  /\ \A t \in Popper : t \in Thread /\ t \notin Pusher
  BY StackAssumption DEF Thread

LEMMA LaterType ==
  ASSUME NEW f \in [Cell -> Nat], NEW g \in [Cell -> Nat]
  PROVE  /\ Later(f, g) \in [Cell -> Nat]
         /\ \A c \in Cell : Later(f, g)[c] = IF f[c] < g[c] THEN g[c] ELSE f[c]
  BY DEF Later

(* The count a thread may store is in range, and so is the cell it accesses. *)
LEMMA CountRange ==
  ASSUME NEW t \in Thread, current[t] \in State, ~Refused(t)
  PROVE  /\ NewCount(t) \in 0 .. Cap
         /\ t \in Pusher => current[t].count + 1 \in Cell
         /\ t \in Popper => current[t].count \in Cell
  BY StackAssumption, ThreadParts DEF State, Refused, NewCount, Cell

LEMMA ShapeInit == Init => ShapeInv
  <1> SUFFICES ASSUME Init
               PROVE  ShapeInv
    OBVIOUS
  <1>1. [count |-> 0, pending |-> FALSE] \in State
    BY StackAssumption DEF State
  <1>2. << Uninitialised >> \in Seq(Value) /\ << >> \in Seq(Value)
    BY DEF Value
  <1>3. 0 \in 0 .. Rounds
    BY StackAssumption
  <1>4. QED
    BY <1>1, <1>2, <1>3 DEF Init, ShapeInv

LEMMA ShapeNext == IInv /\ [Next]_vars => ShapeInv'
  <1> SUFFICES ASSUME IInv, [Next]_vars
               PROVE  ShapeInv'
    OBVIOUS
  <1>0. ShapeInv
    BY DEF IInv
  <1>1. ASSUME NEW t \in Thread, LoadAcquire(t)
        PROVE  /\ current' \in [Thread -> State]
               /\ view' \in [Thread -> [Cell -> Nat]]
    BY <1>0, <1>1, LaterType DEF LoadAcquire, ShapeInv
  <1>2. ASSUME NEW t \in Thread, Call(t)
        PROVE  ShapeInv'
    BY <1>0, <1>1, <1>2 DEF Call, ShapeInv
  <1>3. ASSUME NEW t \in Thread, Spin(t)
        PROVE  ShapeInv'
    BY <1>0, <1>1, <1>3 DEF Spin, ShapeInv
  <1>4. ASSUME NEW t \in Thread, Return(t)
        PROVE  ShapeInv'
    BY <1>0, <1>4 DEF Return, ShapeInv
  <1>5. ASSUME NEW t \in Thread, Acquire(t)
        PROVE  ShapeInv'
    <2>1. state' \in State
      BY <1>0, <1>5, CountRange DEF Acquire, Ready, ShapeInv, State
    <2>2. view' \in [Thread -> [Cell -> Nat]]
      BY <1>0, <1>5, LaterType DEF Acquire, ShapeInv
    <2>3. QED
      BY <1>0, <1>5, <2>1, <2>2 DEF Acquire, ShapeInv
  <1>6. ASSUME NEW t \in Thread, CasFails(t)
        PROVE  ShapeInv'
    BY <1>0, <1>6 DEF CasFails, ShapeInv
  <1>7. ASSUME NEW t \in Thread, WriteCell(t)
        PROVE  ShapeInv'
    <2> DEFINE c == current[t].count + 1
    <2>1. c \in Cell
      BY <1>0, <1>7, CountRange DEF WriteCell, IInv, LockInv, Owners, ShapeInv
    <2>2. <<t, round[t]>> \in Value
      BY <1>0, <1>7 DEF WriteCell, ShapeInv, Value, Datum
    <2>3. Append(cells[c], <<t, round[t]>>) \in Seq(Value) /\ Len(cells[c]) \in Nat
      BY <1>0, <2>1, <2>2 DEF ShapeInv
    <2>4. cells' \in [Cell -> Seq(Value)]
      BY <1>0, <1>7, <2>1, <2>3 DEF WriteCell, ShapeInv
    <2>5. view' \in [Thread -> [Cell -> Nat]]
      BY <1>0, <1>7, <2>1, <2>3 DEF WriteCell, ShapeInv
    <2>6. QED
      BY <1>0, <1>7, <2>4, <2>5 DEF WriteCell, ShapeInv
  <1>8. ASSUME NEW t \in Thread, ReadCell(t)
        PROVE  ShapeInv'
    <2> DEFINE c == current[t].count
    <2>1. c \in Cell
      BY <1>0, <1>8, CountRange DEF ReadCell, IInv, LockInv, Owners, ShapeInv
    <2>2. view[t][c] \in 1 .. Len(cells[c])
      BY <2>1 DEF IInv, CellInv
    <2>3. PICK w \in view[t][c] .. Len(cells[c]) :
            /\ result' = [result EXCEPT ![t] = << cells[c][w] >>]
            /\ view' = [view EXCEPT ![t][c] = w]
      BY <1>8 DEF ReadCell
    <2>4. w \in 1 .. Len(cells[c]) /\ w \in Nat
      BY <2>2, <2>3
    <2>5. cells[c] \in Seq(Value)
      BY <1>0, <2>1 DEF ShapeInv
    <2>6. << cells[c][w] >> \in Seq(Value)
      BY <2>4, <2>5
    <2>7. QED
      BY <1>0, <1>8, <2>1, <2>3, <2>4, <2>6 DEF ReadCell, ShapeInv
  <1>9. ASSUME NEW t \in Thread, Release(t)
        PROVE  ShapeInv'
    <2>1. state' \in State
      BY <1>0, <1>9, CountRange DEF Release, IInv, LockInv, Owners, ShapeInv, State
    <2>2. round[t] + 1 \in 0 .. Rounds
      <3>1. round[t] < Rounds
        BY <1>9 DEF Release, IInv, ResultInv
      <3>2. round[t] \in 0 .. Rounds
        BY <1>0 DEF ShapeInv
      <3>3. QED
        BY <3>1, <3>2, StackAssumption
    <2>3. popped[t] \o result[t] \in Seq(Value) /\ << >> \in Seq(Value)
      BY <1>0 DEF ShapeInv
    <2>4. QED
      BY <1>0, <1>9, <2>1, <2>2, <2>3 DEF Release, ShapeInv
  <1>10. CASE UNCHANGED vars
    BY <1>0, <1>10 DEF vars, ShapeInv
  <1>11. QED
    BY <1>2, <1>3, <1>4, <1>5, <1>6, <1>7, <1>8, <1>9, <1>10 DEF Next, Step

-----------------------------------------------------------------------------
(* The lock.  A step that neither takes nor releases it leaves its owner and
   the word the owner took it with alone.                                  *)
LEMMA LockKept ==
  ASSUME IInv, UNCHANGED state, Owners' = Owners,
         \A u \in Owners : current'[u] = current[u]
  PROVE  LockInv'
  <1>1. LockInv
    BY DEF IInv
  <1>2. \A u \in Owners : NewCount(u)' = NewCount(u) /\ Refused(u)' = Refused(u)
    BY DEF NewCount, Refused
  <1>3. PendingIsLock'
    BY <1>1, <1>2 DEF LockInv, PendingIsLock
  <1>4. \A u \in Owners' : ~current'[u].pending /\ ~Refused(u)'
    BY <1>1, <1>2 DEF LockInv
  <1>5. QED
    BY <1>3, <1>4 DEF LockInv

LEMMA LockInit == Init => LockInv
  <1> SUFFICES ASSUME Init
               PROVE  LockInv
    OBVIOUS
  <1>1. Owners = {}
    BY DEF Init, Owners
  <1>2. state.pending = FALSE
    BY DEF Init
  <1>3. QED
    BY <1>1, <1>2 DEF LockInv, PendingIsLock

LEMMA OutsideKept ==
  ASSUME IInv, NEW t \in Thread, t \notin Owners, UNCHANGED state,
         \/ UNCHANGED pc
         \/ pc' = [pc EXCEPT ![t] = "try"] \/ pc' = [pc EXCEPT ![t] = "idle"],
         UNCHANGED current \/ current' = [current EXCEPT ![t] = state]
  PROVE  Owners' = Owners /\ LockInv'
  <1>1. pc \in [Thread -> {"idle", "try", "access", "release"}]
        /\ current \in [Thread -> State]
    BY DEF IInv, ShapeInv
  <1>2. Owners' = Owners
    BY <1>1 DEF Owners
  <1>3. \A u \in Owners : current'[u] = current[u]
    BY <1>1 DEF Owners
  <1>4. QED
    BY <1>2, <1>3, LockKept

LEMMA LockNext == IInv /\ [Next]_vars => LockInv'
  <1> SUFFICES ASSUME IInv, [Next]_vars
               PROVE  LockInv'
    OBVIOUS
  <1>0. /\ ShapeInv /\ LockInv
        /\ pc \in [Thread -> {"idle", "try", "access", "release"}]
        /\ current \in [Thread -> State]
    BY DEF IInv, ShapeInv
  <1>1. ASSUME NEW t \in Thread,
               Call(t) \/ Spin(t) \/ Return(t) \/ CasFails(t)
        PROVE  LockInv'
    <2>1. t \notin Owners
      BY <1>1 DEF Owners, Call, Spin, Return, CasFails, Ready
    <2>2. QED
      BY <1>1, <2>1, OutsideKept DEF Call, Spin, Return, CasFails, LoadAcquire
  <1>2. ASSUME NEW t \in Thread, WriteCell(t) \/ ReadCell(t)
        PROVE  LockInv'
    <2>1. Owners' = Owners
      BY <1>0, <1>2 DEF Owners, WriteCell, ReadCell
    <2>2. QED
      BY <1>2, <2>1, LockKept DEF WriteCell, ReadCell
  <1>3. ASSUME NEW t \in Thread, Acquire(t)
        PROVE  LockInv'
    <2>1. Owners = {}
      BY <1>0, <1>3 DEF LockInv, PendingIsLock, Acquire, Ready
    <2>2. Owners' = {t}
      BY <1>0, <1>3, <2>1 DEF Owners, Acquire
    <2>3. state' = [count |-> NewCount(t), pending |-> TRUE] /\ current' = current
      BY <1>3 DEF Acquire
    <2>4. ~current[t].pending /\ ~Refused(t)
      BY <1>3 DEF Acquire, Ready
    <2>5. PendingIsLock'
      BY <2>2, <2>3 DEF PendingIsLock, NewCount
    <2>6. QED
      BY <2>2, <2>3, <2>4, <2>5 DEF LockInv, Refused
  <1>4. ASSUME NEW t \in Thread, Release(t)
        PROVE  LockInv'
    <2>1. Owners = {t}
      BY <1>0, <1>4 DEF Owners, LockInv, PendingIsLock, Release
    <2>2. Owners' = {}
      BY <1>0, <1>4, <2>1 DEF Owners, Release
    <2>3. QED
      BY <1>4, <2>2 DEF LockInv, PendingIsLock, Release
  <1>5. CASE UNCHANGED vars
    BY <1>0, <1>5 DEF vars, LockInv, PendingIsLock, Owners, NewCount, Refused
  <1>6. QED
    BY <1>1, <1>2, <1>3, <1>4, <1>5 DEF Next, Step

-----------------------------------------------------------------------------
(* The cells. *)
LEMMA CellInit == Init => CellInv
  BY DEF Init, CellInv, Cell

(* Learning what is published, or publishing what one knows, keeps CellInv. *)
LEMMA CellKept ==
  ASSUME IInv, ShapeInv', UNCHANGED cells,
         \A c \in Cell : known'[c] = known[c] \/ \E t \in Thread : known'[c] = view[t][c],
         \A c \in Cell : \A t \in Thread :
           view'[t][c] = view[t][c] \/ view'[t][c] = known[c]
  PROVE  CellInv'
  BY DEF IInv, CellInv

LEMMA CellNext == IInv /\ ShapeInv' /\ [Next]_vars => CellInv'
  <1> SUFFICES ASSUME IInv, ShapeInv', [Next]_vars
               PROVE  CellInv'
    OBVIOUS
  <1>0. ShapeInv /\ LockInv /\ CellInv
    BY DEF IInv
  <1>1. ASSUME NEW t \in Thread, view' = [view EXCEPT ![t] = Later(@, known)],
               UNCHANGED <<cells, known>>
        PROVE  CellInv'
    <2>1. \A u \in Thread \ {t} : view'[u] = view[u]
      BY <1>0, <1>1 DEF ShapeInv
    <2>2. view'[t] = Later(view[t], known)
      BY <1>0, <1>1 DEF ShapeInv
    <2>3. \A c \in Cell : view'[t][c] = view[t][c] \/ view'[t][c] = known[c]
      <3>1. view[t] \in [Cell -> Nat] /\ known \in [Cell -> Nat]
        BY <1>0 DEF ShapeInv
      <3>2. QED
        BY <2>2, <3>1, LaterType
    <2>4. QED
      BY <1>1, <2>1, <2>3, CellKept
  <1>2. ASSUME UNCHANGED <<cells, known, view>>
        PROVE  CellInv'
    BY <1>0, <1>2 DEF CellInv
  <1>3. ASSUME NEW t \in Thread, WriteCell(t)
        PROVE  CellInv'
    <2> DEFINE c == current[t].count + 1
               x == <<t, round[t]>>
    <2>1. c \in Cell
      BY <1>0, <1>3, CountRange DEF WriteCell, LockInv, Owners, ShapeInv
    <2>2. x \in Datum
      BY <1>0, <1>3 DEF WriteCell, ShapeInv, Datum
    <2>3. cells[c] \in Seq(Value) /\ Len(cells[c]) \in Nat /\ x \in Value
      BY SMTT(30), <1>0, <2>1, <2>2 DEF ShapeInv, Value
    <2>4. /\ Len(Append(cells[c], x)) = Len(cells[c]) + 1
          /\ \A w \in 1 .. Len(cells[c]) : Append(cells[c], x)[w] = cells[c][w]
          /\ Append(cells[c], x)[Len(cells[c]) + 1] = x
      BY <2>3
    <2>5. \A w \in 2 .. Len(Append(cells[c], x)) : Append(cells[c], x)[w] \in Datum
      BY SMTT(30), <1>0, <2>1, <2>2, <2>3, <2>4 DEF CellInv
    <2>6. /\ cells'[c] = Append(cells[c], x)
          /\ \A d \in Cell \ {c} : cells'[d] = cells[d]
      BY <1>0, <1>3, <2>1 DEF WriteCell, ShapeInv
    <2>7. /\ view'[t][c] = Len(cells[c]) + 1
          /\ \A u \in Thread, d \in Cell : u # t \/ d # c => view'[u][d] = view[u][d]
          /\ known' = known
      BY <1>0, <1>3, <2>1 DEF WriteCell, ShapeInv
    <2>8. ASSUME NEW d \in Cell
          PROVE  /\ known'[d] \in 1 .. Len(cells'[d])
                 /\ \A u \in Thread : view'[u][d] \in 1 .. Len(cells'[d])
                 /\ \A w \in 2 .. Len(cells'[d]) : cells'[d][w] \in Datum
      <3>1. CASE d # c
        BY <1>0, <2>6, <2>7, <3>1 DEF CellInv
      <3>2. CASE d = c
        <4>1. Len(cells'[c]) = Len(cells[c]) + 1
          BY <2>4, <2>6
        <4>2. known'[c] \in 1 .. Len(cells'[c])
          BY <1>0, <2>1, <2>3, <2>7, <4>1 DEF CellInv
        <4>3. \A u \in Thread : view'[u][c] \in 1 .. Len(cells'[c])
          BY SMTT(30), <1>0, <2>1, <2>3, <2>7, <4>1 DEF CellInv
        <4>4. QED
          BY <2>5, <2>6, <3>2, <4>2, <4>3
      <3>3. QED
        BY <3>1, <3>2
    <2>9. QED
      BY <2>8 DEF CellInv
  <1>4. ASSUME NEW t \in Thread, ReadCell(t)
        PROVE  CellInv'
    <2> DEFINE c == current[t].count
    <2>1. c \in Cell
      BY <1>0, <1>4, CountRange DEF ReadCell, LockInv, Owners, ShapeInv
    <2>2. PICK w \in view[t][c] .. Len(cells[c]) : view' = [view EXCEPT ![t][c] = w]
      BY <1>4 DEF ReadCell
    <2>3. cells[c] \in Seq(Value) /\ Len(cells[c]) \in Nat
      BY <1>0, <2>1 DEF ShapeInv
    <2>4. w \in 1 .. Len(cells[c])
      BY <1>0, <2>1, <2>2, <2>3 DEF CellInv
    <2>5. /\ view'[t][c] = w
          /\ \A u \in Thread, d \in Cell : u # t \/ d # c => view'[u][d] = view[u][d]
      BY <1>0, <2>1, <2>2 DEF ShapeInv
    <2>6. \A u \in Thread, d \in Cell : view'[u][d] \in 1 .. Len(cells[d])
      BY <1>0, <2>4, <2>5 DEF CellInv
    <2>7. UNCHANGED <<cells, known>>
      BY <1>4 DEF ReadCell
    <2>8. QED
      BY <1>0, <2>6, <2>7 DEF CellInv
  <1>5. ASSUME NEW t \in Thread, Release(t)
        PROVE  CellInv'
    BY <1>5, CellKept DEF Release
  <1>6. CASE UNCHANGED vars
    BY <1>2, <1>6 DEF vars
  <1>7. ASSUME NEW t \in Thread, Step(t)
        PROVE  CellInv'
    BY <1>1, <1>2, <1>3, <1>4, <1>5, <1>7
       DEF Step, Call, Spin, Return, Acquire, CasFails, LoadAcquire
  <1>8. QED
    BY <1>6, <1>7 DEF Next

-----------------------------------------------------------------------------
(* The results. *)
LEMMA ResultInit == Init => ResultInv
  <1> SUFFICES ASSUME Init, NEW t \in Thread
               PROVE  /\ result[t] = << >> /\ pc[t] = "idle"
                      /\ Len(popped[t]) <= round[t]
    BY DEF ResultInv
  <1>1. popped[t] = << >> /\ round[t] = 0 /\ Len(<< >>) = 0
    BY DEF Init
  <1>2. QED
    BY <1>1 DEF Init

LEMMA ResultNext == IInv /\ ShapeInv' /\ [Next]_vars => ResultInv'
  <1> SUFFICES ASSUME IInv, ShapeInv', [Next]_vars
               PROVE  ResultInv'
    OBVIOUS
  <1>0. ShapeInv /\ ResultInv
    BY DEF IInv
  <1>1. ASSUME NEW t \in Thread, UNCHANGED <<result, round, popped>>,
               pc' = [pc EXCEPT ![t] = pc'[t]],
               pc[t] # "release", pc'[t] # "release",
               pc'[t] # "idle" => round[t] < Rounds
        PROVE  ResultInv'
    BY <1>0, <1>1 DEF ResultInv, ShapeInv
  <1>2. ASSUME NEW t \in Thread, Call(t)
        PROVE  ResultInv'
    <2>1. pc'[t] = "try" /\ pc' = [pc EXCEPT ![t] = pc'[t]]
      BY <1>0, <1>2 DEF Call, ShapeInv
    <2>2. QED
      BY <1>1, <1>2, <2>1 DEF Call
  <1>3. ASSUME NEW t \in Thread, Spin(t) \/ Return(t) \/ CasFails(t)
        PROVE  ResultInv'
    <2>1. pc[t] = "try" /\ pc'[t] \in {"try", "idle"} /\ pc' = [pc EXCEPT ![t] = pc'[t]]
      BY <1>0, <1>3 DEF Spin, Return, CasFails, Ready, ShapeInv
    <2>2. round[t] < Rounds
      BY <1>0, <2>1 DEF ResultInv
    <2>3. QED
      BY <1>1, <1>3, <2>1, <2>2 DEF Spin, Return, CasFails
  <1>4. ASSUME NEW t \in Thread, Acquire(t)
        PROVE  ResultInv'
    <2>1. pc[t] = "try" /\ pc'[t] = "access" /\ pc' = [pc EXCEPT ![t] = pc'[t]]
      BY <1>0, <1>4 DEF Acquire, Ready, ShapeInv
    <2>2. round[t] < Rounds
      BY <1>0, <2>1 DEF ResultInv
    <2>3. QED
      BY <1>1, <1>4, <2>1, <2>2 DEF Acquire
  <1>5. ASSUME NEW t \in Thread, WriteCell(t)
        PROVE  ResultInv'
    <2>1. t \notin Popper
      BY <1>5, ThreadParts DEF WriteCell
    <2>2. QED
      BY SMTT(30), <1>0, <1>5, <2>1 DEF WriteCell, ResultInv, ShapeInv
  <1>6. ASSUME NEW t \in Thread, ReadCell(t)
        PROVE  ResultInv'
    <2>1. /\ Len(result'[t]) = 1
          /\ \A u \in Thread \ {t} : result'[u] = result[u]
      BY <1>0, <1>6 DEF ReadCell, ShapeInv
    <2>2. QED
      BY <1>0, <1>6, <2>1 DEF ReadCell, ResultInv, ShapeInv
  <1>7. ASSUME NEW t \in Thread, Release(t)
        PROVE  ResultInv'
    <2>1. /\ popped'[t] = popped[t] \o result[t]
          /\ result'[t] = << >> /\ pc'[t] = "idle" /\ round'[t] = round[t] + 1
          /\ \A u \in Thread \ {t} : /\ popped'[u] = popped[u] /\ result'[u] = result[u]
                                     /\ pc'[u] = pc[u] /\ round'[u] = round[u]
      BY <1>0, <1>7 DEF Release, ShapeInv
    <2>2. Len(result[t]) <= 1 /\ Len(result[t]) \in Nat /\ Len(popped[t]) \in Nat
      <3>1. result[t] \in Seq(Value) /\ popped[t] \in Seq(Value) /\ Len(<< >>) = 0
        BY <1>0 DEF ShapeInv
      <3>2. Len(result[t]) = 1 \/ result[t] = << >>
        BY <1>0, <1>7 DEF ResultInv, Release
      <3>3. Len(result[t]) \in Nat /\ Len(popped[t]) \in Nat
        BY <3>1
      <3>4. Len(result[t]) \in {0, 1}
        BY <3>1, <3>2, Zenon
      <3>5. \A l \in {0, 1} : l <= 1
        OBVIOUS
      <3>6. QED
        BY <3>3, <3>4, <3>5, Zenon
    <2>3. Len(popped'[t]) = Len(popped[t]) + Len(result[t])
      BY <1>0, <2>1 DEF ShapeInv
    <2>4. Len(popped[t]) <= round[t] /\ round[t] \in Nat
      BY <1>0, StackAssumption DEF ResultInv, ShapeInv
    <2>5. Len(popped'[t]) <= round'[t]
      <3>1. ASSUME NEW l \in Nat, NEW m \in Nat, NEW r \in Nat, l <= r, m <= 1
            PROVE  l + m <= r + 1
        BY <3>1
      <3>2. Len(popped[t]) + Len(result[t]) <= round[t] + 1
        BY <2>2, <2>4, <3>1
      <3>3. QED
        BY <2>1, <2>3, <3>2
    <2>6. QED
      BY <1>0, <2>1, <2>5 DEF ResultInv
  <1>8. CASE UNCHANGED vars
    BY <1>0, <1>8 DEF vars, ResultInv
  <1>9. ASSUME NEW t \in Thread, Step(t)
        PROVE  ResultInv'
    BY <1>2, <1>3, <1>4, <1>5, <1>6, <1>7, <1>9 DEF Step
  <1>10. QED
    BY <1>8, <1>9 DEF Next

-----------------------------------------------------------------------------
LEMMA InvInit == Init => IInv
  BY ShapeInit, LockInit, CellInit, ResultInit DEF IInv

LEMMA InvNext == IInv /\ [Next]_vars => IInv'
  BY ShapeNext, LockNext, CellNext, ResultNext DEF IInv

LEMMA InvCorrect == Spec => []IInv
  BY InvInit, InvNext, PTL DEF Spec

(* The pending bit is a lock, whatever the compare-exchange does to the order
   of memory: state_ alone decides who gets it.                            *)
THEOREM PendingExcludes == Spec => []PendingIsLock
  <1>1. IInv => PendingIsLock
    BY DEF IInv, LockInv
  <1>2. QED
    BY <1>1, InvCorrect, PTL

(* Each variable keeps its type: no index leaves the array, nobody reads a cell
   before the word says it may, and calls return what they popped.         *)
THEOREM TypeCorrect == Spec => []TypeOK
  <1>1. IInv => TypeOK
    <2> SUFFICES ASSUME IInv
                 PROVE  TypeOK
      OBVIOUS
    <2>1. ShapeInv /\ CellInv /\ ResultInv
      BY DEF IInv
    <2>2. DOMAIN known = Cell /\ DOMAIN cells = Cell
      BY <2>1 DEF ShapeInv
    <2>3. QED
      BY <2>1, <2>2 DEF ShapeInv, CellInv, ResultInv, TypeOK
  <1>2. QED
    BY <1>1, InvCorrect, PTL

-----------------------------------------------------------------------------
(* What the stack holds, by who holds the lock. *)
Items == [c \in 1 .. Size |-> Newest(c)]

LEMMA SizeOf ==
  ASSUME IInv
  PROVE  /\ Owners = {} => Size = state.count
         /\ \A t \in Owners : Size = current[t].count
         /\ Size \in 0 .. Cap
  <1>1. Owners = {} => Size = state.count
    BY DEF Size
  <1>2. ASSUME NEW t \in Owners
        PROVE  Size = current[t].count
    <2>1. \A u \in Owners : u = t
      BY DEF IInv, LockInv, PendingIsLock
    <2>2. (CHOOSE u \in Owners : TRUE) = t
      BY <2>1
    <2>3. QED
      BY <2>2 DEF Size
  <1>3. Size \in 0 .. Cap
    <2>1. state \in State /\ \A t \in Owners : current[t] \in State
      BY DEF IInv, ShapeInv, Owners
    <2>2. QED
      BY <1>1, <1>2, <2>1 DEF State
  <1>4. QED
    BY <1>1, <1>2, <1>3

LEMMA FencedInit == Init => PublishInv /\ FilledInv /\ NewestInv /\ Items = << >>
  <1> SUFFICES ASSUME Init
               PROVE  PublishInv /\ FilledInv /\ NewestInv /\ Items = << >>
    OBVIOUS
  <1>1. Owners = {} /\ \A t \in Thread : pc[t] = "idle"
    BY DEF Init, Owners
  <1>2. Size = 0
    BY <1>1, InvInit, SizeOf DEF Init
  <1>3. \A c \in Cell : known[c] = 1 /\ Len(cells[c]) = 1
    BY DEF Init
  <1>4. Items = << >>
    BY <1>2 DEF Items
  <1>5. PublishInv
    BY <1>1, <1>3 DEF PublishInv
  <1>6. FilledInv
    BY <1>1, <1>2, ThreadParts DEF FilledInv
  <1>7. NewestInv
    BY <1>1, ThreadParts DEF NewestInv
  <1>8. QED
    BY <1>4, <1>5, <1>6, <1>7

(* A step of a thread that does not hold the lock shows to nobody. *)
LEMMA OutsideStep ==
  ASSUME FInv, IInv', UNCHANGED <<state, known, cells, result, popped>>,
         Owners' = Owners,
         \A u \in Owners : /\ current'[u] = current[u]
                           /\ view'[u] = view[u]
                           /\ pc'[u] = pc[u]
  PROVE  FInv' /\ Items' = Items
  <1>1. Size' = Size
    <2>1. CASE Owners = {}
      BY <2>1 DEF Size
    <2>2. ASSUME NEW t \in Owners
          PROVE  Size' = Size
      <3>1. Size = current[t].count
        BY SizeOf DEF FInv
      <3>2. Size' = current'[t].count
        <4>1. \A u \in Owners' : u = t
          BY DEF FInv, IInv, LockInv, PendingIsLock
        <4>2. (CHOOSE u \in Owners' : TRUE) = t /\ Owners' # {}
          BY <4>1
        <4>3. QED
          BY <4>2 DEF Size
      <3>3. QED
        BY <3>1, <3>2
    <2>3. QED
      BY <2>1, <2>2
  <1>2. Items' = Items
    BY <1>1 DEF Items, Newest
  <1>3. \A t \in Thread : pc'[t] = "release" => t \in Owners /\ pc[t] = "release"
    BY DEF Owners
  <1>4. PublishInv'
    BY DEF FInv, PublishInv
  <1>5. FilledInv'
    BY <1>1, <1>3, ThreadParts DEF FInv, FilledInv
  <1>6. NewestInv'
    BY <1>3, ThreadParts DEF FInv, NewestInv, Newest
  <1>7. QED
    BY <1>2, <1>4, <1>5, <1>6 DEF FInv

(* The steps in which t neither takes the lock nor holds it. *)
OutsideKeeps(t) == Call(t) \/ Spin(t) \/ Return(t) \/ CasFails(t)

LEMMA OutsideLemma ==
  ASSUME FInv, IInv', NEW t \in Thread, OutsideKeeps(t)
  PROVE  FInv' /\ Items' = Items /\ popped' = popped
  <1>1. ShapeInv /\ t \notin Owners
    BY DEF FInv, IInv, Owners, OutsideKeeps, Call, Spin, Return, CasFails, Ready
  <1>2. UNCHANGED <<state, known, cells, result, popped>>
    BY DEF OutsideKeeps, Call, Spin, Return, CasFails
  <1>3. pc'[t] \in {"idle", "try"} /\ \A u \in Thread \ {t} : pc'[u] = pc[u]
    BY <1>1 DEF ShapeInv, OutsideKeeps, Call, Spin, Return, CasFails, Ready
  <1>4. Owners' = Owners
    BY <1>1, <1>3 DEF Owners
  <1>5. \A u \in Thread \ {t} : current'[u] = current[u] /\ view'[u] = view[u]
    BY <1>1 DEF ShapeInv, OutsideKeeps, Call, Spin, Return, CasFails, LoadAcquire
  <1>6. \A u \in Owners : u \in Thread \ {t}
    BY <1>1 DEF Owners
  <1>7. QED
    BY <1>2, <1>3, <1>4, <1>5, <1>6, OutsideStep

LEMMA AcquireStep ==
  ASSUME Fenced, FInv, IInv', NEW t \in Thread, Acquire(t)
  PROVE  FInv' /\ Items' = Items /\ popped' = popped
  <1>0. ShapeInv /\ CellInv /\ LockInv
    BY DEF FInv, IInv
  <1>1. Owners = {}
    BY <1>0 DEF LockInv, PendingIsLock, Acquire, Ready
  <1>2. Owners' = {t} /\ \A u \in Thread : pc'[u] # "release"
    BY <1>0, <1>1 DEF Owners, Acquire, ShapeInv
  <1>3. Size' = Size
    <2>1. Size = state.count
      BY <1>1, SizeOf DEF FInv
    <2>2. Size' = current'[t].count
      <3>1. (CHOOSE u \in Owners' : TRUE) = t /\ Owners' # {}
        BY <1>2
      <3>2. QED
        BY <3>1 DEF Size
    <2>3. QED
      BY <2>1, <2>2 DEF Acquire
  <1>4. Items' = Items /\ cells' = cells /\ popped' = popped
    BY <1>3 DEF Items, Newest, Acquire
  <1>5. PublishInv'
    <2>1. view'[t] = Later(view[t], known)
      BY <1>0 DEF Acquire, ShapeInv
    <2>2. view[t] \in [Cell -> Nat] /\ known \in [Cell -> Nat]
      BY <1>0 DEF ShapeInv
    <2>3. \A c \in Cell : view[t][c] <= Len(cells[c]) /\ known[c] = Len(cells[c])
      BY <1>0, <1>1 DEF CellInv, FInv, PublishInv
    <2>4. \A c \in Cell : view'[t][c] = Len(cells[c])
      <3>1. ASSUME NEW c \in Cell
            PROVE  view'[t][c] = Len(cells[c])
        <4>1. view'[t][c] = IF view[t][c] < known[c] THEN known[c] ELSE view[t][c]
          BY <2>1, <2>2, LaterType
        <4>2. view[t][c] \in Nat /\ known[c] \in Nat /\ view[t][c] <= known[c]
          BY <2>2, <2>3
        <4>3. view'[t][c] = known[c]
          BY <4>1, <4>2
        <4>4. QED
          BY <2>3, <4>3
      <3>2. QED
        BY <3>1
    <2>5. QED
      BY <1>2, <1>4, <2>4 DEF PublishInv
  <1>6. FilledInv' /\ NewestInv'
    BY <1>2, <1>3, <1>4, ThreadParts DEF FInv, FilledInv, NewestInv
  <1>7. QED
    BY <1>4, <1>5, <1>6 DEF FInv

(* The accesses to the array change nothing below the count. *)
LEMMA AccessStep ==
  ASSUME FInv, IInv', NEW t \in Thread, WriteCell(t) \/ ReadCell(t)
  PROVE  /\ Owners = {t} /\ Owners' = {t} /\ Size' = Size
         /\ Size = current[t].count
         /\ \A u \in Thread : pc'[u] = "release" => u = t
  <1>0. ShapeInv /\ LockInv
    BY DEF FInv, IInv
  <1>1. t \in Owners
    BY DEF Owners, WriteCell, ReadCell
  <1>2. Owners = {t}
    BY <1>0, <1>1 DEF LockInv, PendingIsLock
  <1>3. Owners' = {t}
    BY <1>0, <1>2 DEF Owners, WriteCell, ReadCell, ShapeInv
  <1>4. Size = current[t].count
    BY <1>1, SizeOf DEF FInv
  <1>5. Size' = current'[t].count
    <2>1. (CHOOSE u \in Owners' : TRUE) = t /\ Owners' # {}
      BY <1>3
    <2>2. QED
      BY <2>1 DEF Size
  <1>6. QED
    BY <1>2, <1>3, <1>4, <1>5 DEF Owners, WriteCell, ReadCell

LEMMA WriteStep ==
  ASSUME FInv, IInv', NEW t \in Thread, WriteCell(t)
  PROVE  FInv' /\ Items' = Items /\ popped' = popped
  <1> DEFINE c == current[t].count + 1
             x == <<t, round[t]>>
  <1>0. ShapeInv /\ CellInv
    BY DEF FInv, IInv
  <1>1. c \in Cell
    BY <1>0, CountRange DEF WriteCell, FInv, IInv, LockInv, Owners, ShapeInv
  <1>2. cells[c] \in Seq(Value) /\ Len(cells[c]) \in Nat /\ x \in Value
    BY SMTT(30), <1>0, <1>1 DEF ShapeInv, Value, WriteCell, Datum
  <1>3. /\ cells'[c] = Append(cells[c], x)
        /\ \A d \in Cell \ {c} : cells'[d] = cells[d]
    BY <1>0, <1>1 DEF WriteCell, ShapeInv
  <1>4. Len(cells'[c]) = Len(cells[c]) + 1
    BY <1>2, <1>3
  <1>5. /\ view'[t][c] = Len(cells[c]) + 1
        /\ \A d \in Cell \ {c} : view'[t][d] = view[t][d]
    BY <1>0, <1>1 DEF WriteCell, ShapeInv
  <1>6. Size \in 0 .. Cap /\ \A d \in 1 .. Size : d \in Cell \ {c}
    BY AccessStep, SizeOf, StackAssumption DEF FInv, Cell
  <1>7. Items' = Items
    BY <1>3, <1>6, AccessStep DEF Items, Newest
  <1>8. PublishInv'
    <2>1. ASSUME NEW d \in Cell
          PROVE  view'[t][d] = Len(cells'[d])
      <3>1. CASE d = c
        BY <1>4, <1>5, <3>1
      <3>2. CASE d # c
        BY <1>3, <1>5, <3>2, AccessStep DEF FInv, PublishInv
      <3>3. QED
        BY <3>1, <3>2
    <2>2. Owners' = {t}
      BY AccessStep
    <2>3. QED
      BY <2>1, <2>2 DEF PublishInv
  <1>9. FilledInv'
    <2>1. \A d \in 1 .. Size' : Len(cells'[d]) >= 2
      BY <1>3, <1>6, AccessStep DEF FInv, FilledInv
    <2>2. Len(cells'[c]) >= 2
      <3>1. Len(cells[c]) >= 1
        BY <1>0, <1>1, <1>2 DEF CellInv
      <3>2. QED
        BY <1>2, <1>4, <3>1
    <2>3. current' = current
      BY DEF WriteCell
    <2>4. QED
      BY <2>1, <2>2, <2>3, AccessStep, ThreadParts DEF FilledInv
  <1>10. NewestInv'
    BY AccessStep, ThreadParts DEF NewestInv, WriteCell
  <1>11. QED
    BY <1>7, <1>8, <1>9, <1>10 DEF FInv, WriteCell

LEMMA ReadStep ==
  ASSUME FInv, IInv', NEW t \in Thread, ReadCell(t)
  PROVE  FInv' /\ Items' = Items /\ popped' = popped
  <1> DEFINE c == current[t].count
  <1>0. ShapeInv /\ CellInv
    BY DEF FInv, IInv
  <1>1. c \in Cell
    BY <1>0, CountRange DEF ReadCell, FInv, IInv, LockInv, Owners, ShapeInv
  <1>2. view[t][c] = Len(cells[c]) /\ Len(cells[c]) \in Nat
    BY <1>0, <1>1, AccessStep DEF FInv, PublishInv, ShapeInv
  <1>3. PICK w \in view[t][c] .. Len(cells[c]) :
          /\ result' = [result EXCEPT ![t] = << cells[c][w] >>]
          /\ view' = [view EXCEPT ![t][c] = w]
    BY DEF ReadCell
  <1>4. w = Len(cells[c])
    BY <1>2, <1>3
  <1>5. \A d \in Cell : view'[t][d] = view[t][d]
    BY <1>0, <1>1, <1>2, <1>3, <1>4 DEF ShapeInv
  <1>6. result'[t] = << Newest(c) >>
    BY <1>0, <1>3, <1>4 DEF ShapeInv, Newest
  <1>7. UNCHANGED <<cells, current, popped>>
    BY DEF ReadCell
  <1>8. Items' = Items
    BY <1>7, AccessStep DEF Items, Newest
  <1>9. PublishInv'
    BY <1>5, <1>7, AccessStep DEF FInv, PublishInv
  <1>10. FilledInv'
    BY <1>7, AccessStep, ThreadParts DEF FInv, FilledInv, ReadCell
  <1>11. NewestInv'
    <2>1. result'[t] = << Newest(current[t].count) >>'
      BY <1>6, <1>7 DEF Newest
    <2>2. \A u \in Popper : pc'[u] = "release" => u = t
      BY AccessStep, ThreadParts
    <2>3. QED
      BY <2>1, <2>2 DEF NewestInv
  <1>12. QED
    BY <1>7, <1>8, <1>9, <1>10, <1>11 DEF FInv

(* The release store ends a push with one item more, a pop with one less. *)
LEMMA ItemsSeq ==
  ASSUME FInv
  PROVE  Items \in Seq(Value) /\ Len(Items) = Size /\ Size \in Nat
  <1>1. Size \in 0 .. Cap /\ \A c \in 1 .. Size : c \in Cell
    BY SizeOf, StackAssumption DEF FInv, Cell
  <1>2. \A c \in 1 .. Size : Newest(c) \in Value
    <2>1. ASSUME NEW c \in 1 .. Size
          PROVE  Newest(c) \in Value
      <3>1. cells[c] \in Seq(Value) /\ Len(cells[c]) >= 2 /\ Len(cells[c]) \in Nat
        BY <1>1 DEF FInv, FilledInv, IInv, ShapeInv
      <3>2. Len(cells[c]) \in 1 .. Len(cells[c])
        BY <3>1
      <3>3. QED
        BY <3>1, <3>2 DEF Newest
    <2>2. QED
      BY <2>1
  <1>3. Items \in [1 .. Size -> Value] /\ Size \in Nat
    BY <1>1, <1>2, StackAssumption DEF Items
  <1>4. QED
    BY <1>3

LEMMA ReleaseStep ==
  ASSUME FInv, IInv', NEW t \in Thread, Release(t)
  PROVE  /\ FInv' /\ UNCHANGED <<cells, current>>
         /\ Size = current[t].count /\ Size' = NewCount(t)
  <1>0. ShapeInv /\ LockInv /\ cells' = cells /\ current' = current
    BY DEF FInv, IInv, Release
  <1>1. Owners = {t}
    BY <1>0 DEF Owners, LockInv, PendingIsLock, Release
  <1>2. Owners' = {} /\ \A u \in Thread : pc'[u] # "release"
    BY <1>0, <1>1 DEF Owners, Release, ShapeInv
  <1>3. Size = current[t].count
    BY <1>1, SizeOf DEF FInv
  <1>4. Size' = NewCount(t)
    BY <1>2 DEF Size, Release
  <1>5. PublishInv'
    BY <1>0, <1>1, <1>2 DEF FInv, PublishInv, Release
  <1>6. FilledInv'
    <2>1. \A c \in 1 .. Size' : Len(cells[c]) >= 2
      <3>1. Size \in Nat
        BY SizeOf, StackAssumption DEF FInv
      <3>2. CASE t \in Pusher
        <4>1. Size' = Size + 1 /\ Len(cells[Size + 1]) >= 2
          BY <1>3, <1>4, <3>2 DEF NewCount, FInv, FilledInv, Release
        <4>2. \A c \in 1 .. Size + 1 : c \in 1 .. Size \/ c = Size + 1
          BY <3>1
        <4>3. QED
          BY <4>1, <4>2 DEF FInv, FilledInv
      <3>3. CASE t \notin Pusher
        <4>1. Size' = Size - 1
          BY <1>3, <1>4, <3>3 DEF NewCount
        <4>2. QED
          BY <3>1, <4>1 DEF FInv, FilledInv
      <3>4. QED
        BY <3>2, <3>3
    <2>2. QED
      BY <1>0, <1>2, <2>1, ThreadParts DEF FilledInv
  <1>7. NewestInv'
    BY <1>2, ThreadParts DEF NewestInv
  <1>8. QED
    BY <1>0, <1>3, <1>4, <1>5, <1>6, <1>7 DEF FInv

LEMMA FInvNext == Fenced => (FInv /\ [Next]_vars => FInv')
  <1> SUFFICES ASSUME Fenced, FInv, [Next]_vars
               PROVE  FInv'
    OBVIOUS
  <1>0. IInv' /\ ShapeInv
    BY InvNext DEF FInv, IInv
  <1>1. ASSUME NEW t \in Thread, Step(t)
        PROVE  FInv'
    <2>1. CASE OutsideKeeps(t)
      BY <1>0, <2>1, OutsideLemma
    <2>2. CASE Acquire(t)
      BY <1>0, <2>2, AcquireStep
    <2>3. CASE WriteCell(t)
      BY <1>0, <2>3, WriteStep
    <2>4. CASE ReadCell(t)
      BY <1>0, <2>4, ReadStep
    <2>5. CASE Release(t)
      BY <1>0, <2>5, ReleaseStep
    <2>6. QED
      BY <1>1, <2>1, <2>2, <2>3, <2>4, <2>5 DEF Step, OutsideKeeps
  <1>2. CASE UNCHANGED vars
    BY <1>0, <1>2, OutsideStep DEF vars, Owners
  <1>3. QED
    BY <1>1, <1>2 DEF Next

(* A push ends with one item on top, which nobody has popped. *)
LEMMA PushReleaseStep ==
  ASSUME FInv, IInv', NEW t \in Pusher, Release(t)
  PROVE  \E x \in Datum : /\ Len(Items) < Cap
                         /\ Items' = Append(Items, x)
                         /\ popped' = popped
  <1> DEFINE c == Size + 1
  <1>0. t \in Thread /\ ShapeInv /\ CellInv /\ LockInv /\ ResultInv
    BY ThreadParts DEF FInv, IInv
  <1>1. Size = current[t].count /\ Size' = Size + 1 /\ cells' = cells
    BY <1>0, ReleaseStep DEF NewCount
  <1>2. Items \in Seq(Value) /\ Len(Items) = Size /\ Size \in Nat
    BY ItemsSeq
  <1>3. Size < Cap /\ c \in Cell
    <2>1. current[t] \in State /\ ~Refused(t)
      BY <1>0 DEF ShapeInv, LockInv, Owners, Release
    <2>2. Size # Cap /\ Size \in 0 .. Cap
      BY <1>1, <2>1 DEF Refused, State
    <2>3. QED
      BY <2>2, StackAssumption DEF Cell
  <1>4. Newest(c) \in Datum
    <2>1. Len(cells[c]) >= 2
      BY <1>1 DEF FInv, FilledInv, Release
    <2>2. Len(cells[c]) \in Nat
      BY <1>0, <1>3 DEF ShapeInv
    <2>3. Len(cells[c]) \in 2 .. Len(cells[c])
      BY <2>1, <2>2
    <2>4. QED
      BY <1>0, <1>3, <2>3 DEF CellInv, Newest
  <1>5. Items' = Append(Items, Newest(c))
    <2>1. Items' = [d \in 1 .. Size + 1 |-> Newest(d)]
      BY <1>1 DEF Items, Newest
    <2>2. \A d \in 1 .. Size : Items[d] = Newest(d)
      BY DEF Items
    <2>3. Newest(c) \in Value
      BY <1>4 DEF Value
    <2>4. Append(Items, Newest(c)) = [d \in 1 .. Size + 1 |-> Newest(d)]
      BY <1>2, <2>2, <2>3
    <2>5. QED
      BY <2>1, <2>4
  <1>6. popped' = popped
    <2>1. result[t] = << >>
      BY <1>0, ThreadParts DEF ResultInv
    <2>2. popped[t] \in Seq(Value)
      BY <1>0 DEF ShapeInv
    <2>3. popped[t] \o result[t] = popped[t]
      BY <2>1, <2>2
    <2>4. QED
      BY <1>0, <2>3 DEF Release, ShapeInv
  <1>7. QED
    BY <1>2, <1>3, <1>4, <1>5, <1>6

(* A pop ends without the top item, which its thread has now popped. *)
LEMMA PopReleaseStep ==
  ASSUME FInv, IInv', NEW t \in Popper, Release(t)
  PROVE  /\ Items # << >>
         /\ Items' = SubSeq(Items, 1, Len(Items) - 1)
         /\ popped' = [popped EXCEPT ![t] = Append(@, Items[Len(Items)])]
  <1>0. t \in Thread /\ t \notin Pusher /\ ShapeInv /\ LockInv
    BY ThreadParts DEF FInv, IInv
  <1>1. Size = current[t].count /\ Size' = Size - 1 /\ cells' = cells
    BY <1>0, ReleaseStep DEF NewCount
  <1>2. Items \in Seq(Value) /\ Len(Items) = Size /\ Size \in Nat
    BY ItemsSeq
  <1>3. Size > 0
    <2>1. ~Refused(t)
      BY <1>0 DEF LockInv, Owners, Release
    <2>2. QED
      BY <1>0, <1>1, <1>2, <2>1 DEF Refused
  <1>4. Items' = SubSeq(Items, 1, Len(Items) - 1)
    <2>1. Items' = [d \in 1 .. Size - 1 |-> Newest(d)]
      BY <1>1 DEF Items, Newest
    <2>2. \A d \in 1 .. Size - 1 : Items[d] = Newest(d)
      BY <1>2 DEF Items
    <2>3. SubSeq(Items, 1, Size - 1) = [d \in 1 .. Size - 1 |-> Items[d]]
      BY <1>2, <1>3
    <2>4. QED
      BY <1>2, <2>1, <2>2, <2>3
  <1>5. popped' = [popped EXCEPT ![t] = Append(@, Items[Len(Items)])]
    <2>1. result[t] = << Newest(Size) >>
      BY <1>1 DEF FInv, NewestInv, Release
    <2>2. Items[Len(Items)] = Newest(Size) /\ Newest(Size) \in Value
      <3>1. Size \in 1 .. Size
        BY <1>2, <1>3
      <3>2. Items[Size] = Newest(Size)
        BY <3>1 DEF Items
      <3>3. Items[Size] \in Value
        BY <1>2, <3>1
      <3>4. QED
        BY <1>2, <3>2, <3>3
    <2>3. popped[t] \o << Newest(Size) >> = Append(popped[t], Newest(Size))
      BY <1>0, <2>2 DEF ShapeInv
    <2>4. QED
      BY <2>1, <2>2, <2>3 DEF Release
  <1>6. QED
    BY <1>2, <1>3, <1>4, <1>5

-----------------------------------------------------------------------------
LEMMA RefinesInit == Init => Abstract!LInit
  BY FencedInit DEF Init, Abstract!LInit, Items

LEMMA RefinesNext == Fenced /\ FInv /\ [Next]_vars => [Abstract!LNext]_(Abstract!lvars)
  <1> SUFFICES ASSUME Fenced, FInv, [Next]_vars
               PROVE  [Abstract!LNext]_(Abstract!lvars)
    OBVIOUS
  <1>0. IInv'
    BY InvNext DEF FInv
  <1>1. ASSUME Items' = Items, popped' = popped
        PROVE  [Abstract!LNext]_(Abstract!lvars)
    BY <1>1 DEF Abstract!lvars, Items
  <1>2. ASSUME NEW t \in Thread, Step(t)
        PROVE  [Abstract!LNext]_(Abstract!lvars)
    <2>1. CASE OutsideKeeps(t)
      BY <1>0, <1>1, <2>1, OutsideLemma
    <2>2. CASE Acquire(t)
      BY <1>0, <1>1, <2>2, AcquireStep
    <2>3. CASE WriteCell(t)
      BY <1>0, <1>1, <2>3, WriteStep
    <2>4. CASE ReadCell(t)
      BY <1>0, <1>1, <2>4, ReadStep
    <2>5. CASE Release(t) /\ t \in Pusher
      BY <1>0, <2>5, PushReleaseStep DEF Abstract!LNext, Abstract!LPush, Items
    <2>6. CASE Release(t) /\ t \in Popper
      BY <1>0, <2>6, PopReleaseStep DEF Abstract!LNext, Abstract!LPop, Items
    <2>7. QED
      BY <1>2, <2>1, <2>2, <2>3, <2>4, <2>5, <2>6, ThreadParts DEF Step, OutsideKeeps
  <1>3. CASE UNCHANGED vars
    <2>1. Items' = Items
      BY <1>3 DEF vars, Items, Size, Owners, Newest
    <2>2. QED
      BY <1>1, <1>3, <2>1 DEF vars
  <1>4. QED
    BY <1>2, <1>3 DEF Next

(* Where the compare-exchange orders memory, the stack is a Lifo: every push
   and pop takes effect at one moment, nothing is lost or popped twice, and
   what is popped is what was pushed last.                                 *)
THEOREM StackImplementsLifo == Fenced => (Spec => Refinement)
  <1> SUFFICES ASSUME Fenced
               PROVE  Spec => Refinement
    OBVIOUS
  <1>1. Init => FInv
    BY InvInit, FencedInit DEF FInv
  <1>2. FInv /\ [Next]_vars => FInv'
    BY FInvNext
  <1>3. FInv /\ [Next]_vars => [Abstract!LNext]_(Abstract!lvars)
    BY RefinesNext
  <1>4. QED
    BY <1>1, <1>2, <1>3, RefinesInit, PTL DEF Spec, Refinement, Abstract!LSpec

-----------------------------------------------------------------------------
(* The queue: it starts empty, and its client calls it and nothing else. *)
QueueStart == QueueInit /\ out = Zero
QueueSpec == QueueStart /\ [][QueueNext]_<<s, out>>

Fifo == INSTANCE Collection WITH
  Elem <- Item, kind <- "queue", items <- QueueItems
QueueRefinement == Fifo!CSpec

-----------------------------------------------------------------------------
Content == Item \cup {Garbage}

(* An array of c cells with an item in each of the n ones from f on. *)
Ring(a, f, n, c) ==
  /\ a \in [0 .. c - 1 -> Content]
  /\ n \in 0 .. c
  /\ f \in -1 .. c - 1
  /\ n > 0 => f >= 0

Window(a, f, n, c) == [i \in 1 .. n |-> a[(f + i - 1) % c]]

Shaped == s = [arr |-> s.arr, front |-> s.front, length |-> s.length, fault |-> s.fault]

QueueInv ==
  /\ Shaped
  /\ \E c \in Nat \ {0} : Ring(s.arr, s.front, s.length, c)

-----------------------------------------------------------------------------
LEMMA CapacityIs ==
  ASSUME NEW c \in Nat \ {0}, NEW a, DOMAIN a = 0 .. c - 1
  PROVE  Capacity(a) = c
  BY FS_Interval DEF Capacity

(* One turn around the ring. *)
LEMMA Around ==
  ASSUME NEW c \in Nat \ {0}, NEW x \in 0 .. 2 * c - 1
  PROVE  /\ x % c \in 0 .. c - 1
         /\ x < c => x % c = x
         /\ x >= c => x % c = x - c
  OBVIOUS

LEMMA Turn ==
  ASSUME NEW c \in Nat \ {0}, NEW f \in 0 .. c - 1, NEW i \in 0 .. c
  PROVE  /\ (f + i) % c \in 0 .. c - 1
         /\ (f + i) % c = IF f + i < c THEN f + i ELSE f + i - c
<1>. DEFINE x == f + i
<1>1. x \in 0 .. 2 * c - 1
  OBVIOUS
<1>2. /\ x % c \in 0 .. c - 1
      /\ x < c => x % c = x
      /\ x >= c => x % c = x - c
  <2>. HIDE DEF x
  <2>. QED
    BY <1>1, Around
<1>. QED
  BY <1>1, <1>2

LEMMA WindowIs ==
  ASSUME NEW c \in Nat \ {0}, NEW a, NEW f, NEW n, Ring(a, f, n, c)
  PROVE  /\ Window(a, f, n, c) \in Seq(Content)
         /\ Len(Window(a, f, n, c)) = n
         /\ \A i \in 1 .. n : Window(a, f, n, c)[i] = a[(f + i - 1) % c]
<1>1. ASSUME NEW i \in 1 .. n PROVE a[(f + i - 1) % c] \in Content
  <2>1. f \in 0 .. c - 1 /\ i - 1 \in 0 .. c /\ f + i - 1 = f + (i - 1)
    BY DEF Ring
  <2>2. (f + (i - 1)) % c \in 0 .. c - 1
    BY <2>1, Turn
  <2>. QED
    BY <2>1, <2>2 DEF Ring
<1>2. n \in Nat
  BY DEF Ring
<1>. QED
  BY <1>1, <1>2, IsASeq DEF Window

(* What a client sees of the queue is the window of its ring. *)
LEMMA ItemsAre ==
  ASSUME NEW c \in Nat \ {0}, Ring(s.arr, s.front, s.length, c)
  PROVE  /\ QueueItems = Window(s.arr, s.front, s.length, c)
         /\ Capacity(s.arr) = c
<1>1. Capacity(s.arr) = c
  BY CapacityIs DEF Ring
<1>. QED
  BY <1>1 DEF QueueItems, Window

LEMMA ItemsNext ==
  ASSUME NEW c \in Nat \ {0}, NEW a, NEW f, NEW n, Ring(a, f, n, c), s' = Ringed(a, f, n)
  PROVE  QueueInv' /\ QueueItems' = Window(a, f, n, c)
<1>1. /\ s'.arr = a /\ s'.front = f /\ s'.length = n
      /\ s' = [arr |-> s'.arr, front |-> s'.front, length |-> s'.length, fault |-> s'.fault]
  BY DEF Ringed
<1>2. Capacity(a) = c
  BY CapacityIs DEF Ring
<1>3. QueueItems' = Window(a, f, n, c)
  BY <1>1, <1>2 DEF QueueItems, Window
<1>. QED
  BY <1>1, <1>3 DEF QueueInv, Shaped

-----------------------------------------------------------------------------
(* An item goes behind the n items of a ring that has room. *)
LEMMA PutBehind ==
  ASSUME NEW x \in Item, NEW c \in Nat \ {0}, NEW a, NEW f, NEW n,
         Ring(a, f, n, c), f >= 0, n < c,
         NEW b, b = [a EXCEPT ![(f + n) % c] = x]
  PROVE  /\ Ring(b, f, n + 1, c)
         /\ Window(b, f, n + 1, c) = Append(Window(a, f, n, c), x)
<1>. DEFINE k == (f + n) % c
            w == Window(a, f, n, c)
            v == Window(b, f, n + 1, c)
<1>1. n \in 0 .. c - 1 /\ f \in 0 .. c - 1 /\ a \in [0 .. c - 1 -> Content]
  BY DEF Ring
<1>2. k \in 0 .. c - 1 /\ k = IF f + n < c THEN f + n ELSE f + n - c
  BY <1>1, Turn
<1>3. b \in [0 .. c - 1 -> Content] /\ b[k] = x
  BY <1>1, <1>2 DEF Content
<1>4. Ring(b, f, n + 1, c)
  BY <1>1, <1>3 DEF Ring
<1>5. w \in Seq(Content) /\ Len(w) = n /\ \A i \in 1 .. n : w[i] = a[(f + i - 1) % c]
  BY WindowIs
<1>6. v \in Seq(Content) /\ Len(v) = n + 1
  BY <1>1, <1>4, WindowIs
<1>7. \A i \in 1 .. n + 1 : v[i] = b[(f + i - 1) % c]
  BY <1>1 DEF Window
<1>8. Append(w, x) \in Seq(Content) /\ Len(Append(w, x)) = n + 1
  BY <1>5 DEF Content
<1>9. ASSUME NEW i \in 1 .. n + 1 PROVE v[i] = Append(w, x)[i]
  <2>1. CASE i = n + 1
    <3>1. f + i - 1 = f + n /\ Append(w, x)[i] = x
      BY <1>1, <1>5, <2>1
    <3>. QED
      BY <1>3, <1>7, <3>1
  <2>2. CASE i \in 1 .. n
    <3>1. i - 1 \in 0 .. c /\ f + i - 1 = f + (i - 1)
      BY <1>1, <2>2
    <3>2. /\ (f + (i - 1)) % c \in 0 .. c - 1
          /\ (f + (i - 1)) % c = IF f + (i - 1) < c THEN f + (i - 1) ELSE f + (i - 1) - c
      BY <1>1, <3>1, Turn
    <3>3. (f + (i - 1)) % c # k
      <4>. HIDE DEF k
      <4>. QED
        BY SMTT(30), <1>1, <1>2, <2>2, <3>2
    <3>4. b[(f + i - 1) % c] = a[(f + i - 1) % c]
      BY <1>1, <3>1, <3>2, <3>3
    <3>5. Append(w, x)[i] = w[i]
      BY <1>5, <2>2
    <3>. QED
      BY <1>5, <1>7, <2>2, <3>4, <3>5
  <2>3. i \in 1 .. n \/ i = n + 1
    BY <1>1
  <2>. QED
    BY <2>1, <2>2, <2>3
<1>10. v = Append(w, x)
  <2>. HIDE DEF v, w
  <2>. QED
    BY <1>1, <1>6, <1>8, <1>9, SeqEqual
<1>. QED
  BY <1>4, <1>10

(* The item at the front is the oldest one. *)
LEMMA TakeFront ==
  ASSUME NEW c \in Nat \ {0}, NEW a, NEW f, NEW n, Ring(a, f, n, c), n > 0
  PROVE  /\ Ring(a, (f + 1) % c, n - 1, c)
         /\ Window(a, f, n, c) # << >>
         /\ Window(a, f, n, c)[1] = a[f]
         /\ Window(a, (f + 1) % c, n - 1, c) = Tail(Window(a, f, n, c))
<1>. DEFINE g == (f + 1) % c
            w == Window(a, f, n, c)
            v == Window(a, g, n - 1, c)
<1>1. n \in 1 .. c /\ f \in 0 .. c - 1 /\ a \in [0 .. c - 1 -> Content]
  BY DEF Ring
<1>2. g \in 0 .. c - 1 /\ g = IF f + 1 < c THEN f + 1 ELSE f + 1 - c
  BY <1>1, Turn
<1>3. Ring(a, g, n - 1, c)
  <2>. HIDE DEF g
  <2>. QED
    BY <1>1, <1>2 DEF Ring
<1>4. w \in Seq(Content) /\ Len(w) = n /\ \A i \in 1 .. n : w[i] = a[(f + i - 1) % c]
  BY WindowIs
<1>5. /\ v \in Seq(Content) /\ Len(v) = n - 1
      /\ \A i \in 1 .. n - 1 : v[i] = a[(g + i - 1) % c]
  <2>1. /\ v \in Seq(Content) /\ Len(v) = n - 1
        /\ \A i \in 1 .. n - 1 : Window(a, g, n - 1, c)[i] = a[(g + i - 1) % c]
    <3>. DEFINE m == n - 1
    <3>. HIDE DEF g, m
    <3>1. Ring(a, g, m, c)
      BY <1>3 DEF m
    <3>2. /\ Window(a, g, m, c) \in Seq(Content) /\ Len(Window(a, g, m, c)) = m
          /\ \A i \in 1 .. m : Window(a, g, m, c)[i] = a[(g + i - 1) % c]
      BY <3>1, WindowIs
    <3>. QED
      BY <3>2 DEF m
  <2>. QED
    BY <2>1
<1>6. w # << >> /\ w[1] = a[f]
  <2>1. f + 1 - 1 = f + 0 /\ f + 0 = f /\ 0 \in 0 .. c
    BY <1>1
  <2>2. (f + 0) % c = f
    <3>1. f \in 0 .. 2 * c - 1 /\ f < c
      BY <1>1
    <3>2. f % c = f
      BY <3>1, Around
    <3>. QED
      BY <2>1, <3>2
  <2>. QED
    BY <1>1, <1>4, <2>1, <2>2
<1>7. Tail(w) \in Seq(Content) /\ Len(Tail(w)) = n - 1
      /\ \A i \in 1 .. n - 1 : Tail(w)[i] = w[i + 1]
  <2>. HIDE DEF w
  <2>. QED
    BY <1>1, <1>4, <1>6
<1>8. ASSUME NEW i \in 1 .. n - 1 PROVE v[i] = Tail(w)[i]
  <2>1. i - 1 \in 0 .. c /\ i \in 0 .. c /\ i + 1 \in 1 .. n
    BY <1>1
  <2>2. (g + (i - 1)) % c = IF g + (i - 1) < c THEN g + (i - 1) ELSE g + (i - 1) - c
    BY <1>2, <2>1, Turn
  <2>3. (f + i) % c = IF f + i < c THEN f + i ELSE f + i - c
    BY <1>1, <2>1, Turn
  <2>4. (g + (i - 1)) % c = (f + i) % c
    <3>. HIDE DEF g
    <3>. QED
      BY <1>1, <1>2, <2>1, <2>2, <2>3
  <2>5. g + (i - 1) = g + i - 1 /\ f + i = f + (i + 1) - 1
    <3>. HIDE DEF g
    <3>. QED
      BY <1>1, <1>2
  <2>6. v[i] = a[(g + i - 1) % c] /\ w[i + 1] = a[(f + (i + 1) - 1) % c]
    BY <1>4, <1>5, <2>1
  <2>. HIDE DEF g, v, w
  <2>. QED
    BY <1>7, <2>4, <2>5, <2>6
<1>9. v = Tail(w)
  <2>. HIDE DEF v, w
  <2>. QED
    BY <1>1, <1>5, <1>7, <1>8, SeqEqual
<1>. QED
  BY <1>3, <1>6, <1>9

(* queue_expand() leaves the items in their order. *)
LEMMA ExpandedKeeps ==
  ASSUME NEW c \in Nat \ {0}, NEW a, NEW f, Ring(a, f, c, c)
  PROVE  /\ Ring(Expanded(a, f, c), 0, c, 2 * c)
         /\ Window(Expanded(a, f, c), 0, c, 2 * c) = Window(a, f, c, c)
<1>. DEFINE g == Grown(a, 2 * c)
            behind == [i \in DOMAIN g |-> IF i - c \in 0 .. f - 1 THEN g[i - c] ELSE g[i]]
            e == Expanded(a, f, c)
            w == Window(a, f, c, c)
            v == Window(e, 0, c, 2 * c)
<1>1. f \in 0 .. c - 1 /\ a \in [0 .. c - 1 -> Content] /\ Capacity(a) = c
  BY CapacityIs DEF Ring
<1>2. /\ g \in [0 .. 2 * c - 1 -> Content]
      /\ \A i \in 0 .. c - 1 : g[i] = a[i]
  BY <1>1 DEF Grown, Content
<1>3. /\ behind \in [0 .. 2 * c - 1 -> Content]
      /\ \A i \in 0 .. c - 1 : behind[i] = a[i]
      /\ \A i \in 0 .. f - 1 : behind[c + i] = a[i]
  <2>. HIDE DEF g
  <2>1. \A i \in 0 .. 2 * c - 1 :
          behind[i] = IF i - c \in 0 .. f - 1 THEN g[i - c] ELSE g[i]
    BY <1>2
  <2>2. ASSUME NEW i \in 0 .. 2 * c - 1 PROVE behind[i] \in Content
    <3>1. i - c \in 0 .. f - 1 => i - c \in 0 .. 2 * c - 1
      BY <1>1
    <3>. QED
      BY <1>2, <2>1, <3>1
  <2>3. ASSUME NEW i \in 0 .. c - 1 PROVE behind[i] = a[i]
    <3>1. i \in 0 .. 2 * c - 1 /\ ~(i - c \in 0 .. f - 1)
      BY <1>1
    <3>. QED
      BY <1>2, <2>1, <3>1
  <2>4. ASSUME NEW i \in 0 .. f - 1 PROVE behind[c + i] = a[i]
    <3>1. c + i \in 0 .. 2 * c - 1 /\ c + i - c = i /\ i \in 0 .. c - 1
      BY <1>1
    <3>. QED
      BY <1>2, <2>1, <3>1
  <2>5. DOMAIN behind = 0 .. 2 * c - 1
    BY <1>2
  <2>6. behind = [i \in 0 .. 2 * c - 1 |-> behind[i]]
    BY <2>5
  <2>. HIDE DEF behind
  <2>. QED
    BY <2>2, <2>3, <2>4, <2>6
<1>4. /\ e \in [0 .. 2 * c - 1 -> Content]
      /\ \A i \in 0 .. c - 1 : e[i] = a[(f + i) % c]
  <2>1. ASSUME NEW i \in 0 .. c - 1
        PROVE (f + i) % c = IF f + i < c THEN f + i ELSE f + i - c
    BY <1>1, Turn
  <2>2. CASE f = 0
    <3>1. e = g
      BY <1>1, <2>2 DEF Expanded
    <3>2. ASSUME NEW i \in 0 .. c - 1 PROVE (f + i) % c = i
      BY <2>1, <2>2
    <3>. HIDE DEF e, g
    <3>. QED
      BY <1>2, <3>1, <3>2
  <2>3. CASE f # 0
    <3>1. e = [i \in DOMAIN g |-> IF i < c THEN behind[f + i] ELSE behind[i]]
      BY <1>1, <2>3 DEF Expanded
    <3>2. DOMAIN g = 0 .. 2 * c - 1
      BY <1>2
    <3>. HIDE DEF e, g, behind
    <3>3. ASSUME NEW i \in 0 .. 2 * c - 1
          PROVE  (IF i < c THEN behind[f + i] ELSE behind[i]) \in Content
      <4>1. i < c => f + i \in 0 .. 2 * c - 1
        BY <1>1
      <4>. QED
        BY <1>3, <4>1
    <3>4. e \in [0 .. 2 * c - 1 -> Content]
      BY <3>1, <3>2, <3>3
    <3>5. ASSUME NEW i \in 0 .. c - 1 PROVE e[i] = a[(f + i) % c]
      <4>1. e[i] = behind[f + i]
        BY <3>1, <3>2
      <4>2. CASE f + i < c
        BY <1>1, <1>3, <2>1, <4>1, <4>2
      <4>3. CASE f + i >= c
        <5>1. f + i - c \in 0 .. f - 1 /\ c + (f + i - c) = f + i
          BY <1>1, <4>3
        <5>2. behind[f + i] = a[f + i - c]
          BY <1>3, <5>1
        <5>3. (f + i) % c = f + i - c
          BY <1>1, <2>1, <4>3
        <5>. QED
          BY <4>1, <5>2, <5>3
      <4>. QED
        BY <1>1, <4>2, <4>3
    <3>. QED
      BY <3>4, <3>5
  <2>. QED
    BY <2>2, <2>3
<1>. HIDE DEF e, g, behind
<1>5. 2 * c \in Nat \ {0} /\ Ring(e, 0, c, 2 * c)
  BY <1>4 DEF Ring
<1>6. w \in Seq(Content) /\ Len(w) = c /\ \A i \in 1 .. c : w[i] = a[(f + i - 1) % c]
  BY WindowIs
<1>7. v \in Seq(Content) /\ Len(v) = c /\ \A i \in 1 .. c : v[i] = e[(0 + i - 1) % (2 * c)]
  BY SMTT(30), <1>5, WindowIs
<1>8. ASSUME NEW i \in 1 .. c PROVE v[i] = w[i]
  <2>1. i - 1 \in 0 .. c - 1 /\ 0 + i - 1 = i - 1 /\ f + i - 1 = f + (i - 1)
    BY <1>1
  <2>2. i - 1 \in 0 .. 2 * (2 * c) - 1 /\ i - 1 < 2 * c
    OBVIOUS
  <2>3. (i - 1) % (2 * c) = i - 1
    BY <1>5, <2>2, Around
  <2>4. w[i] = a[(f + i - 1) % c] /\ v[i] = e[(0 + i - 1) % (2 * c)]
    BY <1>6, <1>7
  <2>5. e[i - 1] = a[(f + (i - 1)) % c]
    BY <1>4, <2>1
  <2>. HIDE DEF v, w
  <2>. QED
    BY <2>1, <2>3, <2>4, <2>5
<1>9. v = w
  <2>. HIDE DEF v, w
  <2>. QED
    BY <1>6, <1>7, <1>8, SeqEqual
<1>. QED
  BY <1>5, <1>9 DEF e
-----------------------------------------------------------------------------
LEMMA Initially == QueueStart => QueueInv /\ QueueItems = << >>
<1>. SUFFICES ASSUME QueueStart PROVE QueueInv /\ QueueItems = << >>
  OBVIOUS
<1>1. /\ s.arr = Cells(InitCap) /\ s.front = -1 /\ s.length = 0
      /\ s = [arr |-> s.arr, front |-> s.front, length |-> s.length, fault |-> s.fault]
  BY DEF QueueStart, QueueInit, NoFront
<1>2. InitCap \in Nat \ {0}
  BY ContainerAssumption
<1>3. Ring(s.arr, s.front, s.length, InitCap)
  BY <1>1, <1>2 DEF Ring, Cells, Content
<1>4. QueueItems \in Seq(Content) /\ Len(QueueItems) = 0
  BY <1>1, <1>2, <1>3, ItemsAre, WindowIs
<1>. QED
  BY <1>1, <1>2, <1>3, <1>4, EmptySeq DEF QueueInv, Shaped

(* A push without room doubles the array first. *)
LEMMA Pushed ==
  ASSUME QueueInv, NEW x \in Item, QueuePush(x)
  PROVE  QueueInv' /\ QueueItems' = Append(QueueItems, x)
<1>1. PICK c \in Nat \ {0} : Ring(s.arr, s.front, s.length, c)
  BY DEF QueueInv
<1>. DEFINE n == s.length
            front == IF n = 0 THEN 0 ELSE s.front
            a == IF QueueFull THEN Expanded(s.arr, front, n) ELSE s.arr
            f == IF QueueFull THEN 0 ELSE front
            b == [a EXCEPT ![(f + n) % Capacity(a)] = x]
            d == IF QueueFull THEN 2 * c ELSE c
<1>2. s' = Ringed(b, f, n + 1)
  BY DEF QueuePush
<1>3. QueueItems = Window(s.arr, s.front, n, c) /\ (QueueFull <=> n = c)
  BY <1>1, ItemsAre DEF QueueFull
<1>4. /\ Ring(s.arr, front, n, c) /\ front >= 0
      /\ QueueItems = Window(s.arr, front, n, c)
  <2>1. CASE n = 0
    <3>1. front = 0 /\ Ring(s.arr, front, n, c)
      BY <1>1, <2>1 DEF Ring
    <3>2. Window(s.arr, s.front, n, c) = Window(s.arr, front, n, c)
      BY <2>1 DEF Window
    <3>. QED
      BY <1>3, <3>1, <3>2
  <2>2. CASE n # 0
    <3>1. front = s.front /\ n > 0
      BY <1>1, <2>2 DEF Ring
    <3>. QED
      BY <1>1, <1>3, <3>1 DEF Ring
  <2>. QED
    BY <2>1, <2>2
<1>. HIDE DEF front
<1>5. /\ d \in Nat \ {0} /\ Ring(a, f, n, d) /\ f >= 0 /\ n < d
      /\ Window(a, f, n, d) = QueueItems
  <2>1. CASE QueueFull
    <3>1. n = c /\ a = Expanded(s.arr, front, c) /\ f = 0 /\ d = 2 * c
      BY <1>3, <2>1
    <3>2. Ring(s.arr, front, c, c)
      BY <1>4, <3>1
    <3>. HIDE DEF a, f, d, n
    <3>. QED
      BY <1>4, <3>1, <3>2, ExpandedKeeps
  <2>2. CASE ~QueueFull
    <3>1. n # c /\ a = s.arr /\ f = front /\ d = c
      BY <1>3, <2>2
    <3>2. n < d
      BY <1>1, <3>1 DEF Ring
    <3>. HIDE DEF a, f, d, n
    <3>. QED
      BY <1>4, <3>1, <3>2
  <2>. QED
    BY <2>1, <2>2
<1>6. Capacity(a) = d
  <2>. HIDE DEF a, d
  <2>. QED
    BY <1>5, CapacityIs DEF Ring
<1>7. b = [a EXCEPT ![(f + n) % d] = x]
  BY <1>6
<1>. HIDE DEF a, b, f, d, n
<1>8. Ring(b, f, n + 1, d) /\ Window(b, f, n + 1, d) = Append(QueueItems, x)
  BY <1>5, <1>7, PutBehind
<1>. QED
  BY <1>2, <1>5, <1>8, ItemsNext

LEMMA Popped ==
  ASSUME QueueInv, QueuePop
  PROVE  QueueInv' /\ Fifo!TakeFirst
<1>1. PICK c \in Nat \ {0} : Ring(s.arr, s.front, s.length, c)
  BY DEF QueueInv
<1>. DEFINE w == QueueItems
<1>2. /\ w = Window(s.arr, s.front, s.length, c) /\ Capacity(s.arr) = c
      /\ w \in Seq(Content) /\ Len(w) = s.length /\ s.length \in Nat
  BY <1>1, ItemsAre, WindowIs DEF Ring
<1>3. CASE s.length = 0
  <2>1. s' = s /\ out' = Zero
    BY <1>3 DEF QueuePop
  <2>2. QueueInv' /\ QueueItems' = QueueItems
    BY <2>1 DEF QueueInv, Shaped, QueueItems
  <2>3. QueueItems = << >>
    BY <1>2, <1>3, EmptySeq
  <2>. QED
    BY <2>1, <2>2, <2>3 DEF Fifo!TakeFirst, Fifo!OneOf
<1>4. CASE s.length > 0
  <2>. DEFINE g == (s.front + 1) % c
              v == Window(s.arr, g, s.length - 1, c)
  <2>1. s' = Ringed(s.arr, g, s.length - 1) /\ out' = s.arr[s.front]
    BY <1>2, <1>4 DEF QueuePop
  <2>2. /\ Ring(s.arr, g, s.length - 1, c)
        /\ v = Tail(w) /\ w # << >> /\ w[1] = s.arr[s.front]
    <3>. HIDE DEF w
    <3>. QED
      BY <1>1, <1>2, <1>4, TakeFront
  <2>3. QueueInv' /\ QueueItems' = v
    <3>. HIDE DEF g
    <3>. QED
      BY <2>1, <2>2, ItemsNext
  <2>4. 1 \in DOMAIN w
    <3>. HIDE DEF w
    <3>. QED
      BY <1>2, <1>4
  <2>. QED
    BY <2>1, <2>2, <2>3, <2>4 DEF Fifo!TakeFirst, Fifo!OneOf
<1>. QED
  BY <1>2, <1>3, <1>4

LEMMA Peeked ==
  ASSUME QueueInv, NEW i \in 0 .. MaxLen, QueuePeek(i)
  PROVE  QueueInv' /\ Fifo!CRead
<1>1. PICK c \in Nat \ {0} : Ring(s.arr, s.front, s.length, c)
  BY DEF QueueInv
<1>. DEFINE w == QueueItems
<1>2. /\ w = Window(s.arr, s.front, s.length, c) /\ Capacity(s.arr) = c
      /\ w \in Seq(Content) /\ Len(w) = s.length /\ s.length \in Nat
  BY <1>1, ItemsAre, WindowIs DEF Ring
<1>3. s' = s
  BY DEF QueuePeek
<1>4. QueueInv' /\ QueueItems' = QueueItems
  BY <1>3 DEF QueueInv, Shaped, QueueItems
<1>. HIDE DEF w
<1>5. \E j \in 1 .. Len(w) + 1 : Fifo!OneOf(out', w, j)
  <2>1. CASE i >= s.length
    <3>1. out' = Zero /\ s.length + 1 \in 1 .. Len(w) + 1 /\ s.length + 1 \notin DOMAIN w
      BY <1>2, <2>1 DEF QueuePeek
    <3>. QED
      BY <3>1 DEF Fifo!OneOf
  <2>2. CASE i < s.length
    <3>1. i + 1 \in 1 .. s.length /\ i + 1 \in DOMAIN w /\ i + 1 \in 1 .. Len(w) + 1
      BY <1>2, <2>2
    <3>2. s.front + (i + 1) - 1 = s.front + i
      BY <1>1 DEF Ring
    <3>3. out' = s.arr[(s.front + i) % c]
      BY <1>2, <2>2 DEF QueuePeek
    <3>4. out' = w[i + 1]
      BY <1>1, <1>2, <3>1, <3>2, <3>3, WindowIs
    <3>. QED
      BY <3>1, <3>4 DEF Fifo!OneOf
  <2>. QED
    BY <1>2, <2>1, <2>2
<1>. QED
  BY <1>4, <1>5 DEF Fifo!CRead, Fifo!Read, w

LEMMA Cleared ==
  ASSUME QueueInv, QueueClear
  PROVE  QueueInv' /\ QueueItems' = << >>
<1>1. PICK c \in Nat \ {0} : Ring(s.arr, s.front, s.length, c)
  BY DEF QueueInv
<1>2. Ring(s.arr, -1, 0, c) /\ s' = Ringed(s.arr, -1, 0)
  BY <1>1 DEF Ring, QueueClear, NoFront
<1>3. QueueInv' /\ QueueItems' = Window(s.arr, -1, 0, c)
  BY <1>2, ItemsNext
<1>4. Len(Window(s.arr, -1, 0, c)) = 0 /\ Window(s.arr, -1, 0, c) \in Seq(Content)
  BY <1>2, WindowIs
<1>. QED
  BY <1>3, <1>4, EmptySeq

LEMMA Stops ==
  ASSUME QueueInv, QueueNoMemory
  PROVE  QueueInv' /\ QueueItems' = QueueItems
<1>. DEFINE why == IF s.front > 0 THEN "null" ELSE "assert"
<1>1. s = [arr |-> s.arr, front |-> s.front, length |-> s.length, fault |-> s.fault]
  BY DEF QueueInv, Shaped
<1>2. s' = [s EXCEPT !.fault = why]
  BY DEF QueueNoMemory, Stopped
<1>. HIDE DEF why
<1>3. s' = [arr |-> s.arr, front |-> s.front, length |-> s.length, fault |-> why]
  BY <1>1, <1>2
<1>4. s'.arr = s.arr /\ s'.front = s.front /\ s'.length = s.length /\ s'.fault = why
  BY <1>3
<1>. QED
  BY <1>3, <1>4 DEF QueueInv, Shaped, QueueItems

-----------------------------------------------------------------------------
(* One step of the queue is one of the collection, or changes nothing a client
   sees.                                                                   *)
LEMMA OneStep ==
  ASSUME QueueInv, [QueueNext]_<<s, out>>
  PROVE  QueueInv' /\ [Fifo!CNext]_<<"queue", QueueItems, out>>
<1>1. ASSUME NEW x \in Item, QueuePush(x)
      PROVE  QueueInv' /\ Fifo!CPush
  <2>1. out' = out
    BY <1>1 DEF QueuePush
  <2>. QED
    BY <1>1, <2>1, Pushed DEF Fifo!CPush, Fifo!PushItem
<1>2. ASSUME QueueClear PROVE QueueInv' /\ Fifo!CClear
  BY <1>2, Cleared DEF QueueClear, Fifo!CClear
<1>3. ASSUME QueueNoMemory PROVE QueueInv' /\ QueueItems' = QueueItems /\ out' = out
  BY <1>3, Stops DEF QueueNoMemory
<1>4. ASSUME UNCHANGED <<s, out>> PROVE QueueInv' /\ QueueItems' = QueueItems /\ out' = out
  BY <1>4 DEF QueueInv, Shaped, QueueItems
<1>5. QueueInv' /\ \/ Fifo!CPush \/ Fifo!CRead \/ Fifo!TakeFirst \/ Fifo!CClear
                   \/ QueueItems' = QueueItems /\ out' = out
  BY <1>1, <1>2, <1>3, <1>4, Popped, Peeked DEF QueueNext
<1>. QED
  BY <1>5 DEF Fifo!CNext

(* Counters and array agree: there are no more items than cells, and the front
   of a queue that has items is a cell.                                    *)
THEOREM QueueStaysSound == QueueSpec => []QueueSound
<1>1. QueueStart => QueueInv
  BY Initially
<1>2. QueueInv /\ [QueueNext]_<<s, out>> => QueueInv'
  BY OneStep
<1>3. QueueInv => QueueSound
  <2>. SUFFICES ASSUME QueueInv PROVE QueueSound
    OBVIOUS
  <2>1. PICK c \in Nat \ {0} : Ring(s.arr, s.front, s.length, c)
    BY DEF QueueInv
  <2>2. Capacity(s.arr) = c
    BY <2>1, ItemsAre
  <2>. QED
    BY <2>1, <2>2 DEF QueueSound, Ring
<1>. QED
  BY <1>1, <1>2, <1>3, PTL DEF QueueSpec

(* What is pushed comes out once and in order, peeks see it in order, and a
   call that finds nothing returns zero.                                   *)
THEOREM QueueIsFifo == QueueSpec => QueueRefinement
<1>1. QueueStart => QueueInv /\ Fifo!CInit
  BY Initially DEF Fifo!CInit
<1>2. QueueInv /\ [QueueNext]_<<s, out>> => QueueInv' /\ [Fifo!CNext]_<<"queue", QueueItems, out>>
  BY OneStep
<1>. QED
  BY <1>1, <1>2, PTL DEF QueueSpec, QueueRefinement, Fifo!CSpec, Fifo!cvars
=============================================================================
