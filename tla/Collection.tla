----------------------------- MODULE Collection -----------------------------
(***************************************************************************)
(* What a client may rely on: a set of keys, a first-in-first-out queue, a *)
(* stack, an array, a pool of handles, or two strings.  A call that finds  *)
(* nothing returns Zero.                                                   *)
(***************************************************************************)
EXTENDS Integers, SequencesExt

CONSTANTS Elem, Zero

VARIABLES kind, items, out

cvars == <<kind, items, out>>

OneOf(x, seq, i) == x = IF i \in DOMAIN seq THEN seq[i] ELSE Zero

CInit ==
  items = IF kind \in {"queue", "stack", "array"} THEN << >>
          ELSE IF kind = "strings" THEN << << >>, << >> >> ELSE {}

Insert(k) == items' = items \cup {k} /\ UNCHANGED out
Delete(k) == items' = items \ {k} /\ UNCHANGED out
SetChange == \E k \in Elem : Insert(k) \/ Delete(k)

PushItem(x) == items' = Append(items, x) /\ UNCHANGED out
CPush == \E x \in Elem : PushItem(x)
CClear == items' = << >> /\ UNCHANGED out

Read(i) == OneOf(out', items, i) /\ UNCHANGED items
CRead == \E i \in 1 .. Len(items) + 1 : Read(i)

TakeFirst ==
  /\ OneOf(out', items, 1)
  /\ items' = IF items = << >> THEN items ELSE Tail(items)

TakeLast ==
  /\ OneOf(out', items, Len(items))
  /\ items' = IF items = << >> THEN items ELSE Front(items)

Put(i, x) == items' = [items EXCEPT ![i] = x] /\ UNCHANGED out
Update == \E i \in DOMAIN items, x \in Elem : Put(i, x)

TakeOut(i) == items' = RemoveAt(items, i) /\ UNCHANGED out
RemoveOne == \E i \in DOMAIN items : TakeOut(i)

(* The handle that is given out is for a slot nobody holds, and only handles
   that are held are good for an access.                                   *)
Give ==
  /\ items' = items \cup {out'.handle}
  /\ \A h \in items : h.index # out'.handle.index

TakeBack == \E h \in items : Delete(h)

Look ==
  /\ out'.valid <=> out'.handle \in items
  /\ UNCHANGED items

(* A string that is in use is a sequence of one text, else it is empty.  A call
   changes one of them, or compares their texts.                           *)
Write ==
  /\ \E v \in DOMAIN items : items' = [items EXCEPT ![v] = items'[v]]
  /\ UNCHANGED out

Same ==
  /\ out' # Zero <=> items[1] = items[2]
  /\ UNCHANGED items

CNext ==
  /\ CASE kind \in {"rbtree", "avl"} -> SetChange
       [] kind = "queue" -> CPush \/ CRead \/ TakeFirst \/ CClear
       [] kind = "stack" -> CPush \/ CRead \/ TakeLast \/ CClear
       [] kind = "array" -> CPush \/ CRead \/ Update \/ RemoveOne
       [] kind = "strings" -> Write \/ Same
       [] kind = "pool" -> Give \/ TakeBack \/ Look
  /\ UNCHANGED kind

CSpec == CInit /\ [][CNext]_cvars
=============================================================================
