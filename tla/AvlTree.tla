------------------------------ MODULE AvlTree -------------------------------
(***************************************************************************)
(* The AVL tree of src/common/containers/avl_tree.h.  Its calls return the *)
(* subtree they have changed, so a subtree is a value: <<key, height,      *)
(* left, right>>, or << >> for NULL.                                       *)
(***************************************************************************)
EXTENDS Container

None == << >>
key(n) == n[1]
left(n) == n[3]
right(n) == n[4]
height(n) == IF n = None THEN 0 ELSE n[2]
get_balance_factor(n) == IF n = None THEN 0 ELSE height(left(n)) - height(right(n))

(* A node whose height was set from those of its children. *)
Over(k, l, r) == <<k, 1 + (IF height(l) > height(r) THEN height(l) ELSE height(r)), l, r>>

rotate_left(n) ==
  LET y == right(n)
  IN  Over(key(y), Over(key(n), left(n), left(y)), right(y))

(* Mutant of rotate_right: the two heights are set in the wrong order. *)
rotate_rightHigh(n) ==
  LET y == left(n)
      below == <<key(n), height(n), right(y), right(n)>>
  IN  Over(key(y), left(y), below)

rotate_right(n) ==
  LET y == left(n)
  IN  Over(key(y), left(y), Over(key(n), right(y), right(n)))

rotate_lr(n) ==
  LET l == left(n)
      y == right(l)
  IN  Over(key(y), Over(key(l), left(l), left(y)), Over(key(n), right(y), right(n)))

rotate_rl(n) ==
  LET r == right(n)
      y == left(r)
  IN  Over(key(y), Over(key(n), left(n), left(y)), Over(key(r), right(y), right(r)))

(* n after k was inserted below it: the rotation goes by where k went. *)
AfterInsert(n, k) ==
  LET bf == get_balance_factor(n)
  IN  CASE bf > 1 /\ k < key(left(n)) -> rotate_right(n)
        [] bf < -1 /\ k > key(right(n)) -> rotate_left(n)
        [] bf > 1 /\ k > key(left(n)) -> rotate_lr(n)
        [] bf < -1 /\ k < key(right(n)) -> rotate_rl(n)
        [] OTHER -> n

RECURSIVE Inserted(_, _)
Inserted(n, k) ==
  IF n = None THEN Over(k, None, None)
  ELSE IF k = key(n) THEN n
  ELSE IF k < key(n) THEN AfterInsert(Over(key(n), Inserted(left(n), k), right(n)), k)
  ELSE AfterInsert(Over(key(n), left(n), Inserted(right(n), k)), k)

(* n after a key was removed below it: the rotation goes by the heights. *)
AfterRemove(n) ==
  LET bf == get_balance_factor(n)
  IN  CASE bf > 1 /\ get_balance_factor(left(n)) >= 0 -> rotate_right(n)
        [] bf > 1 /\ get_balance_factor(left(n)) < 0 -> rotate_lr(n)
        [] bf < -1 /\ get_balance_factor(right(n)) <= 0 -> rotate_left(n)
        [] bf < -1 /\ get_balance_factor(right(n)) > 0 -> rotate_rl(n)
        [] OTHER -> n

RECURSIVE avl_min_value_node(_)
avl_min_value_node(n) == IF left(n) = None THEN n ELSE avl_min_value_node(left(n))

RECURSIVE Removed(_, _)
(* The one child of the node takes its place and is balanced once more; the
   successor gives the node its key.                                       *)
Removed(n, k) ==
  LET l == left(n)
      r == right(n)
      child == IF l # None THEN l ELSE r
      next == key(avl_min_value_node(r))
  IN  IF n = None THEN None
      ELSE IF k < key(n) THEN AfterRemove(Over(key(n), Removed(l, k), r))
      ELSE IF k > key(n) THEN AfterRemove(Over(key(n), l, Removed(r, k)))
      ELSE IF l # None /\ r # None THEN AfterRemove(Over(next, l, Removed(r, next)))
      ELSE IF child = None THEN None
      ELSE AfterRemove(Over(key(child), left(child), right(child)))

AvlInit == s = [root |-> None, fault |-> "none"]

RECURSIVE Holds(_, _)
Holds(n, k) ==
  /\ n # None
  /\ \/ k = key(n)
     \/ Holds(IF k < key(n) THEN left(n) ELSE right(n), k)

AvlInsert(k) == s' = [s EXCEPT !.root = Inserted(@, k)] /\ UNCHANGED out

(* A node that could not be allocated is written to nevertheless. *)
AvlNoMemory ==
  /\ \E k \in Key : ~Holds(s.root, k)
  /\ s' = Stopped(s, "null")
  /\ UNCHANGED out

AvlRemove(k) == s' = [s EXCEPT !.root = Removed(@, k)] /\ UNCHANGED out

AvlNext == AvlNoMemory \/ \E k \in Key : AvlInsert(k) \/ AvlRemove(k)

-----------------------------------------------------------------------------
RECURSIVE Keys(_)
Keys(n) == IF n = None THEN {} ELSE {key(n)} \cup Keys(left(n)) \cup Keys(right(n))

RECURSIVE Tall(_)
Tall(n) == IF n = None THEN 0 ELSE 1 + Max({Tall(left(n)), Tall(right(n))})

RECURSIVE AvlTree(_)
(* The rules: ordered, balanced, and the heights it stores are right. *)
AvlTree(n) ==
  \/ n = None
  \/ /\ \A k \in Keys(left(n)) : k < key(n)
     /\ \A k \in Keys(right(n)) : key(n) < k
     /\ height(n) = Tall(n)
     /\ get_balance_factor(n) \in -1 .. 1
     /\ AvlTree(left(n)) /\ AvlTree(right(n))

AvlSound == AvlTree(s.root)
=============================================================================
