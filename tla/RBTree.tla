------------------------------- MODULE RBTree -------------------------------
(***************************************************************************)
(* The red-black tree of src/common/containers/rb_tree.h, and the checks   *)
(* of its tests.  A node is its key: a key has one node at a time.  A turn *)
(* of a fixup loop is a step.                                              *)
(***************************************************************************)
EXTENDS Container

Nil == 0                    (* nil_node *)
NULL == -1
Link == Key \cup {Nil}
Side == {"left", "right"}
Other(d) == IF d = "left" THEN "right" ELSE "left"

(* rbt_create_tree().  loop says which fixup is running, at where it is;
   misread is history: a fixup looked at the colour of a wrong node, and that
   colour was not the right one's.                                         *)
RBInit ==
  s = [root |-> Nil,
       child |-> [d \in Side |-> [n \in Link |-> NULL]],
       parent |-> [n \in Link |-> Nil],
       color |-> [n \in Link |-> "black"],
       loop |-> "idle", at |-> Nil, misread |-> FALSE, fault |-> "none"]

Left(t, n) == t.child["left"][n]
Right(t, n) == t.child["right"][n]
Red(t, n) == t.color[n] = "red"

RECURSIVE Descend(_, _, _, _)
(* The search for k from n, whose parent is p: where it ends, and below what. *)
Descend(t, p, n, k) ==
  IF n \in {Nil, k} THEN [node |-> n, below |-> p]
  ELSE Descend(t, n, t.child[IF k < n THEN "left" ELSE "right"][n], k)

Find(t, k) == Descend(t, Nil, t.root, k)

RECURSIVE Minimum(_, _)
Minimum(t, n) == IF Left(t, n) = Nil THEN n ELSE Minimum(t, Left(t, n))

(* v takes the place of u. *)
Transplant(t, u, v) ==
  LET p == t.parent[u]
      hung == IF p = Nil THEN [t EXCEPT !.root = v]
              ELSE [t EXCEPT !.child[IF u = Left(t, p) THEN "left" ELSE "right"][p] = v]
  IN  [hung EXCEPT !.parent[v] = p]

Paint(t, blacks, reds) ==
  [t EXCEPT !.color = [n \in Link |-> CASE n \in blacks -> "black" [] n \in reds -> "red" [] OTHER -> @[n]]]

(* x goes down on side d, and its child of the other side comes up.  Where
   that is the sentinel, its children are NULL and the program stops.      *)
Rotate(t, x, d) ==
  LET y == t.child[Other(d)][x]
      inner == t.child[d][y]
      moved == [t EXCEPT !.child[Other(d)][x] = inner,
                         !.parent[inner] = IF inner = Nil THEN @ ELSE x]
  IN  IF y = Nil THEN Stopped(t, "null")
      ELSE [Transplant(moved, x, y) EXCEPT !.child[d][y] = x, !.parent[x] = y]

-----------------------------------------------------------------------------
(* A node that could not be allocated. *)
RBNoMemory ==
  /\ s.loop = "idle"
  /\ s' = Stopped(s, "assert")
  /\ UNCHANGED out

(* rbt_insert_key() up to its fixup: nothing happens to a key that is in. *)
RBInsert(k) ==
  LET p == Find(s, k).below
      d == IF k < p THEN "left" ELSE "right"
      hung == IF p = Nil THEN [s EXCEPT !.root = k] ELSE [s EXCEPT !.child[d][p] = k]
  IN  /\ s.loop = "idle"
      /\ Find(s, k).node = Nil
      /\ s' = [hung EXCEPT !.child["left"][k] = Nil, !.child["right"][k] = Nil,
                           !.parent[k] = p, !.color[k] = "red",
                           !.loop = "insert", !.at = k]
      /\ UNCHANGED out

(* Mutant of InsertTurn: the parent stays red when the grandparent goes down. *)
InsertTurnUnpainted(t) ==
  LET z == t.at
      p == t.parent[z]
      g == t.parent[p]
      d == IF p = Left(t, g) THEN "left" ELSE "right"
      uncle == t.child[Other(d)][g]
  IN  CASE g = Nil -> t
        [] g # Nil /\ Red(t, uncle) -> [Paint(t, {p, uncle}, {g}) EXCEPT !.at = g]
        [] g # Nil /\ ~Red(t, uncle) /\ z = t.child[Other(d)][p] -> [Rotate(t, p, d) EXCEPT !.at = p]
        [] OTHER -> Rotate(Paint(t, {}, {g}), g, Other(d))

(* A turn of rbt_insert_fix_internal().  After the first rotation of the code's
   second case the condition of the loop still holds, and going round comes to
   its third.  Below a red root no branch would be taken, for ever.         *)
InsertTurn(t) ==
  LET z == t.at
      p == t.parent[z]
      g == t.parent[p]
      d == IF p = Left(t, g) THEN "left" ELSE "right"
      uncle == t.child[Other(d)][g]
  IN  CASE g = Nil -> t
        [] g # Nil /\ Red(t, uncle) -> [Paint(t, {p, uncle}, {g}) EXCEPT !.at = g]
        [] g # Nil /\ ~Red(t, uncle) /\ z = t.child[Other(d)][p] -> [Rotate(t, p, d) EXCEPT !.at = p]
        [] OTHER -> Rotate(Paint(t, {p}, {g}), g, Other(d))

RBInsertTurn ==
  /\ s.loop = "insert" /\ Red(s, s.parent[s.at])
  /\ s' = InsertTurn(s)
  /\ UNCHANGED out

RBInsertEnd ==
  /\ s.loop = "insert" /\ ~Red(s, s.parent[s.at])
  /\ s' = [s EXCEPT !.color[s.root] = "black", !.loop = "idle", !.at = Nil]
  /\ UNCHANGED out

-----------------------------------------------------------------------------
(* z has two children: its successor y takes its place and its colour. *)
Succeed(t, z, y) ==
  LET gone == Transplant(t, y, Right(t, y))
      r == Right(t, z)
      freed == IF y = r THEN [t EXCEPT !.parent[Right(t, y)] = y]
               ELSE [gone EXCEPT !.child["right"][y] = r, !.parent[r] = y]
  IN  [Transplant(freed, z, y) EXCEPT
         !.child["left"][y] = Left(t, z), !.parent[Left(t, z)] = y, !.color[y] = t.color[z]]

(* rbt_remove_key() up to its fixup, which a red node does not need. *)
RBRemove(k) ==
  LET only == IF Left(s, k) = Nil THEN Right(s, k) ELSE Left(s, k)
      two == Left(s, k) # Nil /\ Right(s, k) # Nil
      y == IF two THEN Minimum(s, Right(s, k)) ELSE k
      x == IF two THEN Right(s, y) ELSE only
      cut == IF two THEN Succeed(s, k, y) ELSE Transplant(s, k, only)
      fix == ~Red(s, y)
  IN  /\ s.loop = "idle"
      /\ Find(s, k).node = k
      /\ s' = [cut EXCEPT !.child["left"][k] = NULL, !.child["right"][k] = NULL,
                          !.parent[k] = Nil, !.color[k] = "black",
                          !.loop = IF fix THEN "remove" ELSE "idle",
                          !.at = IF fix THEN x ELSE Nil]
      /\ UNCHANGED out

(* The black sibling w of x, whose far child is red, takes the place of p. *)
Lifted(t, p, w, far, d) ==
  LET painted == [t EXCEPT !.color = [@ EXCEPT ![w] = t.color[p], ![p] = "black", ![far] = "black"]]
      r == Rotate(painted, p, d)
  IN  [r EXCEPT !.at = r.root]

(* A turn of rbt_remove_fixup_internal().  After its first and its third case
   the condition of the loop still holds, and going round comes to the case
   that follows.  Where x is a right child the code reads the colour of
   x->right for that of w->right, the near child of the sibling w.         *)
RemoveTurn(t) ==
  LET x == t.at
      p == t.parent[x]
      d == IF x = Left(t, p) THEN "left" ELSE "right"
      w == t.child[Other(d)][p]
      near == t.child[d][w]
      far == t.child[Other(d)][w]
      read == IF d = "left" THEN near ELSE Right(t, x)
      marked == [t EXCEPT !.misread = @ \/ Red(t, read) # Red(t, near)]
  IN  IF Red(t, w) THEN Rotate(Paint(t, {w}, {p}), p, d)
      ELSE IF w = Nil \/ read = NULL THEN Stopped(t, "null")
      ELSE CASE Red(t, far) -> Lifted(t, p, w, far, d)
             [] ~Red(t, far) /\ ~Red(t, read) -> [Paint(marked, {}, {w}) EXCEPT !.at = p]
             [] OTHER -> Rotate(Paint(marked, {near}, {w}), w, Other(d))

RBRemoveTurn ==
  /\ s.loop = "remove" /\ s.at # s.root /\ ~Red(s, s.at)
  /\ s' = RemoveTurn(s)
  /\ UNCHANGED out

RBRemoveEnd ==
  /\ s.loop = "remove" /\ (s.at = s.root \/ Red(s, s.at))
  /\ s' = [s EXCEPT !.color[s.at] = "black", !.loop = "idle", !.at = Nil]
  /\ UNCHANGED out

RBFixup == RBInsertTurn \/ RBInsertEnd \/ RBRemoveTurn \/ RBRemoveEnd

RBNext ==
  \/ RBNoMemory
  \/ \E k \in Key : RBInsert(k) \/ RBRemove(k)
  \/ RBFixup

-----------------------------------------------------------------------------
(* What the tests make of a tree. *)
RECURSIVE Walk(_, _, _, _)
(* rbt_inorder(): its loop, with the node n, the stack and what it has. *)
Walk(t, n, stack, seen) ==
  IF n # Nil THEN Walk(t, Left(t, n), Append(stack, n), seen)
  ELSE IF stack = << >> THEN seen
  ELSE Walk(t, Right(t, Last(stack)), Front(stack), Append(seen, Last(stack)))

rbt_inorder(t) == Walk(t, t.root, << >>, << >>)

RECURSIVE PushLeft(_, _, _)
PushLeft(t, n, stack) == IF n = Nil THEN stack ELSE PushLeft(t, Left(t, n), Append(stack, n))

RECURSIVE PopRight(_, _)
(* The stack without the nodes whose right subtree ends with its last one. *)
PopRight(t, stack) ==
  LET rest == Front(stack)
  IN  IF rest # << >> /\ Right(t, Last(rest)) = Last(stack) THEN PopRight(t, rest) ELSE rest

RECURSIVE Paths(_, _, _)
(* rbt_get_root_to_leaf_paths(): its loop.  Its last peek is into the empty
   stack, and reads the word in front of the array (see ArrayStack): there the
   allocator of the tests keeps a padding of 0, which is taken for NULL.   *)
Paths(t, n, stack) ==
  LET down == PushLeft(t, n, stack)
      back == PopRight(t, down)
  IN  {down} \cup
      IF Right(t, Last(down)) # Nil THEN Paths(t, Right(t, Last(down)), down)
      ELSE IF back = << >> THEN {} ELSE Paths(t, Right(t, Last(back)), back)

get_path_black_height(t, path) == Len(SelectSeq(path, LAMBDA n : ~Red(t, n)))

(* Mutant of rbt_validate_tree: every path is compared with itself. *)
rbt_validate_treeNot(t) ==
  LET inorder == rbt_inorder(t)
      height(path) == get_path_black_height(t, path)
  IN  \/ t.root = Nil
      \/ /\ ~Red(t, t.root)
         /\ \A i \in 2 .. Len(inorder) : inorder[i - 1] < inorder[i]
         /\ \A n \in ToSet(inorder) : Red(t, n) => ~Red(t, Left(t, n)) /\ ~Red(t, Right(t, n))
         /\ \A p \in Paths(t, t.root, << >>) : height(p) = height(p)
         /\ ~Red(t, Nil)

rbt_validate_tree(t) ==
  LET inorder == rbt_inorder(t)
      height(path) == get_path_black_height(t, path)
  IN  \/ t.root = Nil
      \/ /\ ~Red(t, t.root)
         /\ \A i \in 2 .. Len(inorder) : inorder[i - 1] < inorder[i]
         /\ \A n \in ToSet(inorder) : Red(t, n) => ~Red(t, Left(t, n)) /\ ~Red(t, Right(t, n))
         /\ \A p, q \in Paths(t, t.root, << >>) : height(p) = height(q)
         /\ ~Red(t, Nil)

-----------------------------------------------------------------------------
(* For the properties: the rules themselves. *)
RECURSIVE Below(_, _)
Below(t, n) == IF n = Nil THEN {} ELSE {n} \cup Below(t, Left(t, n)) \cup Below(t, Right(t, n))

RECURSIVE BlackHeights(_, _)
(* How many black nodes there are on the ways from n to the sentinel. *)
BlackHeights(t, n) ==
  IF n = Nil THEN {0}
  ELSE {h + (IF Red(t, n) THEN 0 ELSE 1) : h \in BlackHeights(t, Left(t, n)) \cup BlackHeights(t, Right(t, n))}

RedBlack(t) ==
  /\ ~Red(t, t.root)
  /\ \A n \in Below(t, t.root) :
       /\ \A k \in Below(t, Left(t, n)) : k < n
       /\ \A k \in Below(t, Right(t, n)) : n < k
       /\ Red(t, n) => ~Red(t, Left(t, n)) /\ ~Red(t, Right(t, n))
  /\ Cardinality(BlackHeights(t, t.root)) = 1

(* The parent links. *)
Linked(t) ==
  /\ t.parent[t.root] = Nil \/ t.root = Nil
  /\ \A n \in Below(t, t.root), d \in Side :
       t.child[d][n] # Nil => t.parent[t.child[d][n]] = n

RBSound == s.loop = "idle" /\ ~s.misread => RedBlack(s) /\ Linked(s)
=============================================================================
