----------------------------- MODULE Containers -----------------------------
(***************************************************************************)
(* The containers of src/common/containers and the Pool, each with a       *)
(* client.  Init chooses one of them, and every behaviour is that of the   *)
(* one it chose.                                                           *)
(***************************************************************************)
EXTENDS RBTree, AvlTree, Queue, ArrayStack, DynArray, Strings, SlotPool

CONSTANT Kinds    (* those that a run chooses from *)

Kind == {"rbtree", "avl", "queue", "stack", "array", "strings", "pool"}

ASSUME KindsAssumption == Kinds \subseteq Kind

VARIABLE kind

vars == <<kind, s, out>>

Init ==
  /\ kind \in Kinds
  /\ out = Zero
  /\ \/ kind = "rbtree" /\ RBInit
     \/ kind = "avl" /\ AvlInit
     \/ kind = "queue" /\ QueueInit
     \/ kind = "stack" /\ StackInit
     \/ kind = "array" /\ ArrayInit
     \/ kind = "strings" /\ StringsInit
     \/ kind = "pool" /\ PoolInit

Next ==
  /\ Running
  /\ \/ kind = "rbtree" /\ RBNext
     \/ kind = "avl" /\ AvlNext
     \/ kind = "queue" /\ QueueNext
     \/ kind = "stack" /\ StackNext
     \/ kind = "array" /\ ArrayNext
     \/ kind = "strings" /\ StringsNext
     \/ kind = "pool" /\ PoolNext
  /\ UNCHANGED kind

(* A call that has begun goes on: the thread that made it is running. *)
Fixup == Running /\ kind = "rbtree" /\ RBFixup /\ UNCHANGED kind

Spec == Init /\ [][Next]_vars /\ WF_vars(Fixup)

-----------------------------------------------------------------------------
(* The faults a caller must reckon with: no memory, the peek into an empty
   stack, a full Pool, a string whose block is longer than its text, a C string
   that is shorter than the struct, and the access of the red-black tree's
   fixup.  The capacity of a queue is a power of two, as its asserts say.  *)
TypeOK ==
  /\ kind \in Kind
  /\ s.fault \in
       CASE kind = "rbtree" -> {"none", "assert", "null"}
         [] kind = "avl" -> {"none", "null"}
         [] kind = "queue" -> {"none", "assert", "null"}
         [] kind = "stack" -> {"none", "null", "overrun"}
         [] kind = "array" -> {"none", "assert"}
         [] kind = "strings" -> {"none", "assert", "null", "overrun", "overread"}
         [] kind = "pool" -> {"none", "overrun"}
  /\ kind = "queue" => Capacity(s.arr) \in {2 ^ k : k \in 0 .. MaxLen}

(* What each structure's code relies on: the trees are balanced search trees
   between calls, unless the removal has misread a colour, counters and cells
   agree, a text fits in its block, and a slot of the Pool is free or held. *)
Sound ==
  CASE kind = "rbtree" -> Running => RBSound
    [] kind = "avl" -> AvlSound
    [] kind = "queue" -> QueueSound
    [] kind = "stack" -> StackSound
    [] kind = "array" -> ArraySound
    [] kind = "strings" -> StringsSound
    [] kind = "pool" -> PoolSound

(* rbt_validate_tree(), by which the tests go, accepts exactly the red-black
   trees, of the trees that calls leave behind and of all others of their
   shapes.                                                                 *)
ValidatorAgrees ==
  kind = "rbtree" /\ Running /\ s.loop = "idle" =>
    LET nodes == Below(s, s.root)
    IN  \A t \in {Paint(s, nodes \ reds, reds) : reds \in SUBSET nodes} :
          rbt_validate_tree(t) <=> RedBlack(t)

(* rbt_remove_key() leaves a red-black tree (rb_tree.h:268-269): "recolor and do
   rotations to make the tree a valid red-black tree again after
   moving/removing a black node from the tree."                            *)
RemovalRestores ==
  kind = "rbtree" /\ Running /\ s.loop = "idle" => RedBlack(s)

(* Each structure implements Collection: an item is in a tree if its search
   finds it, also during a fixup, calls return what they should for what they
   were asked, and the Pool gives no slot twice and lets nobody use a handle
   that was recycled.                                                      *)
Abstract == INSTANCE Collection WITH
  Elem <- Key \cup Item,
  items <-
    CASE kind = "rbtree" -> {k \in Key : Find(s, k).node = k}
      [] kind = "avl" -> {k \in Key : Holds(s.root, k)}
      [] kind = "queue" -> QueueItems
      [] kind = "stack" -> StackItems
      [] kind = "array" -> ArrayItems
      [] kind = "strings" -> Texts
      [] kind = "pool" -> s.live

(* A call does this for the key, the item or the index that it was asked for,
   and for no other.                                                       *)
AsAsked ==
  /\ kind = "rbtree" => \A k \in Key : /\ RBInsert(k) => Abstract!Insert(k)
                                       /\ RBRemove(k) => Abstract!Delete(k)
  /\ kind = "avl" => \A k \in Key : /\ AvlInsert(k) => Abstract!Insert(k)
                                    /\ AvlRemove(k) => Abstract!Delete(k)
  /\ kind = "queue" => /\ \A x \in Item : QueuePush(x) => Abstract!PushItem(x)
                       /\ \A i \in 0 .. MaxLen : QueuePeek(i) => Abstract!Read(i + 1)
  /\ kind = "stack" =>
       /\ \A x \in Item : StackPush(x) => Abstract!PushItem(x)
       /\ \A i \in 0 .. MaxLen :
            StackPeek(i) => s.top = -1 \/ Abstract!Read(Len(StackItems) - i)
  /\ kind = "array" =>
       /\ \A x \in Item : ArrayPush(x) => Abstract!PushItem(x)
       /\ \A i \in 0 .. MaxLen :
            /\ ArrayGet(i) => Abstract!Read(i + 1)
            /\ ArrayRemoveAt(i) => Abstract!TakeOut(i + 1)
            /\ \A x \in Item : ArrayUpdate(i, x) => Abstract!Put(i + 1, x)
  /\ kind = "strings" => \A v \in Str :
       LET Now(text) == Texts' = [Texts EXCEPT ![v] = text] \/ ~Running'
       IN  /\ \A text \in Literal :
                /\ Create(v, text) \/ Modify(v, text) => Now(<<text>>)
                /\ StrAppend(v, text) => Now(<<s.str[v].text \o text>>)
           /\ \A w \in Str : DupChar(v, w) => Now(Texts[w])
           /\ CstrFree(v) => Now(<< >>)
  /\ kind = "pool" => \A h \in s.given : PoolRecycle(h) => Abstract!Delete(h)

Refinement == Abstract!CSpec /\ [][Running => AsAsked]_vars

(* Every fixup ends. *)
InFixup == kind = "rbtree" /\ Running /\ s.loop # "idle"
FixupEnds == InFixup ~> ~InFixup
=============================================================================
