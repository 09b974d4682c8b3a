--------------------------- MODULE FreeNodes_proofs ---------------------------
(***************************************************************************)
(* Lemmas about the free list of FreeNodes: what inserting, removing,      *)
(* replacing and merging nodes makes of the order of the list and of the   *)
(* set of free addresses.                                                  *)
(***************************************************************************)
EXTENDS FreeNodes, SequenceTheorems, FiniteSetTheorems, WellFoundedInduction, TLAPS

Node == [addr : Nat, size : Nat]
After(b) == b.addr + b.size

(* A node can be written where it lies, and lies in the buffer. *)
Fits(b) == b \in Node /\ b.size >= NodeSize /\ Base <= b.addr /\ After(b) <= End

(* The nodes ascend; each ends before the next one begins, except those in S,
   which may touch it.                                                     *)
Sorted(list) ==
  /\ list \in Seq(Node)
  /\ \A i \in 1 .. Len(list) : Fits(list[i])
  /\ \A i, j \in 1 .. Len(list) : i < j => After(list[i]) <= list[j].addr
Apart(list, S) ==
  \A i \in 1 .. Len(list) - 1 : i \notin S => After(list[i]) < list[i + 1].addr
Linked(list) == Sorted(list) /\ Apart(list, {})

FreeSet(list) == UNION {Extent(list[i]) : i \in 1 .. Len(list)}

(* MergeNext() on the list alone. *)
Merged(list, i) ==
  IF {i, i + 1} \subseteq DOMAIN list /\ After(list[i]) = list[i + 1].addr
  THEN [RemoveAt(list, i + 1) EXCEPT ![i].size = @ + list[i + 1].size]
  ELSE list

-----------------------------------------------------------------------------
LEMMA Bounds ==
  /\ Base \in Nat /\ Size \in Nat /\ End \in Nat /\ Base >= 1 /\ End = Base + Size
  /\ \A a : a \in Unit <=> a \in Int /\ Base <= a /\ a < End
  BY HeapAssumption DEF End, Unit

LEMMA ExtentIs ==
  ASSUME NEW b, b.addr \in Int, b.size \in Int
  PROVE  \A a : a \in Extent(b) <=> a \in Int /\ b.addr <= a /\ a < b.addr + b.size
  BY DEF Extent

LEMMA Elsewhere ==
  ASSUME NEW b \in Node, NEW c \in Node, After(b) <= c.addr \/ After(c) <= b.addr,
         NEW a, b.addr <= a, a < After(b), a \in Int
  PROVE  a \notin Extent(c)
  BY ExtentIs DEF Node, After

LEMMA FreeSetIs ==
  ASSUME NEW list \in Seq(Node)
  PROVE  \A a : a \in FreeSet(list) <=>
           a \in Int /\ \E i \in 1 .. Len(list) : list[i].addr <= a /\ a < After(list[i])
  <1>1. \A i \in 1 .. Len(list) : list[i] \in Node
    BY ElementOfSeq
  <1>2. \A i \in 1 .. Len(list) : \A a :
          a \in Extent(list[i]) <=> a \in Int /\ list[i].addr <= a /\ a < After(list[i])
    BY <1>1, ExtentIs DEF Node, After
  <1>3. QED
    BY <1>2 DEF FreeSet

LEMMA NodesIn ==
  ASSUME NEW list, Sorted(list)
  PROVE  /\ Len(list) \in Nat /\ DOMAIN list = 1 .. Len(list) /\ list \in Seq(Node)
         /\ \A i \in 1 .. Len(list) :
              /\ list[i] \in Node /\ list[i].addr \in Nat /\ list[i].size \in Nat
              /\ list[i].size >= 2 /\ Base <= list[i].addr /\ After(list[i]) <= End
              /\ After(list[i]) = list[i].addr + list[i].size
  <1>1. list \in Seq(Node) /\ \A i \in 1 .. Len(list) : Fits(list[i])
    BY DEF Sorted
  <1>2. Len(list) \in Nat /\ DOMAIN list = 1 .. Len(list)
    BY <1>1, LenProperties
  <1>3. QED
    BY <1>1, <1>2 DEF Fits, Node, NodeSize, After

-----------------------------------------------------------------------------
(* Sequences. *)
LEMMA Glue ==
  ASSUME NEW S, NEW s \in Seq(S), NEW t \in Seq(S), NEW m, NEW n, Len(s) = m, Len(t) = n
  PROVE  /\ s \o t \in Seq(S) /\ Len(s \o t) = m + n
         /\ \A j \in 1 .. m + n : (s \o t)[j] = IF j <= m THEN s[j] ELSE t[j - m]
  BY ConcatProperties

LEMMA InsertAtIs ==
  ASSUME NEW S, NEW seq \in Seq(S), NEW b \in S, NEW i \in 1 .. Len(seq) + 1
  PROVE  /\ InsertAt(seq, i, b) \in Seq(S)
         /\ Len(InsertAt(seq, i, b)) = Len(seq) + 1
         /\ InsertAt(seq, i, b)[i] = b
         /\ \A j \in 1 .. i - 1 : InsertAt(seq, i, b)[j] = seq[j]
         /\ \A j \in i .. Len(seq) : InsertAt(seq, i, b)[j + 1] = seq[j]
  <1> DEFINE n == Len(seq)
             front == SubSeq(seq, 1, i - 1)
             back == SubSeq(seq, i, n)
             left == front \o <<b>>
  <1>1. n \in Nat /\ \A j \in 1 .. n : seq[j] \in S
    BY LenProperties, ElementOfSeq
  <1>2. /\ front \in Seq(S) /\ Len(front) = i - 1
        /\ \A j \in 1 .. i - 1 : front[j] = seq[j]
    <2>1. \A j \in 1 .. i - 1 : seq[j] \in S
      BY <1>1
    <2>2. /\ front \in Seq(S) /\ Len(front) = IF 1 <= i - 1 THEN i - 1 - 1 + 1 ELSE 0
          /\ \A j \in 1 .. i - 1 - 1 + 1 : front[j] = seq[1 + j - 1]
      BY <1>1, <2>1, SubSeqProperties
    <2> HIDE DEF front
    <2>3. QED
      BY <1>1, <2>2
  <1>3. /\ back \in Seq(S) /\ Len(back) = n - i + 1
        /\ \A j \in 1 .. n - i + 1 : back[j] = seq[i + j - 1]
    <2>1. \A j \in i .. n : seq[j] \in S
      BY <1>1
    <2>2. /\ back \in Seq(S) /\ Len(back) = IF i <= n THEN n - i + 1 ELSE 0
          /\ \A j \in 1 .. n - i + 1 : back[j] = seq[i + j - 1]
      BY <1>1, <2>1, SubSeqProperties
    <2> HIDE DEF back
    <2>3. QED
      BY <1>1, <2>2
  <1>4. <<b>> \in Seq(S) /\ Len(<<b>>) = 1 /\ <<b>>[1] = b
    OBVIOUS
  <1> HIDE DEF front, back, n
  <1>5. /\ left \in Seq(S) /\ Len(left) = i
        /\ \A j \in 1 .. i : left[j] = IF j <= i - 1 THEN front[j] ELSE <<b>>[j - (i - 1)]
    BY <1>1, <1>2, <1>4, ConcatProperties
  <1> HIDE DEF left
  <1>6. /\ left \o back \in Seq(S) /\ Len(left \o back) = i + (n - i + 1)
        /\ \A j \in 1 .. i + (n - i + 1) :
             (left \o back)[j] = IF j <= i THEN left[j] ELSE back[j - i]
    BY ONLY SMTT(30), <1>3, <1>5, Glue
  <1>7. InsertAt(seq, i, b) = left \o back
    BY DEF InsertAt, left, front, back, n
  <1> DEFINE new == left \o back
  <1> HIDE DEF new
  <1>8. new \in Seq(S) /\ Len(new) = n + 1 /\ i \in 1 .. n + 1
    BY <1>1, <1>6 DEF new, n
  <1>9. new[i] = b
    <2>1. /\ i \in 1 .. i /\ i \in 1 .. i + (n - i + 1) /\ i <= i /\ ~(i <= i - 1)
          /\ i - (i - 1) = 1
      BY <1>1, <1>8
    <2>2. new[i] = left[i]
      BY <1>6, <2>1 DEF new
    <2>3. left[i] = <<b>>[i - (i - 1)]
      BY <1>5, <2>1
    <2>4. QED
      BY <1>4, <2>1, <2>2, <2>3
  <1>10. \A j \in 1 .. i - 1 : new[j] = seq[j]
    BY SMTT(30), <1>1, <1>2, <1>5, <1>6 DEF new, n
  <1>11. ASSUME NEW j \in i .. n
         PROVE  new[j + 1] = seq[j]
    <2>1. j + 1 \in 1 .. i + (n - i + 1) /\ ~(j + 1 <= i) /\ (j + 1) - i \in 1 .. n - i + 1
          /\ i + ((j + 1) - i) - 1 = j
      BY <1>1, <1>8
    <2>2. new[j + 1] = back[(j + 1) - i]
      BY <1>6, <2>1 DEF new
    <2>3. back[(j + 1) - i] = seq[i + ((j + 1) - i) - 1]
      BY <1>3, <2>1
    <2>4. QED
      BY <2>1, <2>2, <2>3
  <1>12. QED
    BY <1>7, <1>8, <1>9, <1>10, <1>11 DEF new, n

LEMMA RemoveAtIs ==
  ASSUME NEW S, NEW seq \in Seq(S), NEW i \in 1 .. Len(seq)
  PROVE  /\ RemoveAt(seq, i) \in Seq(S)
         /\ Len(RemoveAt(seq, i)) = Len(seq) - 1
         /\ \A j \in 1 .. i - 1 : RemoveAt(seq, i)[j] = seq[j]
         /\ \A j \in i .. Len(seq) - 1 : RemoveAt(seq, i)[j] = seq[j + 1]
  <1> DEFINE n == Len(seq)
             front == SubSeq(seq, 1, i - 1)
             back == SubSeq(seq, i + 1, n)
  <1>1. n \in Nat /\ \A j \in 1 .. n : seq[j] \in S
    BY LenProperties, ElementOfSeq
  <1>2. /\ front \in Seq(S) /\ Len(front) = i - 1
        /\ \A j \in 1 .. i - 1 : front[j] = seq[j]
    <2>1. \A j \in 1 .. i - 1 : seq[j] \in S
      BY <1>1
    <2>2. /\ front \in Seq(S) /\ Len(front) = IF 1 <= i - 1 THEN i - 1 - 1 + 1 ELSE 0
          /\ \A j \in 1 .. i - 1 - 1 + 1 : front[j] = seq[1 + j - 1]
      BY <1>1, <2>1, SubSeqProperties
    <2> HIDE DEF front
    <2>3. QED
      BY <1>1, <2>2
  <1>3. /\ back \in Seq(S) /\ Len(back) = n - i
        /\ \A j \in 1 .. n - i : back[j] = seq[i + j]
    <2>1. \A j \in i + 1 .. n : seq[j] \in S
      BY <1>1
    <2>2. /\ back \in Seq(S) /\ Len(back) = IF i + 1 <= n THEN n - (i + 1) + 1 ELSE 0
          /\ \A j \in 1 .. n - (i + 1) + 1 : back[j] = seq[(i + 1) + j - 1]
      BY <1>1, <2>1, SubSeqProperties
    <2> HIDE DEF back
    <2>3. QED
      BY <1>1, <2>2
  <1> HIDE DEF front, back, n
  <1>4. /\ front \o back \in Seq(S) /\ Len(front \o back) = (i - 1) + (n - i)
        /\ \A j \in 1 .. (i - 1) + (n - i) :
             (front \o back)[j] = IF j <= i - 1 THEN front[j] ELSE back[j - (i - 1)]
    <2> DEFINE l == i - 1
               m == n - i
    <2>1. front \in Seq(S) /\ back \in Seq(S) /\ Len(front) = l /\ Len(back) = m
      BY <1>2, <1>3
    <2> HIDE DEF l, m
    <2>2. /\ front \o back \in Seq(S) /\ Len(front \o back) = l + m
          /\ \A j \in 1 .. l + m : (front \o back)[j] = IF j <= l THEN front[j] ELSE back[j - l]
      BY ONLY <2>1, Glue
    <2>3. QED
      BY <2>2 DEF l, m
  <1>5. RemoveAt(seq, i) = front \o back
    BY DEF RemoveAt, front, back, n
  <1> DEFINE new == front \o back
  <1> HIDE DEF new
  <1>6. new \in Seq(S) /\ Len(new) = n - 1 /\ i \in 1 .. n
    BY <1>1, <1>4 DEF new, n
  <1>7. \A j \in 1 .. i - 1 : new[j] = seq[j]
    BY <1>1, <1>2, <1>4, <1>6 DEF new
  <1>8. ASSUME NEW j \in i .. n - 1
        PROVE  new[j] = seq[j + 1]
    <2>1. /\ j \in 1 .. (i - 1) + (n - i) /\ ~(j <= i - 1) /\ j - (i - 1) \in 1 .. n - i
          /\ i + (j - (i - 1)) = j + 1
      BY <1>1, <1>6
    <2>2. new[j] = back[j - (i - 1)]
      BY <1>4, <2>1 DEF new
    <2>3. back[j - (i - 1)] = seq[i + (j - (i - 1))]
      BY <1>3, <2>1
    <2>4. QED
      BY <2>1, <2>2, <2>3
  <1>9. QED
    BY <1>5, <1>6, <1>7, <1>8 DEF new, n

-----------------------------------------------------------------------------
(* The free list. *)

(* A node is put where it fits in; it may touch its neighbours. *)
LEMMA InsertLinked ==
  ASSUME NEW list, Linked(list), NEW b, Fits(b), NEW i \in 1 .. Len(list) + 1,
         \A j \in 1 .. i - 1 : After(list[j]) <= b.addr,
         \A j \in i .. Len(list) : After(b) <= list[j].addr
  PROVE  /\ Sorted(InsertAt(list, i, b)) /\ Apart(InsertAt(list, i, b), {i - 1, i})
         /\ Len(InsertAt(list, i, b)) = Len(list) + 1
         /\ FreeSet(InsertAt(list, i, b)) = FreeSet(list) \cup Extent(b)
  <1> DEFINE new == InsertAt(list, i, b)
             n == Len(list)
  <1>1. /\ n \in Nat /\ list \in Seq(Node)
        /\ \A j \in 1 .. n : /\ list[j] \in Node /\ list[j].addr \in Nat /\ list[j].size \in Nat
                            /\ list[j].size >= 2 /\ After(list[j]) = list[j].addr + list[j].size
    BY NodesIn DEF Linked
  <1>2. /\ b \in Node /\ b.addr \in Nat /\ b.size \in Nat /\ b.size >= 2
        /\ After(b) = b.addr + b.size
    BY DEF Fits, Node, NodeSize, After
  <1>3. /\ \A j \in 1 .. n : Fits(list[j])
        /\ \A j, k \in 1 .. n : j < k => After(list[j]) <= list[k].addr
        /\ \A j \in 1 .. n - 1 : After(list[j]) < list[j + 1].addr
    BY DEF Linked, Sorted, Apart
  <1>4. /\ new \in Seq(Node) /\ Len(new) = n + 1
        /\ new[i] = b
        /\ \A j \in 1 .. i - 1 : new[j] = list[j]
        /\ \A j \in i .. n : new[j + 1] = list[j]
    BY <1>1, <1>2, InsertAtIs
  <1> HIDE DEF new, n
  <1>5. i \in 1 .. n + 1
    BY DEF n
  <1>6. \A k \in 1 .. n + 1 :
          \/ k < i /\ k \in 1 .. n /\ new[k] = list[k]
          \/ k = i /\ new[k] = b
          \/ k > i /\ k - 1 \in 1 .. n /\ k - 1 >= i /\ new[k] = list[k - 1]
    <2>1. ASSUME NEW k \in 1 .. n + 1, k > i
          PROVE  k - 1 \in 1 .. n /\ k - 1 >= i /\ new[k] = list[k - 1]
      <3>1. k - 1 \in i .. n /\ (k - 1) + 1 = k /\ k - 1 \in 1 .. n
        BY <1>1, <1>5, <2>1
      <3>2. new[(k - 1) + 1] = list[k - 1]
        BY <1>4, <3>1
      <3>3. QED
        BY <3>1, <3>2
    <2>2. ASSUME NEW k \in 1 .. n + 1, k < i
          PROVE  k \in 1 .. n /\ new[k] = list[k]
      BY <1>1, <1>4, <1>5, <2>2
    <2>3. QED
      BY <1>1, <1>4, <1>5, <2>1, <2>2
  <1>7. /\ \A j \in 1 .. n : j < i => After(list[j]) <= b.addr
        /\ \A j \in 1 .. n : j >= i => After(b) <= list[j].addr
    BY <1>1, <1>5 DEF n
  <1>8. Sorted(new)
    <2>1. \A k \in 1 .. n + 1 : Fits(new[k])
      BY <1>3, <1>6
    <2>2. ASSUME NEW j \in 1 .. n + 1, NEW k \in 1 .. n + 1, j < k
          PROVE  After(new[j]) <= new[k].addr
      <3>1. CASE k < i
        <4>1. j < i /\ j \in 1 .. n /\ k \in 1 .. n /\ new[j] = list[j] /\ new[k] = list[k]
          BY <1>1, <1>5, <1>6, <2>2, <3>1
        <4>2. QED
          BY <1>3, <2>2, <4>1
      <3>2. CASE k = i
        BY <1>1, <1>5, <1>6, <1>7, <2>2, <3>2
      <3>3. CASE k > i
        <4>1. k - 1 \in 1 .. n /\ k - 1 >= i /\ new[k] = list[k - 1]
          BY <1>1, <1>5, <1>6, <3>3
        <4>2. CASE j < i
          <5>1. j \in 1 .. n /\ new[j] = list[j] /\ j < k - 1
            BY <1>1, <1>5, <1>6, <4>1, <4>2
          <5>2. QED
            BY <1>3, <4>1, <5>1
        <4>3. CASE j = i
          BY <1>1, <1>5, <1>6, <1>7, <4>1, <4>3
        <4>4. CASE j > i
          <5>1. j - 1 \in 1 .. n /\ new[j] = list[j - 1] /\ j - 1 < k - 1
            BY <1>1, <1>5, <1>6, <2>2, <4>1, <4>4
          <5>2. QED
            BY <1>3, <4>1, <5>1
        <4>5. QED
          BY <1>1, <1>5, <4>2, <4>3, <4>4
      <3>4. QED
        BY <1>1, <1>5, <3>1, <3>2, <3>3
    <2>3. QED
      BY <1>4, <2>1, <2>2 DEF Sorted
  <1>9. Apart(new, {i - 1, i})
    <2>1. ASSUME NEW k \in 1 .. n, k \notin {i - 1, i}
          PROVE  After(new[k]) < new[k + 1].addr
      <3>1. CASE k < i - 1
        <4>1. new[k] = list[k] /\ new[k + 1] = list[k + 1] /\ k \in 1 .. n - 1
          BY <1>1, <1>5, <1>6, <3>1
        <4>2. QED
          BY <1>3, <4>1
      <3>2. CASE k > i
        <4>1. /\ new[k] = list[k - 1] /\ new[k + 1] = list[(k + 1) - 1] /\ (k + 1) - 1 = (k - 1) + 1
              /\ k - 1 \in 1 .. n - 1
          BY <1>1, <1>5, <1>6, <3>2
        <4>2. After(list[k - 1]) < list[(k - 1) + 1].addr
          BY <1>3, <4>1
        <4>3. QED
          BY <4>1, <4>2
      <3>3. QED
        BY <1>1, <1>5, <2>1, <3>1, <3>2
    <2>2. Len(new) - 1 = n
      BY <1>1, <1>4
    <2>3. QED
      BY <2>1, <2>2 DEF Apart
  <1>10. FreeSet(new) = FreeSet(list) \cup Extent(b)
    <2>1. \A a : a \in FreeSet(new) <=>
            a \in Int /\ \E k \in 1 .. n + 1 : new[k].addr <= a /\ a < After(new[k])
      BY <1>4, FreeSetIs
    <2>2. \A a : a \in FreeSet(list) <=>
            a \in Int /\ \E k \in 1 .. n : list[k].addr <= a /\ a < After(list[k])
      BY <1>1, FreeSetIs DEF n
    <2>3. \A a : a \in Extent(b) <=> a \in Int /\ b.addr <= a /\ a < After(b)
      BY <1>2, ExtentIs
    <2>4. ASSUME NEW a \in FreeSet(new)
          PROVE  a \in FreeSet(list) \cup Extent(b)
      BY <1>6, <2>1, <2>2, <2>3
    <2>5. ASSUME NEW a \in FreeSet(list)
          PROVE  a \in FreeSet(new)
      <3>1. PICK k \in 1 .. n : a \in Int /\ list[k].addr <= a /\ a < After(list[k])
        BY <2>2
      <3>2. \E j \in 1 .. n + 1 : new[j] = list[k]
        <4>1. k < i => k \in 1 .. n + 1 /\ k \in 1 .. i - 1
          BY <1>1, <1>5
        <4>2. ~(k < i) => k + 1 \in 1 .. n + 1 /\ k \in i .. n
          BY <1>1, <1>5
        <4>3. QED
          BY <1>4, <4>1, <4>2
      <3>3. QED
        BY <2>1, <3>1, <3>2
    <2>6. ASSUME NEW a \in Extent(b)
          PROVE  a \in FreeSet(new)
      BY <1>1, <1>4, <1>5, <2>1, <2>3
    <2>7. QED
      BY <2>4, <2>5, <2>6
  <1>11. QED
    BY <1>4, <1>8, <1>9, <1>10 DEF new, n

(* A node goes away. *)
LEMMA RemoveLinked ==
  ASSUME NEW list, Linked(list), NEW i \in 1 .. Len(list)
  PROVE  /\ Linked(RemoveAt(list, i))
         /\ Len(RemoveAt(list, i)) = Len(list) - 1
         /\ FreeSet(RemoveAt(list, i)) = FreeSet(list) \ Extent(list[i])
  <1> DEFINE new == RemoveAt(list, i)
             n == Len(list)
  <1>1. /\ n \in Nat /\ list \in Seq(Node)
        /\ \A j \in 1 .. n : /\ list[j] \in Node /\ list[j].addr \in Nat /\ list[j].size \in Nat
                            /\ list[j].size >= 2 /\ After(list[j]) = list[j].addr + list[j].size
    BY NodesIn DEF Linked
  <1>2. /\ \A j \in 1 .. n : Fits(list[j])
        /\ \A j, k \in 1 .. n : j < k => After(list[j]) <= list[k].addr
        /\ \A j \in 1 .. n - 1 : After(list[j]) < list[j + 1].addr
    BY DEF Linked, Sorted, Apart
  <1>3. /\ new \in Seq(Node) /\ Len(new) = n - 1
        /\ \A j \in 1 .. i - 1 : new[j] = list[j]
        /\ \A j \in i .. n - 1 : new[j] = list[j + 1]
    BY <1>1, RemoveAtIs
  <1> HIDE DEF new, n
  <1>4. i \in 1 .. n
    BY DEF n
  <1>5. \A k \in 1 .. n - 1 :
          \/ k < i /\ k \in 1 .. n /\ new[k] = list[k]
          \/ k >= i /\ k + 1 \in 1 .. n /\ new[k] = list[k + 1]
    BY SMTT(30), <1>1, <1>3, <1>4
  <1>6. Sorted(new)
    <2>1. \A k \in 1 .. n - 1 : Fits(new[k])
      BY <1>2, <1>5
    <2>2. ASSUME NEW j \in 1 .. n - 1, NEW k \in 1 .. n - 1, j < k
          PROVE  After(new[j]) <= new[k].addr
      <3>1. CASE k < i
        <4>1. j < i /\ j \in 1 .. n /\ k \in 1 .. n /\ new[j] = list[j] /\ new[k] = list[k]
          BY <1>1, <1>4, <1>5, <2>2, <3>1
        <4>2. QED
          BY <1>2, <2>2, <4>1
      <3>2. CASE k >= i
        <4>1. k + 1 \in 1 .. n /\ new[k] = list[k + 1]
          BY <1>1, <1>4, <1>5, <3>2
        <4>2. PICK l \in 1 .. n : l < k + 1 /\ new[j] = list[l]
          BY <1>1, <1>4, <1>5, <2>2
        <4>3. QED
          BY <1>2, <4>1, <4>2
      <3>3. QED
        BY <1>1, <1>4, <3>1, <3>2
    <2>3. QED
      BY <1>3, <2>1, <2>2 DEF Sorted
  <1>7. Apart(new, {})
    <2>1. ASSUME NEW k \in 1 .. n - 2
          PROVE  After(new[k]) < new[k + 1].addr
      <3>1. CASE k + 1 < i
        <4>1. new[k] = list[k] /\ new[k + 1] = list[k + 1] /\ k \in 1 .. n - 1
          BY <1>1, <1>4, <1>5, <3>1
        <4>2. QED
          BY <1>2, <4>1
      <3>2. CASE k + 1 = i
        <4>1. new[k] = list[k] /\ new[k + 1] = list[(k + 1) + 1] /\ k \in 1 .. n - 1
          BY <1>1, <1>4, <1>5, <3>2
        <4>2. /\ After(list[k]) < list[k + 1].addr
              /\ After(list[k + 1]) < list[(k + 1) + 1].addr
          <5>1. k + 1 \in 1 .. n - 1
            BY <1>1
          <5>2. QED
            BY <1>2, <4>1, <5>1
        <4>3. k \in 1 .. n /\ k + 1 \in 1 .. n /\ (k + 1) + 1 \in 1 .. n
          BY <1>1
        <4>4. list[k + 1].addr <= After(list[k + 1])
          BY <1>1, <4>3
        <4>5. /\ After(list[k]) \in Nat /\ list[k + 1].addr \in Nat /\ After(list[k + 1]) \in Nat
              /\ list[(k + 1) + 1].addr \in Nat
          <5>1. \A x \in 1 .. n : After(list[x]) \in Nat /\ list[x].addr \in Nat
            BY <1>1
          <5>2. QED
            BY <4>3, <5>1
        <4>6. After(list[k]) < list[(k + 1) + 1].addr
          BY ONLY <4>2, <4>4, <4>5
        <4>7. QED
          BY <4>1, <4>6
      <3>3. CASE k >= i
        <4>1. n \in Nat /\ i \in Nat /\ k \in 1 .. n - 1 /\ k + 1 \in 1 .. n - 1 /\ k + 1 >= i
          BY <1>1, <1>4, <3>3
        <4>2. new[k] = list[k + 1]
          BY ONLY <1>5, <3>3, <4>1
        <4>3. new[k + 1] = list[(k + 1) + 1]
          BY ONLY <1>5, <3>3, <4>1
        <4>4. QED
          BY <1>2, <4>1, <4>2, <4>3
      <3>4. QED
        BY <1>1, <1>4, <3>1, <3>2, <3>3
    <2>2. Len(new) - 1 = n - 2
      BY <1>1, <1>3
    <2>3. QED
      BY <2>1, <2>2 DEF Apart
  <1>8. FreeSet(new) = FreeSet(list) \ Extent(list[i])
    <2>1. \A a : a \in FreeSet(new) <=>
            a \in Int /\ \E k \in 1 .. n - 1 : new[k].addr <= a /\ a < After(new[k])
      BY <1>3, FreeSetIs
    <2>2. \A a : a \in FreeSet(list) <=>
            a \in Int /\ \E k \in 1 .. n : list[k].addr <= a /\ a < After(list[k])
      BY <1>1, FreeSetIs DEF n
    <2>3. \A a : a \in Extent(list[i]) <=> a \in Int /\ list[i].addr <= a /\ a < After(list[i])
      BY <1>1, <1>4, ExtentIs
    <2>4. ASSUME NEW a \in FreeSet(new)
          PROVE  a \in FreeSet(list) \ Extent(list[i])
      <3>1. PICK k \in 1 .. n : k # i /\ a \in Int /\ list[k].addr <= a /\ a < After(list[k])
        <4>1. PICK k \in 1 .. n - 1 : a \in Int /\ new[k].addr <= a /\ a < After(new[k])
          BY <2>1
        <4>2. CASE k < i
          BY <1>5, <4>1, <4>2
        <4>3. CASE k >= i
          <5>1. k + 1 \in 1 .. n /\ k + 1 # i
            BY <1>1, <1>4, <4>3
          <5>2. new[k] = list[k + 1]
            BY <1>1, <1>4, <1>3, <4>3
          <5>3. QED
            BY <4>1, <5>1, <5>2
        <4>4. QED
          BY <1>1, <1>4, <4>2, <4>3
      <3>2. k < i \/ i < k
        BY <1>1, <1>4, <3>1
      <3>3. After(list[k]) <= list[i].addr \/ After(list[i]) <= list[k].addr
        BY <1>2, <1>4, <3>2
      <3>4. a \notin Extent(list[i])
        BY <1>1, <1>4, <3>1, <3>3, Elsewhere
      <3>5. QED
        BY <2>2, <3>1, <3>4
    <2>5. ASSUME NEW a \in FreeSet(list), a \notin Extent(list[i])
          PROVE  a \in FreeSet(new)
      <3>1. PICK k \in 1 .. n : a \in Int /\ list[k].addr <= a /\ a < After(list[k])
        BY <2>2
      <3>2. k # i
        BY <2>3, <2>5, <3>1
      <3>3. \E j \in 1 .. n - 1 : new[j] = list[k]
        <4>1. k < i => k \in 1 .. n - 1 /\ k \in 1 .. i - 1
          BY <1>1, <1>4
        <4>2. ~(k < i) => k - 1 \in i .. n - 1 /\ k - 1 \in 1 .. n - 1 /\ (k - 1) + 1 = k
          BY <1>1, <1>4, <3>2
        <4>3. QED
          BY <1>3, <4>1, <4>2
      <3>4. QED
        BY <2>1, <3>1, <3>3
    <2>6. QED
      BY <2>4, <2>5
  <1>9. QED
    BY <1>3, <1>6, <1>7, <1>8 DEF new, n, Linked

(* A node becomes another one between the same neighbours. *)
LEMMA ReplaceLinked ==
  ASSUME NEW list, Linked(list), NEW i \in 1 .. Len(list), NEW b, Fits(b), NEW S,
         \A j \in 1 .. Len(list) : j < i => After(list[j]) <= b.addr,
         \A j \in 1 .. Len(list) : i < j => After(b) <= list[j].addr,
         i > 1 /\ i - 1 \notin S => After(list[i - 1]) < b.addr,
         i < Len(list) /\ i \notin S => After(b) < list[i + 1].addr
  PROVE  /\ Sorted([list EXCEPT ![i] = b]) /\ Apart([list EXCEPT ![i] = b], S)
         /\ Len([list EXCEPT ![i] = b]) = Len(list)
         /\ FreeSet([list EXCEPT ![i] = b]) = (FreeSet(list) \ Extent(list[i])) \cup Extent(b)
  <1> DEFINE new == [list EXCEPT ![i] = b]
             n == Len(list)
  <1>1. /\ n \in Nat /\ list \in Seq(Node) /\ i \in 1 .. n
        /\ \A j \in 1 .. n : /\ list[j] \in Node /\ list[j].addr \in Nat /\ list[j].size \in Nat
                            /\ list[j].size >= 2 /\ After(list[j]) = list[j].addr + list[j].size
    BY NodesIn DEF Linked
  <1>2. /\ b \in Node /\ b.addr \in Nat /\ b.size \in Nat /\ b.size >= 2
        /\ After(b) = b.addr + b.size
    BY DEF Fits, Node, NodeSize, After
  <1>3. /\ \A j \in 1 .. n : Fits(list[j])
        /\ \A j, k \in 1 .. n : j < k => After(list[j]) <= list[k].addr
        /\ \A j \in 1 .. n - 1 : After(list[j]) < list[j + 1].addr
    BY DEF Linked, Sorted, Apart
  <1>4. /\ new \in Seq(Node) /\ Len(new) = n
        /\ \A j \in 1 .. n : new[j] = IF j = i THEN b ELSE list[j]
    BY <1>1, <1>2, ExceptSeq
  <1>5. /\ \A j \in 1 .. n : j < i => After(list[j]) <= b.addr
        /\ \A j \in 1 .. n : i < j => After(b) <= list[j].addr
        /\ i > 1 /\ i - 1 \notin S => After(list[i - 1]) < b.addr
        /\ i < n /\ i \notin S => After(b) < list[i + 1].addr
    OBVIOUS
  <1> HIDE DEF new, n
  <1>6. Sorted(new)
    <2>1. \A j \in 1 .. n : Fits(new[j])
      BY <1>3, <1>4
    <2>2. ASSUME NEW j \in 1 .. n, NEW k \in 1 .. n, j < k
          PROVE  After(new[j]) <= new[k].addr
      <3>1. CASE j = i
        BY <1>1, <1>4, <1>5, <2>2, <3>1
      <3>2. CASE k = i
        <4>1. j # i /\ j < i
          BY <1>1, <2>2, <3>2
        <4>2. new[j] = list[j] /\ new[k] = b
          BY <1>4, <3>2, <4>1
        <4>3. QED
          BY <1>5, <4>1, <4>2
      <3>3. CASE j # i /\ k # i
        BY <1>3, <1>4, <2>2, <3>3
      <3>4. QED
        BY <3>1, <3>2, <3>3
    <2>3. QED
      BY <1>4, <2>1, <2>2 DEF Sorted
  <1>7. Apart(new, S)
    <2>1. ASSUME NEW j \in 1 .. n - 1, j \notin S
          PROVE  After(new[j]) < new[j + 1].addr
      <3>1. j \in 1 .. n /\ j + 1 \in 1 .. n
        BY <1>1
      <3>2. CASE j = i
        BY <1>1, <1>4, <1>5, <2>1, <3>1, <3>2
      <3>3. CASE j + 1 = i
        <4>1. i > 1 /\ i - 1 = j /\ j # i
          BY <1>1, <3>1, <3>3
        <4>2. QED
          BY <1>4, <1>5, <2>1, <3>1, <3>3, <4>1
      <3>4. CASE j # i /\ j + 1 # i
        BY <1>3, <1>4, <3>1, <3>4
      <3>5. QED
        BY <3>2, <3>3, <3>4
    <2>2. QED
      BY <1>4, <2>1 DEF Apart
  <1>8. FreeSet(new) = (FreeSet(list) \ Extent(list[i])) \cup Extent(b)
    <2>1. \A a : a \in FreeSet(new) <=>
            a \in Int /\ \E k \in 1 .. n : new[k].addr <= a /\ a < After(new[k])
      BY <1>4, FreeSetIs
    <2>2. \A a : a \in FreeSet(list) <=>
            a \in Int /\ \E k \in 1 .. n : list[k].addr <= a /\ a < After(list[k])
      BY <1>1, FreeSetIs DEF n
    <2>3. /\ \A a : a \in Extent(list[i]) <=> a \in Int /\ list[i].addr <= a /\ a < After(list[i])
          /\ \A a : a \in Extent(b) <=> a \in Int /\ b.addr <= a /\ a < After(b)
      BY SMTT(30), <1>1, <1>2, ExtentIs
    <2>4. ASSUME NEW a \in FreeSet(new)
          PROVE  a \in (FreeSet(list) \ Extent(list[i])) \cup Extent(b)
      <3>1. PICK k \in 1 .. n : a \in Int /\ new[k].addr <= a /\ a < After(new[k])
        BY <2>1
      <3>2. CASE k = i
        BY <1>4, <2>3, <3>1, <3>2
      <3>3. CASE k # i
        <4>1. new[k] = list[k] /\ (k < i \/ i < k)
          BY <1>1, <1>4, <3>3
        <4>2. After(list[k]) <= list[i].addr \/ After(list[i]) <= list[k].addr
          BY <1>1, <1>3, <4>1
        <4>3. a \notin Extent(list[i])
          BY <1>1, <3>1, <4>1, <4>2, Elsewhere
        <4>4. QED
          BY <2>2, <3>1, <4>1, <4>3
      <3>4. QED
        BY <3>2, <3>3
    <2>5. ASSUME NEW a \in FreeSet(list) \ Extent(list[i])
          PROVE  a \in FreeSet(new)
      <3>1. PICK k \in 1 .. n : a \in Int /\ list[k].addr <= a /\ a < After(list[k])
        BY <2>2
      <3>2. k # i
        BY <2>3, <2>5, <3>1
      <3>3. QED
        BY <1>4, <2>1, <3>1, <3>2
    <2>6. ASSUME NEW a \in Extent(b)
          PROVE  a \in FreeSet(new)
      BY <1>1, <1>4, <2>1, <2>3, <2>6
    <2>7. QED
      BY <2>4, <2>5, <2>6
  <1>9. QED
    BY <1>4, <1>6, <1>7, <1>8 DEF new, n

(* Node i and the one behind it become one. *)
LEMMA MergedLinked ==
  ASSUME NEW list, Sorted(list), NEW i \in Nat, NEW S, Apart(list, S), S \subseteq {i - 1, i}
  PROVE  /\ Sorted(Merged(list, i)) /\ Apart(Merged(list, i), S \ {i})
         /\ FreeSet(Merged(list, i)) = FreeSet(list)
         /\ Len(Merged(list, i)) \in {Len(list), Len(list) - 1}
         /\ Len(list) > 0 => Len(Merged(list, i)) > 0
  <1> DEFINE new == Merged(list, i)
             n == Len(list)
             nodes == list[i].size + list[i + 1].size
             m == [list[i] EXCEPT !.size = nodes]
  <1>1. /\ n \in Nat /\ list \in Seq(Node) /\ DOMAIN list = 1 .. n
        /\ \A j \in 1 .. n : /\ list[j] \in Node /\ list[j].addr \in Nat /\ list[j].size \in Nat
                            /\ list[j].size >= 2 /\ After(list[j]) = list[j].addr + list[j].size
                            /\ After(list[j]) \in Nat
    BY NodesIn
  <1>2. /\ \A j \in 1 .. n : Fits(list[j])
        /\ \A j, k \in 1 .. n : j < k => After(list[j]) <= list[k].addr
        /\ \A j \in 1 .. n - 1 : j \notin S => After(list[j]) < list[j + 1].addr
    BY DEF Sorted, Apart
  <1>3. CASE ~({i, i + 1} \subseteq 1 .. n /\ After(list[i]) = list[i + 1].addr)
    <2>1. new = list
      BY <1>1, <1>3 DEF Merged
    <2>2. \A j \in 1 .. n - 1 : j = i => After(list[j]) < list[j + 1].addr
      <3>1. ASSUME i \in 1 .. n - 1
            PROVE  After(list[i]) < list[i + 1].addr
        <4>1. i \in 1 .. n /\ i + 1 \in 1 .. n
          BY <1>1, <3>1
        <4>2. After(list[i]) <= list[i + 1].addr /\ After(list[i]) # list[i + 1].addr
          BY <1>2, <1>3, <4>1
        <4>3. After(list[i]) \in Nat /\ list[i + 1].addr \in Nat
          BY <1>1, <4>1
        <4>4. QED
          BY <4>2, <4>3
      <3>2. QED
        BY <3>1
    <2>3. Apart(list, S \ {i})
      BY <1>2, <2>2 DEF Apart
    <2>4. QED
      BY <1>1, <2>1, <2>3
  <1>4. CASE {i, i + 1} \subseteq 1 .. n /\ After(list[i]) = list[i + 1].addr
    <2> DEFINE rem == RemoveAt(list, i + 1)
    <2>1. i \in 1 .. n /\ i + 1 \in 1 .. n /\ i \in 1 .. n - 1
      BY <1>1, <1>4
    <2>2. /\ rem \in Seq(Node) /\ Len(rem) = n - 1
          /\ \A j \in 1 .. i : rem[j] = list[j]
          /\ \A j \in i + 1 .. n - 1 : rem[j] = list[j + 1]
      <3>1. /\ rem \in Seq(Node) /\ Len(rem) = n - 1
            /\ \A j \in 1 .. (i + 1) - 1 : rem[j] = list[j]
            /\ \A j \in i + 1 .. n - 1 : rem[j] = list[j + 1]
        BY <1>1, <2>1, RemoveAtIs
      <3>2. (i + 1) - 1 = i
        OBVIOUS
      <3>3. QED
        BY <3>1, <3>2
    <2>3. /\ list[i] \in Node /\ list[i].addr \in Nat /\ list[i].size \in Nat /\ list[i].size >= 2
          /\ list[i + 1] \in Node /\ list[i + 1].size \in Nat
          /\ After(list[i]) = list[i].addr + list[i].size
          /\ After(list[i + 1]) = list[i + 1].addr + list[i + 1].size
          /\ Fits(list[i]) /\ Fits(list[i + 1])
      BY <1>1, <1>2, <2>1
    <2>4. nodes \in Nat /\ nodes >= 2
      BY <2>3
    <2> HIDE DEF nodes
    <2>5. m \in Node /\ m.addr = list[i].addr /\ m.size = nodes
      BY <2>3, <2>4 DEF Node
    <2>6. After(m) = After(list[i + 1])
      BY <1>4, <2>3, <2>5 DEF After, nodes
    <2>7. Fits(m)
      BY <2>3, <2>4, <2>5, <2>6 DEF Fits, NodeSize
    <2>8. new = [rem EXCEPT ![i] = m]
      <3>1. new = [rem EXCEPT ![i].size = rem[i].size + list[i + 1].size]
        BY <1>1, <1>4 DEF Merged
      <3>2. rem[i] = list[i]
        BY <2>1, <2>2
      <3>3. QED
        BY <3>1, <3>2 DEF nodes
    <2> HIDE DEF rem, m, new
    <2>9. /\ new \in Seq(Node) /\ Len(new) = n - 1
          /\ \A j \in 1 .. n - 1 : new[j] = IF j = i THEN m ELSE rem[j]
      <3>1. i \in 1 .. Len(rem)
        BY <2>1, <2>2
      <3>2. /\ new \in Seq(Node) /\ Len(new) = Len(rem)
            /\ \A j \in 1 .. Len(rem) : new[j] = IF j = i THEN m ELSE rem[j]
        BY <2>2, <2>5, <2>8, <3>1, ExceptSeq
      <3>3. QED
        BY <2>2, <3>2
    <2>10. new[i] = m /\ After(new[i]) = After(list[i + 1]) /\ new[i].addr = list[i].addr
      BY <2>1, <2>5, <2>6, <2>9
    <2>11. \A k \in 1 .. n - 1 : k < i => k \in 1 .. n /\ new[k] = list[k]
      BY <1>1, <2>1, <2>2, <2>9
    <2>12. \A k \in 1 .. n - 1 : k > i => k + 1 \in 1 .. n /\ k + 1 > i + 1 /\ new[k] = list[k + 1]
      <3>1. ASSUME NEW k \in 1 .. n - 1, k > i
            PROVE  k + 1 \in 1 .. n /\ k + 1 > i + 1 /\ k \in i + 1 .. n - 1 /\ k # i
        BY <1>1, <2>1, <3>1
      <3>2. QED
        BY <2>2, <2>9, <3>1
    <2>13. Sorted(new)
      <3>1. ASSUME NEW k \in 1 .. n - 1
            PROVE  Fits(new[k])
        <4>1. CASE k < i
          BY <1>2, <2>11, <4>1
        <4>2. CASE k = i
          BY <2>7, <2>10, <4>2
        <4>3. CASE k > i
          BY <1>2, <2>12, <4>3
        <4>4. QED
          BY <1>1, <4>1, <4>2, <4>3
      <3>2. ASSUME NEW j \in 1 .. n - 1, NEW k \in 1 .. n - 1, j < k
            PROVE  After(new[j]) <= new[k].addr
        <4>1. PICK x \in 1 .. n : After(new[j]) = After(list[x]) /\ x <= j + 1 /\ (j < i => x = j)
          <5>1. CASE j < i
            <6>1. j \in 1 .. n /\ new[j] = list[j] /\ j <= j + 1
              BY SMTT(30), <1>1, <2>11, <5>1
            <6>2. QED
              BY <6>1
          <5>2. CASE j = i
            BY <1>1, <2>1, <2>10, <5>2
          <5>3. CASE j > i
            BY <1>1, <2>1, <2>12, <5>3
          <5>4. QED
            BY <1>1, <5>1, <5>2, <5>3
        <4>2. PICK y \in 1 .. n : new[k].addr = list[y].addr /\ y >= k /\ (k > i => y = k + 1)
          <5>1. CASE k < i
            <6>1. k \in 1 .. n /\ new[k] = list[k] /\ k >= k /\ ~(k > i)
              BY <1>1, <2>1, <2>11, <5>1
            <6>2. QED
              BY <6>1
          <5>2. CASE k = i
            BY SMTT(30), <1>1, <2>1, <2>10, <5>2
          <5>3. CASE k > i
            BY <1>1, <2>1, <2>12, <5>3
          <5>4. QED
            BY <1>1, <5>1, <5>2, <5>3
        <4>3. x < y
          BY <1>1, <3>2, <4>1, <4>2
        <4>4. QED
          BY <1>2, <4>1, <4>2, <4>3
      <3>3. QED
        BY <2>9, <3>1, <3>2 DEF Sorted
    <2>14. Apart(new, S \ {i})
      <3>1. ASSUME NEW k \in 1 .. n - 2, k \notin S \ {i}
            PROVE  After(new[k]) < new[k + 1].addr
        <4>1. CASE k < i
          <5>1. k \notin S /\ k \in 1 .. n - 1 /\ new[k] = list[k]
            BY <1>1, <2>11, <3>1, <4>1
          <5>2. new[k + 1].addr = list[k + 1].addr
            <6>1. k + 1 \in 1 .. n - 1 /\ (k + 1 < i \/ k + 1 = i)
              BY <1>1, <2>1, <4>1
            <6>2. QED
              BY <2>10, <2>11, <6>1
          <5>3. QED
            BY <1>2, <5>1, <5>2
        <4>2. CASE k >= i
          <5>1. /\ k + 1 \in 1 .. n - 1 /\ k + 1 > i /\ k + 1 \notin S /\ k \in 1 .. n - 1
            BY <1>1, <2>1, <4>2
          <5>2. new[k + 1] = list[(k + 1) + 1]
            BY <2>12, <5>1
          <5>3. After(new[k]) = After(list[k + 1])
            <6>1. CASE k = i
              BY <2>10, <6>1
            <6>2. CASE k > i
              BY <2>12, <5>1, <6>2
            <6>3. QED
              BY <1>1, <4>2, <6>1, <6>2
          <5>4. QED
            BY <1>2, <5>1, <5>2, <5>3
        <4>3. QED
          BY <1>1, <4>1, <4>2
      <3>2. Len(new) - 1 = n - 2
        BY <1>1, <2>9
      <3>3. QED
        BY <3>1, <3>2 DEF Apart
    <2>15. FreeSet(new) = FreeSet(list)
      <3>1. \A a : a \in FreeSet(new) <=>
              a \in Int /\ \E k \in 1 .. n - 1 : new[k].addr <= a /\ a < After(new[k])
        BY <2>9, FreeSetIs
      <3>2. \A a : a \in FreeSet(list) <=>
              a \in Int /\ \E k \in 1 .. n : list[k].addr <= a /\ a < After(list[k])
        BY <1>1, FreeSetIs
      <3>3. ASSUME NEW a \in FreeSet(new)
            PROVE  a \in FreeSet(list)
        <4>1. PICK k \in 1 .. n - 1 : a \in Int /\ new[k].addr <= a /\ a < After(new[k])
          BY <3>1
        <4>2. CASE k < i
          BY <2>11, <3>2, <4>1, <4>2
        <4>3. CASE k > i
          BY <2>12, <3>2, <4>1, <4>3
        <4>4. CASE k = i
          <5>1. list[i].addr <= a /\ a < After(list[i + 1])
            BY <2>10, <4>1, <4>4
          <5>2. a < After(list[i]) \/ list[i + 1].addr <= a
            BY <1>4, <2>3, <4>1
          <5>3. QED
            BY <2>1, <3>2, <4>1, <5>1, <5>2
        <4>5. QED
          BY <1>1, <4>2, <4>3, <4>4
      <3>4. ASSUME NEW a \in FreeSet(list)
            PROVE  a \in FreeSet(new)
        <4>1. PICK k \in 1 .. n : a \in Int /\ list[k].addr <= a /\ a < After(list[k])
          BY <3>2
        <4>2. CASE k < i
          <5>1. k \in 1 .. n - 1 /\ new[k] = list[k]
            BY <1>1, <2>1, <2>11, <4>2
          <5>2. QED
            BY <3>1, <4>1, <5>1
        <4>3. CASE k > i + 1
          <5>1. k - 1 \in 1 .. n - 1 /\ k - 1 > i /\ (k - 1) + 1 = k
            BY <1>1, <2>1, <4>3
          <5>2. new[k - 1] = list[k]
            BY <2>12, <5>1
          <5>3. QED
            BY <3>1, <4>1, <5>1, <5>2
        <4>4. CASE k = i
          <5>1. After(list[i]) <= After(list[i + 1])
            <6>1. After(list[i + 1]) = After(list[i]) + list[i + 1].size
              BY <1>4, <2>3
            <6>2. After(list[i]) \in Nat /\ list[i + 1].size \in Nat
              BY <1>1, <2>1, <2>3
            <6>3. QED
              BY ONLY <6>1, <6>2
          <5>2. new[i].addr <= a /\ a < After(new[i])
            BY <1>1, <2>1, <2>10, <4>1, <4>4, <5>1
          <5>3. QED
            BY <2>1, <3>1, <4>1, <5>2
        <4>5. CASE k = i + 1
          <5>1. list[i].addr <= list[i + 1].addr
            BY <1>4, <2>3
          <5>2. list[i + 1].addr \in Nat
            BY <1>1, <2>1
          <5>3. new[i].addr <= a /\ a < After(new[i])
            BY <2>3, <2>10, <4>1, <4>5, <5>1, <5>2
          <5>4. QED
            BY <2>1, <3>1, <4>1, <5>3
        <4>6. QED
          BY <1>1, <4>2, <4>3, <4>4, <4>5
      <3>5. QED
        BY <3>3, <3>4
    <2>16. QED
      BY <1>1, <2>1, <2>9, <2>13, <2>14, <2>15 DEF new, n
  <1>5. QED
    BY <1>1, <1>3, <1>4

-----------------------------------------------------------------------------
(* The calls on a heap. *)

(* The least of a set of positions, as FirstNode() finds it. *)
LEMMA LeastIndex ==
  ASSUME NEW S \in SUBSET Nat, S # {}
  PROVE  \E m \in S : \A x \in Nat : x < m => x \notin S
  <1>1. PICK m \in S : \A y \in S : ~ <<y, m>> \in OpToRel(<, Nat)
    BY NatLessThanWellFounded, WFMin
  <1>2. ASSUME NEW y \in Nat, y < m
        PROVE  y \notin S
    <2>1. <<y, m>> \in OpToRel(<, Nat)
      BY <1>2, Zenon DEF OpToRel
    <2>2. QED
      BY <1>1, <2>1
  <1>3. QED
    BY <1>2

(* A heap counts its nodes; a call that changes nothing but the list. *)
Heap(h) == {"list", "block_count"} \subseteq DOMAIN h /\ h.block_count = Len(h.list)
Keeps(g, h, Fields) ==
  DOMAIN g = DOMAIN h /\ \A f \in DOMAIN h \ Fields : g[f] = h[f]
ListFields == {"list", "block_count"}

LEMMA NodeInsertIs ==
  ASSUME NEW h, Heap(h), Linked(h.list), NEW b, Fits(b), NEW i \in 1 .. Len(h.list) + 1,
         \A j \in 1 .. i - 1 : After(h.list[j]) <= b.addr,
         \A j \in i .. Len(h.list) : After(b) <= h.list[j].addr
  PROVE  /\ Keeps(NodeInsert(h, i, b), h, ListFields) /\ Heap(NodeInsert(h, i, b))
         /\ Sorted(NodeInsert(h, i, b).list) /\ Apart(NodeInsert(h, i, b).list, {i - 1, i})
         /\ FreeSet(NodeInsert(h, i, b).list) = FreeSet(h.list) \cup Extent(b)
         /\ Len(NodeInsert(h, i, b).list) > 0
  <1> DEFINE g == NodeInsert(h, i, b)
             list == h.list
  <1>1. /\ g.list = InsertAt(list, i, b) /\ g.block_count = h.block_count + 1
        /\ DOMAIN g = DOMAIN h /\ \A f \in DOMAIN h \ ListFields : g[f] = h[f]
    BY DEF Heap, NodeInsert, ListFields
  <1> HIDE DEF g, list
  <1>2. /\ Sorted(InsertAt(list, i, b)) /\ Apart(InsertAt(list, i, b), {i - 1, i})
        /\ Len(InsertAt(list, i, b)) = Len(list) + 1
        /\ FreeSet(InsertAt(list, i, b)) = FreeSet(list) \cup Extent(b)
    BY InsertLinked DEF list
  <1>3. Len(list) \in Nat
    BY NodesIn DEF Linked, list
  <1>4. QED
    BY <1>1, <1>2, <1>3 DEF Heap, Keeps, g, list, ListFields

LEMMA NodeRemoveIs ==
  ASSUME NEW h, Heap(h), Linked(h.list), NEW i \in 1 .. Len(h.list)
  PROVE  /\ Keeps(NodeRemove(h, i), h, ListFields) /\ Heap(NodeRemove(h, i))
         /\ Linked(NodeRemove(h, i).list)
         /\ FreeSet(NodeRemove(h, i).list) = FreeSet(h.list) \ Extent(h.list[i])
  <1> DEFINE g == NodeRemove(h, i)
             list == h.list
  <1>1. /\ g.list = RemoveAt(list, i) /\ g.block_count = h.block_count - 1
        /\ DOMAIN g = DOMAIN h /\ \A f \in DOMAIN h \ ListFields : g[f] = h[f]
    BY DEF Heap, NodeRemove, ListFields
  <1> HIDE DEF g, list
  <1>2. /\ Linked(RemoveAt(list, i)) /\ Len(RemoveAt(list, i)) = Len(list) - 1
        /\ FreeSet(RemoveAt(list, i)) = FreeSet(list) \ Extent(list[i])
    BY RemoveLinked DEF list
  <1>3. QED
    BY <1>1, <1>2 DEF Heap, Keeps, g, list, ListFields

LEMMA MergeNextIs ==
  ASSUME NEW h, Heap(h), Sorted(h.list), NEW i \in Nat, NEW S, Apart(h.list, S),
         S \subseteq {i - 1, i}
  PROVE  /\ Keeps(MergeNext(h, i), h, ListFields) /\ Heap(MergeNext(h, i))
         /\ Sorted(MergeNext(h, i).list) /\ Apart(MergeNext(h, i).list, S \ {i})
         /\ FreeSet(MergeNext(h, i).list) = FreeSet(h.list)
         /\ Len(h.list) > 0 => Len(MergeNext(h, i).list) > 0
  <1> DEFINE g == MergeNext(h, i)
             list == h.list
             touch == {i, i + 1} \subseteq DOMAIN list /\ After(list[i]) = list[i + 1].addr
  <1>1. /\ g.list = Merged(list, i)
        /\ DOMAIN g = DOMAIN h /\ \A f \in DOMAIN h \ ListFields : g[f] = h[f]
    BY DEF Heap, MergeNext, Merged, NodeRemove, ListFields, After
  <1>2. g.block_count = IF touch THEN h.block_count - 1 ELSE h.block_count
    BY DEF Heap, MergeNext, NodeRemove, After
  <1>3. touch => Len(Merged(list, i)) = Len(list) - 1
    <2>1. ASSUME touch
          PROVE  Len(Merged(list, i)) = Len(list) - 1
      <3> DEFINE rem == RemoveAt(list, i + 1)
      <3>1. list \in Seq(Node) /\ i + 1 \in 1 .. Len(list) /\ Len(list) \in Nat
        BY <2>1, NodesIn DEF list
      <3>2. rem \in Seq(Node) /\ Len(rem) = Len(list) - 1
        BY <3>1, RemoveAtIs
      <3>3. rem \in [1 .. Len(list) - 1 -> Node]
        BY <3>2, LenProperties
      <3>4. Merged(list, i) = [rem EXCEPT ![i].size = @ + list[i + 1].size]
        BY <2>1 DEF Merged
      <3> HIDE DEF rem, list
      <3>5. DOMAIN Merged(list, i) = 1 .. Len(list) - 1
        BY <3>3, <3>4
      <3>6. Merged(list, i) \in Seq(Node)
        BY MergedLinked, NodesIn DEF list
      <3>7. DOMAIN Merged(list, i) = 1 .. Len(Merged(list, i)) /\ Len(Merged(list, i)) \in Nat
        BY <3>6, LenProperties
      <3>8. QED
        BY <3>1, <3>5, <3>7
    <2>2. QED
      BY <2>1
  <1>4. ~touch => Merged(list, i) = list
    BY DEF Merged
  <1> HIDE DEF g, list, touch
  <1>5. /\ Sorted(Merged(list, i)) /\ Apart(Merged(list, i), S \ {i})
        /\ FreeSet(Merged(list, i)) = FreeSet(list)
        /\ Len(list) > 0 => Len(Merged(list, i)) > 0
    BY MergedLinked DEF list
  <1>6. g.block_count = Len(g.list)
    BY <1>1, <1>2, <1>3, <1>4 DEF Heap, list
  <1>7. QED
    BY <1>1, <1>5, <1>6 DEF Heap, Keeps, g, list, ListFields

LEMMA MergeIfAdjacentIs ==
  ASSUME NEW h, Heap(h), Sorted(h.list), NEW i \in Nat \ {0}, Apart(h.list, {i - 1, i})
  PROVE  /\ Keeps(MergeIfAdjacent(h, i), h, ListFields) /\ Heap(MergeIfAdjacent(h, i))
         /\ Linked(MergeIfAdjacent(h, i).list)
         /\ FreeSet(MergeIfAdjacent(h, i).list) = FreeSet(h.list)
         /\ Len(h.list) > 0 => Len(MergeIfAdjacent(h, i).list) > 0
  <1> DEFINE m == MergeNext(h, i)
             g == MergeNext(m, i - 1)
  <1>1. /\ Keeps(m, h, ListFields) /\ Heap(m)
        /\ Sorted(m.list) /\ Apart(m.list, {i - 1, i} \ {i})
        /\ FreeSet(m.list) = FreeSet(h.list)
        /\ Len(h.list) > 0 => Len(m.list) > 0
    BY MergeNextIs
  <1>2. i - 1 \in Nat /\ {i - 1, i} \ {i} = {i - 1}
    OBVIOUS
  <1>3. g = MergeIfAdjacent(h, i)
    BY DEF MergeIfAdjacent
  <1> HIDE DEF m
  <1>4. /\ Keeps(g, m, ListFields) /\ Heap(g)
        /\ Sorted(g.list) /\ Apart(g.list, {i - 1} \ {i - 1})
        /\ FreeSet(g.list) = FreeSet(m.list)
        /\ Len(m.list) > 0 => Len(g.list) > 0
    <2> DEFINE k == i - 1
    <2>1. k \in Nat /\ {k} \subseteq {k - 1, k} /\ Apart(m.list, {k})
      BY <1>1, <1>2
    <2> HIDE DEF k
    <2>2. /\ Keeps(MergeNext(m, k), m, ListFields) /\ Heap(MergeNext(m, k))
          /\ Sorted(MergeNext(m, k).list) /\ Apart(MergeNext(m, k).list, {k} \ {k})
          /\ FreeSet(MergeNext(m, k).list) = FreeSet(m.list)
          /\ Len(m.list) > 0 => Len(MergeNext(m, k).list) > 0
      BY <1>1, <2>1, MergeNextIs
    <2>3. QED
      BY <2>2 DEF k
  <1> HIDE DEF g
  <1>5. Linked(g.list)
    <2>1. {i - 1} \ {i - 1} = {}
      OBVIOUS
    <2>2. QED
      BY <1>4, <2>1 DEF Linked
  <1>6. Keeps(g, h, ListFields)
    BY <1>1, <1>4 DEF Keeps
  <1>7. QED
    BY <1>1, <1>3, <1>4, <1>5, <1>6

(* A block that lies beside the nodes has the ones at or below an address in it
   below it, and the others above it.                                      *)
LEMMA Beside ==
  ASSUME NEW list, Linked(list), NEW b, Fits(b), Extent(b) \cap FreeSet(list) = {},
         NEW p \in Nat, b.addr <= p, p < After(b), NEW j \in 1 .. Len(list)
  PROVE  /\ list[j].addr <= p => After(list[j]) <= b.addr
         /\ p < list[j].addr => After(b) <= list[j].addr
  <1>1. /\ list \in Seq(Node) /\ list[j].addr \in Nat /\ list[j].size \in Nat /\ list[j].size >= 2
        /\ After(list[j]) = list[j].addr + list[j].size
    BY NodesIn DEF Linked
  <1>2. b.addr \in Nat /\ b.size \in Nat /\ b.size >= 2 /\ After(b) = b.addr + b.size
    BY DEF Fits, Node, NodeSize, After
  <1>3. \A a : a \in Extent(b) <=> a \in Int /\ b.addr <= a /\ a < After(b)
    BY <1>2, ExtentIs
  <1>4. \A a \in Int : list[j].addr <= a /\ a < After(list[j]) => a \in FreeSet(list)
    BY <1>1, FreeSetIs
  <1>5. \A a \in Int : b.addr <= a /\ a < After(b) => ~(list[j].addr <= a /\ a < After(list[j]))
    BY <1>3, <1>4
  <1>6. ASSUME list[j].addr <= p, ~(After(list[j]) <= b.addr)
        PROVE  FALSE
    <2>1. CASE list[j].addr >= b.addr
      BY SMTT(30), <1>1, <1>2, <1>5, <1>6, <2>1
    <2>2. CASE list[j].addr < b.addr
      BY SMTT(30), <1>1, <1>2, <1>5, <1>6, <2>2
    <2>3. QED
      BY <1>1, <1>2, <2>1, <2>2
  <1>7. ASSUME p < list[j].addr, ~(After(b) <= list[j].addr)
        PROVE  FALSE
    BY SMTT(30), <1>1, <1>2, <1>5, <1>7
  <1>8. QED
    BY <1>6, <1>7

LEMMA PutFreeIs ==
  ASSUME NEW h, Heap(h), Linked(h.list), "leaked" \in DOMAIN h,
         NEW b, Fits(b), Extent(b) \cap FreeSet(h.list) = {},
         NEW p \in Nat, b.addr <= p, p < After(b)
  PROVE  /\ Keeps(PutFree(h, p, b), h, ListFields \cup {"leaked"}) /\ Heap(PutFree(h, p, b))
         /\ Linked(PutFree(h, p, b).list)
         /\ \/ /\ PutFree(h, p, b).leaked = h.leaked
               /\ FreeSet(PutFree(h, p, b).list) = FreeSet(h.list) \cup Extent(b)
            \/ /\ PutFree(h, p, b).leaked = h.leaked \cup {b}
               /\ FreeSet(PutFree(h, p, b).list) = FreeSet(h.list)
  <1> DEFINE g == PutFree(h, p, b)
             list == h.list
             Above(n) == p < n.addr
             i == FirstNode(list, Above)
             new == MergeIfAdjacent(NodeInsert(h, i, b), i)
  <1>1. /\ Len(list) \in Nat /\ DOMAIN list = 1 .. Len(list) /\ list \in Seq(Node)
        /\ \A j \in 1 .. Len(list) : list[j].addr \in Nat
    BY NodesIn DEF Linked
  <1>2. g = IF list = << >> THEN [h EXCEPT !.list = <<b>>, !.block_count = 1]
            ELSE IF i = 0 THEN [h EXCEPT !.leaked = @ \cup {b}]
            ELSE new
    BY DEF PutFree
  <1>3. \/ i = 0
        \/ /\ i \in 1 .. Len(list) /\ p < list[i].addr
           /\ \A j \in 1 .. i - 1 : ~(p < list[j].addr)
    <2>1. CASE ~ \E k \in DOMAIN list : Above(list[k])
      BY <2>1 DEF FirstNode
    <2>2. CASE \E k \in DOMAIN list : Above(list[k])
      <3> DEFINE S == {k \in 1 .. Len(list) : Above(list[k])}
      <3>1. S \in SUBSET Nat /\ S # {}
        BY <1>1, <2>2
      <3>2. PICK m \in S : \A x \in Nat : x < m => x \notin S
        BY <3>1, LeastIndex
      <3>3. m \in DOMAIN list /\ Above(list[m]) /\ \A j \in 1 .. m - 1 : ~Above(list[j])
        BY <1>1, <3>2
      <3>4. i = CHOOSE k \in DOMAIN list : Above(list[k]) /\ \A j \in 1 .. k - 1 : ~Above(list[j])
        BY <2>2 DEF FirstNode
      <3>5. i \in DOMAIN list /\ Above(list[i]) /\ \A j \in 1 .. i - 1 : ~Above(list[j])
        BY <3>3, <3>4
      <3>6. QED
        BY <1>1, <3>5
    <2>3. QED
      BY <2>1, <2>2
  <1>4. b \in Node /\ FreeSet(<<b>>) = Extent(b) /\ Linked(<<b>>) /\ FreeSet(<< >>) = {}
    <2>1. b \in Node
      BY DEF Fits
    <2>2. <<b>> \in Seq(Node) /\ Len(<<b>>) = 1 /\ <<b>>[1] = b /\ Len(<< >>) = 0
      BY <2>1
    <2>3. \A k \in 1 .. 1 : k = 1
      OBVIOUS
    <2>4. Linked(<<b>>)
      BY <2>2, <2>3 DEF Linked, Sorted, Apart
    <2>5. FreeSet(<<b>>) = Extent(b)
      BY <2>2, <2>3 DEF FreeSet
    <2>6. FreeSet(<< >>) = {}
      BY <2>2 DEF FreeSet
    <2>7. QED
      BY <2>1, <2>4, <2>5, <2>6
  <1> HIDE DEF i
  <1>5. CASE list = << >>
    <2>1. /\ g.list = <<b>> /\ g.block_count = 1 /\ g.leaked = h.leaked
          /\ DOMAIN g = DOMAIN h /\ \A f \in DOMAIN h \ ListFields : g[f] = h[f]
      BY <1>2, <1>5 DEF Heap, ListFields
    <2>2. Len(<<b>>) = 1
      BY <1>4
    <2>3. FreeSet(g.list) = FreeSet(list) \cup Extent(b)
      BY <1>4, <1>5, <2>1
    <2> HIDE DEF g
    <2>4. QED
      BY <1>4, <2>1, <2>2, <2>3 DEF Heap, Keeps, ListFields, g
  <1>6. CASE list # << >> /\ i = 0
    <2>1. /\ g.list = list /\ g.block_count = h.block_count /\ g.leaked = h.leaked \cup {b}
          /\ DOMAIN g = DOMAIN h
          /\ \A f \in DOMAIN h \ (ListFields \cup {"leaked"}) : g[f] = h[f]
      BY <1>2, <1>6 DEF Heap, ListFields
    <2> HIDE DEF g
    <2>2. QED
      BY <2>1 DEF Heap, Keeps, ListFields, g
  <1>7. CASE list # << >> /\ i # 0
    <2>1. /\ i \in 1 .. Len(list) /\ i \in 1 .. Len(list) + 1 /\ i \in Nat \ {0}
          /\ p < list[i].addr /\ \A j \in 1 .. i - 1 : ~(p < list[j].addr)
      BY <1>1, <1>3, <1>7
    <2>2. \A j \in 1 .. i - 1 : After(list[j]) <= b.addr
      <3>1. ASSUME NEW j \in 1 .. i - 1
            PROVE  After(list[j]) <= b.addr
        <4>1. j \in 1 .. Len(list) /\ list[j].addr <= p
          BY <1>1, <2>1
        <4>2. QED
          BY <4>1, Beside
      <3>2. QED
        BY <3>1
    <2>3. \A j \in i .. Len(list) : After(b) <= list[j].addr
      <3>1. ASSUME NEW j \in i .. Len(list)
            PROVE  After(b) <= list[j].addr
        <4>1. j \in 1 .. Len(list) /\ (i = j \/ i < j)
          BY <1>1, <2>1
        <4>2. p < list[j].addr
          <5>1. CASE i = j
            BY <2>1, <5>1
          <5>2. CASE i < j
            <6>1. After(list[i]) <= list[j].addr
              BY <2>1, <4>1, <5>2 DEF Linked, Sorted
            <6>2. After(list[i]) = list[i].addr + list[i].size /\ list[i].size \in Nat
              BY <2>1, NodesIn DEF Linked
            <6>3. QED
              BY SMTT(30), <1>1, <2>1, <4>1, <6>1, <6>2
          <5>3. QED
            BY <4>1, <5>1, <5>2
        <4>3. QED
          BY <4>1, <4>2, Beside
      <3>2. QED
        BY <3>1
    <2> DEFINE ins == NodeInsert(h, i, b)
    <2>4. /\ Keeps(ins, h, ListFields) /\ Heap(ins)
          /\ Sorted(ins.list) /\ Apart(ins.list, {i - 1, i})
          /\ FreeSet(ins.list) = FreeSet(list) \cup Extent(b)
      BY <2>1, <2>2, <2>3, NodeInsertIs
    <2>5. g = MergeIfAdjacent(ins, i)
      BY <1>2, <1>7
    <2> HIDE DEF ins, g
    <2>6. /\ Keeps(g, ins, ListFields) /\ Heap(g) /\ Linked(g.list)
          /\ FreeSet(g.list) = FreeSet(ins.list)
      BY <2>1, <2>4, <2>5, MergeIfAdjacentIs
    <2>7. Keeps(g, h, ListFields) /\ "leaked" \notin ListFields
      BY <2>4, <2>6 DEF Keeps, ListFields
    <2>8. g.leaked = h.leaked /\ Keeps(g, h, ListFields \cup {"leaked"})
      BY <2>7 DEF Keeps
    <2>9. QED
      BY <2>4, <2>6, <2>8 DEF g
  <1>8. QED
    BY <1>5, <1>6, <1>7

-----------------------------------------------------------------------------
(* The front of node i is cut off, and what is left of it stays if it is to. *)
RestOf(b, need) == [addr |-> b.addr + need, size |-> b.size - need]
CutFront(list, i, need, stays) ==
  IF stays THEN [list EXCEPT ![i] = RestOf(list[i], need)] ELSE RemoveAt(list, i)

LEMMA Replaced ==
  ASSUME NEW list \in Seq(Node), NEW i \in 1 .. Len(list), NEW r \in Node
  PROVE  RemoveAt(InsertAt(list, i + 1, r), i) = [list EXCEPT ![i] = r]
  <1> DEFINE n == Len(list)
             ins == InsertAt(list, i + 1, r)
             new == RemoveAt(ins, i)
  <1>1. n \in Nat /\ i \in 1 .. n /\ i + 1 \in 1 .. n + 1 /\ (i + 1) - 1 = i
    BY LenProperties
  <1>2. /\ ins \in Seq(Node) /\ Len(ins) = n + 1 /\ ins[i + 1] = r
        /\ \A j \in 1 .. i : ins[j] = list[j]
        /\ \A j \in i + 1 .. n : ins[j + 1] = list[j]
    <2>1. /\ ins \in Seq(Node) /\ Len(ins) = n + 1 /\ ins[i + 1] = r
          /\ \A j \in 1 .. (i + 1) - 1 : ins[j] = list[j]
          /\ \A j \in i + 1 .. n : ins[j + 1] = list[j]
      BY <1>1, InsertAtIs
    <2>2. QED
      BY <1>1, <2>1
  <1> HIDE DEF ins, n
  <1>3. /\ new \in Seq(Node) /\ Len(new) = n
        /\ \A j \in 1 .. i - 1 : new[j] = ins[j]
        /\ \A j \in i .. n : new[j] = ins[j + 1]
    <2>1. i \in 1 .. Len(ins) /\ Len(ins) - 1 = n
      BY <1>1, <1>2
    <2>2. /\ new \in Seq(Node) /\ Len(new) = Len(ins) - 1
          /\ \A j \in 1 .. i - 1 : new[j] = ins[j]
          /\ \A j \in i .. Len(ins) - 1 : new[j] = ins[j + 1]
      BY <1>2, <2>1, RemoveAtIs
    <2>3. QED
      BY <2>1, <2>2
  <1> DEFINE exc == [list EXCEPT ![i] = r]
  <1>4. /\ exc \in Seq(Node) /\ Len(exc) = n
        /\ \A j \in 1 .. n : exc[j] = IF j = i THEN r ELSE list[j]
    BY ExceptSeq DEF n
  <1> HIDE DEF new, exc
  <1>5. ASSUME NEW j \in 1 .. n
        PROVE  new[j] = exc[j]
    <2>1. CASE j < i
      <3>1. j \in 1 .. i - 1 /\ j \in 1 .. i /\ j # i
        BY <1>1, <2>1
      <3>2. new[j] = ins[j] /\ ins[j] = list[j] /\ exc[j] = list[j]
        BY <1>2, <1>3, <1>4, <3>1
      <3>3. QED
        BY <3>2
    <2>2. CASE j = i
      <3>1. i \in i .. n
        BY <1>1
      <3>2. QED
        BY <1>2, <1>3, <1>4, <2>2, <3>1
    <2>3. CASE j > i
      <3>1. j \in i .. n /\ j \in i + 1 .. n /\ j # i
        BY <1>1, <2>3
      <3>2. QED
        BY <1>2, <1>3, <1>4, <3>1
    <2>4. QED
      BY <1>1, <2>1, <2>2, <2>3
  <1>6. new = exc
    BY <1>3, <1>4, <1>5, SeqEqual
  <1>7. QED
    BY <1>6 DEF new, exc, ins

LEMMA CutFrontIs ==
  ASSUME NEW list, Linked(list), NEW i \in 1 .. Len(list),
         NEW need \in Nat, need > 0, need <= list[i].size,
         NEW stays \in BOOLEAN, stays => list[i].size - need >= 2,
         NEW t, t = IF stays THEN need ELSE list[i].size
  PROVE  /\ Linked(CutFront(list, i, need, stays))
         /\ Len(CutFront(list, i, need, stays)) = IF stays THEN Len(list) ELSE Len(list) - 1
         /\ \A a : a \in FreeSet(CutFront(list, i, need, stays)) <=>
              /\ a \in FreeSet(list)
              /\ ~(list[i].addr <= a /\ a < list[i].addr + t)
         /\ \A a \in Int : list[i].addr <= a /\ a < list[i].addr + t
              => a \in FreeSet(list)
  <1> DEFINE b == list[i]
             r == RestOf(b, need)
  <1>1. /\ Len(list) \in Nat /\ list \in Seq(Node)
        /\ \A j \in 1 .. Len(list) : /\ list[j] \in Node /\ list[j].addr \in Nat /\ list[j].size \in Nat
                                    /\ After(list[j]) = list[j].addr + list[j].size
    BY NodesIn DEF Linked
  <1>2. /\ b \in Node /\ b.addr \in Nat /\ b.size \in Nat /\ b.size >= 2 /\ Base <= b.addr
        /\ After(b) <= End /\ After(b) = b.addr + b.size /\ need <= b.size
    BY NodesIn DEF Linked
  <1>3. /\ t \in Nat /\ t >= need /\ t <= b.size
        /\ stays => /\ t = need /\ r \in Node
                              /\ r.addr = b.addr + need /\ r.size = b.size - need /\ r.size >= 2
        /\ ~stays => t = b.size
    BY <1>2 DEF RestOf, Node
  <1>4. \A a : a \in Extent(b) <=> a \in Int /\ b.addr <= a /\ a < b.addr + b.size
    BY <1>2, ExtentIs
  <1>5. Extent(b) \subseteq FreeSet(list)
    BY DEF FreeSet
  <1>6. CASE ~stays
    <2>1. CutFront(list, i, need, stays) = RemoveAt(list, i)
      BY <1>6 DEF CutFront
    <2>2. /\ Linked(RemoveAt(list, i)) /\ Len(RemoveAt(list, i)) = Len(list) - 1
          /\ FreeSet(RemoveAt(list, i)) = FreeSet(list) \ Extent(b)
      BY RemoveLinked
    <2>3. \A a \in FreeSet(list) : a \in Int
      BY <1>1, FreeSetIs
    <2> HIDE DEF b
    <2>4. QED
      BY <1>3, <1>4, <1>5, <1>6, <2>1, <2>2, <2>3 DEF b
  <1>7. CASE stays
    <2> DEFINE new == [list EXCEPT ![i] = r]
    <2>1. CutFront(list, i, need, stays) = new
      BY <1>7 DEF CutFront
    <2>2. /\ r \in Node /\ r.addr = b.addr + need /\ r.size = b.size - need /\ r.size >= 2 /\ t = need
      BY <1>3, <1>7
    <2> HIDE DEF r
    <2>3. After(r) = After(b) /\ Fits(r) /\ b.addr < r.addr
      <3>1. After(r) = r.addr + r.size
        BY DEF After
      <3> HIDE DEF b
      <3>2. /\ b.addr \in Nat /\ b.size \in Nat /\ Base <= b.addr /\ Base \in Nat
            /\ After(b) <= End /\ After(b) = b.addr + b.size
        BY <1>2, Bounds
      <3>3. r.addr = b.addr + need /\ r.size = b.size - need /\ r \in Node /\ r.size >= 2
        BY <2>2
      <3>4. After(r) = After(b)
        BY ONLY <3>1, <3>2, <3>3, need \in Nat
      <3>5. b.addr < r.addr /\ Base <= r.addr
        BY ONLY <3>2, <3>3, need \in Nat, need > 0
      <3>6. r.size \in Nat
        BY <3>3 DEF Node
      <3>7. QED
        BY <3>2, <3>3, <3>4, <3>5, <3>6 DEF Fits, NodeSize
    <2>4. \A j \in 1 .. Len(list) : j < i => After(list[j]) <= b.addr
      BY DEF Linked, Sorted
    <2>5. \A j \in 1 .. Len(list) : i < j => After(b) <= list[j].addr
      BY DEF Linked, Sorted
    <2>6. i > 1 => After(list[i - 1]) < b.addr
      <3>1. \A j \in 1 .. Len(list) - 1 : After(list[j]) < list[j + 1].addr
        BY DEF Linked, Apart
      <3>2. ASSUME i > 1
            PROVE  i - 1 \in 1 .. Len(list) - 1 /\ (i - 1) + 1 = i
        BY <1>1, <3>2
      <3>3. QED
        BY <3>1, <3>2
    <2>7. i < Len(list) => After(b) < list[i + 1].addr
      <3>1. \A j \in 1 .. Len(list) - 1 : After(list[j]) < list[j + 1].addr
        BY DEF Linked, Apart
      <3>2. ASSUME i < Len(list)
            PROVE  i \in 1 .. Len(list) - 1
        BY <1>1, <3>2
      <3>3. QED
        BY <3>1, <3>2
    <2>8. \A j \in 1 .. Len(list) : j < i => After(list[j]) <= r.addr
      <3>1. \A j \in 1 .. Len(list) : After(list[j]) \in Nat
        BY <1>1
      <3>2. r.addr \in Nat
        BY <1>2, <2>2
      <3>3. QED
        BY <1>2, <2>3, <2>4, <3>1, <3>2
    <2>9. i > 1 => After(list[i - 1]) < r.addr
      <3>1. ASSUME i > 1
            PROVE  i - 1 \in 1 .. Len(list)
        BY <1>1, <3>1
      <3>2. \A j \in 1 .. Len(list) : After(list[j]) \in Nat
        BY <1>1
      <3> HIDE DEF b
      <3>3. \A x \in Nat : x < b.addr => x < r.addr
        BY <1>2, <2>2
      <3>4. QED
        BY <2>6, <3>1, <3>2, <3>3
    <2>10. /\ Sorted(new) /\ Apart(new, {}) /\ Len(new) = Len(list)
           /\ FreeSet(new) = (FreeSet(list) \ Extent(b)) \cup Extent(r)
      <3>1. /\ \A j \in 1 .. Len(list) : i < j => After(r) <= list[j].addr
            /\ i < Len(list) => After(r) < list[i + 1].addr
        BY <2>3, <2>5, <2>7
      <3>2. QED
        BY ZenonT(60), <2>3, <2>8, <2>9, <3>1, ReplaceLinked
    <2>11. \A a : a \in Extent(r) <=> a \in Int /\ b.addr + need <= a /\ a < b.addr + b.size
      <3>1. \A a : a \in Extent(r) <=> a \in Int /\ r.addr <= a /\ a < r.addr + r.size
        BY SMTT(30), <2>2, <1>2, ExtentIs
      <3>2. r.addr + r.size = b.addr + b.size
        BY SMTT(30), <1>2, <2>2
      <3>3. QED
        BY <2>2, <3>1, <3>2
    <2>12. \A a \in FreeSet(list) : a \in Int
      BY <1>1, FreeSetIs
    <2>13. \A a : a \in FreeSet(new) <=>
             a \in FreeSet(list) /\ ~(b.addr <= a /\ a < b.addr + need)
      <3>1. need <= b.size /\ need \in Nat
        BY <1>2
      <3> HIDE DEF b, new
      <3>2. ASSUME NEW a
            PROVE  a \in FreeSet(new) <=> a \in FreeSet(list) /\ ~(b.addr <= a /\ a < b.addr + need)
        <4>1. a \in FreeSet(new) <=> (a \in FreeSet(list) /\ a \notin Extent(b)) \/ a \in Extent(r)
          BY <2>10
        <4>2. CASE a \in Int
          BY <1>2, <1>4, <1>5, <2>11, <3>1, <4>1, <4>2
        <4>3. CASE a \notin Int
          BY <1>4, <2>11, <2>12, <4>1, <4>3
        <4>4. QED
          BY <4>2, <4>3
      <3>3. QED
        BY <3>2
    <2>14. Linked(new)
      BY <2>10 DEF Linked
    <2>15. \A a \in Int : b.addr <= a /\ a < b.addr + need => a \in FreeSet(list)
      BY <1>2, <1>4, <1>5
    <2> HIDE DEF new, b
    <2>16. QED
      BY <1>7, <2>1, <2>2, <2>10, <2>13, <2>14, <2>15 DEF b
  <1>8. QED
    BY <1>6, <1>7

-----------------------------------------------------------------------------
(* Functions on part of a set: what the headers hold in the buffer. *)
Partial(S, T) == UNION {[D -> T] : D \in SUBSET S}

LEMMA PartialIs ==
  ASSUME NEW S, NEW T, NEW f
  PROVE  f \in Partial(S, T) <=>
           /\ f = [x \in DOMAIN f |-> f[x]] /\ DOMAIN f \subseteq S
           /\ \A x \in DOMAIN f : f[x] \in T
  <1>1. ASSUME f \in Partial(S, T)
        PROVE  /\ f = [x \in DOMAIN f |-> f[x]] /\ DOMAIN f \subseteq S
               /\ \A x \in DOMAIN f : f[x] \in T
    <2>1. PICK D \in SUBSET S : f \in [D -> T]
      BY <1>1 DEF Partial
    <2>2. QED
      BY <2>1
  <1>2. ASSUME f = [x \in DOMAIN f |-> f[x]], DOMAIN f \subseteq S,
               \A x \in DOMAIN f : f[x] \in T
        PROVE  f \in Partial(S, T)
    <2>1. f \in [DOMAIN f -> T]
      BY <1>2
    <2>2. DOMAIN f \in SUBSET S
      BY <1>2
    <2>3. QED
      BY <2>1, <2>2 DEF Partial
  <1>3. QED
    BY <1>1, <1>2

LEMMA ExtendedIs ==
  ASSUME NEW S, NEW T, NEW f \in Partial(S, T), NEW x \in S, NEW e \in T
  PROVE  Extended(f, x, e) \in Partial(S, T)
  <1> DEFINE g == Extended(f, x, e)
  <1>1. /\ DOMAIN g = DOMAIN f \cup {x} /\ g = [y \in DOMAIN g |-> g[y]]
        /\ \A y \in DOMAIN f \cup {x} : g[y] = IF y = x THEN e ELSE f[y]
    BY DEF Extended
  <1> HIDE DEF g
  <1>2. DOMAIN f \subseteq S /\ \A y \in DOMAIN f : f[y] \in T
    BY PartialIs
  <1>3. DOMAIN g \subseteq S /\ \A y \in DOMAIN g : g[y] \in T
    BY <1>1, <1>2
  <1>4. g \in Partial(S, T)
    BY <1>1, <1>3, PartialIs
  <1>5. QED
    BY <1>4 DEF g

LEMMA RestrictIs ==
  ASSUME NEW S, NEW T, NEW f \in Partial(S, T), NEW D, D \subseteq DOMAIN f
  PROVE  Restrict(f, D) \in Partial(S, T)
  <1> DEFINE g == Restrict(f, D)
  <1>1. /\ DOMAIN g = D /\ g = [y \in DOMAIN g |-> g[y]]
        /\ \A y \in D : g[y] = f[y]
    BY DEF Restrict
  <1> HIDE DEF g
  <1>2. DOMAIN f \subseteq S /\ \A y \in DOMAIN f : f[y] \in T
    BY PartialIs
  <1>3. g \in Partial(S, T)
    BY <1>1, <1>2, PartialIs
  <1>4. QED
    BY <1>3 DEF g

LEMMA UpdatedIs ==
  ASSUME NEW S, NEW T, NEW f \in Partial(S, T), NEW x, NEW e \in T
  PROVE  [f EXCEPT ![x] = e] \in Partial(S, T)
  <1> DEFINE g == [f EXCEPT ![x] = e]
  <1>1. /\ DOMAIN g = DOMAIN f /\ g = [y \in DOMAIN g |-> g[y]]
        /\ \A y \in DOMAIN f : g[y] = IF y = x THEN e ELSE f[y]
    OBVIOUS
  <1> HIDE DEF g
  <1>2. DOMAIN f \subseteq S /\ \A y \in DOMAIN f : f[y] \in T
    BY PartialIs
  <1>3. g \in Partial(S, T)
    BY <1>1, <1>2, PartialIs
  <1>4. QED
    BY <1>3 DEF g

LEMMA UnitFinite ==
  IsFiniteSet(Unit) /\ Cardinality(Unit) = Size
  <1>1. Base \in Int /\ End - 1 \in Int /\ ~(Base > End - 1) /\ (End - 1) - Base + 1 = Size
    BY HeapAssumption, Bounds
  <1> DEFINE hi == End - 1
  <1>2. Unit = Base .. hi
    BY DEF Unit
  <1> HIDE DEF hi
  <1>3. IsFiniteSet(Base .. hi) /\ Cardinality(Base .. hi) = hi - Base + 1
    BY <1>1, FS_Interval DEF hi
  <1>4. QED
    BY <1>1, <1>2, <1>3 DEF hi
=============================================================================
