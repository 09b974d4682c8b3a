-------------------------- MODULE HashTable_proofs --------------------------
(***************************************************************************)
(* Proofs about HashTable, for every set of keys and values, every hash    *)
(* function, every initial capacity and all load factors the assumption    *)
(* allows: no search for room goes on for ever, and, for clients that add  *)
(* no key twice or have removed none since the last resize, the table      *)
(* implements Map.                                                         *)
(***************************************************************************)
EXTENDS HashTable, FiniteSetTheorems, SequenceTheorems, WellFoundedInduction, TLAPS

-----------------------------------------------------------------------------
(* The inductive invariant. *)

(* The indices of a table's entries that hold a key, and those entries. *)
Live(tab) == {i \in DOMAIN tab : tab[i].key \in Key}
Stored(tab) == {tab[i] : i \in Live(tab)}

(* The entries an ht_add() that is resizing will need besides. *)
Pending == IF adding = {} THEN 0 ELSE 1

(* The count is right, and there is room for what is still to come: that holds
   for every client.                                                       *)
SizeInv ==
  /\ count = Cardinality(Live(entries))
  /\ count + Cardinality(Live(old)) + Pending <= Cap
  /\ old # << >> => oldCount = count + Cardinality(Live(old))

(* Each key is stored once, in the table or in what a resize has still to move;
   ht_find_entry() reaches it; and a table that is being filled by a resize
   has no tombstones.                                                      *)
Once(tab) == \A i, j \in Live(tab) : tab[i].key = tab[j].key => i = j
Apart == \A i \in Live(entries), j \in Live(old) : entries[i].key # old[j].key
Reached == \A i \in Live(entries) : i \in Find(entries[i].key)
Fresh == ~Idle => \A i \in DOMAIN entries : entries[i].key # Tombstone

SizedInv == TypeOK /\ SizeInv
IInv == SizedInv /\ Once(entries) /\ Once(old) /\ Apart /\ Reached /\ Fresh

(* Where the code searches for an entry without a bound, there is one: the
   loops of ht_add_rehash() and, after a resize, of ht_add() end; and the
   assert that follows the moves holds.                                    *)
NeverStuck ==
  /\ old # << >> /\ Head(old).key \in Key =>
       \E n \in Probes : KeyAt(Head(old).key, n) \in {None, Tombstone}
  /\ old # << >> => oldCount = count + Cardinality(Live(old))
  /\ \A kv \in adding : \E n \in Probes : KeyAt(kv[1], n) \in {None, Tombstone, kv[1]}
  /\ Idle /\ ~Overloaded => \A k \in Key : \E n \in Probes : KeyAt(k, n) \in {None, Tombstone, k}
-----------------------------------------------------------------------------
(* Arithmetic: the least of a set of numbers, and remainders. *)
LEMMA Minimum ==
  ASSUME NEW S \in SUBSET Nat, S # {}
  PROVE  Min(S) \in S /\ \A x \in S : Min(S) <= x
  <1>1. PICK m \in S : \A y \in S : ~ <<y, m>> \in OpToRel(<, Nat)
    BY NatLessThanWellFounded, WFMin
  <1>2. \A y \in S : m <= y
    <2>1. ASSUME NEW y \in S, ~(m <= y)
          PROVE  FALSE
      <3>1. y \in Nat /\ m \in Nat /\ y < m
        BY <2>1
      <3>2. <<y, m>> \in OpToRel(<, Nat)
        BY <3>1, Zenon DEF OpToRel
      <3>3. QED
        BY <1>1, <3>2
    <2>2. QED
      BY <2>1
  <1>3. \E x \in S : \A y \in S : x =< y
    BY <1>2
  <1>4. QED
    BY <1>3 DEF Min

(* A number has one remainder. *)
LEMMA Remainder ==
  ASSUME NEW c \in Nat \ {0}, NEW q \in Int, NEW r \in 0 .. c - 1
  PROVE  (c * q + r) % c = r
  <1> DEFINE x == c * q + r
             d == x \div c
             p == x % c
             a == d - q
  <1>1. x \in Int
    OBVIOUS
  <1>2. x = c * d + p /\ p \in 0 .. c - 1 /\ d \in Int
    BY <1>1
  <1>3. a \in Int /\ c * a = c * d - c * q
    BY <1>2
  <1>4. c * a = r - p
    <2>1. c * d \in Int /\ c * q \in Int /\ p \in Int
      BY <1>2
    <2>2. x = c * q + r
      OBVIOUS
    <2> HIDE DEF x, d, p, a
    <2>3. QED
      BY <1>2, <1>3, <2>1, <2>2
  <1>5. /\ \A b \in Int : b >= 1 => c * b >= c
        /\ \A b \in Int : b <= -1 => c * b <= -c
    OBVIOUS
  <1> HIDE DEF x, d, p, a
  <1>6. a = 0
    BY <1>2, <1>3, <1>4, <1>5
  <1>7. r = p
    BY <1>2, <1>4, <1>6
  <1>8. QED
    BY <1>7 DEF p, x

(* The probes of a key visit the entries, and every one of them. *)
LEMMA ProbesCover ==
  ASSUME TypeOK, NEW k \in Key
  PROVE  /\ \A n \in Probes : Probe(k, n) \in 1 .. Cap
         /\ \A i \in 1 .. Cap : \E n \in Probes : Probe(k, n) = i
  <1> DEFINE c == Cap
             h == hash[k]
  <1>1. c \in Nat /\ h \in Nat
    BY TableAssumption DEF TypeOK, Cap
  <1>2. ASSUME NEW n \in Probes
        PROVE  Probe(k, n) \in 1 .. c
    <2>1. c > 0 /\ h + n \in Nat
      BY <1>1 DEF Probes
    <2>2. (h + n) % c \in 0 .. c - 1
      BY <1>1, <2>1
    <2>3. QED
      BY <1>1, <2>2 DEF Probe
  <1>3. ASSUME NEW i \in 1 .. c
        PROVE  \E n \in Probes : Probe(k, n) = i
    <2> DEFINE r == h % c
               q == h \div c
    <2>1. c \in Nat \ {0} /\ h = c * q + r /\ r \in 0 .. c - 1 /\ q \in Int
      BY <1>1, <1>3
    <2>2. CASE i - 1 >= r
      <3> DEFINE n == i - 1 - r
      <3>1. n \in Probes /\ i - 1 \in 0 .. c - 1
        BY <1>1, <2>1, <2>2 DEF Probes
      <3>2. (c * q + (i - 1)) % c = i - 1
        BY <2>1, <3>1, Remainder
      <3>3. h + n = c * q + (i - 1)
        <4>1. c * q \in Int
          BY <2>1
        <4> HIDE DEF r, q
        <4>2. QED
          BY <2>1, <4>1
      <3>4. QED
        BY <3>1, <3>2, <3>3 DEF Probe
    <2>3. CASE i - 1 < r
      <3> DEFINE n == i - 1 - r + c
      <3>1. n \in Probes /\ i - 1 \in 0 .. c - 1
        BY SMTT(30), <1>1, <2>1, <2>3 DEF Probes
      <3>2. (c * (q + 1) + (i - 1)) % c = i - 1
        <4> DEFINE u == q + 1
        <4>1. u \in Int
          BY <2>1
        <4> HIDE DEF u, q, r, c, h
        <4>2. (c * u + (i - 1)) % c = i - 1
          BY <2>1, <3>1, <4>1, Remainder
        <4>3. QED
          BY <4>2 DEF u
      <3>3. h + n = c * (q + 1) + (i - 1)
        <4> DEFINE y == c * q
                   z == c * (q + 1)
        <4>1. y \in Int /\ z = y + c /\ c \in Int /\ h = y + r /\ r \in Int
          BY <2>1
        <4> HIDE DEF r, q, c, y, z, h
        <4>2. h + n = z + (i - 1)
          BY <4>1
        <4>3. QED
          BY <4>2 DEF z
      <3>4. QED
        BY <3>1, <3>2, <3>3 DEF Probe
    <2>4. QED
      BY <2>1, <2>2, <2>3
  <1>4. QED
    BY <1>2, <1>3

-----------------------------------------------------------------------------
(* Tables: how many entries hold a key, and what setting one, clearing the
   table or dropping the first entry makes of it.                          *)
LEMMA LiveIs ==
  ASSUME NEW tab \in Seq(Entry)
  PROVE  /\ Live(tab) \subseteq 1 .. Len(tab)
         /\ Live(tab) = {i \in 1 .. Len(tab) : tab[i].key \in Key}
         /\ IsFiniteSet(Live(tab))
         /\ Cardinality(Live(tab)) \in 0 .. Len(tab)
         /\ Len(tab) \in Nat /\ DOMAIN tab = 1 .. Len(tab)
         /\ \A i \in 1 .. Len(tab) : tab[i] \in Entry
  <1>1. /\ Len(tab) \in Nat /\ DOMAIN tab = 1 .. Len(tab)
        /\ \A i \in 1 .. Len(tab) : tab[i] \in Entry
    BY LenProperties, ElementOfSeq
  <1>2. Live(tab) \subseteq 1 .. Len(tab)
    BY <1>1 DEF Live
  <1>3. IsFiniteSet(1 .. Len(tab)) /\ Cardinality(1 .. Len(tab)) = Len(tab)
    <2> DEFINE n == Len(tab)
    <2>1. n \in Nat
      BY <1>1
    <2> HIDE DEF n
    <2>2. IsFiniteSet(1 .. n) /\ Cardinality(1 .. n) = n
      BY <2>1, FS_Interval
    <2>3. QED
      BY <2>2 DEF n
  <1>4. IsFiniteSet(Live(tab)) /\ Cardinality(Live(tab)) <= Len(tab)
    BY <1>2, <1>3, FS_Subset
  <1>5. Cardinality(Live(tab)) \in Nat
    BY <1>4, FS_CardinalityType
  <1>6. QED
    BY <1>1, <1>2, <1>4, <1>5 DEF Live

LEMMA LiveZeroed ==
  ASSUME NEW cap \in Nat
  PROVE  /\ Zeroed(cap) \in Seq(Entry) /\ Len(Zeroed(cap)) = cap
         /\ \A i \in DOMAIN Zeroed(cap) : Zeroed(cap)[i] = Empty
         /\ Live(Zeroed(cap)) = {} /\ Cardinality(Live(Zeroed(cap))) = 0
  <1>1. Empty \in Entry /\ Empty.key \notin Key
    BY ReservedKeys DEF Empty, Entry
  <1>2. Zeroed(cap) \in Seq(Entry)
    BY <1>1, IsASeq DEF Zeroed
  <1>3. DOMAIN Zeroed(cap) = 1 .. cap /\ \A i \in 1 .. cap : Zeroed(cap)[i] = Empty
    BY DEF Zeroed
  <1>4. Len(Zeroed(cap)) = cap
    BY <1>2, <1>3, LenProperties
  <1>5. Live(Zeroed(cap)) = {}
    BY <1>1, <1>3 DEF Live
  <1>6. QED
    BY <1>2, <1>3, <1>4, <1>5, FS_EmptySet

LEMMA LiveNone ==
  /\ << >> \in Seq(Entry) /\ Len(<< >>) = 0
  /\ Live(<< >>) = {} /\ Cardinality(Live(<< >>)) = 0
  <1>1. Live(<< >>) = {}
    BY DEF Live
  <1>2. QED
    BY <1>1, EmptySeq, FS_EmptySet

LEMMA LiveSet ==
  ASSUME NEW tab \in Seq(Entry), NEW p \in 1 .. Len(tab), NEW e \in Entry,
         NEW new \in Seq(Entry), Len(new) = Len(tab),
         \A i \in 1 .. Len(tab) : new[i] = IF i = p THEN e ELSE tab[i]
  PROVE  /\ Live(new) = IF e.key \in Key THEN Live(tab) \cup {p} ELSE Live(tab) \ {p}
         /\ Cardinality(Live(new)) =
              Cardinality(Live(tab)) + (IF e.key \in Key THEN 1 ELSE 0)
                                     - (IF tab[p].key \in Key THEN 1 ELSE 0)
  <1>1. /\ new \in Seq(Entry) /\ Len(new) = Len(tab)
        /\ \A i \in 1 .. Len(tab) : new[i] = IF i = p THEN e ELSE tab[i]
    OBVIOUS
  <1>2. /\ Live(new) = {i \in 1 .. Len(tab) : new[i].key \in Key}
        /\ Live(tab) = {i \in 1 .. Len(tab) : tab[i].key \in Key}
        /\ IsFiniteSet(Live(tab)) /\ Cardinality(Live(tab)) \in Nat
    <2>1. Live(new) = {i \in 1 .. Len(new) : new[i].key \in Key} /\ Len(new) = Len(tab)
      BY ONLY <1>1, LiveIs
    <2>2. /\ Live(tab) = {i \in 1 .. Len(tab) : tab[i].key \in Key}
          /\ IsFiniteSet(Live(tab)) /\ Cardinality(Live(tab)) \in Nat
      BY ONLY tab \in Seq(Entry), LiveIs
    <2>3. QED
      BY <2>1, <2>2
  <1>3. p \in Live(tab) <=> tab[p].key \in Key
    BY <1>2
  <1>4. ASSUME e.key \in Key
        PROVE  /\ Live(new) = Live(tab) \cup {p}
               /\ Cardinality(Live(new)) =
                    Cardinality(Live(tab)) + 1 - (IF tab[p].key \in Key THEN 1 ELSE 0)
    <2>1. Live(new) = Live(tab) \cup {p}
      BY <1>1, <1>2, <1>4
    <2>2. Cardinality(Live(new)) =
            IF p \in Live(tab) THEN Cardinality(Live(tab)) ELSE Cardinality(Live(tab)) + 1
      BY <1>2, <2>1, FS_AddElement
    <2>3. QED
      BY ONLY <1>2, <1>3, <2>1, <2>2
  <1>5. ASSUME e.key \notin Key
        PROVE  /\ Live(new) = Live(tab) \ {p}
               /\ Cardinality(Live(new)) =
                    Cardinality(Live(tab)) - (IF tab[p].key \in Key THEN 1 ELSE 0)
    <2>1. Live(new) = Live(tab) \ {p}
      BY <1>1, <1>2, <1>5
    <2>2. Cardinality(Live(new)) =
            IF p \in Live(tab) THEN Cardinality(Live(tab)) - 1 ELSE Cardinality(Live(tab))
      BY <1>2, <2>1, FS_RemoveElement
    <2>3. QED
      BY ONLY <1>2, <1>3, <2>1, <2>2
  <1>6. QED
    <2> DEFINE n == Cardinality(Live(tab))
               m == Cardinality(Live(new))
    <2>1. n \in Nat
      BY <1>2
    <2> HIDE DEF n, m
    <2>2. CASE e.key \in Key
      BY ONLY <1>1, <1>4, <2>1, <2>2 DEF n, m
    <2>3. CASE e.key \notin Key
      BY ONLY <1>1, <1>5, <2>1, <2>3 DEF n, m
    <2>4. QED
      BY <2>2, <2>3

LEMMA LiveTail ==
  ASSUME NEW tab \in Seq(Entry), tab # << >>
  PROVE  /\ Head(tab) \in Entry /\ Tail(tab) \in Seq(Entry)
         /\ Len(Tail(tab)) = Len(tab) - 1 /\ Len(tab) >= 1
         /\ Head(tab) = tab[1]
         /\ \A i \in Live(Tail(tab)) : i + 1 \in Live(tab) /\ Tail(tab)[i] = tab[i + 1] /\ i >= 1
         /\ \A j \in Live(tab) : j # 1 => j - 1 \in Live(Tail(tab)) /\ Tail(tab)[j - 1] = tab[j]
         /\ Cardinality(Live(tab)) =
              Cardinality(Live(Tail(tab))) + (IF Head(tab).key \in Key THEN 1 ELSE 0)
         /\ Cardinality(Live(Tail(tab))) \in Nat
  <1> DEFINE rest == Tail(tab)
  <1>1. /\ Head(tab) \in Entry /\ rest \in Seq(Entry) /\ Len(rest) = Len(tab) - 1
        /\ \A i \in 1 .. Len(rest) : rest[i] = tab[i + 1]
    BY HeadTailProperties
  <1>2. Head(tab) = tab[1]
    OBVIOUS
  <1>3. Len(tab) \in Nat /\ Len(tab) >= 1 /\ Len(rest) \in Nat
    BY <1>1, EmptySeq, LenProperties
  <1> HIDE DEF rest
  <1>4. /\ Live(rest) = {i \in 1 .. Len(rest) : rest[i].key \in Key}
        /\ Live(tab) = {i \in 1 .. Len(tab) : tab[i].key \in Key}
        /\ IsFiniteSet(Live(tab)) /\ IsFiniteSet(Live(rest))
        /\ Cardinality(Live(rest)) \in Nat
    BY <1>1, LiveIs
  <1>5. \A i \in Live(rest) : i + 1 \in Live(tab) /\ rest[i] = tab[i + 1] /\ i >= 1
    BY <1>1, <1>3, <1>4
  <1>6. \A j \in Live(tab) : j # 1 => j - 1 \in Live(rest) /\ rest[j - 1] = tab[j]
    <2>1. ASSUME NEW j \in Live(tab), j # 1
          PROVE  j - 1 \in Live(rest) /\ rest[j - 1] = tab[j]
      <3>1. j - 1 \in 1 .. Len(rest) /\ (j - 1) + 1 = j
        BY <1>1, <1>3, <1>4, <2>1
      <3>2. rest[j - 1] = tab[j]
        BY <1>1, <3>1
      <3>3. QED
        BY <1>4, <3>1, <3>2
    <2>2. QED
      BY <2>1
  <1>7. Cardinality(Live(tab) \ {1}) = Cardinality(Live(rest))
    <2> DEFINE f == [i \in Live(rest) |-> i + 1]
    <2>1. f \in Bijection(Live(rest), Live(tab) \ {1})
      <3>1. f \in [Live(rest) -> Live(tab) \ {1}]
        BY <1>4, <1>5
      <3>2. \A a, b \in Live(rest) : f[a] = f[b] => a = b
        BY <1>4
      <3>3. \A j \in Live(tab) \ {1} : \E i \in Live(rest) : f[i] = j
        <4>1. ASSUME NEW j \in Live(tab) \ {1}
              PROVE  \E i \in Live(rest) : f[i] = j
          <5>1. j - 1 \in Live(rest) /\ (j - 1) + 1 = j
            BY <1>4, <1>6
          <5>2. QED
            BY <5>1
        <4>2. QED
          BY <4>1
      <3>4. QED
        BY <3>1, <3>2, <3>3 DEF Bijection, Injection, Surjection, IsInjective
    <2>2. ExistsBijection(Live(rest), Live(tab) \ {1})
      BY <2>1 DEF ExistsBijection
    <2>3. QED
      BY <1>4, <2>2, FS_Bijection
  <1>8. Cardinality(Live(tab)) =
          Cardinality(Live(rest)) + (IF Head(tab).key \in Key THEN 1 ELSE 0)
    <2>1. Cardinality(Live(tab) \ {1}) =
            IF 1 \in Live(tab) THEN Cardinality(Live(tab)) - 1 ELSE Cardinality(Live(tab))
      BY <1>4, FS_RemoveElement
    <2>2. 1 \in Live(tab) <=> Head(tab).key \in Key
      BY <1>2, <1>3, <1>4
    <2>3. Cardinality(Live(tab)) \in Nat
      BY <1>4, FS_CardinalityType
    <2>4. QED
      BY <1>4, <1>7, <2>1, <2>2, <2>3
  <1>9. QED
    BY <1>1, <1>2, <1>3, <1>4, <1>5, <1>6, <1>8 DEF rest

-----------------------------------------------------------------------------
(* The searches of the code. *)

(* A table that is not full has a free entry, and every key's probes meet it. *)
LEMMA FreeEntry ==
  ASSUME TypeOK, count = Cardinality(Live(entries)), count < Cap, NEW k \in Key
  PROVE  \E n \in Probes : KeyAt(k, n) \in {None, Tombstone}
  <1> DEFINE c == Cap
  <1>1. /\ Live(entries) \subseteq 1 .. c /\ c \in Nat
        /\ \A i \in 1 .. c : entries[i] \in Entry
        /\ Live(entries) = {i \in 1 .. c : entries[i].key \in Key}
    BY LiveIs DEF TypeOK, Cap
  <1>2. Live(entries) # 1 .. c
    <2>1. c \in Nat /\ Cardinality(Live(entries)) < c
      BY <1>1
    <2> HIDE DEF c
    <2>2. Cardinality(1 .. c) = c
      BY <2>1, FS_Interval
    <2>3. QED
      BY <2>1, <2>2
  <1>3. PICK i \in 1 .. c : entries[i].key \notin Key
    BY <1>1, <1>2
  <1>4. entries[i].key \in {None, Tombstone}
    BY <1>1, <1>3 DEF Entry
  <1>5. PICK n \in Probes : Probe(k, n) = i
    BY ProbesCover
  <1>6. QED
    BY <1>4, <1>5 DEF KeyAt

(* The first probe at which a condition on keys holds. *)
LEMMA FirstProbe ==
  ASSUME TypeOK, NEW k, NEW Stop, \E n \in Probes : KeyAt(k, n) \in Stop
  PROVE  LET ends == {n \in Probes : KeyAt(k, n) \in Stop}
         IN  /\ ends # {} /\ Min(ends) \in Probes
             /\ KeyAt(k, Min(ends)) \in Stop
             /\ \A l \in 0 .. Min(ends) - 1 : KeyAt(k, l) \notin Stop
             /\ \A n \in Probes : KeyAt(k, n) \in Stop => Min(ends) <= n
  <1> DEFINE ends == {n \in Probes : KeyAt(k, n) \in Stop}
             m == Min(ends)
  <1>1. ends # {} /\ ends \in SUBSET Nat /\ Cap \in Nat
    BY SMTT(30), LenProperties DEF Probes, TypeOK, Cap
  <1>2. m \in ends /\ \A x \in ends : m <= x
    BY <1>1, Minimum
  <1> HIDE DEF m
  <1>3. \A l \in 0 .. m - 1 : KeyAt(k, l) \notin Stop
    <2>1. ASSUME NEW l \in 0 .. m - 1, KeyAt(k, l) \in Stop
          PROVE  FALSE
      <3>1. l \in Probes /\ l < m /\ m \in Nat
        BY <1>1, <1>2 DEF Probes
      <3>2. l \in ends
        BY <2>1, <3>1
      <3>3. m <= l
        BY <1>2, <3>2
      <3>4. QED
        BY <3>1, <3>3
    <2>2. QED
      BY <2>1
  <1>4. QED
    BY <1>1, <1>2, <1>3 DEF m

(* Where ht_add() puts a key. *)
LEMMA AddAtIs ==
  ASSUME TypeOK, NEW k \in Key,
         \E n \in Probes : KeyAt(k, n) \in {None, Tombstone, k}
  PROVE  \E m \in Probes :
           /\ AddAt(k) = Probe(k, m) /\ AddAt(k) \in 1 .. Cap
           /\ KeyAt(k, m) = entries[AddAt(k)].key
           /\ KeyAt(k, m) \in {None, Tombstone, k}
           /\ \A l \in 0 .. m - 1 : KeyAt(k, l) \notin {None, Tombstone, k}
           /\ \A n \in Probes : KeyAt(k, n) \in {None, Tombstone, k} => m <= n
  <1> DEFINE Stop == {None, Tombstone, k}
             ends == {n \in Probes : KeyAt(k, n) \in Stop}
             m == Min(ends)
  <1>1. /\ ends # {} /\ m \in Probes
        /\ KeyAt(k, m) \in Stop
        /\ \A l \in 0 .. m - 1 : KeyAt(k, l) \notin Stop
        /\ \A n \in Probes : KeyAt(k, n) \in Stop => m <= n
    BY FirstProbe
  <1>2. AddAt(k) = Probe(k, m)
    BY <1>1 DEF AddAt
  <1> HIDE DEF m
  <1>3. Probe(k, m) \in 1 .. Cap
    BY <1>1, ProbesCover
  <1>4. QED
    BY <1>1, <1>2, <1>3 DEF KeyAt

-----------------------------------------------------------------------------
(* The sizes: every step keeps them. *)
LEMMA SizedInit == Init => SizedInv
  <1> SUFFICES ASSUME Init
               PROVE  SizedInv
    OBVIOUS
  <1>1. InitCap \in Nat
    BY TableAssumption
  <1>2. /\ entries \in Seq(Entry) /\ Cap = InitCap
        /\ Cardinality(Live(entries)) = 0
    BY <1>1, LiveZeroed DEF Init, Cap
  <1>3. TypeOK
    BY <1>1, <1>2, LiveNone DEF Init, TypeOK
  <1>4. SizeInv
    BY <1>1, <1>2, LiveNone DEF Init, SizeInv, Pending
  <1>5. QED
    BY <1>3, <1>4 DEF SizedInv

(* One entry is written. *)
LEMMA SetEntry ==
  ASSUME TypeOK, NEW p \in 1 .. Cap, NEW e \in Entry,
         entries' = [entries EXCEPT ![p] = e]
  PROVE  /\ entries' \in Seq(Entry) /\ Cap' = Cap
         /\ DOMAIN entries' = 1 .. Cap /\ DOMAIN entries = 1 .. Cap
         /\ \A i \in 1 .. Cap : entries'[i] = IF i = p THEN e ELSE entries[i]
         /\ Live(entries') = IF e.key \in Key THEN Live(entries) \cup {p}
                             ELSE Live(entries) \ {p}
         /\ Cardinality(Live(entries')) =
              Cardinality(Live(entries)) + (IF e.key \in Key THEN 1 ELSE 0)
                                         - (IF entries[p].key \in Key THEN 1 ELSE 0)
  <1>1. entries \in Seq(Entry) /\ p \in 1 .. Len(entries)
    BY DEF TypeOK, Cap
  <1>2. /\ entries' \in Seq(Entry) /\ Len(entries') = Len(entries)
        /\ \A i \in 1 .. Len(entries) : entries'[i] = IF i = p THEN e ELSE entries[i]
    BY <1>1, ExceptSeq
  <1>3. Live(entries') = IF e.key \in Key THEN Live(entries) \cup {p}
                         ELSE Live(entries) \ {p}
    BY ONLY e \in Entry, <1>1, <1>2, LiveSet
  <1>4. Cardinality(Live(entries')) =
          Cardinality(Live(entries)) + (IF e.key \in Key THEN 1 ELSE 0)
                                     - (IF entries[p].key \in Key THEN 1 ELSE 0)
    BY ONLY SMTT(30), e \in Entry, <1>1, <1>2, LiveSet
  <1>5. DOMAIN entries' = 1 .. Len(entries) /\ DOMAIN entries = 1 .. Len(entries)
    BY <1>1, <1>2, LenProperties
  <1>6. QED
    BY <1>2, <1>3, <1>4, <1>5 DEF Cap

(* An entry that held a key is buried. *)
LEMMA BuriedIs ==
  ASSUME TypeOK, NEW i \in Live(entries)
  PROVE  /\ Buried(i) \in Seq(Entry) /\ Len(Buried(i)) = Cap
         /\ DOMAIN Buried(i) = 1 .. Cap /\ DOMAIN entries = 1 .. Cap
         /\ Buried(i)[i].key = Tombstone
         /\ \A j \in 1 .. Cap : j # i => Buried(i)[j] = entries[j]
         /\ Live(Buried(i)) = Live(entries) \ {i}
         /\ Cardinality(Live(Buried(i))) = Cardinality(Live(entries)) - 1
  <1> DEFINE e == [key |-> Tombstone, value |-> Unset]
             tab == Buried(i)
  <1>1. entries \in Seq(Entry) /\ i \in 1 .. Len(entries) /\ entries[i].key \in Key
    BY LiveIs DEF TypeOK, Live
  <1>2. e \in Entry /\ e.key = Tombstone /\ e.key \notin Key
    BY ReservedKeys DEF Entry
  <1>3. /\ tab \in Seq(Entry) /\ Len(tab) = Len(entries)
        /\ \A j \in 1 .. Len(entries) : tab[j] = IF j = i THEN e ELSE entries[j]
    <2>1. tab = [entries EXCEPT ![i] = e]
      BY DEF Buried
    <2> HIDE DEF tab
    <2>2. QED
      BY <1>1, <1>2, <2>1, ExceptSeq
  <1> HIDE DEF tab, e
  <1>4. /\ Live(tab) = IF e.key \in Key THEN Live(entries) \cup {i}
                       ELSE Live(entries) \ {i}
        /\ Cardinality(Live(tab)) =
             Cardinality(Live(entries)) + (IF e.key \in Key THEN 1 ELSE 0)
                                        - (IF entries[i].key \in Key THEN 1 ELSE 0)
    BY ONLY <1>1, <1>2, <1>3, LiveSet
  <1>5. Cardinality(Live(entries)) \in Nat
    BY <1>1, LiveIs
  <1>6. Cardinality(Live(tab)) = Cardinality(Live(entries)) - 1
    BY <1>1, <1>2, <1>4, <1>5
  <1>7. DOMAIN tab = 1 .. Len(entries) /\ DOMAIN entries = 1 .. Len(entries)
    BY <1>1, <1>3, LenProperties
  <1>8. QED
    BY <1>1, <1>2, <1>3, <1>4, <1>6, <1>7 DEF tab, Cap

(* ht_add() of a key for which there is room. *)
LEMMA PutSize ==
  ASSUME SizedInv, NEW k \in Key, NEW v \in Value, Put(k, v),
         \E n \in Probes : KeyAt(k, n) \in {None, Tombstone, k},
         count < Cap, old = << >>, adding' = {}, UNCHANGED <<old, oldCount, hash>>
  PROVE  SizedInv'
  <1> DEFINE p == AddAt(k)
             e == [key |-> k, value |-> v]
  <1>1. p \in 1 .. Cap /\ entries[p].key \in {None, Tombstone, k}
    BY AddAtIs DEF SizedInv
  <1>2. entries \in Seq(Entry) /\ e \in Entry /\ e.key = k
    BY DEF SizedInv, TypeOK, Entry
  <1>3. entries' = [entries EXCEPT ![p] = e]
    BY DEF Put
  <1>4. /\ entries' \in Seq(Entry) /\ Cap' = Cap
        /\ Cardinality(Live(entries')) =
             Cardinality(Live(entries)) + 1 - (IF entries[p].key \in Key THEN 1 ELSE 0)
    <2> HIDE DEF p, e
    <2>1. TypeOK
      BY DEF SizedInv
    <2>2. /\ entries' \in Seq(Entry) /\ Cap' = Cap
          /\ Cardinality(Live(entries')) =
               Cardinality(Live(entries)) + (IF e.key \in Key THEN 1 ELSE 0)
                                          - (IF entries[p].key \in Key THEN 1 ELSE 0)
      BY <1>1, <1>2, <1>3, <2>1, SetEntry
    <2>3. Cardinality(Live(entries)) \in Nat
      BY <1>2, LiveIs
    <2>4. QED
      BY <1>2, <2>2, <2>3
  <1>5. /\ count = Cardinality(Live(entries)) /\ count \in Nat /\ Cap \in Nat
        /\ count' = IF entries[p].key = k THEN count ELSE count + 1
    BY <1>2, LiveIs DEF Put, SizedInv, SizeInv, TypeOK, Cap
  <1>6. entries[p].key = k <=> entries[p].key \in Key
    BY <1>1, ReservedKeys
  <1>7. count' = Cardinality(Live(entries')) /\ count' \in 0 .. Cap'
    <2> HIDE DEF p, e
    <2>1. CASE entries[p].key = k
      BY <1>4, <1>5, <1>6, <2>1
    <2>2. CASE entries[p].key # k
      BY <1>4, <1>5, <1>6, <2>2
    <2>3. QED
      BY <2>1, <2>2
  <1>8. TypeOK'
    BY <1>4, <1>7 DEF SizedInv, TypeOK
  <1>9. SizeInv'
    BY <1>7, LiveNone DEF SizeInv, Pending
  <1>10. QED
    BY <1>8, <1>9 DEF SizedInv

(* The start of a resize: everything is still to be moved, and will fit. *)
LEMMA ResizeSize ==
  ASSUME NEW tab \in Seq(Entry), NEW cap \in Nat,
         ResizeTo(cap, tab, Cardinality(Live(tab))),
         adding' \subseteq Key \X Value, hash' \in [Key -> 0 .. HashMax - 1],
         Cardinality(Live(tab)) + Pending' <= cap
  PROVE  SizedInv' /\ entries' = Zeroed(cap) /\ old' = tab /\ Cap' = cap
  <1>1. /\ entries' = Zeroed(cap) /\ old' = tab /\ count' = 0
        /\ oldCount' = Cardinality(Live(tab))
    BY DEF ResizeTo
  <1>2. /\ entries' \in Seq(Entry) /\ Cap' = cap /\ Cardinality(Live(entries')) = 0
    BY <1>1, LiveZeroed DEF Cap
  <1>3. Cardinality(Live(tab)) \in Nat
    BY LiveIs
  <1>4. TypeOK'
    BY <1>1, <1>2, <1>3 DEF TypeOK
  <1>5. SizeInv'
    BY <1>1, <1>2, <1>3 DEF SizeInv, Pending
  <1>6. QED
    BY <1>1, <1>2, <1>4, <1>5 DEF SizedInv

(* The numbers the steps compute with. *)
LEMMA Sizes ==
  ASSUME SizedInv
  PROVE  /\ TypeOK /\ Cap \in Nat /\ count \in Nat /\ count <= Cap
         /\ count = Cardinality(Live(entries))
         /\ entries \in Seq(Entry) /\ old \in Seq(Entry)
         /\ Cardinality(Live(old)) \in Nat
         /\ count + Cardinality(Live(old)) + Pending <= Cap
         /\ old # << >> => oldCount = count + Cardinality(Live(old))
  <1>1. TypeOK /\ SizeInv
    BY DEF SizedInv
  <1>2. /\ entries \in Seq(Entry) /\ old \in Seq(Entry)
        /\ Cap \in Nat /\ Cardinality(Live(old)) \in Nat
    BY <1>1, LiveIs DEF TypeOK, Cap
  <1>3. count \in Nat /\ count <= Cap
    BY <1>1, <1>2 DEF TypeOK
  <1>4. QED
    BY <1>1, <1>2, <1>3 DEF SizeInv

(* The load factors leave room for what is added, and what remains after a
   removal that halves the table fits into the half.                       *)
LEMMA LoadFactors ==
  ASSUME SizedInv
  PROVE  /\ ~Overloaded => count < Cap
         /\ Underloaded => count - 1 <= Cap \div 2
         /\ Cap \div 2 \in Nat
  <1> DEFINE c == Cap
             n == count
  <1>1. c \in Nat /\ n \in Nat
    BY Sizes
  <1>2. MinLoad \in 0 .. 49 /\ MaxLoad \in 1 .. 99
    BY TableAssumption
  <1> HIDE DEF c, n
  <1>3. MaxLoad * c <= 99 * c /\ MinLoad * c <= 49 * c
    BY <1>1, <1>2
  <1>4. MaxLoad * c \in Int /\ MinLoad * c \in Int
    BY <1>1, <1>2
  <1>5. ~(100 * (n + 1) > MaxLoad * c) => n < c
    BY <1>1, <1>3, <1>4
  <1>6. 100 * (n - 1) <= MinLoad * c => n - 1 <= c \div 2
    BY <1>1, <1>3, <1>4
  <1>7. c \div 2 \in Nat
    BY <1>1
  <1>8. QED
    BY <1>5, <1>6, <1>7 DEF Overloaded, Underloaded, c, n

LEMMA RehashSize ==
  ASSUME SizedInv, Rehash
  PROVE  SizedInv'
  <1>1. /\ TypeOK /\ count \in Nat /\ Cap \in Nat /\ old \in Seq(Entry) /\ old # << >>
        /\ old' = Tail(old) /\ UNCHANGED <<oldCount, adding, hash>>
        /\ count = Cardinality(Live(entries)) /\ count <= Cap
        /\ count + Cardinality(Live(old)) + Pending <= Cap
        /\ oldCount = count + Cardinality(Live(old))
        /\ Pending' = Pending /\ Pending \in {0, 1}
    BY Sizes DEF Rehash, Pending
  <1>2. /\ Head(old) \in Entry /\ old' \in Seq(Entry)
        /\ Cardinality(Live(old)) =
             Cardinality(Live(old')) + (IF Head(old).key \in Key THEN 1 ELSE 0)
        /\ Cardinality(Live(old')) \in Nat
    <2>1. /\ Head(old) \in Entry /\ Tail(old) \in Seq(Entry)
          /\ Cardinality(Live(old)) =
               Cardinality(Live(Tail(old))) + (IF Head(old).key \in Key THEN 1 ELSE 0)
          /\ Cardinality(Live(Tail(old))) \in Nat
      BY <1>1, LiveTail
    <2>2. QED
      BY <1>1, <2>1
  <1>3. CASE Head(old).key \in {None, Tombstone}
    <2>1. Head(old).key \notin Key /\ UNCHANGED <<entries, count>>
      BY <1>3, ReservedKeys DEF Rehash
    <2>2. TypeOK'
      BY <1>1, <1>2, <2>1 DEF TypeOK, Cap
    <2>3. SizeInv'
      BY <1>1, <1>2, <2>1 DEF SizeInv, Cap
    <2>4. QED
      BY <2>2, <2>3 DEF SizedInv
  <1>4. CASE Head(old).key \notin {None, Tombstone}
    <2> DEFINE k == Head(old).key
               e == Head(old)
               free == {n \in Probes : KeyAt(k, n) \in {None, Tombstone}}
               p == Probe(k, Min(free))
    <2>1. /\ k \in Key /\ free # {}
          /\ entries' = [entries EXCEPT ![p] = e]
          /\ count' = count + 1
      BY <1>2, <1>4 DEF Rehash, Entry
    <2>2. p \in 1 .. Cap /\ entries[p].key \in {None, Tombstone}
      <3>1. Min(free) \in Probes /\ KeyAt(k, Min(free)) \in {None, Tombstone}
        BY <1>1, <2>1, FirstProbe
      <3>2. QED
        BY <1>1, <2>1, <3>1, ProbesCover DEF KeyAt
    <2>3. entries[p].key \notin Key /\ e \in Entry /\ e.key \in Key
      BY <1>2, <2>1, <2>2, ReservedKeys
    <2> HIDE DEF p, e
    <2>4. /\ entries' \in Seq(Entry) /\ Cap' = Cap
          /\ Cardinality(Live(entries')) =
               Cardinality(Live(entries)) + (IF e.key \in Key THEN 1 ELSE 0)
                                          - (IF entries[p].key \in Key THEN 1 ELSE 0)
      BY <1>1, <2>1, <2>2, <2>3, SetEntry
    <2>5. Cardinality(Live(entries')) = count + 1
      BY <1>1, <2>3, <2>4
    <2>6. count' \in 0 .. Cap'
      BY <1>1, <2>1, <2>4, <2>5, LiveIs DEF Cap
    <2>7. TypeOK'
      BY <1>1, <1>2, <2>4, <2>6 DEF TypeOK
    <2>8. Cardinality(Live(old)) = Cardinality(Live(old')) + 1
      BY <1>2, <2>1
    <2>9. SizeInv'
      <3>1. count' + Cardinality(Live(old')) = count + Cardinality(Live(old))
        BY <1>1, <1>2, <2>1, <2>8
      <3>2. count' + Cardinality(Live(old')) + Pending' <= Cap'
        BY <1>1, <2>4, <3>1
      <3>3. count' = Cardinality(Live(entries'))
        BY <2>1, <2>5
      <3>4. oldCount' = count' + Cardinality(Live(old'))
        BY <1>1, <3>1
      <3>5. QED
        BY <3>2, <3>3, <3>4 DEF SizeInv
    <2>10. QED
      BY <2>7, <2>9 DEF SizedInv
  <1>5. QED
    BY <1>3, <1>4

(* The free entry that PutSize asks for. *)
LEMMA AddRoom ==
  ASSUME SizedInv, count < Cap, NEW k \in Key
  PROVE  \E n \in Probes : KeyAt(k, n) \in {None, Tombstone, k}
  <1>1. PICK n \in Probes : KeyAt(k, n) \in {None, Tombstone}
    BY Sizes, FreeEntry
  <1>2. QED
    BY <1>1

LEMMA AddSize ==
  ASSUME SizedInv, NEW k \in Key, NEW v \in Value, Add(k, v)
  PROVE  SizedInv'
  BY AddRoom, PutSize, LoadFactors DEF Add, Idle

LEMMA AddGrownRoom ==
  ASSUME SizedInv, adding # {}, old = << >>
  PROVE  count < Cap
  BY Sizes, LiveNone DEF Pending

LEMMA AddGrownSize ==
  ASSUME SizedInv, AddGrown
  PROVE  SizedInv'
  <1>1. PICK kv \in adding : Put(kv[1], kv[2])
    BY DEF AddGrown
  <1>2. kv[1] \in Key /\ kv[2] \in Value
    BY Sizes DEF TypeOK
  <1>3. count < Cap
    BY AddGrownRoom DEF AddGrown
  <1>4. QED
    BY <1>1, <1>2, <1>3, AddRoom, PutSize DEF AddGrown

LEMMA AddGrowsSize ==
  ASSUME SizedInv, NEW k \in Key, NEW v \in Value, AddGrows(k, v)
  PROVE  /\ SizedInv' /\ old' = entries /\ old = << >> /\ Cap' \in Nat
         /\ entries' = Zeroed(Cap')
  <1> DEFINE cap == IF Cap = 0 THEN 2 ELSE 2 * Cap
  <1>1. cap \in Nat /\ count + 1 <= cap
    BY Sizes
  <1>2. ResizeTo(cap, entries, Cardinality(Live(entries)))
    BY Sizes DEF AddGrows
  <1>3. /\ adding' = {<<k, v>>} /\ hash' = hash /\ old = << >>
    BY DEF AddGrows, Idle
  <1>4. Pending' = 1 /\ adding' \subseteq Key \X Value
    BY <1>3 DEF Pending
  <1>5. hash' \in [Key -> 0 .. HashMax - 1]
    BY <1>3, Sizes DEF TypeOK
  <1> HIDE DEF cap
  <1>6. Cardinality(Live(entries)) + Pending' <= cap
    BY <1>1, <1>4, Sizes
  <1>7. QED
    BY <1>1, <1>2, <1>3, <1>4, <1>5, <1>6, Sizes, ResizeSize

LEMMA ResizeCallSize ==
  ASSUME SizedInv, Resize
  PROVE  /\ SizedInv' /\ old' = entries /\ old = << >> /\ Cap' \in Nat
         /\ entries' = Zeroed(Cap')
  <1> DEFINE cap == 2 * Cap
  <1>1. cap \in Nat /\ count <= cap
    BY Sizes
  <1>2. ResizeTo(cap, entries, Cardinality(Live(entries)))
    BY Sizes DEF Resize
  <1>3. /\ adding' = {} /\ hash' = hash /\ old = << >>
    BY DEF Resize, Idle
  <1>4. Pending' = 0 /\ adding' \subseteq Key \X Value
    BY <1>3 DEF Pending
  <1>5. hash' \in [Key -> 0 .. HashMax - 1]
    BY <1>3, Sizes DEF TypeOK
  <1> HIDE DEF cap
  <1>6. Cardinality(Live(entries)) + Pending' <= cap
    BY <1>1, <1>4, Sizes
  <1>7. QED
    BY <1>1, <1>2, <1>3, <1>4, <1>5, <1>6, Sizes, ResizeSize

LEMMA FoundIs ==
  ASSUME TypeOK, NEW k \in Key, NEW i \in Find(k)
  PROVE  i \in Live(entries) /\ entries[i].key = k
  <1>1. PICK n \in Probes : i = Probe(k, n) /\ KeyAt(k, n) = k
    BY DEF Find
  <1>2. i \in 1 .. Cap /\ entries[i].key = k
    BY <1>1, ProbesCover DEF KeyAt
  <1>3. QED
    BY <1>2, LiveIs DEF TypeOK, Cap

LEMMA RemoveSize ==
  ASSUME SizedInv, NEW k \in Key, Remove(k)
  PROVE  SizedInv'
  <1>1. PICK i \in Find(k) :
          IF Underloaded
          THEN ResizeTo(Cap \div 2, Buried(i), count - 1)
          ELSE /\ entries' = Buried(i)
               /\ count' = count - 1
               /\ UNCHANGED <<old, oldCount>>
    BY DEF Remove
  <1>2. i \in Live(entries)
    BY FoundIs, Sizes
  <1>3. /\ Buried(i) \in Seq(Entry) /\ Len(Buried(i)) = Cap
        /\ Cardinality(Live(Buried(i))) = count - 1 /\ count - 1 \in Nat
    <2>1. /\ Buried(i) \in Seq(Entry) /\ Len(Buried(i)) = Cap
          /\ Cardinality(Live(Buried(i))) = count - 1
      BY <1>2, BuriedIs, Sizes
    <2>2. QED
      BY <2>1, LiveIs
  <1>4. /\ adding = {} /\ adding' = {} /\ hash' = hash /\ old = << >>
        /\ hash' \in [Key -> 0 .. HashMax - 1]
    BY Sizes DEF Remove, Idle, TypeOK
  <1>5. CASE Underloaded
    <2>1. Pending' = 0 /\ adding' \subseteq Key \X Value
      BY <1>4 DEF Pending
    <2>2. Cardinality(Live(Buried(i))) + Pending' <= Cap \div 2 /\ Cap \div 2 \in Nat
      BY <1>3, <1>5, <2>1, LoadFactors
    <2>3. ResizeTo(Cap \div 2, Buried(i), Cardinality(Live(Buried(i))))
      BY <1>1, <1>3, <1>5
    <2>4. QED
      BY <1>3, <1>4, <2>1, <2>2, <2>3, ResizeSize
  <1>6. CASE ~Underloaded
    <2>1. /\ entries' = Buried(i) /\ count' = count - 1
          /\ UNCHANGED <<old, oldCount, adding, hash>>
      BY <1>1, <1>4, <1>6
    <2>2. Cap' = Cap
      BY <1>3, <2>1 DEF Cap
    <2>3. TypeOK'
      BY <1>3, <2>1, <2>2, Sizes DEF TypeOK
    <2>4. SizeInv'
      BY <1>3, <1>4, <2>1, <2>2, Sizes, LiveNone DEF SizeInv, Pending
    <2>5. QED
      BY <2>3, <2>4 DEF SizedInv
  <1>7. QED
    BY <1>5, <1>6

(* ht_clear() and ht_delete(): an empty table, with or without its array. *)
LEMMA EmptiedSize ==
  ASSUME SizedInv, Clear \/ Delete
  PROVE  SizedInv' /\ Live(entries') = {} /\ old' = << >> /\ adding' = {}
  <1>1. /\ count' = 0 /\ old' = << >> /\ old = << >> /\ adding' = {}
        /\ UNCHANGED <<oldCount, hash>>
    BY DEF Clear, Delete, Idle
  <1>2. entries' \in Seq(Entry) /\ Live(entries') = {}
    BY Sizes, LiveZeroed, LiveNone DEF Clear, Delete
  <1>3. Cap' \in Nat /\ Cardinality(Live(entries')) = 0
    BY <1>2, LenProperties, FS_EmptySet DEF Cap
  <1>4. TypeOK'
    BY <1>1, <1>2, <1>3, Sizes DEF TypeOK
  <1>5. SizeInv'
    BY <1>1, <1>3, LiveNone DEF SizeInv, Pending
  <1>6. QED
    BY <1>1, <1>2, <1>4, <1>5 DEF SizedInv

LEMMA SizedNext == SizedInv /\ [Next]_vars => SizedInv'
  <1> SUFFICES ASSUME SizedInv, [Next]_vars
               PROVE  SizedInv'
    OBVIOUS
  <1>1. CASE UNCHANGED vars
    BY <1>1 DEF vars, SizedInv, TypeOK, SizeInv, Cap, Pending
  <1>2. QED
    BY <1>1, RehashSize, AddGrownSize, ResizeCallSize, EmptiedSize, RemoveSize,
       AddSize, AddGrowsSize DEF Next

LEMMA SizedCorrect == Spec => []SizedInv
  BY SizedInit, SizedNext, PTL DEF Spec

(* Every variable keeps its type, whatever keys the client adds: in particular
   the count never exceeds the capacity.                                   *)
THEOREM TypeCorrect == Spec => []TypeOK
  <1>1. SizedInv => TypeOK
    BY DEF SizedInv
  <1>2. QED
    BY <1>1, SizedCorrect, PTL

(* The unbounded searches of ht_add() and ht_add_rehash() end and the assert at
   the end of ht_resize() holds, for every client.                         *)
THEOREM SearchesEnd == Spec => []NeverStuck
  <1>1. SizedInv => NeverStuck
    <2> SUFFICES ASSUME SizedInv
                 PROVE  NeverStuck
      OBVIOUS
    <2>1. ASSUME old # << >>, Head(old).key \in Key
          PROVE  \E n \in Probes : KeyAt(Head(old).key, n) \in {None, Tombstone}
      <3>1. Cardinality(Live(old)) >= 1
        <4>1. /\ Cardinality(Live(old)) = Cardinality(Live(Tail(old))) + 1
              /\ Cardinality(Live(Tail(old))) \in Nat
          BY <2>1, LiveTail, Sizes
        <4>2. QED
          BY <4>1
      <3>2. count < Cap
        BY <3>1, Sizes DEF Pending
      <3>3. QED
        BY <2>1, <3>2, FreeEntry, Sizes
    <2>2. ASSUME NEW kv \in adding
          PROVE  \E n \in Probes : KeyAt(kv[1], n) \in {None, Tombstone, kv[1]}
      <3>1. kv[1] \in Key /\ count < Cap
        BY Sizes DEF TypeOK, Pending
      <3>2. QED
        BY <3>1, AddRoom
    <2>3. ASSUME ~Overloaded, NEW k \in Key
          PROVE  \E n \in Probes : KeyAt(k, n) \in {None, Tombstone, k}
      BY <2>3, AddRoom, LoadFactors
    <2>4. QED
      BY <2>1, <2>2, <2>3, Sizes DEF NeverStuck
  <1>2. QED
    BY <1>1, SizedCorrect, PTL

-----------------------------------------------------------------------------
(* What the table stands for: the entries in it and those still to be moved. *)
All == Stored(entries) \cup Stored(old)
With(k) == {x \in All : x.key = k}
Some(S) == CHOOSE v \in S : TRUE

LEMMA FindIs ==
  ASSUME TypeOK, Reached, NEW k \in Key
  PROVE  Find(k) = {i \in Live(entries) : entries[i].key = k}
  BY FoundIs DEF Reached

LEMMA HoldingIs ==
  ASSUME TypeOK, Reached, NEW k \in Key
  PROVE  Get(k) \cup Moving(k) = {x.value : x \in With(k)}
  <1>1. Get(k) = {x.value : x \in {y \in Stored(entries) : y.key = k}}
    BY FindIs DEF Get, Stored
  <1>2. Moving(k) = {x.value : x \in {y \in Stored(old) : y.key = k}}
    BY DEF Moving, Stored, Live
  <1>3. QED
    BY <1>1, <1>2 DEF With, All

LEMMA PresentIs ==
  TypeOK /\ Reached =>
    /\ Present = {k \in Key : With(k) # {}}
    /\ \A k \in Key : ValueOf(k) = Some({x.value : x \in With(k)})
  <1> SUFFICES ASSUME TypeOK, Reached
               PROVE  /\ Present = {k \in Key : With(k) # {}}
                      /\ \A k \in Key : ValueOf(k) = Some({x.value : x \in With(k)})
    OBVIOUS
  <1>1. \A k \in Key : Get(k) \cup Moving(k) = {x.value : x \in With(k)}
    BY HoldingIs
  <1>2. Present = {k \in Key : With(k) # {}}
    BY <1>1 DEF Present
  <1>3. \A k \in Key : ValueOf(k) = Some(Get(k) \cup Moving(k))
    BY DEF ValueOf, Some
  <1>4. QED
    BY <1>1, <1>2, <1>3

LEMMA PresentNext ==
  (TypeOK /\ Reached)' =>
    (/\ Present = {k \in Key : With(k) # {}}
     /\ \A k \in Key : ValueOf(k) = Some({x.value : x \in With(k)}))'
  BY PresentIs, PTL

(* The map of Map changes as the set of entries does. *)
LEMMA MapKept ==
  ASSUME IInv, IInv', All' = All
  PROVE  UNCHANGED [k \in Present |-> ValueOf(k)]
  <1>1. TypeOK /\ TypeOK' /\ Reached /\ Reached'
    BY DEF IInv, SizedInv
  <1>2. \A k \in Key : With(k)' = With(k)
    BY DEF With
  <1>3. /\ Present = {k \in Key : With(k) # {}}
        /\ \A k \in Key : ValueOf(k) = Some({x.value : x \in With(k)})
    BY <1>1, PresentIs
  <1>4. /\ Present' = {k \in Key : With(k)' # {}}
        /\ \A k \in Key : ValueOf(k)' = Some({x.value : x \in With(k)'})
    BY <1>1, PresentNext
  <1>5. Present' = Present /\ \A k \in Key : ValueOf(k)' = ValueOf(k)
    BY <1>2, <1>3, <1>4
  <1>6. \A k \in Present : k \in Key
    BY <1>3
  <1>7. QED
    BY <1>5, <1>6

LEMMA MapAdds ==
  ASSUME IInv, IInv', NEW k \in Key, NEW v \in Value, NEW e, e.key = k, e.value = v,
         All' = {x \in All : x.key # k} \cup {e}
  PROVE  Abstract!MAdd(k, v)
  <1>1. TypeOK /\ TypeOK' /\ Reached /\ Reached'
    BY DEF IInv, SizedInv
  <1>2. \A x \in Key : x # k => With(x)' = With(x)
    BY DEF With
  <1>3. With(k)' = {e}
    BY DEF With
  <1>4. /\ Present = {x \in Key : With(x) # {}}
        /\ \A x \in Key : ValueOf(x) = Some({y.value : y \in With(x)})
    BY <1>1, PresentIs
  <1>5. /\ Present' = {x \in Key : With(x)' # {}}
        /\ \A x \in Key : ValueOf(x)' = Some({y.value : y \in With(x)'})
    BY <1>1, PresentNext
  <1>6. Present' = Present \cup {k}
    BY <1>2, <1>3, <1>4, <1>5
  <1>7. \A x \in Key : x # k => ValueOf(x)' = ValueOf(x)
    BY <1>2, <1>4, <1>5
  <1>8. ValueOf(k)' = v
    <2>1. {y.value : y \in With(k)'} = {v}
      BY <1>3
    <2>2. Some({v}) = v
      BY DEF Some
    <2>3. QED
      BY <1>5, <2>1, <2>2
  <1>9. Present \subseteq Key
    BY <1>4
  <1>10. QED
    BY <1>6, <1>7, <1>8, <1>9 DEF Abstract!MAdd

LEMMA MapRemoves ==
  ASSUME IInv, IInv', NEW k \in Key, All' = {x \in All : x.key # k}
  PROVE  Abstract!MRemove(k)
  <1>1. TypeOK /\ TypeOK' /\ Reached /\ Reached'
    BY DEF IInv, SizedInv
  <1>2. \A x \in Key : x # k => With(x)' = With(x)
    BY DEF With
  <1>3. With(k)' = {}
    BY DEF With
  <1>4. /\ Present = {x \in Key : With(x) # {}}
        /\ \A x \in Key : ValueOf(x) = Some({y.value : y \in With(x)})
    BY <1>1, PresentIs
  <1>5. /\ Present' = {x \in Key : With(x)' # {}}
        /\ \A x \in Key : ValueOf(x)' = Some({y.value : y \in With(x)'})
    BY <1>1, PresentNext
  <1>6. Present' = Present \ {k}
    BY <1>2, <1>3, <1>4, <1>5
  <1>7. \A x \in Key : x # k => ValueOf(x)' = ValueOf(x)
    BY <1>2, <1>4, <1>5
  <1>8. Present \subseteq Key
    BY <1>4
  <1>9. QED
    BY <1>6, <1>7, <1>8 DEF Abstract!MRemove

LEMMA MapClears ==
  ASSUME IInv', All' = {}
  PROVE  Abstract!MClear
  <1>1. TypeOK' /\ Reached'
    BY DEF IInv, SizedInv
  <1>2. Present' = {x \in Key : With(x)' # {}}
    BY <1>1, PresentNext
  <1>3. Present' = {}
    BY <1>2 DEF With
  <1>4. QED
    BY <1>3 DEF Abstract!MClear

-----------------------------------------------------------------------------
(* What writing one entry does to the keys that are stored and to the searches
   for them.                                                               *)
LEMMA StillFound ==
  ASSUME TypeOK, Cap' = Cap, hash' = hash,
         NEW k \in Key, NEW i \in Find(k), entries'[i].key = k,
         \A j \in 1 .. Cap : entries[j].key \notin {None, k} => entries'[j].key \notin {None, k}
  PROVE  i \in Find(k)'
  <1>1. PICK n \in Probes : /\ i = Probe(k, n) /\ KeyAt(k, n) = k
                            /\ \A l \in 0 .. n - 1 : KeyAt(k, l) \notin {None, k}
    BY DEF Find
  <1>2. n \in Probes' /\ \A l : Probe(k, l)' = Probe(k, l)
    BY DEF Probes, Probe
  <1>3. KeyAt(k, n)' = k /\ i = Probe(k, n)'
    BY <1>1, <1>2 DEF KeyAt
  <1>4. \A l \in 0 .. n - 1 : l \in Probes
    <2>1. Cap \in Nat
      BY LenProperties DEF TypeOK, Cap
    <2>2. QED
      BY <2>1 DEF Probes
  <1>5. ASSUME NEW l \in 0 .. n - 1
        PROVE  KeyAt(k, l)' \notin {None, k}
    <2>1. Probe(k, l) \in 1 .. Cap
      BY <1>4, ProbesCover
    <2>2. entries[Probe(k, l)].key \notin {None, k}
      BY <1>1 DEF KeyAt
    <2>3. QED
      BY <1>2, <2>1, <2>2 DEF KeyAt
  <1>6. QED
    BY <1>2, <1>3, <1>5 DEF Find

LEMMA ReachedNext ==
  ASSUME \A k \in Key, i \in Live(entries') : entries'[i].key = k => i \in Find(k)'
  PROVE  Reached'
  <1>1. ASSUME NEW i \in Live(entries')
        PROVE  \A k : k = entries'[i].key => i \in Find(k)'
    BY DEF Live
  <1>2. QED
    BY <1>1 DEF Reached, Find, KeyAt, Probe

LEMMA EntryKeys ==
  ASSUME TypeOK
  PROVE  \A i \in 1 .. Cap : \/ i \in Live(entries)
                             \/ entries[i].key \in {None, Tombstone}
  <1>1. /\ Live(entries) = {i \in 1 .. Cap : entries[i].key \in Key}
        /\ \A i \in 1 .. Cap : entries[i] \in Entry
    BY LiveIs DEF TypeOK, Cap
  <1>2. QED
    BY <1>1 DEF Entry

(* A free entry takes a key that was not there. *)
LEMMA Filled ==
  ASSUME TypeOK, Reached, Once(entries), hash' = hash,
         NEW e \in Entry, e.key \in Key, NEW m \in Probes,
         KeyAt(e.key, m) \in {None, Tombstone},
         \A l \in 0 .. m - 1 : KeyAt(e.key, l) \notin {None, Tombstone},
         \A i \in Live(entries) : entries[i].key # e.key,
         entries' = [entries EXCEPT ![Probe(e.key, m)] = e]
  PROVE  /\ Once(entries') /\ Reached'
         /\ Stored(entries') = Stored(entries) \cup {e}
         /\ \A i \in DOMAIN entries' : entries'[i].key = Tombstone =>
              i \in DOMAIN entries /\ entries[i].key = Tombstone
  <1> DEFINE k == e.key
             p == Probe(k, m)
  <1>1. p \in 1 .. Cap /\ entries[p].key \in {None, Tombstone} /\ entries[p].key \notin Key
    BY ProbesCover, ReservedKeys DEF KeyAt
  <1>2. entries' = [entries EXCEPT ![p] = e] /\ k \in Key /\ k \notin {None, Tombstone}
    BY ReservedKeys
  <1> HIDE DEF p
  <1>3. /\ Cap' = Cap /\ DOMAIN entries' = 1 .. Cap /\ DOMAIN entries = 1 .. Cap
        /\ \A i \in 1 .. Cap : entries'[i] = IF i = p THEN e ELSE entries[i]
        /\ Live(entries') = IF k \in Key THEN Live(entries) \cup {p} ELSE Live(entries) \ {p}
    BY <1>1, <1>2, SetEntry
  <1>4. /\ Live(entries') = Live(entries) \cup {p}
        /\ p \notin Live(entries) /\ Live(entries) \subseteq 1 .. Cap
        /\ entries'[p] = e
        /\ \A i \in Live(entries) : entries'[i] = entries[i]
    BY <1>1, <1>2, <1>3 DEF Live
  <1>5. Once(entries')
    BY <1>4 DEF Once
  <1>6. Stored(entries') = Stored(entries) \cup {e}
    <2>1. ASSUME NEW x \in Stored(entries')
          PROVE  x \in Stored(entries) \cup {e}
      BY ZenonT(60), <1>4, <2>1 DEF Stored
    <2>2. ASSUME NEW x \in Stored(entries) \cup {e}
          PROVE  x \in Stored(entries')
      BY <1>4, <2>2 DEF Stored
    <2>3. QED
      BY <2>1, <2>2
  <1>7. Reached'
    <2>1. ASSUME NEW x \in Key, NEW i \in Live(entries'), entries'[i].key = x
          PROVE  i \in Find(x)'
      <3>1. CASE i = p
        <4>1. x = k
          BY <1>4, <2>1, <3>1
        <4>2. m \in Probes' /\ \A l : Probe(k, l)' = Probe(k, l)
          BY <1>3 DEF Probes, Probe
        <4>3. p = Probe(k, m)' /\ KeyAt(k, m)' = k
          BY <1>4, <4>2 DEF KeyAt, p
        <4>4. \A l \in 0 .. m - 1 : KeyAt(k, l)' \notin {None, k}
          <5>1. ASSUME NEW l \in 0 .. m - 1
                PROVE  KeyAt(k, l)' \notin {None, k}
            <6>1. l \in Probes
              <7>1. Cap \in Nat
                BY LenProperties DEF TypeOK, Cap
              <7>2. QED
                BY <7>1 DEF Probes
            <6>2. Probe(k, l) \in 1 .. Cap /\ entries[Probe(k, l)].key \notin {None, Tombstone}
              BY <1>2, <6>1, ProbesCover DEF KeyAt
            <6>3. Probe(k, l) \in Live(entries)
              BY <1>3, <1>1, <6>2, EntryKeys
            <6>4. entries'[Probe(k, l)] = entries[Probe(k, l)] /\ entries[Probe(k, l)].key \notin {None, k}
              BY <1>4, <6>2, <6>3
            <6>5. QED
              BY <4>2, <6>4 DEF KeyAt
          <5>2. QED
            BY <5>1
        <4>5. QED
          BY <3>1, <4>1, <4>2, <4>3, <4>4 DEF Find
      <3>2. CASE i # p
        <4>1. i \in Live(entries) /\ entries[i].key = x /\ x # k /\ i \in Find(x)
          BY <1>4, <2>1, <3>2 DEF Reached
        <4>2. \A j \in 1 .. Cap : entries[j].key \notin {None, x} => entries'[j].key \notin {None, x}
          BY <1>2, <1>3, <4>1
        <4>3. QED
          BY <1>3, <2>1, <4>1, <4>2, StillFound
      <3>3. QED
        BY <3>1, <3>2
    <2>2. QED
      BY <2>1, ReachedNext
  <1>8. QED
    BY <1>2, <1>3, <1>5, <1>6, <1>7

(* The value of a key that is there is replaced. *)
LEMMA Replaced ==
  ASSUME TypeOK, Reached, Once(entries), hash' = hash,
         NEW e \in Entry, e.key \in Key, NEW p \in Live(entries),
         entries[p].key = e.key, entries' = [entries EXCEPT ![p] = e]
  PROVE  /\ Once(entries') /\ Reached'
         /\ Stored(entries') = {x \in Stored(entries) : x.key # e.key} \cup {e}
         /\ \A i \in DOMAIN entries' : entries'[i].key = Tombstone =>
              i \in DOMAIN entries /\ entries[i].key = Tombstone
  <1> DEFINE k == e.key
  <1>1. p \in 1 .. Cap
    BY LiveIs DEF TypeOK, Cap
  <1>2. /\ Cap' = Cap /\ DOMAIN entries' = 1 .. Cap /\ DOMAIN entries = 1 .. Cap
        /\ \A i \in 1 .. Cap : entries'[i] = IF i = p THEN e ELSE entries[i]
        /\ Live(entries') = IF k \in Key THEN Live(entries) \cup {p} ELSE Live(entries) \ {p}
    BY <1>1, SetEntry
  <1>3. /\ Live(entries') = Live(entries) /\ Live(entries) \subseteq 1 .. Cap
        /\ entries'[p] = e /\ \A i \in 1 .. Cap : i # p => entries'[i] = entries[i]
        /\ \A i \in 1 .. Cap : entries'[i].key = entries[i].key
    BY <1>1, <1>2 DEF Live
  <1>4. \A i \in Live(entries) : i # p => entries[i].key # k
    BY DEF Once
  <1>5. Once(entries')
    BY <1>3 DEF Once
  <1>6. Stored(entries') = {x \in Stored(entries) : x.key # k} \cup {e}
    <2>1. ASSUME NEW x \in Stored(entries')
          PROVE  x \in {y \in Stored(entries) : y.key # k} \cup {e}
      BY <1>3, <1>4, <2>1 DEF Stored
    <2>2. ASSUME NEW x \in {y \in Stored(entries) : y.key # k} \cup {e}
          PROVE  x \in Stored(entries')
      BY <1>3, <1>4, <2>2 DEF Stored
    <2>3. QED
      BY <2>1, <2>2
  <1>7. Reached'
    <2>1. ASSUME NEW x \in Key, NEW i \in Live(entries'), entries'[i].key = x
          PROVE  i \in Find(x)'
      <3>1. i \in Live(entries) /\ entries[i].key = x /\ i \in Find(x)
        BY <1>3, <2>1 DEF Reached
      <3>2. \A j \in 1 .. Cap : entries[j].key \notin {None, x} => entries'[j].key \notin {None, x}
        BY <1>3
      <3>3. QED
        BY <1>2, <2>1, <3>1, <3>2, StillFound
    <2>2. QED
      BY <2>1, ReachedNext
  <1>8. QED
    BY <1>2, <1>3, <1>5, <1>6, <1>7

(* A key is buried. *)
LEMMA BuriedKeys ==
  ASSUME TypeOK, Once(entries), NEW i \in Live(entries)
  PROVE  /\ Once(Buried(i))
         /\ Stored(Buried(i)) = {x \in Stored(entries) : x.key # entries[i].key}
  <1> DEFINE tab == Buried(i)
  <1>1. /\ \A j \in Live(entries) : j # i => tab[j] = entries[j]
        /\ Live(tab) = Live(entries) \ {i}
    BY BuriedIs, LiveIs DEF TypeOK, Cap
  <1> HIDE DEF tab
  <1>2. \A j \in Live(entries) : j # i => entries[j].key # entries[i].key
    BY DEF Once
  <1>3. Once(tab)
    BY <1>1 DEF Once
  <1>4. Stored(tab) = {x \in Stored(entries) : x.key # entries[i].key}
    BY <1>1, <1>2 DEF Stored
  <1>5. QED
    BY <1>3, <1>4 DEF tab

LEMMA BuriedReached ==
  ASSUME TypeOK, Reached, Once(entries), hash' = hash, NEW i \in Live(entries),
         entries' = Buried(i)
  PROVE  Reached'
  <1>1. /\ Cap' = Cap /\ entries'[i].key = Tombstone
        /\ \A j \in 1 .. Cap : j # i => entries'[j] = entries[j]
        /\ Live(entries') = Live(entries) \ {i} /\ Live(entries) \subseteq 1 .. Cap
    BY BuriedIs, LiveIs DEF TypeOK, Cap
  <1>2. ASSUME NEW x \in Key, NEW j \in Live(entries'), entries'[j].key = x
        PROVE  j \in Find(x)'
    <2>1. j \in Live(entries) /\ entries[j].key = x /\ j \in Find(x)
      BY <1>1, <1>2 DEF Reached
    <2>2. x # Tombstone /\ Tombstone # None
      BY ReservedKeys DEF None, Tombstone
    <2>3. \A n \in 1 .. Cap : entries[n].key \notin {None, x} => entries'[n].key \notin {None, x}
      BY <1>1, <2>2
    <2>4. QED
      BY <1>1, <1>2, <2>1, <2>3, StillFound
  <1>3. QED
    BY <1>2, ReachedNext

(* The first of the entries to move is gone from them. *)
LEMMA TailKeys ==
  ASSUME NEW tab \in Seq(Entry), tab # << >>, Once(tab)
  PROVE  /\ Once(Tail(tab))
         /\ Head(tab).key \in Key =>
              /\ Stored(tab) = Stored(Tail(tab)) \cup {Head(tab)}
              /\ \A j \in Live(Tail(tab)) : Tail(tab)[j].key # Head(tab).key
         /\ Head(tab).key \notin Key => Stored(tab) = Stored(Tail(tab))
  <1> DEFINE rest == Tail(tab)
             h == Head(tab)
  <1>1. /\ h = tab[1]
        /\ \A i \in Live(rest) : i + 1 \in Live(tab) /\ rest[i] = tab[i + 1] /\ i >= 1
        /\ \A j \in Live(tab) : j # 1 => j - 1 \in Live(rest) /\ rest[j - 1] = tab[j]
        /\ rest \in Seq(Entry) /\ Len(tab) >= 1
    BY LiveTail
  <1>2. /\ Live(rest) \subseteq Nat /\ Live(tab) = {i \in 1 .. Len(tab) : tab[i].key \in Key}
        /\ Len(tab) \in Nat
    <2>1. Live(rest) \subseteq 1 .. Len(rest) /\ Len(rest) \in Nat
      BY <1>1, LiveIs
    <2>2. Live(tab) = {i \in 1 .. Len(tab) : tab[i].key \in Key} /\ Len(tab) \in Nat
      BY LiveIs
    <2>3. QED
      BY <2>1, <2>2
  <1> HIDE DEF rest, h
  <1>3. 1 \in Live(tab) <=> h.key \in Key
    BY <1>1, <1>2
  <1>4. Once(rest)
    <2>1. ASSUME NEW i \in Live(rest), NEW j \in Live(rest), rest[i].key = rest[j].key
          PROVE  i = j
      <3>1. i + 1 \in Live(tab) /\ j + 1 \in Live(tab) /\ tab[i + 1].key = tab[j + 1].key
        BY <1>1, <2>1
      <3>2. i + 1 = j + 1
        BY <3>1 DEF Once
      <3>3. QED
        BY <1>2, <3>2
    <2>2. QED
      BY <2>1 DEF Once
  <1>5. \A i \in Live(tab) : i # 1 => tab[i] \in Stored(rest)
    BY <1>1 DEF Stored
  <1>6. Stored(rest) \subseteq Stored(tab)
    BY <1>1 DEF Stored
  <1>7. ASSUME h.key \in Key
        PROVE  /\ Stored(tab) = Stored(rest) \cup {h}
               /\ \A j \in Live(rest) : rest[j].key # h.key
    <2>1. h \in Stored(tab)
      BY <1>1, <1>3, <1>7 DEF Stored
    <2>2. Stored(tab) \subseteq Stored(rest) \cup {h}
      BY <1>1, <1>5 DEF Stored
    <2>3. ASSUME NEW j \in Live(rest), rest[j].key = h.key
          PROVE  FALSE
      <3>1. j + 1 \in Live(tab) /\ tab[j + 1].key = tab[1].key /\ 1 \in Live(tab) /\ j + 1 # 1
        BY <1>1, <1>2, <1>3, <1>7, <2>3
      <3>2. QED
        BY <3>1 DEF Once
    <2>4. QED
      BY <1>6, <2>1, <2>2, <2>3
  <1>8. ASSUME h.key \notin Key
        PROVE  Stored(tab) = Stored(rest)
    BY <1>3, <1>5, <1>6, <1>8 DEF Stored
  <1>9. QED
    BY <1>4, <1>7, <1>8 DEF rest, h

LEMMA ZeroedKeys ==
  ASSUME NEW cap \in Nat
  PROVE  /\ Once(Zeroed(cap)) /\ Stored(Zeroed(cap)) = {}
         /\ \A i \in DOMAIN Zeroed(cap) : Zeroed(cap)[i].key # Tombstone
  <1>1. /\ \A i \in DOMAIN Zeroed(cap) : Zeroed(cap)[i] = Empty
        /\ Live(Zeroed(cap)) = {}
    BY LiveZeroed
  <1>2. Empty.key # Tombstone
    BY DEF Empty, None, Tombstone
  <1>3. QED
    BY <1>1, <1>2 DEF Once, Stored

LEMMA NoKeys ==
  Once(<< >>) /\ Stored(<< >>) = {}
  BY LiveNone DEF Once, Stored

-----------------------------------------------------------------------------
(* Every step keeps the invariant, and changes what is stored as Map says. *)
LEMMA PutKeys ==
  ASSUME IInv, old = << >>, hash' = hash, NEW k \in Key, NEW v \in Value, Put(k, v),
         count < Cap,
         \/ Find(k) = {}
         \/ \A i \in 1 .. Cap : entries[i].key # Tombstone
  PROVE  /\ Once(entries') /\ Reached'
         /\ Stored(entries') = {x \in Stored(entries) : x.key # k} \cup {[key |-> k, value |-> v]}
  <1> DEFINE e == [key |-> k, value |-> v]
             p == AddAt(k)
  <1>1. TypeOK /\ SizedInv /\ Reached /\ Once(entries)
    BY DEF IInv, SizedInv
  <1>2. PICK m \in Probes :
          /\ p = Probe(k, m) /\ p \in 1 .. Cap
          /\ KeyAt(k, m) = entries[p].key
          /\ KeyAt(k, m) \in {None, Tombstone, k}
          /\ \A l \in 0 .. m - 1 : KeyAt(k, l) \notin {None, Tombstone, k}
          /\ \A n \in Probes : KeyAt(k, n) \in {None, Tombstone, k} => m <= n
    BY <1>1, AddRoom, AddAtIs
  <1>3. e \in Entry /\ e.key = k /\ entries' = [entries EXCEPT ![p] = e]
    BY DEF Entry, Put
  <1> HIDE DEF e, p
  <1>4. CASE entries[p].key = k
    <2>1. p \in Live(entries)
      BY <1>1, <1>2, <1>4, LiveIs DEF TypeOK, Cap
    <2>2. QED
      BY <1>1, <1>3, <1>4, <2>1, Replaced DEF e
  <1>5. CASE entries[p].key # k
    <2>1. KeyAt(k, m) \in {None, Tombstone} /\ KeyAt(k, m) # k
      BY <1>2, <1>5
    <2>2. \A i \in Live(entries) : entries[i].key # k
      <3>1. CASE Find(k) = {}
        BY <1>1, <3>1, FindIs
      <3>2. CASE \A i \in 1 .. Cap : entries[i].key # Tombstone
        <4>1. KeyAt(k, m) = None
          BY <1>2, <2>1, <3>2
        <4>2. ASSUME NEW i \in Live(entries), entries[i].key = k
              PROVE  FALSE
          <5>1. PICK n \in Probes : KeyAt(k, n) = k /\ \A l \in 0 .. n - 1 : KeyAt(k, l) \notin {None, k}
            <6>1. i \in Find(k)
              BY <1>1, <4>2, FindIs
            <6>2. QED
              BY <6>1 DEF Find
          <5>2. m <= n /\ m # n
            BY <1>2, <2>1, <5>1
          <5>3. m \in 0 .. n - 1
            <6>1. Cap \in Nat
              BY <1>1, Sizes
            <6>2. QED
              BY <5>2, <6>1 DEF Probes
          <5>4. QED
            BY <4>1, <5>1, <5>3
        <4>3. QED
          BY <4>2
      <3>3. QED
        BY <3>1, <3>2
    <2>3. /\ Once(entries') /\ Reached'
          /\ Stored(entries') = Stored(entries) \cup {e}
      BY <1>1, <1>2, <1>3, <2>1, <2>2, Filled
    <2>4. Stored(entries) = {x \in Stored(entries) : x.key # k}
      BY <2>2 DEF Stored
    <2>5. QED
      BY <2>3, <2>4 DEF e
  <1>6. QED
    BY <1>4, <1>5

LEMMA RehashKeys ==
  ASSUME IInv, Rehash
  PROVE  IInv' /\ All' = All
  <1>1. /\ TypeOK /\ SizedInv /\ Reached /\ Once(entries) /\ Once(old) /\ Apart /\ Fresh
        /\ old \in Seq(Entry) /\ old # << >> /\ old' = Tail(old) /\ hash' = hash
    BY Sizes DEF IInv, SizedInv, Rehash
  <1>2. SizedInv'
    BY <1>1, RehashSize
  <1>3. /\ Once(old')
        /\ Head(old).key \in Key =>
              /\ Stored(old) = Stored(old') \cup {Head(old)}
              /\ \A j \in Live(old') : old'[j].key # Head(old).key
        /\ Head(old).key \notin Key => Stored(old) = Stored(old')
        /\ Head(old) \in Entry
    BY <1>1, TailKeys, LiveTail
  <1>4. /\ Apart <=> \A x \in Stored(entries), y \in Stored(old) : x.key # y.key
        /\ Apart' <=> \A x \in Stored(entries'), y \in Stored(old') : x.key # y.key
    BY DEF Apart, Stored
  <1>5. \A i \in DOMAIN entries : entries[i].key # Tombstone
    BY <1>1 DEF Fresh, Idle
  <1>6. CASE Head(old).key \in {None, Tombstone}
    <2>1. entries' = entries /\ Head(old).key \notin Key
      BY <1>6, ReservedKeys DEF Rehash
    <2>2. Stored(old') = Stored(old)
      BY <1>3, <2>1
    <2>3. Reached'
      BY <1>1, <2>1 DEF Reached, Find, Probe, Probes, KeyAt, Cap
    <2>4. QED
      BY <1>1, <1>2, <1>3, <1>4, <1>5, <2>1, <2>2, <2>3 DEF IInv, Fresh, All
  <1>7. CASE Head(old).key \notin {None, Tombstone}
    <2> DEFINE e == Head(old)
               free == {n \in Probes : KeyAt(e.key, n) \in {None, Tombstone}}
               m == Min(free)
    <2>1. e.key \in Key /\ e \in Entry /\ free # {} /\ entries' = [entries EXCEPT ![Probe(e.key, m)] = e]
      BY <1>3, <1>7 DEF Rehash, Entry
    <2>2. /\ m \in Probes /\ KeyAt(e.key, m) \in {None, Tombstone}
          /\ \A l \in 0 .. m - 1 : KeyAt(e.key, l) \notin {None, Tombstone}
      BY <1>1, <2>1, FirstProbe
    <2> HIDE DEF m
    <2>3. e \in Stored(old)
      BY <1>3, <2>1
    <2> HIDE DEF e
    <2>4. \A i \in Live(entries) : entries[i].key # e.key
      BY <1>1, <1>4, <2>3 DEF Stored
    <2>5. /\ Once(entries') /\ Reached'
          /\ Stored(entries') = Stored(entries) \cup {e}
          /\ \A i \in DOMAIN entries' : entries'[i].key = Tombstone =>
               i \in DOMAIN entries /\ entries[i].key = Tombstone
      BY <1>1, <2>1, <2>2, <2>4, Filled
    <2>6. Stored(old) = Stored(old') \cup {e} /\ \A y \in Stored(old') : y.key # e.key
      BY <1>3, <2>1 DEF e, Stored
    <2>7. Apart'
      BY <1>1, <1>4, <2>5, <2>6
    <2>8. Fresh'
      BY <1>5, <2>5 DEF Fresh
    <2>9. All' = All
      BY <2>5, <2>6 DEF All
    <2>10. QED
      BY <1>2, <1>3, <2>5, <2>7, <2>8, <2>9 DEF IInv
  <1>8. QED
    BY <1>6, <1>7

(* A resize begins: everything is moved out of the way. *)
LEMMA StartKeys ==
  ASSUME SizedInv', NEW tab \in Seq(Entry), Once(tab), NEW cap \in Nat,
         entries' = Zeroed(cap), old' = tab
  PROVE  IInv' /\ All' = Stored(tab)
  <1>1. /\ Once(entries') /\ Stored(entries') = {} /\ Live(entries') = {}
        /\ \A i \in DOMAIN entries' : entries'[i].key # Tombstone
    BY ZeroedKeys, LiveZeroed
  <1>2. Apart' /\ Reached' /\ Fresh'
    BY <1>1 DEF Apart, Reached, Fresh
  <1>3. Once(old')
    OBVIOUS
  <1>4. All' = Stored(tab)
    BY <1>1 DEF All
  <1>5. QED
    BY <1>1, <1>2, <1>3, <1>4 DEF IInv

(* A step of a table that no resize is moving. *)
LEMMA SettledKeys ==
  ASSUME SizedInv', Once(entries'), Reached', old' = << >>, adding' = {}
  PROVE  IInv' /\ All' = Stored(entries')
  <1>1. Once(old') /\ Stored(old') = {} /\ Live(old') = {}
    BY NoKeys, LiveNone
  <1>2. Apart' /\ Fresh' /\ All' = Stored(entries')
    BY <1>1 DEF Apart, Fresh, Idle, All
  <1>3. QED
    BY <1>1, <1>2 DEF IInv

LEMMA SettledAll ==
  ASSUME old = << >>
  PROVE  All = Stored(entries)
  BY NoKeys DEF All

LEMMA AddKeys ==
  ASSUME ~AnyAdd, IInv, NEW k \in Key, NEW v \in Value, Add(k, v)
  PROVE  /\ IInv'
         /\ All' = {x \in All : x.key # k} \cup {[key |-> k, value |-> v]}
  <1>1. /\ SizedInv /\ old = << >> /\ old' = << >> /\ adding' = {} /\ hash' = hash
        /\ Put(k, v) /\ ~Overloaded
        /\ Find(k) = {} \/ \A i \in 1 .. Cap : entries[i].key # Tombstone
    BY DEF IInv, Add, Idle, MayAdd
  <1>2. SizedInv' /\ count < Cap
    BY <1>1, AddSize, LoadFactors
  <1>3. /\ Once(entries') /\ Reached'
        /\ Stored(entries') = {x \in Stored(entries) : x.key # k} \cup {[key |-> k, value |-> v]}
    BY <1>1, <1>2, PutKeys
  <1>4. QED
    BY <1>1, <1>2, <1>3, SettledKeys, SettledAll

LEMMA AddGrownKeys ==
  ASSUME IInv, AddGrown
  PROVE  /\ IInv'
         /\ \E k \in Key, v \in Value :
              All' = {x \in All : x.key # k} \cup {[key |-> k, value |-> v]}
  <1>1. PICK kv \in adding : Put(kv[1], kv[2])
    BY DEF AddGrown
  <1>2. /\ SizedInv /\ old = << >> /\ old' = << >> /\ adding' = {} /\ hash' = hash
        /\ TypeOK /\ kv[1] \in Key /\ kv[2] \in Value
    BY <1>1 DEF IInv, SizedInv, AddGrown, TypeOK
  <1>3. SizedInv' /\ count < Cap
    BY <1>1, <1>2, AddGrownSize, AddGrownRoom
  <1>4. \A i \in 1 .. Cap : entries[i].key # Tombstone
    BY <1>1, <1>2, LenProperties DEF IInv, Fresh, Idle, Cap, TypeOK
  <1>5. PICK k \in Key, v \in Value : k = kv[1] /\ v = kv[2]
    BY <1>2
  <1>6. /\ Once(entries') /\ Reached'
        /\ Stored(entries') = {x \in Stored(entries) : x.key # k} \cup {[key |-> k, value |-> v]}
    BY <1>1, <1>2, <1>3, <1>4, <1>5, PutKeys
  <1>7. IInv' /\ All' = Stored(entries') /\ All = Stored(entries)
    BY <1>2, <1>3, <1>6, SettledKeys, SettledAll
  <1>8. QED
    BY <1>6, <1>7

LEMMA GrowsKeys ==
  ASSUME IInv, Resize \/ \E k \in Key, v \in Value : AddGrows(k, v)
  PROVE  IInv' /\ All' = All
  <1>1. SizedInv /\ entries \in Seq(Entry) /\ Once(entries)
    BY Sizes DEF IInv
  <1>2. /\ SizedInv' /\ old' = entries /\ old = << >> /\ Cap' \in Nat
        /\ entries' = Zeroed(Cap')
    BY <1>1, ResizeCallSize, AddGrowsSize
  <1>3. QED
    BY <1>1, <1>2, StartKeys, SettledAll

LEMMA RemoveKeys ==
  ASSUME IInv, NEW k \in Key, Remove(k)
  PROVE  IInv' /\ All' = {x \in All : x.key # k}
  <1>1. PICK i \in Find(k) :
          IF Underloaded
          THEN ResizeTo(Cap \div 2, Buried(i), count - 1)
          ELSE /\ entries' = Buried(i)
               /\ count' = count - 1
               /\ UNCHANGED <<old, oldCount>>
    BY DEF Remove
  <1>2. /\ SizedInv /\ TypeOK /\ Reached /\ Once(entries)
        /\ old = << >> /\ adding' = {} /\ hash' = hash
    BY DEF IInv, SizedInv, Remove, Idle
  <1>3. i \in Live(entries) /\ entries[i].key = k
    BY <1>2, FoundIs
  <1>4. /\ Once(Buried(i)) /\ Buried(i) \in Seq(Entry)
        /\ Stored(Buried(i)) = {x \in Stored(entries) : x.key # k}
    BY <1>2, <1>3, BuriedKeys, BuriedIs
  <1>5. SizedInv' /\ All = Stored(entries)
    BY <1>2, RemoveSize, SettledAll
  <1>6. CASE Underloaded
    <2>1. /\ entries' = Zeroed(Cap \div 2) /\ old' = Buried(i) /\ Cap \div 2 \in Nat
      BY <1>1, <1>2, <1>6, LoadFactors DEF ResizeTo
    <2>2. QED
      BY <1>4, <1>5, <2>1, StartKeys
  <1>7. CASE ~Underloaded
    <2>1. entries' = Buried(i) /\ old' = << >>
      BY <1>1, <1>2, <1>7
    <2>2. Once(entries')
      BY <1>4, <2>1
    <2>3. Reached'
      BY <1>2, <1>3, <2>1, BuriedReached
    <2>4. Stored(entries') = {x \in Stored(entries) : x.key # k}
      BY <1>4, <2>1
    <2>5. QED
      BY <1>2, <1>5, <2>1, <2>2, <2>3, <2>4, SettledKeys
  <1>8. QED
    BY <1>6, <1>7

LEMMA EmptiedKeys ==
  ASSUME IInv, Clear \/ Delete
  PROVE  IInv' /\ All' = {}
  <1>1. SizedInv' /\ Live(entries') = {} /\ old' = << >> /\ adding' = {}
    BY EmptiedSize DEF IInv
  <1>2. Once(entries') /\ Reached' /\ Stored(entries') = {}
    BY <1>1 DEF Once, Reached, Stored
  <1>3. QED
    BY <1>1, <1>2, SettledKeys

LEMMA Began ==
  ASSUME Init
  PROVE  IInv /\ All = {}
  <1>1. SizedInv /\ entries = Zeroed(InitCap) /\ old = << >> /\ adding = {}
    BY SizedInit DEF Init
  <1>2. /\ Once(entries) /\ Stored(entries) = {} /\ Live(entries) = {}
    BY <1>1, ZeroedKeys, LiveZeroed, TableAssumption
  <1>3. Once(old) /\ Stored(old) = {} /\ Live(old) = {}
    BY <1>1, NoKeys, LiveNone
  <1>4. Apart /\ Reached /\ Fresh /\ All = {}
    BY <1>1, <1>2, <1>3 DEF Apart, Reached, Fresh, Idle, All
  <1>5. QED
    BY <1>1, <1>2, <1>3, <1>4 DEF IInv

LEMMA UnchangedKeys ==
  ASSUME IInv, UNCHANGED vars
  PROVE  IInv' /\ All' = All
  <1>1. All' = All /\ Once(entries)' /\ Once(old)' /\ Apart' /\ Fresh'
    BY DEF vars, All, IInv, Apart, Fresh, Idle
  <1>2. SizedInv'
    BY DEF IInv, vars, SizedInv, TypeOK, SizeInv, Cap, Pending
  <1>3. Reached'
    BY DEF IInv, vars, Reached, Find, Probe, Probes, KeyAt, Cap
  <1>4. QED
    BY <1>1, <1>2, <1>3 DEF IInv

LEMMA InvInit == Init => IInv
  BY Began

LEMMA InvNext == ~AnyAdd /\ IInv /\ [Next]_vars => IInv'
  <1> SUFFICES ASSUME ~AnyAdd, IInv, [Next]_vars
               PROVE  IInv'
    OBVIOUS
  <1>1. CASE UNCHANGED vars
    BY <1>1, UnchangedKeys
  <1>2. QED
    BY <1>1, RehashKeys, AddGrownKeys, GrowsKeys, EmptiedKeys, RemoveKeys, AddKeys DEF Next

LEMMA StepMap ==
  ~AnyAdd /\ IInv /\ IInv' /\ [Next]_vars => [Abstract!MNext]_([k \in Present |-> ValueOf(k)])
  <1> SUFFICES ASSUME ~AnyAdd, IInv, IInv', [Next]_vars
               PROVE  [Abstract!MNext]_([k \in Present |-> ValueOf(k)])
    OBVIOUS
  <1>1. CASE \/ Rehash \/ Resize \/ UNCHANGED vars
             \/ \E k \in Key, v \in Value : AddGrows(k, v)
    BY <1>1, RehashKeys, GrowsKeys, UnchangedKeys, MapKept
  <1>2. CASE AddGrown \/ \E k \in Key, v \in Value : Add(k, v)
    <2>1. PICK k \in Key, v \in Value :
            All' = {x \in All : x.key # k} \cup {[key |-> k, value |-> v]}
      BY <1>2, AddGrownKeys, AddKeys
    <2>2. PICK e : e = [key |-> k, value |-> v]
      OBVIOUS
    <2>3. Abstract!MAdd(k, v)
      BY <2>1, <2>2, MapAdds
    <2>4. QED
      BY <2>3 DEF Abstract!MNext
  <1>3. CASE \E k \in Key : Remove(k)
    BY <1>3, RemoveKeys, MapRemoves DEF Abstract!MNext
  <1>4. CASE Clear \/ Delete
    BY <1>4, EmptiedKeys, MapClears DEF Abstract!MNext
  <1>5. QED
    BY <1>1, <1>2, <1>3, <1>4 DEF Next

-----------------------------------------------------------------------------
(* What follows for clients that add no key twice or have removed none since
   the last resize.                                                        *)
Careful == AnyAdd = FALSE

LEMMA InvCorrect == Careful => (Spec => []IInv)
  <1> SUFFICES ASSUME Careful
               PROVE  Spec => []IInv
    OBVIOUS
  <1>1. IInv /\ [Next]_vars => IInv'
    BY InvNext DEF Careful
  <1>2. QED
    BY <1>1, InvInit, PTL DEF Spec

(* The keys of a table in which none is stored twice are as many as its
   entries that hold a key.                                                *)
KeysOf(tab) == {tab[i].key : i \in Live(tab)}

LEMMA KeysOfIs ==
  ASSUME NEW tab \in Seq(Entry), Once(tab)
  PROVE  /\ IsFiniteSet(KeysOf(tab)) /\ Cardinality(KeysOf(tab)) = Cardinality(Live(tab))
         /\ Cardinality(Live(tab)) \in Nat
  <1> DEFINE f == [i \in Live(tab) |-> tab[i].key]
  <1>1. IsFiniteSet(Live(tab)) /\ Cardinality(Live(tab)) \in Nat
    BY LiveIs
  <1>2. f \in [Live(tab) -> KeysOf(tab)] /\ \A x \in KeysOf(tab) : \E i \in Live(tab) : f[i] = x
    BY DEF KeysOf
  <1>3. \A i, j \in Live(tab) : f[i] = f[j] => i = j
    BY DEF Once
  <1>4. f \in Bijection(Live(tab), KeysOf(tab))
    BY <1>2, <1>3 DEF Bijection, Injection, Surjection, IsInjective
  <1>5. ExistsBijection(Live(tab), KeysOf(tab))
    BY <1>4 DEF ExistsBijection
  <1>6. QED
    BY <1>1, <1>5, FS_Bijection

(* The count is the number of keys that are present, each stored once: what the
   load factors are computed from.                                         *)
THEOREM CountCorrect == Careful => (Spec => []CountIsKeys)
  <1>1. IInv => CountIsKeys
    <2> SUFFICES ASSUME IInv
                 PROVE  CountIsKeys
      OBVIOUS
    <2>1. /\ SizedInv /\ TypeOK /\ Reached /\ Once(entries) /\ Once(old) /\ Apart
          /\ entries \in Seq(Entry) /\ old \in Seq(Entry)
          /\ count = Cardinality(Live(entries))
      BY Sizes DEF IInv, SizedInv
    <2>2. Present = KeysOf(entries) \cup KeysOf(old)
      <3>1. Present = {k \in Key : With(k) # {}}
        BY <2>1, PresentIs
      <3>2. QED
        BY <3>1 DEF With, All, Stored, KeysOf, Live
    <2>3. KeysOf(entries) \cap KeysOf(old) = {}
      BY <2>1 DEF KeysOf, Apart
    <2>4. /\ IsFiniteSet(KeysOf(entries)) /\ Cardinality(KeysOf(entries)) = count
          /\ IsFiniteSet(KeysOf(old)) /\ Cardinality(KeysOf(old)) = Cardinality(Live(old))
          /\ count \in Nat /\ Cardinality(Live(old)) \in Nat
      BY <2>1, KeysOfIs
    <2>5. Cardinality(Present) = count + Cardinality(Live(old))
      <3>1. Cardinality(Present) =
              Cardinality(KeysOf(entries)) + Cardinality(KeysOf(old))
                - Cardinality(KeysOf(entries) \cap KeysOf(old))
        BY <2>2, <2>4, FS_Union
      <3>2. QED
        BY <2>3, <2>4, <3>1, FS_EmptySet
    <2>6. Quantify(DOMAIN old, LAMBDA i : old[i].key \in Key) = Cardinality(Live(old))
      BY DEF Quantify, Live
    <2>7. QED
      BY <2>5, <2>6 DEF CountIsKeys
  <1>2. QED
    BY <1>1, InvCorrect, PTL

(* What has been removed is not found again. *)
THEOREM RemovedStaysGone == Careful => (Spec => RemovedIsGone)
  <1>1. IInv /\ IInv' => \A k \in Key : Remove(k) => k \notin Present'
    <2> SUFFICES ASSUME IInv, IInv', NEW k \in Key, Remove(k)
                 PROVE  k \notin Present'
      OBVIOUS
    <2>1. TypeOK' /\ Reached'
      BY DEF IInv, SizedInv
    <2>2. Present' = {x \in Key : With(x)' # {}}
      BY <2>1, PresentNext
    <2>3. All' = {x \in All : x.key # k}
      BY RemoveKeys
    <2>4. With(k)' = {}
      BY <2>3 DEF With
    <2>5. QED
      BY <2>2, <2>4
  <1>2. QED
    BY <1>1, InvCorrect, PTL DEF RemovedIsGone

(* The table implements Map: every step, each turn of a resize among them, is a
   step of the map or leaves it as it is.                                  *)
THEOREM Implements == Careful => (Spec => Refinement)
  <1> SUFFICES ASSUME Careful
               PROVE  Spec => Refinement
    OBVIOUS
  <1>1. Init => Abstract!MInit
    <2> SUFFICES ASSUME Init
                 PROVE  Abstract!MInit
      OBVIOUS
    <2>1. TypeOK /\ Reached /\ All = {}
      BY Began DEF IInv, SizedInv
    <2>2. Present = {k \in Key : With(k) # {}}
      BY <2>1, PresentIs
    <2>3. Present = {}
      BY <2>1, <2>2 DEF With
    <2>4. QED
      BY <2>3 DEF Abstract!MInit
  <1>2. IInv /\ IInv' /\ [Next]_vars => [Abstract!MNext]_([k \in Present |-> ValueOf(k)])
    BY StepMap DEF Careful
  <1>3. Spec => []IInv
    BY InvCorrect
  <1>4. QED
    BY <1>1, <1>2, <1>3, PTL DEF Spec, Refinement, Abstract!MSpec

=============================================================================
