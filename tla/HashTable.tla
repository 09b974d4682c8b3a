------------------------------ MODULE HashTable ------------------------------
(***************************************************************************)
(* The hash table of src/common/containers/htable.h: open addressing with  *)
(* linear probing, tombstones, and a capacity that doubles and halves.     *)
(*                                                                         *)
(* A call is one step, but for the loop in which ht_resize() moves the     *)
(* entries to a new array: a step per turn.  Entry i of the C array is     *)
(* entries[i + 1].  The hash stored with a key is hash[key], whose         *)
(* function is any that Init chooses; capacities are powers of two, so the *)
(* mask of the code is a remainder.                                        *)
(***************************************************************************)
EXTENDS Integers, Sequences, FiniteSetsExt

CONSTANTS
  Key, Value,
  HashMax,       (* bound: hashes are below it                              *)
  InitCap,       (* initial_capacity                                        *)
  MinLoad,       (* min_load_factor and max_load_factor, in percent         *)
  MaxLoad,
  MaxCap,        (* bound: the client causes no resize beyond it            *)
  AnyAdd         (* does the client also add keys that are present, when
                    there may be a tombstone?                               *)

ASSUME TableAssumption ==
  /\ HashMax \in Nat \ {0}
  /\ \E n \in 0 .. InitCap : InitCap = 2 ^ n
  /\ MinLoad \in 0 .. 49 /\ MaxLoad \in 1 .. 99
  /\ MaxCap \in Nat
  /\ AnyAdd \in BOOLEAN

None == "none"            (* the key 0 of an unused entry *)
Tombstone == "tombstone"
Unset == 0                (* the value 0                  *)
ASSUME ReservedKeys == {None, Tombstone} \cap Key = {} /\ Unset \notin Value

VARIABLES
  entries,    (* the array; its length is the capacity                      *)
  count,
  old,        (* the entries a resize still has to move                     *)
  oldCount,   (* old_count of that resize                                   *)
  adding,     (* {} or the key and value of an ht_add() that is resizing    *)
  hash        (* key_hash_func with the seed                                *)

vars == <<entries, count, old, oldCount, adding, hash>>

Entry == [key : Key \cup {None, Tombstone}, value : Value \cup {Unset}]
Empty == [key |-> None, value |-> Unset]
Zeroed(cap) == [i \in 1 .. cap |-> Empty]
Cap == Len(entries)

Init ==
  /\ entries = Zeroed(InitCap)
  /\ count = 0
  /\ old = << >>
  /\ oldCount = 0
  /\ adding = {}
  /\ hash \in [Key -> 0 .. HashMax - 1]

Idle == old = << >> /\ adding = {}

-----------------------------------------------------------------------------
(* The n-th entry probed for k, and how many there are. *)
Probe(k, n) == 1 + ((hash[k] + n) % Cap)
Probes == 0 .. Cap - 1
KeyAt(k, n) == entries[Probe(k, n)].key

(* Mutant of Find: the search ends at a tombstone. *)
FindLive(k) ==
  {Probe(k, n) : n \in {m \in Probes :
     KeyAt(k, m) = k /\ \A l \in 0 .. m - 1 : KeyAt(k, l) \notin {None, Tombstone, k}}}

(* ht_find_entry(): the first entry with the key, unless an unused entry comes
   before it.  A set of one index, or of none.                              *)
Find(k) ==
  {Probe(k, n) : n \in {m \in Probes :
     KeyAt(k, m) = k /\ \A l \in 0 .. m - 1 : KeyAt(k, l) \notin {None, k}}}

(* ht_get(), which changes nothing: the value of the key, or none. *)
Get(k) == {entries[i].value : i \in Find(k)}

(* Where ht_add() ends its search: an unused entry, a tombstone or the key;
   where it began when there is none of them.                              *)
AddAt(k) ==
  LET ends == {n \in Probes : KeyAt(k, n) \in {None, Tombstone, k}}
  IN  Probe(k, IF ends = {} THEN 0 ELSE Min(ends))

Put(k, v) ==
  /\ entries' = [entries EXCEPT ![AddAt(k)] = [key |-> k, value |-> v]]
  /\ count' = IF entries[AddAt(k)].key = k THEN count ELSE count + 1

-----------------------------------------------------------------------------
(* Mutant of ResizeTo: the count is not reset. *)
ResizeToKeeping(cap, tab, c) ==
  /\ entries' = Zeroed(cap)
  /\ count' = c
  /\ old' = tab
  /\ oldCount' = c

(* ht_resize() up to its loop, with tab and c for the entries and the count
   before it.                                                              *)
ResizeTo(cap, tab, c) ==
  /\ entries' = Zeroed(cap)
  /\ count' = 0
  /\ old' = tab
  /\ oldCount' = c

(* A turn of the loop of ht_resize().  The search of ht_add_rehash() would not
   end in a full array, and the assert after the last turn compares counts:
   in neither case there is a next state.                                  *)
Rehash ==
  /\ old # << >>
  /\ old' = Tail(old)
  /\ IF Head(old).key \in {None, Tombstone}
     THEN UNCHANGED <<entries, count>>
     ELSE LET k == Head(old).key
              free == {n \in Probes : KeyAt(k, n) \in {None, Tombstone}}
          IN  /\ free # {}
              /\ entries' = [entries EXCEPT ![Probe(k, Min(free))] = Head(old)]
              /\ count' = count + 1
  /\ Len(old) = 1 => count' = oldCount
  /\ UNCHANGED <<oldCount, adding, hash>>

(* The load with one key more is above max_load_factor; a division by the
   capacity 0 is infinite.                                                 *)
Overloaded == 100 * (count + 1) > MaxLoad * Cap

MayAdd(k) ==
  \/ AnyAdd
  \/ Find(k) = {}
  \/ \A i \in 1 .. Cap : entries[i].key # Tombstone

(* ht_add() with room for the key. *)
Add(k, v) ==
  /\ Idle
  /\ MayAdd(k)
  /\ ~Overloaded
  /\ Put(k, v)
  /\ UNCHANGED <<old, oldCount, adding, hash>>

(* ht_add() that resizes first, and what it does then. *)
AddGrows(k, v) ==
  /\ Idle
  /\ MayAdd(k)
  /\ Overloaded
  /\ 2 * Cap <= MaxCap
  /\ ResizeTo(IF Cap = 0 THEN 2 ELSE 2 * Cap, entries, count)
  /\ adding' = {<<k, v>>}
  /\ UNCHANGED hash

AddGrown ==
  /\ old = << >>
  /\ \E kv \in adding : Put(kv[1], kv[2])
  /\ adding' = {}
  /\ UNCHANGED <<old, oldCount, hash>>

(* The entries after the key at i is gone, and whether the load is then at
   most min_load_factor.                                                   *)
Buried(i) == [entries EXCEPT ![i] = [key |-> Tombstone, value |-> Unset]]
Underloaded == 100 * (count - 1) <= MinLoad * Cap

(* ht_remove_key(); a key that is absent changes nothing. *)
Remove(k) ==
  /\ Idle
  /\ \E i \in Find(k) :
       IF Underloaded
       THEN ResizeTo(Cap \div 2, Buried(i), count - 1)
       ELSE /\ entries' = Buried(i)
            /\ count' = count - 1
            /\ UNCHANGED <<old, oldCount>>
  /\ UNCHANGED <<adding, hash>>

(* ht_resize() called by the client, as the tests do. *)
Resize ==
  /\ Idle
  /\ Cap > 0
  /\ 2 * Cap <= MaxCap
  /\ ResizeTo(2 * Cap, entries, count)
  /\ UNCHANGED <<adding, hash>>

(* Mutant of Clear: the count stays. *)
ClearEntries ==
  /\ Idle
  /\ entries' = Zeroed(Cap)
  /\ UNCHANGED <<count, old, oldCount, adding, hash>>

(* ht_clear(). *)
Clear ==
  /\ Idle
  /\ entries' = Zeroed(Cap)
  /\ count' = 0
  /\ UNCHANGED <<old, oldCount, adding, hash>>

(* Mutant of Delete: it does not clear the table first. *)
DeleteEntries ==
  /\ Idle
  /\ entries' = << >>
  /\ UNCHANGED <<count, old, oldCount, adding, hash>>

(* ht_delete(); a later ht_add() begins anew. *)
Delete ==
  /\ Idle
  /\ entries' = << >>
  /\ count' = 0
  /\ UNCHANGED <<old, oldCount, adding, hash>>

Next ==
  \/ Rehash \/ AddGrown
  \/ Resize \/ Clear \/ Delete
  \/ \E k \in Key : \/ Remove(k)
                    \/ \E v \in Value : Add(k, v) \/ AddGrows(k, v)

Spec == Init /\ [][Next]_vars

(* A call that has begun goes on. *)
FairSpec == Spec /\ WF_vars(Rehash) /\ WF_vars(AddGrown)

-----------------------------------------------------------------------------
TypeOK ==
  /\ entries \in Seq(Entry)
  /\ count \in 0 .. Cap
  /\ old \in Seq(Entry)
  /\ oldCount \in Nat
  /\ adding \subseteq Key \X Value
  /\ hash \in [Key -> 0 .. HashMax - 1]

(* The keys a client has in the table, with their values: what ht_get() finds
   and, while a resize runs, what it has still to move.                    *)
Moving(k) == {old[i].value : i \in {j \in DOMAIN old : old[j].key = k}}
Present == {k \in Key : Get(k) \cup Moving(k) # {}}
ValueOf(k) == CHOOSE v \in Get(k) \cup Moving(k) : TRUE

(* The table implements Map: no key is lost behind an entry that was emptied,
   overwritten by another or forgotten by a resize, and every call answers
   what the map would.  It does for clients that add no key twice, or have
   removed none since the last resize.                                     *)
Abstract == INSTANCE Map WITH map <- [k \in Present |-> ValueOf(k)]
Refinement == Abstract!MSpec

(* count is what the load factors are computed from: the number of keys that
   are present, all stored once.                                           *)
CountIsKeys == count + Quantify(DOMAIN old, LAMBDA i : old[i].key \in Key) = Cardinality(Present)

(* A resize finds room for every key it moves, and its assert holds. *)
ResizeEnds == (old # << >>) ~> Idle

(* "assert(!ht_get_str_float(&table, &keys[i], NULL))" (line 898): what has
   been removed is not found.                                              *)
RemovedIsGone == [][\A k \in Key : Remove(k) => k \notin Present']_vars
=============================================================================
