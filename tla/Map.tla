-------------------------------- MODULE Map --------------------------------
(***************************************************************************)
(* What a hash table promises: it behaves like a map from keys to values.  *)
(***************************************************************************)
CONSTANTS Key, Value

VARIABLE map   (* a value for every key that is present *)

MInit == map = [k \in {} |-> {}]

MAdd(k, v) == map' = [x \in DOMAIN map \cup {k} |-> IF x = k THEN v ELSE map[x]]

MRemove(k) == map' = [x \in DOMAIN map \ {k} |-> map[x]]

MClear == map' = [k \in {} |-> {}]

MNext ==
  \/ MClear
  \/ \E k \in Key : MRemove(k) \/ \E v \in Value : MAdd(k, v)

MSpec == MInit /\ [][MNext]_map
=============================================================================
