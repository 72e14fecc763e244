-------------------------------- MODULE KvMap --------------------------------
(***************************************************************************)
(* What the state store promises: every namespace is a map from keys to    *)
(* values with at most Capacity keys; a write or a delete touches one key  *)
(* of one namespace.                                                       *)
(***************************************************************************)
EXTENDS Naturals, FiniteSets

CONSTANTS NS, Keys, Values, Capacity
VARIABLES kv      \* kv[n]: the pairs <<key, value>> of namespace n

Init == kv = [n \in NS |-> {}]

Others(n, k) == {p \in kv[n] : p[1] # k}

Put(n, k, v) ==
  /\ Cardinality(Others(n, k)) < Capacity
  /\ kv' = [kv EXCEPT ![n] = Others(n, k) \cup {<<k, v>>}]

Delete(n, k) ==
  /\ Others(n, k) # kv[n]
  /\ kv' = [kv EXCEPT ![n] = Others(n, k)]

Next == \E n \in NS, k \in Keys : Delete(n, k) \/ \E v \in Values : Put(n, k, v)

Spec == Init /\ [][Next]_kv
===============================================================================
