------------------------------ MODULE HashMaps ------------------------------
(***************************************************************************)
(* std::collections::HashMap as the code uses it: a function from the keys *)
(* present to their values.  Every table of the switch (dispatcher, pool,  *)
(* book) is one of these, guarded by one async mutex.                      *)
(***************************************************************************)
EXTENDS Functions

\* HashMap::new / Default.
EmptyMap == [k \in {} |-> k]

\* HashMap::insert: adds the key, or overwrites its value.
Put(m, k, v) == [x \in DOMAIN m \cup {k} |-> IF x = k THEN v ELSE m[x]]

\* HashMap::extend with the same value for a set of keys.
PutAll(m, K, v) == [x \in DOMAIN m \cup K |-> IF x \in K THEN v ELSE m[x]]

\* HashMap::remove of a set of keys; absent keys are ignored.
Without(m, K) == Restrict(m, DOMAIN m \ K)

\* The keys whose value is v.
KeysOf(m, v) == {k \in DOMAIN m : m[k] = v}

\* HashMap::get on a table whose absent keys count as the default d.
Lookup(m, k, d) == IF k \in DOMAIN m THEN m[k] ELSE d
=============================================================================
