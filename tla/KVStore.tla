------------------------------ MODULE KVStore ------------------------------
(***************************************************************************)
(* What the storage of accepted values promises: a map from instance ids   *)
(* to values in each database directory, changed by atomic puts only, that *)
(* survives the process.  A get answers with the value stored at some      *)
(* moment during the get, or, also when it fails, that nothing was found.  *)
(***************************************************************************)
EXTENDS Integers

CONSTANTS Dirs, Keys, Values
VARIABLES store, answer

NotFound == [iid |-> 0, len |-> 0]
Maps == UNION {[S -> Values] : S \in SUBSET Keys}

Init == store \in [Dirs -> Maps] /\ answer = NotFound

Put(d, k, v) ==
  /\ store' = [store EXCEPT ![d] =
       [x \in DOMAIN @ \cup {k} |-> IF x = k THEN v ELSE @[x]]]
  /\ UNCHANGED answer

Get(d, k) ==
  /\ k \in DOMAIN store[d]
  /\ answer' = [iid |-> k, len |-> store[d][k]]
  /\ UNCHANGED store

NothingFound == answer' = NotFound /\ UNCHANGED store

Next ==
  \/ \E d \in Dirs, k \in Keys : Get(d, k) \/ \E v \in Values : Put(d, k, v)
  \/ NothingFound

Spec == Init /\ [][Next]_<<store, answer>>
=============================================================================
