------------------------ MODULE MCPersistenceSystem ------------------------
(***************************************************************************)
(* A small instance of PersistenceSystem for TLC: two values for the same  *)
(* id, so that a lost, repeated or reordered one shows in the database;    *)
(* one of them is cut to the slot's size.                                  *)
(***************************************************************************)
EXTENDS PersistenceSystem, SequencesExt

MCMessages == {[iid |-> 1, len |-> 0], [iid |-> 1, len |-> 3]}

\* PutAll is what putting the records one by one makes of a map, for every map
\* and every three records of this instance.
ASSUME PutAllIsFold ==
  \A map \in U!Maps, n \in 0 .. 3 :
    \A q \in [1 .. n -> [iid : Iids, len : Lens]] :
      PutAll(map, q) = FoldLeft(Put, map, q)
=============================================================================
