------------------------- MODULE MCWritePersistence -------------------------
(***************************************************************************)
(* Small instances of WritePersistence for TLC.  One message fits a slot,  *)
(* the other is longer than a slot and is cut.                             *)
(***************************************************************************)
EXTENDS WritePersistence

MCMessages == {[iid |-> 1, len |-> 1], [iid |-> 2, len |-> 3]}
=============================================================================
