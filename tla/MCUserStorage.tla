--------------------------- MODULE MCUserStorage ---------------------------
(***************************************************************************)
(* Small instances of UserStorage for TLC.                                 *)
(***************************************************************************)
EXTENDS UserStorage, TLC
=============================================================================
