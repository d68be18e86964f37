---------------------------- MODULE MCRecordPath ----------------------------
(***************************************************************************)
(* A small instance of RecordPath for TLC: values that are empty, just     *)
(* as long as the receive buffer has room for, and too long.               *)
(***************************************************************************)
EXTENDS RecordPath

MCValues == {<<>>, <<0, 1>>, <<1, 1, 1, 1>>}
=============================================================================
