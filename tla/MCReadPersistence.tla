------------------------- MODULE MCReadPersistence -------------------------
(***************************************************************************)
(* Small instances of ReadPersistence for TLC.                             *)
(***************************************************************************)
EXTENDS ReadPersistence, TLC

Processes == Permutations(Clients) \cup Permutations(Daemons)

(***************************************************************************)
(* All variables but messagesReceived, messagesFound and the workers'      *)
(* copies of the latter: no step of another variable depends on them, and  *)
(* no property of a run with this view mentions them.                      *)
(***************************************************************************)
AllButCounts ==
  <<ring, slots, current_worker, works, worker, clients, daemons, db, faults,
    history>>

(***************************************************************************)
(* The part of the state that does not depend on the workers: of these     *)
(* variables a worker's step changes only is_done in callback_buf, which   *)
(* only workers read.                                                      *)
(***************************************************************************)
AllButWorkers == <<ring, slots, clients, daemons, db, faults, history>>
=============================================================================
