---- MODULE MCSecScheduler ----
(***************************************************************************)
(* The callers of add_task and stop_task are interchangeable; liveness      *)
(* is checked, so no symmetry is used.                                     *)
(***************************************************************************)
EXTENDS SecScheduler

CONSTANTS a1, a2

MCKinds == {"upload", "download", "other"}
====
