---- MODULE MCSecftFraming ----
(***************************************************************************)
(* Sizes with headers of one and of two bytes; a size of 5 reads as 1 when  *)
(* only the first byte of its header has arrived.                           *)
(***************************************************************************)
EXTENDS SecftFraming
====
