---- MODULE MCLoginService ----
(***************************************************************************)
(* Three logins of two users, two workers, one list: the names are given in *)
(* the cfg.                                                                 *)
(***************************************************************************)
EXTENDS LoginService
====
