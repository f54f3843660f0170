---- MODULE MCZuolinTransfer ----
(***************************************************************************)
(* Sizes below, at and above the modulus; old files shorter and longer.     *)
(***************************************************************************)
EXTENDS ZuolinTransfer

MCSources == {<<>>, <<1>>, <<1, 2, 3>>, <<1, 2, 3, 4, 5, 6>>}
MCChanges == {<<1>>, <<1, 2, 3, 4>>}
MCOlds == {<<>>, <<9, 9>>}
====
