---- MODULE MCSecftUpload ----
(***************************************************************************)
(* Two uploads.  s1 sends three packets and replaces an old file; its local *)
(* file can shrink, grow or disappear.  s2 sends one packet to a new name.  *)
(***************************************************************************)
EXTENDS SecftUpload

CONSTANTS s1, s2

MCPaths == {"a.x", "a", "b"}
MCStem == [p \in MCPaths |-> IF p = "a.x" THEN "a" ELSE p]
MCInitialFiles == [p \in {"a"} |-> <<9>>]
MCPath == [s \in Conns |-> IF s = s1 THEN "a.x" ELSE "b"]
MCContent == [s \in Conns |-> IF s = s1 THEN <<1, 2, 3, 4>> ELSE <<5>>]
MCSize == [s \in Conns |-> IF s = s1 THEN 3 ELSE 1]
MCLocalSizes == [s \in Conns |-> IF s = s1 THEN {1} ELSE {}]
MCLocalLive == [s \in Conns |-> {4, Missing}]
====
