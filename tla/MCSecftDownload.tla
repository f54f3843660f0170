---- MODULE MCSecftDownload ----
(***************************************************************************)
(* Two downloads, of three pairs of remote paths: "f" has content and may     *)
(* vanish, "g" is in the client's directory already, "e" is empty, "d" is a  *)
(* directory, "m" is nowhere, "u" cannot be created at the client.          *)
(***************************************************************************)
EXTENDS SecftDownload

CONSTANTS s1, s2

MCPaths == {"f", "g", "e", "d", "m", "u"}
MCStem == [p \in MCPaths |-> p]
MCInitialFiles == [p \in {"f", "g", "e", "u"} |-> IF p = "e" THEN << >> ELSE <<1>>]
MCLocalFiles == [p \in {"g"} |-> <<2>>]
MCRemotes == {[s \in Conns |-> IF s = s1 THEN p[1] ELSE p[2]] :
                 p \in {<<"f", "g">>, <<"e", "d">>, <<"u", "m">>}}
====
