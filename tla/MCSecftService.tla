---- MODULE MCSecftService ----
(***************************************************************************)
(* Two connections and one path of each kind: "f" a file, "f.x" a path      *)
(* with the stem "f", "d" a directory, "s" a file that cannot be opened,    *)
(* "e" an empty file.                                                      *)
(***************************************************************************)
EXTENDS SecftService

CONSTANTS c1, c2

MCPaths == {"f", "f.x", "d", "s", "e"}
MCStem == [p \in MCPaths |-> IF p = "f.x" THEN "f" ELSE p]
MCInitialFiles == [p \in {"f", "s", "e"} |-> IF p = "e" THEN << >> ELSE <<1>>]
MCDirs == {"d"}
MCSealed == {"s"}

Download(path, flags) ==
    [trusted |-> TRUE, kind |-> "download", path |-> path, flags |-> flags,
     overwrite |-> FALSE, data |-> << >>]
KeepExisting(request) == [request EXCEPT !.overwrite = FALSE]

Uploads ==
    {UploadRequest(FALSE, "f", "first", <<2>>),
     UploadRequest(TRUE, "f.x", "first", <<2>>),
     UploadRequest(TRUE, "f.x", "last", <<2>>),
     UploadRequest(TRUE, "d", "packet", <<2>>),
     KeepExisting(UploadRequest(TRUE, "f", "first", <<2>>)),
     BlankRequest(TRUE, "f")}

Downloads ==
    {Download("f", "first"), Download("f.x", "first"), Download("d", "first"),
     Download("f", "packet"), Download("s", "packet"), Download("e", "packet"),
     Download("f.x", "packet"), Download("f", "last")}

\* c1 sends any one request; c2 sends two, perhaps one behind the other.
MCRequests ==
    [c \in {c1, c2} |->
        IF c = c1 THEN Uploads \cup Downloads
        ELSE {UploadRequest(FALSE, "f", "first", <<2>>),
              UploadRequest(TRUE, "f", "first", <<1>>),
              UploadRequest(TRUE, "f", "packet", <<1>>)}]
MCMaxSends == [c \in {c1, c2} |-> IF c = c1 THEN 1 ELSE 2]
====
