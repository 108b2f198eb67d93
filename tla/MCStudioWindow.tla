--------------------------- MODULE MCStudioWindow ---------------------------
(***************************************************************************)
(* A small instance of StudioWindow: two texts, one of them the empty      *)
(* document, two files, and a file content (with CRLF line ends, say) the  *)
(* editor shows as one of the texts.                                       *)
(***************************************************************************)
EXTENDS StudioWindow

CONSTANTS empty, script, crlf, fileA, fileB

MCSources == {empty, script}
MCContents == {empty, script, crlf}
MCShown == [c \in MCContents |-> IF c = crlf THEN script ELSE c]
MCPaths == {fileA, fileB}
MCTemplates == {empty}
=============================================================================
