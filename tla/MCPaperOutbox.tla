---------------------------- MODULE MCPaperOutbox ----------------------------
(* PaperOutbox for TLC: the names of fills and publishers.                 *)
EXTENDS PaperOutbox

CONSTANTS f1, p1, p2, s1
=============================================================================
