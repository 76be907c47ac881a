---------------------------- MODULE MCContainers ----------------------------
(* Four blocks, four nodes, four strings of which two have the same text.   *)
EXTENDS Containers

CONSTANTS b1, b2, b3, b4, n1, n2, n3, n4, null, front

Blocks == {b1, b2, b3, b4}
Nodes == {n1, n2, n3, n4}
Strings == 1..4
\* Strings 1 and 2 say the same; 1 and 3 meet in a table of four buckets
TextOf(s) == IF s = 2 THEN 1 ELSE s
HashOf(t) == CASE t = 1 -> 5 [] t = 3 -> 9 [] OTHER -> 6
=============================================================================
