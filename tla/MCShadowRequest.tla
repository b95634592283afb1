--------------------------- MODULE MCShadowRequest ---------------------------
(* Constants for model checking the requests: two, free to meet on one topic   *)
(* or not, of a node that may be bound anew from one shadow to another.        *)
EXTENDS ShadowRequest

CONSTANTS r1, r2, n1, s1, s2

MCRequests == {r1, r2}
MCNodes == {n1}
MCShadows == {s1, s2}
=============================================================================
