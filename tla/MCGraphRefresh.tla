---------------------------- MODULE MCGraphRefresh ----------------------------
(* Two objects to focus, and one request beside commands and the loop: the *)
(* lock of the session lets only one request at a time refresh.            *)
EXTENDS GraphRefresh, TLC

CONSTANTS r1, o1, o2

MCRequests == {r1}
MCObjects == {o1, o2}

\* Objects are interchangeable.
Symmetry == Permutations({o1, o2})
=============================================================================
