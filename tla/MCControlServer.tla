--------------------------- MODULE MCControlServer ---------------------------
(* Two sessions and room for one finished one, so that one is evicted. *)
EXTENDS ControlServer

CONSTANTS s1, s2, r1, r2

MCSessions == {s1, s2}
MCRequests == {r1, r2}
=============================================================================
