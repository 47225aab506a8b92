----------------------------- MODULE MCRecording -----------------------------
(* One session, since sessions share nothing but the map they are listed in. *)
EXTENDS Recording, TLC

CONSTANTS s1, f1, f2, f3, events, document

MCSessions == {s1}
MCCallers == {f1, f2, f3}
MCExports == {events, document}

\* The calls, and the two JSON artifacts, are interchangeable.
Symmetry == Permutations({f1, f2, f3}) \cup Permutations({events, document})
=============================================================================
