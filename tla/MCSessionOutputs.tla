-------------------------- MODULE MCSessionOutputs --------------------------
(* One executor, the native loop and two control requests over two sessions. *)
EXTENDS SessionOutputs, TLC

CONSTANTS a, b, x1, c1, c2, v0, v1, k1

MCSessions == {a, b}
MCOneSession == {a}
MCExecutors == {x1}
MCControllers == {c1, c2}
MCOneController == {c1}
MCSettings == {v0, v1}
MCCommands == {k1}

\* What is said and exported, and what is set and acted upon.
MCWorkloads ==
  {[calls |-> {"begin", "end", "seal", "drain"}, settings |-> {v0}, outputs |-> 1],
   [calls |-> {"begin", "end", "seal", "set", "reset", "action"}, settings |-> {v0, v1},
    outputs |-> 0]}
MCAllWork == {[calls |-> AllCalls \ {"action"}, settings |-> {v0}, outputs |-> 1]}

\* The two requests are interchangeable.
Symmetry == Permutations({c1, c2})
=============================================================================
