---------------------------- MODULE MCEventStore ----------------------------
(* Small instances of EventStore: one reader is enough, readers never write. *)
EXTENDS EventStore, TLC

CONSTANTS s1, r1, plain, wanted

MCSessions == {s1}
MCWaiters == {r1}
MCKinds == {plain, wanted}
MCWanted == {wanted}
=============================================================================
