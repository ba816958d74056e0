--------------------------- MODULE MCWorkerServer ---------------------------
(* Three calls of one caller, all for handler h1 or k3 for handler h2. *)
EXTENDS WorkerServer, TLC

CONSTANTS k1, k2, k3, p1, h1, h2

MCCall == {k1, k2, k3}
MCCaller == {p1}
MCHandler == {h1}
MCCallerOf == [k \in MCCall |-> p1]
MCNodeOf == [k \in MCCall |-> h1]
TwoHandlers == {h1, h2}
OtherNode == [k \in MCCall |-> IF k = k3 THEN h2 ELSE h1]

\* Sound where all calls are alike.
CallSymmetry == Permutations(MCCall)
=============================================================================
