------------------------------ MODULE MCFanout ------------------------------
(* Two targets and another task on one loop, and one thread. *)
EXTENDS Fanout

CONSTANTS t1, t2, t3, h1

MCTarget == {t1, t2}
MCTask == {t1, t2, t3}
MCThread == {h1}
=============================================================================
