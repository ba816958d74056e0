-------------------------- MODULE MCPilotRequests --------------------------
(* Three calls of _request over two reply commands: r1 and r2 expect c1.   *)
EXTENDS PilotRequests

CONSTANTS r1, r2, r3, c1, c2

MCRequest == {r1, r2, r3}
MCCmd == {c1, c2}
MCExpect == (r1 :> c1) @@ (r2 :> c1) @@ (r3 :> c2)
NoRequest == {}
OneRequest == {r1}
OtherRequest == {r3}
=============================================================================
