----------------------------- MODULE MCRingLog ------------------------------
(* RingLog with two connections; the second message can be cut by its read.  *)
EXTENDS RingLog, TLC

CONSTANTS c1, c2

LengthOfTwo == c1 :> 1 @@ c2 :> 2
\* The whole messages parse; one of them is a list.
Messages == {[conn |-> c1, size |-> 1], [conn |-> c2, size |-> 2]}
Lists == {[conn |-> c1, size |-> 1]}
=============================================================================
