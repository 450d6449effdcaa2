----------------------------- MODULE MCStartup ------------------------------
(* Startup with listeners that are switched on or off.                       *)
EXTENDS Startup

AnyPort == {-1, 8998}
DefaultSizes == [l \in Listener |-> 2048]
=============================================================================
