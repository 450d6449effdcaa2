------------------------------ MODULE LogQueue ------------------------------
(***************************************************************************)
(* What the buffer queue promises its two sides: payloads come out in the  *)
(* order they went in, each to one reader, and a payload does not change   *)
(* from the moment it is put until its reader is done with it.  Only a     *)
(* stop of the process takes payloads away, and then all of them.          *)
(***************************************************************************)
EXTENDS Sequences

CONSTANTS Value, NoValue, Reader

VARIABLES
    queue,      \* the payloads waiting, head first
    hand        \* hand[r]: the payload reader r works on, or NoValue

vars == <<queue, hand>>

Init == queue = <<>> /\ hand = [r \in Reader |-> NoValue]

Put(v) == queue' = Append(queue, v) /\ UNCHANGED hand

Take(r) ==
    /\ hand[r] = NoValue
    /\ queue # <<>>
    /\ hand' = [hand EXCEPT ![r] = Head(queue)]
    /\ queue' = Tail(queue)

Finish(r) ==
    /\ hand[r] # NoValue
    /\ hand' = [hand EXCEPT ![r] = NoValue]
    /\ UNCHANGED queue

Stop ==
    /\ queue' = <<>>
    /\ hand' = [r \in Reader |-> NoValue]

Next ==
    \/ Stop
    \/ \E v \in Value : Put(v)
    \/ \E r \in Reader : Take(r) \/ Finish(r)

Spec == Init /\ [][Next]_vars
=============================================================================
