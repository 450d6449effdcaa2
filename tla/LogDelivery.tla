---------------------------- MODULE LogDelivery -----------------------------
(***************************************************************************)
(* What RingLog promises the client of a TCP connection about the message  *)
(* it sends: "ok" is said of accepted messages only, an accepted message   *)
(* goes through memory and the Kafka log to Elasticsearch or is lost on    *)
(* the way, and neither fate is ever taken back.                           *)
(***************************************************************************)
CONSTANT Message

VARIABLES
    place,      \* place[m]: where message m is
    ok          \* the messages whose client was told "ok"

vars == <<place, ok>>

Place == {"client", "memory", "log", "indexed", "lost"}

Init ==
    /\ place = [m \in Message |-> "client"]
    /\ ok = {}

\* The messages in M, all of them in one of the places from, move on to p.
Move(M, from, p) ==
    /\ \A m \in M : place[m] \in from
    /\ place' = [m \in Message |-> IF m \in M THEN p ELSE place[m]]
    /\ UNCHANGED ok

Answer(m) ==
    /\ place[m] # "client"
    /\ ok' = ok \cup {m}
    /\ UNCHANGED place

Next ==
    \/ \E m \in Message : Answer(m)
    \/ \E m \in Message : Move({m}, {"client"}, "memory") \/ Move({m}, {"memory"}, "log")
    \/ \E M \in SUBSET Message : Move(M, {"log"}, "indexed") \/ Move(M, {"memory", "log"}, "lost")

Spec == Init /\ [][Next]_vars

\* An accepted message meets one of the two fates.
Settles == \A m \in Message : place[m] = "memory" ~> place[m] \in {"indexed", "lost"}
=============================================================================
