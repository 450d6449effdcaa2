----------------------------- MODULE MCTcpServer ----------------------------
(* TcpServer with messages of different lengths around the size limit, and   *)
(* with a message that starts with U+0000.                                   *)
EXTENDS TcpServer, TLC

CONSTANTS c1, c2, c3

\* Two messages of one character and one longer than the limit.
LengthOfThree == c1 :> 1 @@ c2 :> 1 @@ c3 :> 3
NulInOne == c1 :> 1 @@ c2 :> 0 @@ c3 :> 3
LengthOfTwo == c1 :> 1 @@ c2 :> 2
=============================================================================
