----------------------------- MODULE MCUdpServer ----------------------------
(* UdpServer with datagrams around the size limit of two bytes.              *)
EXTENDS UdpServer, TLC

CONSTANTS m1, m2, m3

\* Shorter than, equal to and longer than the limit.
LengthOfThree == m1 :> 1 @@ m2 :> 2 @@ m3 :> 3
=============================================================================
