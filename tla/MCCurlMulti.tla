----------------------------- MODULE MCCurlMulti -------------------------------
(* CurlMulti on small instances.                                              *)
EXTENDS CurlMulti, TLC

CONSTANTS p, n1, n3

\* A protocol packet, an ordinary request and a lazy one.
SmallUrgency == (p :> 2) @@ (n1 :> 15) @@ (n3 :> 30)
PairUrgency == (p :> 2) @@ (n1 :> 15)
================================================================================
