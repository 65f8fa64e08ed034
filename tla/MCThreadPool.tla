----------------------------- MODULE MCThreadPool ------------------------------
(* ThreadPool on small instances.                                             *)
EXTENDS ThreadPool

CONSTANTS t1, t2, t3, t4, w1, w2
================================================================================
