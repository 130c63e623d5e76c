----------------------------- MODULE MCNodeSync -----------------------------
(* TLC instances of NodeSync.                                              *)
EXTENDS NodeSync
CONSTANTS n1, n2
=============================================================================
