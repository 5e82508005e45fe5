----------------------------- MODULE MCHostSync -----------------------------
(* HostSync on small instances: accounts and groups are interchangeable in   *)
(* the runs that check no liveness.                                          *)
EXTENDS HostSync, TLC

Symmetry == Permutations(Accounts) \cup Permutations(Groups)
=============================================================================
