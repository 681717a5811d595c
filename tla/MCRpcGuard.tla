----------------------------- MODULE MCRpcGuard -----------------------------
(* Instance of RpcGuard for TLC.                                           *)
EXTENDS RpcGuard, TLC

CONSTANTS p1, p2, p3, k1, k2

MCProcs == {p1, p2, p3}
MCKeys == {k1, k2}
GuardSymmetry == Permutations(MCProcs) \cup Permutations(MCKeys)
=============================================================================
