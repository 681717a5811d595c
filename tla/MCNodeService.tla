---------------------------- MODULE MCNodeService ----------------------------
(* Instances of NodeService for TLC.  A GiB is eight bytes and an int64    *)
(* wraps around at 256, so that the third multiplication overflows to 0.   *)
EXTENDS NodeService, TLC

CONSTANTS n1, n2, t1, t2

MCNodes == {n1, n2}
MCOneNode == {n1}
MCTargets == {t1, t2}
MCOneTarget == {t1}

\* Two pods on one node.
MCHome == [t \in Targets |-> n1]
=============================================================================
