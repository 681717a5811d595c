----------------------------- MODULE MCListing -----------------------------
(* Instance of Listing for TLC.                                            *)
EXTENDS Listing

CONSTANTS v1, v2, w

MCVolumes == {v1, v2}
MCMissing == {w}

MCQueries ==
    {[kind |-> "all", vol |-> v1, ts |-> 0, source |-> FALSE],
     [kind |-> "vol", vol |-> v1, ts |-> 0, source |-> TRUE],
     [kind |-> "id",  vol |-> v1, ts |-> 1, source |-> FALSE],
     [kind |-> "id",  vol |-> w,  ts |-> 1, source |-> TRUE],
     [kind |-> "id",  vol |-> w,  ts |-> 1, source |-> FALSE],
     [kind |-> "bad", vol |-> v1, ts |-> 0, source |-> FALSE]}

MCPageSizes == {0, 1, 2}
=============================================================================
