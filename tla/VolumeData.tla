---------------------------- MODULE VolumeData ----------------------------
(***************************************************************************)
(* What the node service owes the owner of a volume, whatever happens to   *)
(* calls, handlers and hosts on the way: the volume is formatted at most   *)
(* once and only while it is blank and nobody uses it, pods only get to    *)
(* use a volume with a file system, what they write stays, and the volume  *)
(* is only deleted while nobody uses it.  NodeService implements this.     *)
(***************************************************************************)
CONSTANT Pods    \* those who may use the volume

VARIABLES
    content,     \* what is on the volume
    users        \* the pods that see it

dataVars == <<content, users>>

\* A new volume is blank, one made from a snapshot or a template holds data.
Init ==
    /\ content \in {"blank", "data"}
    /\ users = {}

Format ==
    /\ content = "blank"
    /\ users = {}
    /\ content' = "fs"
    /\ UNCHANGED users

Use(p) ==
    /\ content \in {"fs", "data"}
    /\ users' = users \cup {p}
    /\ UNCHANGED content

\* One pod leaves, or all pods of a host that goes down.
Leave(S) ==
    /\ users' = users \ S
    /\ UNCHANGED content

Write ==
    /\ users # {}
    /\ content' = "data"
    /\ UNCHANGED users

\* Only ever by delete_on_unmount.
Delete ==
    /\ users = {}
    /\ content' = "gone"
    /\ UNCHANGED users

Next ==
    \/ Format
    \/ \E p \in Pods : Use(p)
    \/ \E S \in SUBSET Pods : Leave(S)
    \/ Write
    \/ Delete

Spec == Init /\ [][Next]_dataVars
=============================================================================
