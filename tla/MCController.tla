---------------------------- MODULE MCController ----------------------------
(* Instances of Controller for TLC: sets of requests.  A GiB is two bytes. *)
EXTENDS Controller, Versions, TLC

CONSTANTS p1, p2, p3, v1, v2, s1, s2

MCProcs == {p1, p2}
MCOneProc == {p1}
MCVolumes == {v1}
MCTwoVolumes == {v1, v2}
MCSnapNames == {s1}

NoRange == [given |-> FALSE, required |-> 0, limit |-> 0]
Bytes(n) == [given |-> TRUE, required |-> n, limit |-> 0]
Between(m, n) == [given |-> TRUE, required |-> m, limit |-> n]
NoSource == [kind |-> "none", vol |-> v1, ts |-> 0]

Plain(op, v) ==
    [op |-> op, form |-> "ok", vol |-> v, cr |-> NoRange, template |-> "none",
     src |-> NoSource, name |-> s1, ts |-> 0]

Create(v, cr) == [Plain("CreateVolume", v) EXCEPT !.cr = cr]
Delete(v) == Plain("DeleteVolume", v)
Snap(v, n) == [Plain("CreateSnapshot", v) EXCEPT !.name = n]
Unsnap(v, ts) == [Plain("DeleteSnapshot", v) EXCEPT !.ts = ts]
Expand(v, n) == [Plain("ControllerExpandVolume", v) EXCEPT !.cr = Bytes(n)]
CloneOf(v, cr, w, n) ==
    [Create(v, cr) EXCEPT !.src = [kind |-> "snapshot", vol |-> w, ts |-> n]]

\* Volumes and snapshots of one name.
LifeRequests == {Create(v1, Bytes(2)), Delete(v1), Snap(v1, s1), Unsnap(v1, 1)}

\* Every kind of CreateVolume: ranges, templates, sources and bad arguments,
\* each of which may find the volume of another one, expanded or not.
SourceRequests ==
    {Create(v1, Bytes(2)), Create(v1, Bytes(4)), Expand(v1, 4),
     Create(v1, Bytes(3)), Create(v1, NoRange), Create(v1, Between(4, 2)),
     [Create(v1, Bytes(4)) EXCEPT !.template = "override"],
     [Create(v1, Bytes(4)) EXCEPT !.template = "fixed"],
     [Create(v1, Bytes(4)) EXCEPT !.form = "malformed"],
     [Create(v1, Bytes(4)) EXCEPT !.form = "empty"],
     CloneOf(v2, Between(2, 4), v1, 1),
     [CloneOf(v2, Bytes(1), v1, 1) EXCEPT !.template = "override"],
     Snap(v1, s1), Delete(v1), Unsnap(v1, 1),
     [Unsnap(v1, 0) EXCEPT !.form = "malformed"]}

\* Requests that can cost a snapshot.
LossRequests == {Create(v1, Bytes(2)), Delete(v1), Snap(v1, s1)}

\* Versions of two, four and five places: around 3.3.0.0, the version that
\* CreateVolume asks for, and with the largest number a place may hold.
SomeVersions ==
    {<<a>> \o rest : a \in {2, 3, 4},
                    rest \in [1 .. 1 -> {0, 3, 99}] \cup [1 .. 3 -> {0, 3, 99}]
                                \cup [1 .. 4 -> {3, 99}]}

\* DatVersionGte against the order it stands for (VersionOrder proves it).
ASSUME VersionsAgree ==
    \A v, w \in SomeVersions : DatVersionGte(v, w) <=> LexicographicGte(v, w)

ProcSymmetry == Permutations(Procs)
=============================================================================
