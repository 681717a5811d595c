------------------------------- MODULE Datera -------------------------------
(***************************************************************************)
(* The Datera storage system as pkg/client sees it through the SDK: the    *)
(* named app instances (one storage instance and one volume each) and      *)
(* their snapshots.  It is not part of this repository; the operators      *)
(* below model what the driver relies on.                                  *)
(*                                                                         *)
(* An app instance is looked up by name (AppInstances.Get) but the object  *)
(* that comes back is used by its path, which names one incarnation: here  *)
(* its uid.  A call on the handle of a deleted incarnation fails, even     *)
(* when the name has been used again.                                      *)
(***************************************************************************)
EXTENDS Integers, FiniteSets

CONSTANTS
    Volumes,    \* names of app instances (GenName of the CSI volume name)
    SnapNames   \* CSI snapshot names; the snapshot's UUID is a hash of it

VARIABLES
    ais,    \* name -> app instance
    uids,   \* next uid
    clock   \* next UtcTs: the time stamp that identifies a snapshot

dateraVars == <<ais, uids, clock>>

Snapshot == [uuid : SnapNames, ts : Nat, size : Nat, available : BOOLEAN]

\* `by' is a ghost: the request that gave the volume its size.
AppInstance(Requests, Contents) ==
    [uid : Nat, size : Nat, content : Contents, md : BOOLEAN, online : BOOLEAN,
     by : Requests, snaps : SUBSET Snapshot]

\* No app instance of that name.  Uids start at 1.
Absent(nobody) ==
    [uid |-> 0, size |-> 0, content |-> "blank", md |-> FALSE, online |-> FALSE,
     by |-> nobody, snaps |-> {}]

DateraInit(nobody) ==
    /\ ais = [v \in Volumes |-> Absent(nobody)]
    /\ uids = 1
    /\ clock = 1

-----------------------------------------------------------------------------

\* AppInstances.Get finds the name.
Exists(v) == ais[v].uid # 0

\* The incarnation u of v, the one a handle refers to, is still there.
Live(v, u) == u # 0 /\ ais[v].uid = u

SnapsNamed(v, name) == {s \in ais[v].snaps : s.uuid = name}
SnapsAt(v, ts) == {s \in ais[v].snaps : s.ts = ts}

\* AppInstances.Create
AiCreate(v, size, content, r) ==
    /\ ais' = [ais EXCEPT ![v] =
                 [uid |-> uids, size |-> size, content |-> content, md |-> FALSE,
                  online |-> TRUE, by |-> r, snaps |-> {}]]
    /\ uids' = uids + 1
    /\ UNCHANGED clock

\* AppInstance.SetMetadata
AiSetMetadata(v) ==
    /\ ais' = [ais EXCEPT ![v].md = TRUE]
    /\ UNCHANGED <<uids, clock>>

\* AppInstance.Set with AdminState "offline"
AiOffline(v) ==
    /\ ais' = [ais EXCEPT ![v].online = FALSE]
    /\ UNCHANGED <<uids, clock>>

\* AppInstance.Delete with force: the snapshots go with the app instance.
AiDelete(v, nobody) ==
    /\ ais' = [ais EXCEPT ![v] = Absent(nobody)]
    /\ UNCHANGED <<uids, clock>>

\* Volume.Set with a new size
AiResize(v, size, r) ==
    /\ ais' = [ais EXCEPT ![v].size = size, ![v].by = r]
    /\ UNCHANGED <<uids, clock>>

\* SnapshotsEp.Create: the snapshot is not available at once.
SnapCreate(v, name) ==
    /\ ais' = [ais EXCEPT ![v].snaps =
                 @ \cup {[uuid |-> name, ts |-> clock, size |-> ais[v].size,
                          available |-> FALSE]}]
    /\ clock' = clock + 1
    /\ UNCHANGED uids

\* Snapshot.Delete
SnapDelete(v, ts) ==
    /\ ais' = [ais EXCEPT ![v].snaps = {s \in @ : s.ts # ts}]
    /\ UNCHANGED <<uids, clock>>

\* The storage system finishes taking a snapshot.
SnapReady(v, s) ==
    /\ s \in ais[v].snaps
    /\ ~s.available
    /\ ais' = [ais EXCEPT ![v].snaps = (@ \ {s}) \cup {[s EXCEPT !.available = TRUE]}]
    /\ UNCHANGED <<uids, clock>>
=============================================================================
