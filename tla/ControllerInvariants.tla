------------------------ MODULE ControllerInvariants ------------------------
(***************************************************************************)
(* The inductive invariant behind the safety properties of Controller, and *)
(* the proofs of those properties for every instance.                      *)
(*                                                                         *)
(* Each property is about one handler and the volume it works on; what     *)
(* makes it inductive is knowing what the other handlers can do to that    *)
(* volume between two calls (Moves): time stamps and uids only grow, so    *)
(* whatever a handler has read of an incarnation or of a snapshot can      *)
(* become void but never be about something else.                          *)
(***************************************************************************)
EXTENDS ControllerProofs

CvPcs == {"cv_get", "cv_srcget", "cv_srcreload", "cv_srclist", "cv_version", "cv_create", "cv_md"}
DvPcs == {"dv_get", "dv_reload", "dv_list", "dv_offline", "dv_delete"}
CsPcs == {"cs_get", "cs_create", "cs_byuuid", "cs_poll"}
DsPcs == {"ds_get", "ds_reload", "ds_delete"}
ExPcs == {"ex_get", "ex_set", "ex_reload"}

\* A handler only makes the calls of its own operation.
OpMatches(p) ==
    /\ h[p].pc \in CvPcs => key[p].op = "CreateVolume"
    /\ h[p].pc \in DvPcs => key[p].op = "DeleteVolume"
    /\ h[p].pc \in CsPcs => key[p].op = "CreateSnapshot"
    /\ h[p].pc \in DsPcs => key[p].op = "DeleteSnapshot"
    /\ h[p].pc \in ExPcs => key[p].op = "ControllerExpandVolume"
    /\ h[p].pc = "reject" => (key[p].form = "empty" \/ key[p].form = "malformed")
    /\ (h[p].pc = "reject" /\ key[p].op # "DeleteSnapshot") => key[p].form = "empty"

\* What a handler holds is older than what will be created.
Older(p) ==
    /\ h[p].since <= clock
    /\ h[p].uid < uids
    /\ (phase[p] # "idle" /\ key[p].op = "DeleteSnapshot") => key[p].ts < clock

\* SnapshotBlocksDelete, of one handler.
LookStands(p) ==
    (/\ h[p].pc \in {"dv_offline", "dv_delete"}
     /\ ~h[p].blind
     /\ Live(Vol(p), h[p].uid))
    => \A s \in ais[Vol(p)].snaps : s.ts >= h[p].since

\* DeleteReported, of one handler.
VolumeGone(p) ==
    (/\ phase[p] = "delete"
     /\ key[p].op = "DeleteVolume"
     /\ h[p].code = "OK"
     /\ p \notin hit)
    => ~Live(Vol(p), h[p].uid)

\* While DeleteSnapshot works on an incarnation that is gone, the name has no
\* snapshot with the id it was asked to delete.
NoSuchSnapshot(p) ==
    /\ (/\ h[p].pc \in {"ds_reload", "ds_delete"}
        /\ ~Live(Vol(p), h[p].uid))
       => SnapsAt(Vol(p), key[p].ts) = {}
    /\ h[p].pc = "ds_delete" => h[p].ts = key[p].ts

\* SnapshotDeleteReported, of one handler.
SnapshotGone(p) ==
    (/\ phase[p] = "delete"
     /\ key[p].op = "DeleteSnapshot"
     /\ key[p].form = "ok"
     /\ p \notin hit)
    => SnapsAt(Vol(p), key[p].ts) = {}

\* The size CreateVolume asks for is the one of its request.
SizeAsked(p) ==
    h[p].pc \in {"cv_version", "cv_create", "cv_md"} => h[p].size = SizeOf(key[p].cr)

\* CapacityReported, of one handler, by the size that was asked for.
CapacityTold(p) ==
    (/\ phase[p] = "delete"
     /\ key[p].op = "CreateVolume"
     /\ h[p].code = "OK"
     /\ Live(Vol(p), h[p].uid)
     /\ ais[Vol(p)].by = key[p]
     /\ key[p].template # "fixed"
     /\ Content(key[p]) # "snapshot")
    => h[p].cap = SizeOf(key[p].cr) * GiB

Local(p) ==
    /\ OpMatches(p)
    /\ Older(p)
    /\ LookStands(p)
    /\ VolumeGone(p)
    /\ NoSuchSnapshot(p)
    /\ SnapshotGone(p)
    /\ SizeAsked(p)
    /\ CapacityTold(p)

\* A volume that is not there has nothing, and one that is there and got its
\* size from a CreateVolume has the size of that request.
VolumeInv(v) ==
    /\ ais[v].uid < uids
    /\ ais[v].uid = 0 => ais[v].snaps = {}
    /\ (/\ ais[v].uid # 0
        /\ ais[v].by.op = "CreateVolume"
        /\ ais[v].by.template # "fixed"
        /\ Content(ais[v].by) # "snapshot")
       => ais[v].size = SizeOf(ais[v].by.cr)

IInv ==
    /\ TInv
    /\ \A p \in Procs : Local(p)
    /\ \A v \in Volumes : VolumeInv(v)

\* What one step of anybody can do to the volumes.
Moves ==
    /\ clock <= clock'
    /\ uids <= uids'
    /\ \A v \in Volumes :
        /\ \/ ais'[v].uid = ais[v].uid
           \/ ais'[v].uid = 0
           \/ ais'[v].uid = uids
        /\ \A s \in ais'[v].snaps :
              \/ s.ts >= clock
              \/ ais'[v].uid = ais[v].uid /\ \E t \in ais[v].snaps : t.ts = s.ts
        /\ (ais'[v].uid = ais[v].uid /\ ais'[v].uid # 0)
           => (ais'[v].by = ais[v].by \/ ais'[v].by.op # "CreateVolume")

-----------------------------------------------------------------------------

(* A step of other handlers leaves what handler q knows as true as it was. *)
LEMMA OthersKeepLocal ==
    ASSUME IInv, TInv', Moves, NEW q \in Procs,
           h'[q] = h[q], key'[q] = key[q], phase'[q] = phase[q],
           q \in hit <=> q \in hit'
    PROVE  Local(q)'
<1> USE DEF IInv
<1>0. /\ h[q] \in Handler
      /\ clock \in Nat /\ uids \in Nat /\ clock' \in Nat /\ uids' \in Nat
    BY DEF TInv, TypeOK
<1>1. CASE phase[q] = "idle"
    <2>1. h[q].pc \in {"idle", "answered"} BY <1>1 DEF TInv, PhaseMatches
    <2>2. Older(q)' BY <1>0, <1>1 DEF Local, Older, Moves, Handler
    <2> QED BY <1>1, <2>1, <2>2
        DEF Local, OpMatches, LookStands, VolumeGone, NoSuchSnapshot, SnapshotGone, SizeAsked,
            CapacityTold, CvPcs, DvPcs, CsPcs, DsPcs, ExPcs
<1>2. CASE phase[q] # "idle"
    <2>1. key[q] \in Request BY <1>2, RequestAssumption DEF TInv, TypeOK, GuardTypeOK, ServesAKey
    <2> DEFINE v == Vol(q)
    <2>2. v \in Volumes /\ v' = v /\ key[q].ts \in Nat BY <2>1 DEF Vol, Request
    <2>3. ais[v] \in Ai /\ ais'[v] \in Ai BY <2>2 DEF TInv, TypeOK, Ai
    <2>4. OpMatches(q)' BY DEF Local, OpMatches
    <2>5. Older(q)' BY <1>0, <2>2 DEF Local, Older, Moves, Handler
    <2>6. ASSUME Live(v, h[q].uid)'
          PROVE  Live(v, h[q].uid)
        <3>1. ais'[v].uid = h[q].uid /\ h[q].uid # 0 BY <2>2, <2>6 DEF Live
        <3>2. h[q].uid < uids BY DEF Local, Older
        <3>3. h[q].uid # uids BY <1>0, <3>2 DEF Handler
        <3> QED BY <2>2, <3>1, <3>3 DEF Moves, Live
    <2>7. LookStands(q)'
        <3>1. SUFFICES ASSUME h[q].pc \in {"dv_offline", "dv_delete"}, ~h[q].blind,
                              Live(v, h[q].uid)', NEW s \in ais'[v].snaps
                       PROVE  s.ts >= h[q].since
            BY <2>2 DEF LookStands
        <3>2. s \in Snapshot BY <2>3, <3>1 DEF Ai, AppInstance
        <3>3. CASE s.ts >= clock
            BY <1>0, <3>2, <3>3 DEF Local, Older, Handler, Snapshot
        <3>4. CASE \E t \in ais[v].snaps : t.ts = s.ts
            BY <2>6, <3>1, <3>4 DEF Local, LookStands
        <3> QED BY <2>2, <3>1, <3>3, <3>4 DEF Moves
    <2>8. VolumeGone(q)' BY <2>2, <2>6 DEF Local, VolumeGone
    <2>9. ASSUME key[q].op = "DeleteSnapshot", SnapsAt(v, key[q].ts) = {}
          PROVE  SnapsAt(v, key[q].ts)' = {}
        <3>1. SUFFICES ASSUME NEW s \in ais'[v].snaps, s.ts = key[q].ts PROVE FALSE
            BY <2>2 DEF SnapsAt
        <3>2. ~(s.ts >= clock) BY <1>0, <1>2, <2>2, <2>9, <3>1 DEF Local, Older
        <3>3. PICK t \in ais[v].snaps : t.ts = s.ts BY <2>2, <3>1, <3>2 DEF Moves
        <3> QED BY <2>9, <3>1, <3>3 DEF SnapsAt
    <2>10. NoSuchSnapshot(q)'
        <3>1. ASSUME h[q].pc \in {"ds_reload", "ds_delete"}, ~Live(v, h[q].uid)'
              PROVE  SnapsAt(v, key[q].ts)' = {}
            <4>1. key[q].op = "DeleteSnapshot" BY <3>1 DEF Local, OpMatches, DsPcs
            <4>2. CASE ~Live(v, h[q].uid)
                BY <2>9, <3>1, <4>1, <4>2 DEF Local, NoSuchSnapshot
            <4>3. CASE Live(v, h[q].uid)
                <5>1. ais'[v].uid # ais[v].uid BY <2>2, <3>1, <4>3 DEF Live
                <5>2. \A s \in ais'[v].snaps : s.ts >= clock BY <2>2, <5>1 DEF Moves
                <5>3. key[q].ts < clock BY <1>2, <4>1 DEF Local, Older
                <5> QED BY <1>0, <2>2, <5>2, <5>3 DEF SnapsAt
            <4> QED BY <4>2, <4>3
        <3>2. h[q].pc = "ds_delete" => h[q].ts = key[q].ts BY DEF Local, NoSuchSnapshot
        <3> QED BY <2>2, <3>1, <3>2 DEF NoSuchSnapshot
    <2>11. SnapshotGone(q)' BY <2>2, <2>9 DEF Local, SnapshotGone
    <2>12. SizeAsked(q)' BY DEF Local, SizeAsked, SizeOf, Limit
    <2>13. CapacityTold(q)'
        <3>1. SUFFICES ASSUME phase[q] = "delete", key[q].op = "CreateVolume", h[q].code = "OK",
                              Live(v, h[q].uid)', ais'[v].by = key[q],
                              key[q].template # "fixed", Content(key[q]) # "snapshot"
                       PROVE  h[q].cap = SizeOf(key[q].cr) * GiB
            BY <2>2 DEF CapacityTold, Content, SizeOf, Limit
        <3>2. Live(v, h[q].uid) BY <2>6, <3>1
        <3>3. ais'[v].uid = ais[v].uid /\ ais'[v].uid # 0 BY <2>2, <3>1, <3>2 DEF Live
        <3>4. ais[v].by = key[q] BY <2>2, <3>1, <3>3 DEF Moves
        <3> QED BY <3>1, <3>2, <3>4 DEF Local, CapacityTold
    <2> QED BY <2>4, <2>5, <2>7, <2>8, <2>10, <2>11, <2>12, <2>13 DEF Local
<1> QED BY <1>1, <1>2

-----------------------------------------------------------------------------
(* The operations of the storage system are such moves.                    *)

Kept == Moves /\ \A v \in Volumes : VolumeInv(v)'

(* What the type invariant says of the volumes.                            *)
LEMMA VolumeTypes ==
    ASSUME IInv
    PROVE  /\ \A v \in Volumes : ais[v] \in Ai /\ ais[v].uid \in Nat /\ VolumeInv(v)
           /\ ais \in [Volumes -> Ai]
           /\ clock \in Nat /\ uids \in Nat
BY DEF IInv, TInv, TypeOK, Ai, AppInstance

(* A step that leaves the storage system alone keeps the volume invariant. *)
LEMMA QuietKept ==
    ASSUME IInv, UNCHANGED dateraVars
    PROVE  Kept
BY VolumeTypes DEF Kept, Moves, VolumeInv, dateraVars, SizeOf, Limit, Content

(* Creating an app instance moves the volumes only as Moves allows and     *)
(* keeps VolumeInv.                                                        *)
LEMMA AiCreateKept ==
    ASSUME IInv, NEW v \in Volumes, NEW size \in Nat, NEW c \in Contents, NEW r \in Keys,
           uids # 0,
           (r.template # "fixed" /\ Content(r) # "snapshot") => size = SizeOf(r.cr),
           AiCreate(v, size, c, r)
    PROVE  Kept
<1>1. /\ ais'[v].uid = uids /\ ais'[v].snaps = {} /\ ais'[v].size = size /\ ais'[v].by = r
      /\ \A w \in Volumes \ {v} : ais'[w] = ais[w]
      /\ uids' = uids + 1 /\ clock' = clock
    BY VolumeTypes DEF AiCreate
<1>a. ais'[v].uid # ais[v].uid BY <1>1, VolumeTypes DEF VolumeInv
<1>2. Moves BY <1>1, <1>a, VolumeTypes DEF Moves
<1>3. VolumeInv(v)' BY <1>1, VolumeTypes DEF VolumeInv, Content, SizeOf, Limit
<1>4. ASSUME NEW w \in Volumes \ {v} PROVE VolumeInv(w)'
    BY <1>1, VolumeTypes DEF VolumeInv, Content, SizeOf, Limit
<1> QED BY <1>2, <1>3, <1>4 DEF Kept

\* A change of an app instance that keeps its uid, its size and its snapshots.
LEMMA SameSnapsKept ==
    ASSUME IInv, NEW v \in Volumes, UNCHANGED <<uids, clock>>,
           \A w \in Volumes \ {v} : ais'[w] = ais[w],
           ais'[v].uid = ais[v].uid, ais'[v].snaps = ais[v].snaps,
           ais'[v].by = ais[v].by, ais'[v].size = ais[v].size
    PROVE  Kept
<1>1. Moves BY VolumeTypes DEF Moves
<1>2. VolumeInv(v)' BY VolumeTypes DEF VolumeInv, Content, SizeOf, Limit
<1>3. ASSUME NEW w \in Volumes \ {v} PROVE VolumeInv(w)'
    BY VolumeTypes DEF VolumeInv, Content, SizeOf, Limit
<1> QED BY <1>1, <1>2, <1>3 DEF Kept

(* Setting metadata moves the volumes only as Moves allows and keeps       *)
(* VolumeInv.                                                              *)
LEMMA AiSetMetadataKept ==
    ASSUME IInv, NEW v \in Volumes, AiSetMetadata(v)
    PROVE  Kept
BY SameSnapsKept, VolumeTypes DEF AiSetMetadata, Ai, AppInstance

(* Taking an app instance offline moves the volumes only as Moves allows   *)
(* and keeps VolumeInv.                                                    *)
LEMMA AiOfflineKept ==
    ASSUME IInv, NEW v \in Volumes, AiOffline(v)
    PROVE  Kept
BY SameSnapsKept, VolumeTypes DEF AiOffline, Ai, AppInstance

(* Deleting an app instance moves the volumes only as Moves allows and     *)
(* keeps VolumeInv.                                                        *)
LEMMA AiDeleteKept ==
    ASSUME IInv, uids # 0, NEW v \in Volumes, AiDelete(v, NoKey)
    PROVE  Kept /\ ais'[v].uid = 0
<1>1. /\ ais'[v].uid = 0 /\ ais'[v].snaps = {}
      /\ \A w \in Volumes \ {v} : ais'[w] = ais[w]
      /\ uids' = uids /\ clock' = clock
    BY VolumeTypes DEF AiDelete, Absent
<1>2. Moves BY <1>1, VolumeTypes DEF Moves
<1>3. VolumeInv(v)' BY <1>1, VolumeTypes DEF VolumeInv
<1>4. ASSUME NEW w \in Volumes \ {v} PROVE VolumeInv(w)'
    BY <1>1, VolumeTypes DEF VolumeInv, Content, SizeOf, Limit
<1> QED BY <1>1, <1>2, <1>3, <1>4 DEF Kept

(* Resizing a volume moves the volumes only as Moves allows and keeps      *)
(* VolumeInv.                                                              *)
LEMMA AiResizeKept ==
    ASSUME IInv, NEW v \in Volumes, NEW size \in Nat, NEW r \in Keys, r.op # "CreateVolume",
           AiResize(v, size, r)
    PROVE  Kept
<1>1. /\ ais'[v].uid = ais[v].uid /\ ais'[v].snaps = ais[v].snaps /\ ais'[v].by = r
      /\ \A w \in Volumes \ {v} : ais'[w] = ais[w]
      /\ uids' = uids /\ clock' = clock
    BY VolumeTypes DEF AiResize, Ai, AppInstance
<1>2. Moves BY <1>1, VolumeTypes DEF Moves
<1>3. VolumeInv(v)' BY <1>1, VolumeTypes DEF VolumeInv
<1>4. ASSUME NEW w \in Volumes \ {v} PROVE VolumeInv(w)'
    BY <1>1, VolumeTypes DEF VolumeInv, Content, SizeOf, Limit
<1> QED BY <1>2, <1>3, <1>4 DEF Kept

\* A change of the snapshots of an app instance that is there.
LEMMA SnapsKept ==
    ASSUME IInv, NEW v \in Volumes, Exists(v),
           \A w \in Volumes \ {v} : ais'[w] = ais[w],
           ais'[v].uid = ais[v].uid, ais'[v].by = ais[v].by, ais'[v].size = ais[v].size,
           uids' = uids, clock' \in Nat, clock <= clock',
           \A s \in ais'[v].snaps : s.ts = clock \/ \E u \in ais[v].snaps : u.ts = s.ts
    PROVE  Kept
<1>1. Moves BY VolumeTypes DEF Moves
<1>2. VolumeInv(v)' BY VolumeTypes DEF VolumeInv, Content, SizeOf, Limit, Exists
<1>3. ASSUME NEW w \in Volumes \ {v} PROVE VolumeInv(w)'
    BY VolumeTypes DEF VolumeInv, Content, SizeOf, Limit
<1> QED BY <1>1, <1>2, <1>3 DEF Kept

(* Creating a snapshot moves the volumes only as Moves allows and keeps    *)
(* VolumeInv.                                                              *)
LEMMA SnapCreateKept ==
    ASSUME IInv, NEW v \in Volumes, Exists(v), NEW n \in SnapNames, SnapCreate(v, n)
    PROVE  Kept
<1>1. /\ ais'[v].uid = ais[v].uid /\ ais'[v].by = ais[v].by /\ ais'[v].size = ais[v].size
      /\ \A w \in Volumes \ {v} : ais'[w] = ais[w]
      /\ uids' = uids /\ clock' = clock + 1
    BY VolumeTypes DEF SnapCreate, Ai, AppInstance
<1>2. \A s \in ais'[v].snaps : s.ts = clock \/ \E u \in ais[v].snaps : u.ts = s.ts
    BY VolumeTypes DEF SnapCreate, Ai, AppInstance
<1> QED BY <1>1, <1>2, SnapsKept, VolumeTypes

(* Deleting a snapshot moves the volumes only as Moves allows and keeps    *)
(* VolumeInv.                                                              *)
LEMMA SnapDeleteKept ==
    ASSUME IInv, NEW v \in Volumes, Exists(v), NEW n \in Nat, SnapDelete(v, n)
    PROVE  Kept /\ \A s \in ais'[v].snaps : s.ts # n
<1>1. /\ ais'[v].uid = ais[v].uid /\ ais'[v].by = ais[v].by /\ ais'[v].size = ais[v].size
      /\ \A w \in Volumes \ {v} : ais'[w] = ais[w]
      /\ uids' = uids /\ clock' = clock
      /\ ais'[v].snaps = {s \in ais[v].snaps : s.ts # n}
    BY VolumeTypes DEF SnapDelete, Ai, AppInstance
<1>2. Kept BY <1>1, SnapsKept, VolumeTypes
<1> QED BY <1>1, <1>2

(* A snapshot becoming available moves the volumes only as Moves allows    *)
(* and keeps VolumeInv.                                                    *)
LEMMA SnapReadyKept ==
    ASSUME IInv, NEW v \in Volumes, NEW s \in ais[v].snaps, SnapReady(v, s)
    PROVE  Kept
<1>1. Exists(v) BY VolumeTypes DEF Exists, VolumeInv
<1>2. s \in Snapshot BY VolumeTypes DEF Ai, AppInstance
<1>3. [s EXCEPT !.available = TRUE].ts = s.ts BY <1>2 DEF Snapshot
<1>4. /\ ais'[v].uid = ais[v].uid /\ ais'[v].by = ais[v].by /\ ais'[v].size = ais[v].size
      /\ \A w \in Volumes \ {v} : ais'[w] = ais[w]
      /\ uids' = uids /\ clock' = clock
      /\ ais'[v].snaps = (ais[v].snaps \ {s}) \cup {[s EXCEPT !.available = TRUE]}
    BY VolumeTypes DEF SnapReady, Ai, AppInstance
<1>5. \A t \in ais'[v].snaps : \E u \in ais[v].snaps : u.ts = t.ts
    BY <1>3, <1>4
<1> QED BY <1>1, <1>4, <1>5, SnapsKept, VolumeTypes

-----------------------------------------------------------------------------
(* The moves of the handler that acts.                                     *)

(* If the acting handler is fine after its step then everybody is.         *)
LEMMA ActorKeeps ==
    ASSUME IInv, TInv', Kept, NEW p \in Procs, Local(p)',
           \A q \in Procs \ {p} : /\ h'[q] = h[q] /\ key'[q] = key[q] /\ phase'[q] = phase[q]
                                  /\ q \in hit <=> q \in hit'
    PROVE  IInv'
<1>1. ASSUME NEW q \in Procs \ {p} PROVE Local(q)'
    BY OthersKeepLocal DEF Kept
<1>2. \A q \in Procs : Local(q)' BY <1>1
<1> QED BY <1>2 DEF IInv, Kept

(* A handler that answers is fine if what its answer says is true.         *)
LEMMA ActAnswer ==
    ASSUME IInv, TInv', Kept, NEW p \in Procs, phase[p] = "run", Works \/ Errs(p),
           NEW r \in Handler, r.uid < uids', r.since <= clock',
           NEW code \in Codes, NEW cap \in Nat, Answer(p, r, code, cap),
           (key[p].op = "DeleteVolume" /\ code = "OK" /\ p \notin hit')
               => (r.uid = 0 \/ ais'[Vol(p)].uid # r.uid),
           (key[p].op = "DeleteSnapshot" /\ key[p].form = "ok" /\ p \notin hit')
               => \A s \in ais'[Vol(p)].snaps : s.ts # key[p].ts,
           (/\ key[p].op = "CreateVolume" /\ code = "OK"
            /\ r.uid # 0 /\ ais'[Vol(p)].uid = r.uid /\ ais'[Vol(p)].by = key[p]
            /\ key[p].template # "fixed" /\ Content(key[p]) # "snapshot")
               => cap = SizeOf(key[p].cr) * GiB
    PROVE  IInv'
<1>1. /\ h'[p].pc = "answered" /\ h'[p].code = code /\ h'[p].cap = cap
      /\ h'[p].uid = r.uid /\ h'[p].since = r.since
      /\ \A q \in Procs \ {p} : h'[q] = h[q]
    BY DEF Answer, Handler, IInv, TInv, TypeOK
<1>2. /\ key' = key /\ phase'[p] = "delete"
      /\ \A q \in Procs \ {p} : phase'[q] = phase[q]
    BY DEF Answer, Return, IInv, TInv, TypeOK, GuardTypeOK
<1>3. \A q \in Procs \ {p} : q \in hit <=> q \in hit' BY DEF Works, Errs
<1>4. Vol(p)' = Vol(p) BY <1>2 DEF Vol
<1>5. OpMatches(p)' /\ LookStands(p)' /\ NoSuchSnapshot(p)' /\ SizeAsked(p)'
    BY <1>1 DEF OpMatches, LookStands, NoSuchSnapshot, SizeAsked, CvPcs, DvPcs, CsPcs, DsPcs, ExPcs
<1>6. Older(p)'
    <2>1. key[p] \in Request BY RunningRequest DEF IInv
    <2>2. key[p].op = "DeleteSnapshot" => key[p].ts < clock BY DEF IInv, Local, Older
    <2>3. key[p].ts \in Nat /\ clock \in Nat /\ clock' \in Nat /\ clock <= clock'
        BY <2>1 DEF Request, Kept, Moves, IInv, TInv, TypeOK
    <2>4. key[p].op = "DeleteSnapshot" => key[p].ts < clock' BY <2>2, <2>3
    <2> QED BY <1>1, <1>2, <2>4 DEF Older
<1>7. VolumeGone(p)' BY <1>1, <1>2, <1>4 DEF VolumeGone, Live
<1>8. SnapshotGone(p)' BY <1>2, <1>4 DEF SnapshotGone, SnapsAt
<1>9. CapacityTold(p)' BY <1>1, <1>2, <1>4 DEF CapacityTold, Live, Content, SizeOf, Limit
<1> QED BY <1>1, <1>2, <1>3, <1>5, <1>6, <1>7, <1>8, <1>9, ActorKeeps DEF Local

(* A handler that goes on is fine if what it now holds is true.            *)
LEMMA ActStep ==
    ASSUME IInv, TInv', Kept, NEW p \in Procs, phase[p] = "run", Works \/ Errs(p),
           NEW r \in Handler, r.uid < uids', r.since <= clock', Step(p, r),
           r.pc \in CvPcs => key[p].op = "CreateVolume",
           r.pc \in DvPcs => key[p].op = "DeleteVolume",
           r.pc \in CsPcs => key[p].op = "CreateSnapshot",
           r.pc \in DsPcs => key[p].op = "DeleteSnapshot",
           r.pc \in ExPcs => key[p].op = "ControllerExpandVolume",
           r.pc # "reject",
           (/\ r.pc \in {"dv_offline", "dv_delete"} /\ ~r.blind
            /\ r.uid # 0 /\ ais'[Vol(p)].uid = r.uid)
               => \A s \in ais'[Vol(p)].snaps : s.ts >= r.since,
           (/\ r.pc \in {"ds_reload", "ds_delete"} /\ (r.uid = 0 \/ ais'[Vol(p)].uid # r.uid))
               => \A s \in ais'[Vol(p)].snaps : s.ts # key[p].ts,
           r.pc = "ds_delete" => r.ts = key[p].ts,
           r.pc \in {"cv_version", "cv_create", "cv_md"} => r.size = SizeOf(key[p].cr)
    PROVE  IInv'
<1>1. h'[p] = r /\ \A q \in Procs \ {p} : h'[q] = h[q] BY DEF Step, IInv, TInv, TypeOK
<1>2. key' = key /\ phase' = phase BY DEF Step, guardVars
<1>3. \A q \in Procs \ {p} : q \in hit <=> q \in hit' BY DEF Works, Errs
<1>4. Vol(p)' = Vol(p) BY <1>2 DEF Vol
<1>5. OpMatches(p)' BY <1>1, <1>2 DEF OpMatches
<1>6. LookStands(p)' BY <1>1, <1>4 DEF LookStands, Live
<1>7. NoSuchSnapshot(p)' BY <1>1, <1>2, <1>4 DEF NoSuchSnapshot, Live, SnapsAt
<1>8. SizeAsked(p)' BY <1>1, <1>2 DEF SizeAsked, SizeOf, Limit
<1>9. VolumeGone(p)' /\ SnapshotGone(p)' /\ CapacityTold(p)'
    BY <1>2 DEF VolumeGone, SnapshotGone, CapacityTold
<1>10. Older(p)'
    <2>1. key[p] \in Request BY RunningRequest DEF IInv
    <2>2. key[p].op = "DeleteSnapshot" => key[p].ts < clock BY DEF IInv, Local, Older
    <2>3. key[p].ts \in Nat /\ clock \in Nat /\ clock' \in Nat /\ clock <= clock'
        BY <2>1 DEF Request, Kept, Moves, IInv, TInv, TypeOK
    <2>4. key[p].op = "DeleteSnapshot" => key[p].ts < clock' BY <2>2, <2>3
    <2> QED BY <1>1, <1>2, <2>4 DEF Older
<1> QED BY <1>1, <1>2, <1>3, <1>5, <1>6, <1>7, <1>8, <1>9, <1>10, ActorKeeps DEF Local

(* What a running handler holds, collected for the steps below.            *)
LEMMA Holding ==
    ASSUME IInv, NEW p \in Procs, phase[p] = "run", Kept, TInv'
    PROVE  /\ TInv
           /\ key[p] \in Keys /\ key[p] \in Request /\ Vol(p) \in Volumes
           /\ h[p] \in Handler /\ ais[Vol(p)] \in Ai
           /\ h[p].uid < uids' /\ h[p].since <= clock'
           /\ \A v \in Volumes : ais[v].uid \in Nat /\ ais[v].uid < uids'
           /\ clock <= clock' /\ clock \in Nat /\ clock' \in Nat
<1>1. /\ key[p] \in Keys /\ key[p] \in Request /\ Vol(p) \in Volumes
      /\ h[p] \in Handler /\ ais[Vol(p)] \in Ai
    BY RunningRequest DEF IInv
<1>2. /\ clock \in Nat /\ uids \in Nat /\ clock' \in Nat /\ uids' \in Nat
      /\ clock <= clock' /\ uids <= uids'
    BY DEF IInv, TInv, TypeOK, Kept, Moves
<1>3. h[p].uid < uids /\ h[p].since <= clock BY DEF IInv, Local, Older
<1>4. h[p].uid \in Nat /\ h[p].since \in Nat BY <1>1 DEF Handler
<1>5. \A v \in Volumes : ais[v].uid \in Nat /\ ais[v].uid < uids
    BY VolumeTypes DEF VolumeInv
<1> QED BY <1>1, <1>2, <1>3, <1>4, <1>5 DEF IInv
-----------------------------------------------------------------------------
(* One lemma per call of a handler: the invariant is kept.                 *)

(* DeleteSnapshot finds the volume, or there is none and so no snapshot.   *)
LEMMA DS_GetKeeps ==
    ASSUME IInv, NEW p \in Procs, DS_Get(p)
    PROVE  IInv'
<1> DEFINE v == Vol(p)
           r == [h[p] EXCEPT !.uid = ais[v].uid, !.pc = "ds_reload"]
<1>1. phase[p] = "run" /\ h[p].pc = "ds_get" BY DEF DS_Get, At
<1>2. TInv' BY DS_GetType DEF IInv
<1>3. Kept /\ UNCHANGED dateraVars BY QuietKept DEF DS_Get
<1>4. /\ v \in Volumes /\ h[p] \in Handler /\ h[p].uid < uids' /\ h[p].since <= clock'
      /\ ais[v].uid \in Nat /\ ais[v].uid < uids'
    BY <1>1, <1>2, <1>3, Holding
<1>5. key[p].op = "DeleteSnapshot" BY <1>1 DEF IInv, Local, OpMatches, DsPcs
<1>6. CASE Exists(v) /\ Works /\ Step(p, r)
    <2>1. /\ r \in Handler /\ r.uid = ais[v].uid /\ r.pc = "ds_reload" /\ r.since = h[p].since
        BY <1>4 DEF Handler, Pcs
    <2>2. r.uid # 0 /\ ais'[v].uid = r.uid BY <1>3, <1>6, <2>1 DEF Exists, dateraVars
    <2> HIDE DEF r
    <2> QED BY <1>1, <1>2, <1>3, <1>4, <1>5, <1>6, <2>1, <2>2, ActStep
        DEF CvPcs, DvPcs, CsPcs, DsPcs, ExPcs
<1>7. CASE Fails(p, Exists(v)) /\ Answer(p, h[p], "OK", 0)
    <2>1. "OK" \in Codes BY DEF Codes
    <2>2. p \notin hit' => ~Exists(v) BY <1>7 DEF Fails, Errs
    <2>3. ~Exists(v) => ais'[v].snaps = {}
        BY <1>3, <1>4, VolumeTypes DEF VolumeInv, Exists, dateraVars
    <2>4. Works \/ Errs(p) BY <1>7 DEF Fails
    <2> QED BY <1>1, <1>2, <1>3, <1>4, <1>5, <1>7, <2>1, <2>2, <2>3, <2>4, ActAnswer
<1> QED BY <1>6, <1>7 DEF DS_Get

(* DeleteSnapshot looks for the id among the snapshots of the volume.      *)
LEMMA DS_ReloadKeeps ==
    ASSUME IInv, NEW p \in Procs, DS_Reload(p)
    PROVE  IInv'
<1> DEFINE v == Vol(p)
           r == [h[p] EXCEPT !.ts = key[p].ts, !.pc = "ds_delete"]
           live == Live(v, h[p].uid)
<1>1. phase[p] = "run" /\ h[p].pc = "ds_reload" BY DEF DS_Reload, At
<1>2. TInv' BY DS_ReloadType DEF IInv
<1>3. Kept /\ UNCHANGED dateraVars BY QuietKept DEF DS_Reload
<1>4. /\ v \in Volumes /\ h[p] \in Handler /\ h[p].uid < uids' /\ h[p].since <= clock'
      /\ key[p] \in Request
    BY <1>1, <1>2, <1>3, Holding
<1>5. key[p].op = "DeleteSnapshot" BY <1>1 DEF IInv, Local, OpMatches, DsPcs
<1>6. ~live => SnapsAt(v, key[p].ts) = {} BY <1>1 DEF IInv, Local, NoSuchSnapshot
<1>7. CASE live /\ Works /\ Step(p, r)
    <2>1. /\ r \in Handler /\ r.uid = h[p].uid /\ r.pc = "ds_delete" /\ r.since = h[p].since
          /\ r.ts = key[p].ts
        BY <1>4 DEF Handler, Pcs, Request
    <2>2. r.uid # 0 /\ ais'[v].uid = r.uid BY <1>3, <1>7, <2>1 DEF Live, dateraVars
    <2> HIDE DEF r
    <2> QED BY <1>1, <1>2, <1>3, <1>4, <1>5, <1>7, <2>1, <2>2, ActStep
        DEF CvPcs, DvPcs, CsPcs, DsPcs, ExPcs
<1>8. CASE Answer(p, h[p], "OK", 0) /\ ((live /\ Works /\ ~IdFound(p)) \/ Fails(p, live))
    <2>1. "OK" \in Codes BY DEF Codes
    <2>2. p \notin hit' => SnapsAt(v, key[p].ts) = {}
        BY <1>6, <1>8 DEF Fails, Errs, IdFound
    <2>3. SnapsAt(v, key[p].ts) = {} => \A s \in ais'[v].snaps : s.ts # key[p].ts
        BY <1>3 DEF SnapsAt, dateraVars
    <2>4. Works \/ Errs(p) BY <1>8 DEF Fails
    <2> QED BY <1>1, <1>2, <1>3, <1>4, <1>5, <1>8, <2>1, <2>2, <2>3, <2>4, ActAnswer
<1> QED BY <1>7, <1>8 DEF DS_Reload

(* DeleteSnapshot deletes it, or it is gone already.                       *)
LEMMA DS_DeleteKeeps ==
    ASSUME IInv, NEW p \in Procs, DS_Delete(p)
    PROVE  IInv'
<1> DEFINE v == Vol(p)
           there == Live(v, h[p].uid) /\ SnapsAt(v, h[p].ts) # {}
<1>1. phase[p] = "run" /\ h[p].pc = "ds_delete" BY DEF DS_Delete, At
<1>2. TInv' BY DS_DeleteType DEF IInv
<1>3. Works \/ Errs(p) BY DEF DS_Delete, Fails
<1>4. key[p].op = "DeleteSnapshot" /\ h[p].ts = key[p].ts
    BY <1>1 DEF IInv, Local, OpMatches, DsPcs, NoSuchSnapshot
<1>5. Answer(p, h[p], "OK", 0) /\ "OK" \in Codes BY DEF DS_Delete, Codes
<1>6. v \in Volumes /\ h[p].ts \in Nat BY <1>1, RunningRequest DEF IInv, Handler
<1>7. Kept /\ (p \notin hit' => \A s \in ais'[v].snaps : s.ts # key[p].ts)
    <2>1. CASE there /\ SnapDelete(v, h[p].ts)
        <3>1. Exists(v) BY <2>1 DEF Live, Exists
        <3> QED BY <1>4, <1>6, <2>1, <3>1, SnapDeleteKept
    <2>2. CASE Fails(p, there) /\ UNCHANGED dateraVars
        <3>1. p \notin hit' => ~there BY <2>2 DEF Fails, Errs
        <3>2. ~there => SnapsAt(v, key[p].ts) = {} BY <1>1, <1>4 DEF IInv, Local, NoSuchSnapshot
        <3>3. SnapsAt(v, key[p].ts) = {} => \A s \in ais'[v].snaps : s.ts # key[p].ts
            BY <2>2 DEF SnapsAt, dateraVars
        <3> QED BY <2>2, <3>1, <3>2, <3>3, QuietKept
    <2> QED BY <2>1, <2>2 DEF DS_Delete
<1>8. h[p] \in Handler /\ h[p].uid < uids' /\ h[p].since <= clock' BY <1>1, <1>2, <1>7, Holding
<1> QED BY <1>1, <1>2, <1>3, <1>4, <1>5, <1>7, <1>8, ActAnswer

(* DeleteVolume finds the volume, or there is none.                        *)
LEMMA DV_GetKeeps ==
    ASSUME IInv, NEW p \in Procs, DV_Get(p)
    PROVE  IInv'
<1> DEFINE v == Vol(p)
           r == [h[p] EXCEPT !.uid = ais[v].uid, !.pc = "dv_reload"]
<1>1. phase[p] = "run" /\ h[p].pc = "dv_get" BY DEF DV_Get, At
<1>2. TInv' BY DV_GetType DEF IInv
<1>3. Kept /\ UNCHANGED dateraVars BY QuietKept DEF DV_Get
<1>4. /\ v \in Volumes /\ h[p] \in Handler /\ h[p].uid < uids' /\ h[p].since <= clock'
      /\ ais[v].uid \in Nat /\ ais[v].uid < uids'
    BY <1>1, <1>2, <1>3, Holding
<1>5. key[p].op = "DeleteVolume" BY <1>1 DEF IInv, Local, OpMatches, DvPcs
<1>6. CASE Exists(v) /\ Works /\ Step(p, r)
    <2>1. /\ r \in Handler /\ r.uid = ais[v].uid /\ r.pc = "dv_reload" /\ r.since = h[p].since
        BY <1>4 DEF Handler, Pcs
    <2> HIDE DEF r
    <2> QED BY <1>1, <1>2, <1>3, <1>4, <1>5, <1>6, <2>1, ActStep
        DEF CvPcs, DvPcs, CsPcs, DsPcs, ExPcs
<1>7. CASE Fails(p, Exists(v)) /\ Answer(p, h[p], "OK", 0)
    <2>1. "OK" \in Codes BY DEF Codes
    <2>2. p \notin hit' => (h[p].uid = 0 \/ ais'[v].uid # h[p].uid)
        BY <1>3, <1>7 DEF Fails, Errs, Exists, dateraVars
    <2>3. Works \/ Errs(p) BY <1>7 DEF Fails
    <2> QED BY <1>1, <1>2, <1>3, <1>4, <1>5, <1>7, <2>1, <2>2, <2>3, ActAnswer
<1> QED BY <1>6, <1>7 DEF DV_Get

(* When the reload fails DeleteVolume goes on without having looked.       *)
LEMMA DV_ReloadKeeps ==
    ASSUME IInv, NEW p \in Procs, DV_Reload(p)
    PROVE  IInv'
<1> DEFINE v == Vol(p)
           r == [h[p] EXCEPT !.pc = "dv_list"]
           b == [h[p] EXCEPT !.blind = TRUE, !.pc = "dv_offline"]
<1>1. phase[p] = "run" /\ h[p].pc = "dv_reload" BY DEF DV_Reload, At
<1>2. TInv' BY DV_ReloadType DEF IInv
<1>3. Kept BY QuietKept DEF DV_Reload
<1>4. h[p] \in Handler /\ h[p].uid < uids' /\ h[p].since <= clock' BY <1>1, <1>2, <1>3, Holding
<1>5. key[p].op = "DeleteVolume" BY <1>1 DEF IInv, Local, OpMatches, DvPcs
<1>6. /\ r \in Handler /\ r.uid = h[p].uid /\ r.since = h[p].since /\ r.pc = "dv_list"
      /\ b \in Handler /\ b.uid = h[p].uid /\ b.since = h[p].since /\ b.pc = "dv_offline"
      /\ b.blind
    BY <1>4 DEF Handler, Pcs
<1>7. Works \/ Errs(p) BY DEF DV_Reload, Fails
<1>8. Step(p, r) \/ Step(p, b) BY DEF DV_Reload
<1> HIDE DEF r, b
<1>9. CASE Step(p, r)
    BY <1>1, <1>2, <1>3, <1>4, <1>5, <1>6, <1>7, <1>9, ActStep
    DEF CvPcs, DvPcs, CsPcs, DsPcs, ExPcs
<1>10. CASE Step(p, b)
    BY <1>1, <1>2, <1>3, <1>4, <1>5, <1>6, <1>7, <1>10, ActStep
    DEF CvPcs, DvPcs, CsPcs, DsPcs, ExPcs
<1> QED BY <1>8, <1>9, <1>10

(* DeleteVolume looks for snapshots, and notes when it saw none.           *)
LEMMA DV_ListKeeps ==
    ASSUME IInv, NEW p \in Procs, DV_List(p)
    PROVE  IInv'
<1> DEFINE v == Vol(p)
           live == Live(v, h[p].uid)
           r == [h[p] EXCEPT !.since = clock, !.pc = "dv_offline"]
<1>1. phase[p] = "run" /\ h[p].pc = "dv_list" BY DEF DV_List, At
<1>2. TInv' BY DV_ListType DEF IInv
<1>3. Kept /\ UNCHANGED dateraVars BY QuietKept DEF DV_List
<1>4. /\ h[p] \in Handler /\ h[p].uid < uids' /\ h[p].since <= clock'
      /\ clock \in Nat /\ clock <= clock'
    BY <1>1, <1>2, <1>3, Holding
<1>5. key[p].op = "DeleteVolume" BY <1>1 DEF IInv, Local, OpMatches, DvPcs
<1>6. Works \/ Errs(p) BY DEF DV_List, Fails
<1>7. {"OK", "FailedPrecondition"} \subseteq Codes BY DEF Codes
<1>8. CASE Works /\ ~HasSnapshots(p) /\ Step(p, r)
    <2>1. /\ r \in Handler /\ r.uid = h[p].uid /\ r.pc = "dv_offline" /\ r.since = clock
        BY <1>4 DEF Handler, Pcs
    <2>2. ais'[v].snaps = {} BY <1>3, <1>8 DEF HasSnapshots, dateraVars
    <2> HIDE DEF r
    <2> QED BY <1>1, <1>2, <1>3, <1>4, <1>5, <1>6, <1>8, <2>1, <2>2, ActStep
        DEF CvPcs, DvPcs, CsPcs, DsPcs, ExPcs
<1>9. CASE Answer(p, h[p], "FailedPrecondition", 0)
    BY <1>1, <1>2, <1>3, <1>4, <1>5, <1>6, <1>7, <1>9, ActAnswer
<1>10. CASE Fails(p, live) /\ Answer(p, h[p], "OK", 0)
    <2>1. p \notin hit' => (h[p].uid = 0 \/ ais'[v].uid # h[p].uid)
        BY <1>3, <1>10 DEF Fails, Errs, Live, dateraVars
    <2> QED BY <1>1, <1>2, <1>3, <1>4, <1>5, <1>6, <1>7, <1>10, <2>1, ActAnswer
<1> QED BY <1>8, <1>9, <1>10 DEF DV_List

(* The volume is taken offline; it still has no snapshot older than the    *)
(* look.                                                                   *)
LEMMA DV_OfflineKeeps ==
    ASSUME IInv, NEW p \in Procs, DV_Offline(p)
    PROVE  IInv'
<1> DEFINE v == Vol(p)
           live == Live(v, h[p].uid)
           r == [h[p] EXCEPT !.pc = "dv_delete"]
<1>1. phase[p] = "run" /\ h[p].pc = "dv_offline" BY DEF DV_Offline, At
<1>2. TInv' BY DV_OfflineType DEF IInv
<1>3. v \in Volumes BY <1>1, RunningRequest DEF IInv
<1>4. Kept BY <1>3, QuietKept, AiOfflineKept DEF DV_Offline
<1>5. h[p] \in Handler /\ h[p].uid < uids' /\ h[p].since <= clock' BY <1>1, <1>2, <1>4, Holding
<1>6. key[p].op = "DeleteVolume" BY <1>1 DEF IInv, Local, OpMatches, DvPcs
<1>7. (Works \/ Errs(p)) /\ "OK" \in Codes BY DEF DV_Offline, Fails, Codes
<1>8. CASE live /\ AiOffline(v) /\ Step(p, r)
    <2>1. /\ r \in Handler /\ r.uid = h[p].uid /\ r.pc = "dv_delete"
          /\ r.since = h[p].since /\ r.blind = h[p].blind
        BY <1>5 DEF Handler, Pcs
    <2>2. ais'[v].snaps = ais[v].snaps
        BY <1>3, <1>8, VolumeTypes DEF AiOffline, Ai, AppInstance
    <2>3. ~h[p].blind => \A s \in ais[v].snaps : s.ts >= h[p].since
        BY <1>1, <1>8 DEF IInv, Local, LookStands
    <2> HIDE DEF r
    <2> QED BY <1>1, <1>2, <1>4, <1>5, <1>6, <1>7, <1>8, <2>1, <2>2, <2>3, ActStep
        DEF CvPcs, DvPcs, CsPcs, DsPcs, ExPcs
<1>9. CASE Errs(p) /\ Answer(p, h[p], "OK", 0)
    BY <1>1, <1>2, <1>4, <1>5, <1>6, <1>7, <1>9, ActAnswer DEF Errs
<1>10. CASE Fails(p, live) /\ UNCHANGED dateraVars /\ Answer(p, h[p], "OK", 0)
    <2>1. p \notin hit' => (h[p].uid = 0 \/ ais'[v].uid # h[p].uid)
        BY <1>10 DEF Fails, Errs, Live, dateraVars
    <2> QED BY <1>1, <1>2, <1>4, <1>5, <1>6, <1>7, <1>10, <2>1, ActAnswer
<1> QED BY <1>8, <1>9, <1>10 DEF DV_Offline

(* The volume is deleted, or somebody else has deleted it.                 *)
LEMMA DV_DeleteKeeps ==
    ASSUME IInv, NEW p \in Procs, DV_Delete(p)
    PROVE  IInv'
<1> DEFINE v == Vol(p)
           live == Live(v, h[p].uid)
<1>1. phase[p] = "run" /\ h[p].pc = "dv_delete" BY DEF DV_Delete, At
<1>2. TInv' BY DV_DeleteType DEF IInv
<1>3. v \in Volumes BY <1>1, RunningRequest DEF IInv
<1>4. key[p].op = "DeleteVolume" BY <1>1 DEF IInv, Local, OpMatches, DvPcs
<1>5. (Works \/ Errs(p)) /\ "OK" \in Codes /\ Answer(p, h[p], "OK", 0)
    BY DEF DV_Delete, Fails, Codes
<1>6. Kept /\ (p \notin hit' => (h[p].uid = 0 \/ ais'[v].uid # h[p].uid))
    <2>1. CASE live /\ AiDelete(v, NoKey)
        <3>1. uids # 0 BY <1>3, VolumeTypes DEF VolumeInv
        <3> QED BY <1>3, <2>1, <3>1, AiDeleteKept DEF Live
    <2>2. CASE Fails(p, live) /\ UNCHANGED dateraVars
        BY <2>2, QuietKept DEF Fails, Errs, Live, dateraVars
    <2> QED BY <2>1, <2>2 DEF DV_Delete
<1>7. h[p] \in Handler /\ h[p].uid < uids' /\ h[p].since <= clock' BY <1>1, <1>2, <1>6, Holding
<1> QED BY <1>1, <1>2, <1>4, <1>5, <1>6, <1>7, ActAnswer

-----------------------------------------------------------------------------
(* The handlers that delete nothing owe nobody anything when they answer.  *)

Builders == {"CreateVolume", "CreateSnapshot", "ControllerExpandVolume"}

(* A handler that creates or expands keeps the invariant when it answers.  *)
LEMMA BuilderAnswers ==
    ASSUME IInv, TInv', Kept, NEW p \in Procs, phase[p] = "run", Works \/ Errs(p),
           key[p].op \in Builders, NEW r \in Handler, r.uid < uids', r.since <= clock',
           NEW code \in Codes, NEW cap \in Nat, Answer(p, r, code, cap),
           (/\ key[p].op = "CreateVolume" /\ code = "OK"
            /\ r.uid # 0 /\ ais'[Vol(p)].uid = r.uid /\ ais'[Vol(p)].by = key[p]
            /\ key[p].template # "fixed" /\ Content(key[p]) # "snapshot")
               => cap = SizeOf(key[p].cr) * GiB
    PROVE  IInv'
BY ActAnswer DEF Builders

(* ... and when it goes on to a call of its own operation.                 *)
LEMMA BuilderSteps ==
    ASSUME IInv, TInv', Kept, NEW p \in Procs, phase[p] = "run", Works \/ Errs(p),
           NEW r \in Handler, r.uid < uids', r.since <= clock', Step(p, r),
           \/ key[p].op = "CreateVolume" /\ r.pc \in CvPcs
           \/ key[p].op = "CreateSnapshot" /\ r.pc \in CsPcs
           \/ key[p].op = "ControllerExpandVolume" /\ r.pc \in ExPcs,
           r.pc \in {"cv_version", "cv_create", "cv_md"} => r.size = SizeOf(key[p].cr)
    PROVE  IInv'
BY ActStep DEF CvPcs, DvPcs, CsPcs, DsPcs, ExPcs


(* The size is computed from the request just before the volume is created. *)
LEMMA SizeVolumeKeeps ==
    ASSUME IInv, TInv', Kept, NEW p \in Procs, phase[p] = "run", Works \/ Errs(p),
           key[p].op = "CreateVolume", SizeVolume(p)
    PROVE  IInv'
<1> DEFINE pc == IF Vanilla(key[p]) THEN "cv_version" ELSE "cv_create"
           r == [h[p] EXCEPT !.size = SizeOf(key[p].cr), !.pc = pc]
<1>1. h[p] \in Handler /\ h[p].uid < uids' /\ h[p].since <= clock' /\ key[p] \in Request
    BY Holding
<1>2. CASE Answer(p, h[p], "Unknown", 0)
    BY <1>1, <1>2, BuilderAnswers DEF Builders, Codes
<1>3. CASE Step(p, r)
    <2>1. SizeOf(key[p].cr) \in Nat
        BY <1>1, SizeAssumption DEF SizeOf, Limit, Request, CapacityRange
    <2>2. pc \in CvPcs /\ pc \in Pcs BY DEF CvPcs, Pcs
    <2>3. /\ r \in Handler /\ r.uid = h[p].uid /\ r.since = h[p].since
          /\ r.pc = pc /\ r.size = SizeOf(key[p].cr)
        BY <1>1, <2>1, <2>2 DEF Handler
    <2> HIDE DEF r, pc
    <2> QED BY <1>1, <1>3, <2>2, <2>3, BuilderSteps
<1> QED BY <1>2, <1>3 DEF SizeVolume

(* The name is taken, or creation goes on.                                 *)
LEMMA CV_GetKeeps ==
    ASSUME IInv, NEW p \in Procs, CV_Get(p)
    PROVE  IInv'
<1> DEFINE v == Vol(p)
           a == [h[p] EXCEPT !.uid = ais[v].uid]
           r == [h[p] EXCEPT !.pc = "cv_srcget"]
           cap == ais[v].size * GiB
<1>1. phase[p] = "run" /\ h[p].pc = "cv_get" BY DEF CV_Get, At
<1>2. TInv' BY CV_GetType DEF IInv
<1>3. Kept BY QuietKept DEF CV_Get
<1>4. /\ v \in Volumes /\ h[p] \in Handler /\ h[p].uid < uids' /\ h[p].since <= clock'
      /\ ais[v] \in Ai /\ ais[v].uid \in Nat /\ ais[v].uid < uids'
    BY <1>1, <1>2, <1>3, Holding
<1>5. key[p].op = "CreateVolume" BY <1>1 DEF IInv, Local, OpMatches, CvPcs
<1>6. (Works \/ Errs(p)) /\ key[p].op \in Builders BY <1>5 DEF CV_Get, Fails, Builders
<1>7. /\ a \in Handler /\ a.uid = ais[v].uid /\ a.since = h[p].since
      /\ r \in Handler /\ r.uid = h[p].uid /\ r.since = h[p].since /\ r.pc = "cv_srcget"
      /\ cap \in Nat
      /\ {"OK", "AlreadyExists", "InvalidArgument"} \subseteq Codes
    BY <1>4, SizeAssumption DEF Handler, Pcs, Codes, Ai, AppInstance
<1>8. \/ Answer(p, h[p], "AlreadyExists", 0) \/ Answer(p, h[p], "InvalidArgument", 0)
      \/ Answer(p, a, "OK", cap) \/ Step(p, r) \/ SizeVolume(p)
    BY DEF CV_Get
<1> HIDE DEF a, r, cap
<1>9. CASE Answer(p, h[p], "AlreadyExists", 0) \/ Answer(p, h[p], "InvalidArgument", 0)
    BY <1>1, <1>2, <1>3, <1>4, <1>6, <1>7, <1>9, BuilderAnswers
<1>10. CASE Answer(p, a, "OK", cap)
    <2>1. ASSUME a.uid # 0, ais'[v].by = key[p],
                 key[p].template # "fixed", Content(key[p]) # "snapshot"
          PROVE  cap = SizeOf(key[p].cr) * GiB
        <3>1. ais' = ais BY DEF CV_Get, dateraVars
        <3>2. VolumeInv(v) BY <1>4 DEF IInv
        <3>3. ais[v].size = SizeOf(key[p].cr) BY <1>5, <1>7, <2>1, <3>1, <3>2 DEF VolumeInv
        <3> QED BY <3>3 DEF cap
    <2> QED BY <1>1, <1>2, <1>3, <1>4, <1>6, <1>7, <1>10, <2>1, BuilderAnswers
<1>11. CASE Step(p, r)
    BY <1>1, <1>2, <1>3, <1>4, <1>5, <1>6, <1>7, <1>11, BuilderSteps DEF CvPcs
<1>12. CASE SizeVolume(p)
    BY <1>1, <1>2, <1>3, <1>5, <1>6, <1>12, SizeVolumeKeeps
<1> QED BY <1>8, <1>9, <1>10, <1>11, <1>12

(* The parent of the source snapshot is found, or not.                     *)
LEMMA CV_SrcGetKeeps ==
    ASSUME IInv, NEW p \in Procs, CV_SrcGet(p)
    PROVE  IInv'
<1> DEFINE v == key[p].src.vol
           r == [h[p] EXCEPT !.uid = ais[v].uid, !.pc = "cv_srcreload"]
<1>1. phase[p] = "run" /\ h[p].pc = "cv_srcget" BY DEF CV_SrcGet, At
<1>2. TInv' BY CV_SrcGetType DEF IInv
<1>3. Kept BY QuietKept DEF CV_SrcGet
<1>4. h[p] \in Handler /\ h[p].uid < uids' /\ h[p].since <= clock' /\ v \in Volumes
    BY <1>1, <1>2, <1>3, Holding DEF Request, Source
<1>5. ais[v].uid \in Nat /\ ais[v].uid < uids' BY <1>1, <1>2, <1>3, <1>4, Holding
<1>6. key[p].op = "CreateVolume" BY <1>1 DEF IInv, Local, OpMatches, CvPcs
<1>7. (Works \/ Errs(p)) /\ key[p].op \in Builders BY <1>6 DEF CV_SrcGet, Fails, Builders
<1>8. /\ r \in Handler /\ r.uid = ais[v].uid /\ r.since = h[p].since /\ r.pc = "cv_srcreload"
      /\ "InvalidArgument" \in Codes
    BY <1>4, <1>5 DEF Handler, Pcs, Codes
<1>9. Answer(p, h[p], "InvalidArgument", 0) \/ Step(p, r) BY DEF CV_SrcGet
<1> HIDE DEF r
<1>10. CASE Answer(p, h[p], "InvalidArgument", 0)
    BY <1>1, <1>2, <1>3, <1>4, <1>7, <1>8, <1>10, BuilderAnswers
<1>11. CASE Step(p, r)
    BY <1>1, <1>2, <1>3, <1>4, <1>5, <1>6, <1>7, <1>8, <1>11, BuilderSteps DEF CvPcs
<1> QED BY <1>9, <1>10, <1>11


(* It is reloaded, or creation is given up.                                *)
LEMMA CV_SrcReloadKeeps ==
    ASSUME IInv, NEW p \in Procs, CV_SrcReload(p)
    PROVE  IInv'
<1> DEFINE r == [h[p] EXCEPT !.pc = "cv_srclist"]
<1>1. phase[p] = "run" /\ h[p].pc = "cv_srcreload" BY DEF CV_SrcReload, At
<1>2. TInv' BY CV_SrcReloadType DEF IInv
<1>3. Kept BY QuietKept DEF CV_SrcReload
<1>4. /\ h[p] \in Handler /\ h[p].uid < uids' /\ h[p].since <= clock'
      /\ key[p] \in Request /\ Vol(p) \in Volumes /\ ais[Vol(p)] \in Ai
      /\ ais[Vol(p)].uid \in Nat /\ ais[Vol(p)].uid < uids'
    BY <1>1, <1>2, <1>3, Holding
<1>5. key[p].op = "CreateVolume" BY <1>1 DEF IInv, Local, OpMatches, CvPcs
<1>6. (Works \/ Errs(p)) /\ key[p].op \in Builders BY <1>5 DEF CV_SrcReload, Fails, Builders
<1>7. /\ {"InvalidArgument"} \subseteq Codes
    BY <1>4, SizeAssumption DEF Codes, Handler, Request, CapacityRange
<1>8. r \in Handler /\ r.uid = h[p].uid /\ r.since = h[p].since /\ r.pc = "cv_srclist"
    BY <1>4 DEF Handler, Pcs, Ai, AppInstance
<1>9. Answer(p, h[p], "InvalidArgument", 0) \/ Step(p, r) BY DEF CV_SrcReload
<1> HIDE DEF r
<1>10. CASE Answer(p, h[p], "InvalidArgument", 0)
    BY <1>1, <1>2, <1>3, <1>4, <1>6, <1>7, <1>10, BuilderAnswers
<1>11. CASE Step(p, r)
    BY <1>1, <1>2, <1>3, <1>4, <1>5, <1>6, <1>8, <1>11, BuilderSteps DEF CvPcs
<1> QED BY <1>9, <1>10, <1>11

(* The source snapshot is there, or creation is given up.                  *)
LEMMA CV_SrcListKeeps ==
    ASSUME IInv, NEW p \in Procs, CV_SrcList(p)
    PROVE  IInv'
<1>1. phase[p] = "run" /\ h[p].pc = "cv_srclist" BY DEF CV_SrcList, At
<1>2. TInv' BY CV_SrcListType DEF IInv
<1>3. Kept BY QuietKept DEF CV_SrcList
<1>4. /\ h[p] \in Handler /\ h[p].uid < uids' /\ h[p].since <= clock'
      /\ key[p] \in Request /\ Vol(p) \in Volumes /\ ais[Vol(p)] \in Ai
      /\ ais[Vol(p)].uid \in Nat /\ ais[Vol(p)].uid < uids'
    BY <1>1, <1>2, <1>3, Holding
<1>5. key[p].op = "CreateVolume" BY <1>1 DEF IInv, Local, OpMatches, CvPcs
<1>6. (Works \/ Errs(p)) /\ key[p].op \in Builders BY <1>5 DEF CV_SrcList, Fails, Builders
<1>7. /\ {"InvalidArgument"} \subseteq Codes
    BY <1>4, SizeAssumption DEF Codes, Handler, Request, CapacityRange
<1>8. Answer(p, h[p], "InvalidArgument", 0) \/ SizeVolume(p) BY DEF CV_SrcList
<1>9. CASE Answer(p, h[p], "InvalidArgument", 0)
    BY <1>1, <1>2, <1>3, <1>4, <1>6, <1>7, <1>9, BuilderAnswers
<1>10. CASE SizeVolume(p)
    BY <1>1, <1>2, <1>3, <1>5, <1>6, <1>10, SizeVolumeKeeps
<1> QED BY <1>8, <1>9, <1>10

(* The version is known; the size to ask for stays as computed.            *)
LEMMA CV_VersionKeeps ==
    ASSUME IInv, NEW p \in Procs, CV_Version(p)
    PROVE  IInv'
<1> DEFINE r == [h[p] EXCEPT !.pc = "cv_create"]
<1>1. phase[p] = "run" /\ h[p].pc = "cv_version" BY DEF CV_Version, At
<1>2. TInv' BY CV_VersionType DEF IInv
<1>3. Kept BY QuietKept DEF CV_Version
<1>4. /\ h[p] \in Handler /\ h[p].uid < uids' /\ h[p].since <= clock'
      /\ key[p] \in Request /\ Vol(p) \in Volumes /\ ais[Vol(p)] \in Ai
      /\ ais[Vol(p)].uid \in Nat /\ ais[Vol(p)].uid < uids'
    BY <1>1, <1>2, <1>3, Holding
<1>5. key[p].op = "CreateVolume" BY <1>1 DEF IInv, Local, OpMatches, CvPcs
<1>6. (Works \/ Errs(p)) /\ key[p].op \in Builders BY <1>5 DEF CV_Version, Fails, Builders
<1>7. /\ {"Unknown"} \subseteq Codes
    BY <1>4, SizeAssumption DEF Codes, Handler, Request, CapacityRange
<1>8. r \in Handler /\ r.uid = h[p].uid /\ r.since = h[p].since /\ r.pc = "cv_create" /\ r.size = h[p].size
    BY <1>4 DEF Handler, Pcs, Ai, AppInstance
<1>9. Answer(p, h[p], "Unknown", 0) \/ Step(p, r) BY DEF CV_Version
<1> HIDE DEF r
<1>10. CASE Answer(p, h[p], "Unknown", 0)
    BY <1>1, <1>2, <1>3, <1>4, <1>6, <1>7, <1>10, BuilderAnswers
<1>11. CASE Step(p, r)
    <2>1. h[p].size = SizeOf(key[p].cr) BY <1>1 DEF IInv, Local, SizeAsked
    <2> QED BY <1>1, <1>2, <1>3, <1>4, <1>5, <1>6, <1>8, <1>11, <2>1, BuilderSteps DEF CvPcs
<1> QED BY <1>9, <1>10, <1>11

(* CreateSnapshot finds its volume, or not.                                *)
LEMMA CS_GetKeeps ==
    ASSUME IInv, NEW p \in Procs, CS_Get(p)
    PROVE  IInv'
<1> DEFINE r == [h[p] EXCEPT !.uid = ais[Vol(p)].uid, !.size = ais[Vol(p)].size, !.pc = "cs_create"]
<1>1. phase[p] = "run" /\ h[p].pc = "cs_get" BY DEF CS_Get, At
<1>2. TInv' BY CS_GetType DEF IInv
<1>3. Kept BY QuietKept DEF CS_Get
<1>4. /\ h[p] \in Handler /\ h[p].uid < uids' /\ h[p].since <= clock'
      /\ key[p] \in Request /\ Vol(p) \in Volumes /\ ais[Vol(p)] \in Ai
      /\ ais[Vol(p)].uid \in Nat /\ ais[Vol(p)].uid < uids'
    BY <1>1, <1>2, <1>3, Holding
<1>5. key[p].op = "CreateSnapshot" BY <1>1 DEF IInv, Local, OpMatches, CsPcs
<1>6. (Works \/ Errs(p)) /\ key[p].op \in Builders BY <1>5 DEF CS_Get, Fails, Builders
<1>7. /\ {"NotFound"} \subseteq Codes
    BY <1>4, SizeAssumption DEF Codes, Handler, Request, CapacityRange
<1>8. r \in Handler /\ r.uid = ais[Vol(p)].uid /\ r.since = h[p].since /\ r.pc = "cs_create"
    BY <1>4 DEF Handler, Pcs, Ai, AppInstance
<1>9. Answer(p, h[p], "NotFound", 0) \/ Step(p, r) BY DEF CS_Get
<1> HIDE DEF r
<1>10. CASE Answer(p, h[p], "NotFound", 0)
    BY <1>1, <1>2, <1>3, <1>4, <1>6, <1>7, <1>10, BuilderAnswers
<1>11. CASE Step(p, r)
    BY <1>1, <1>2, <1>3, <1>4, <1>5, <1>6, <1>8, <1>11, BuilderSteps DEF CsPcs
<1> QED BY <1>9, <1>10, <1>11

(* ControllerExpandVolume finds its volume, or not.                        *)
LEMMA EX_GetKeeps ==
    ASSUME IInv, NEW p \in Procs, EX_Get(p)
    PROVE  IInv'
<1> DEFINE r == [h[p] EXCEPT !.uid = ais[Vol(p)].uid, !.pc = "ex_set"]
<1>1. phase[p] = "run" /\ h[p].pc = "ex_get" BY DEF EX_Get, At
<1>2. TInv' BY EX_GetType DEF IInv
<1>3. Kept BY QuietKept DEF EX_Get
<1>4. /\ h[p] \in Handler /\ h[p].uid < uids' /\ h[p].since <= clock'
      /\ key[p] \in Request /\ Vol(p) \in Volumes /\ ais[Vol(p)] \in Ai
      /\ ais[Vol(p)].uid \in Nat /\ ais[Vol(p)].uid < uids'
    BY <1>1, <1>2, <1>3, Holding
<1>5. key[p].op = "ControllerExpandVolume" BY <1>1 DEF IInv, Local, OpMatches, ExPcs
<1>6. (Works \/ Errs(p)) /\ key[p].op \in Builders BY <1>5 DEF EX_Get, Fails, Builders
<1>7. /\ {"InvalidArgument"} \subseteq Codes
    BY <1>4, SizeAssumption DEF Codes, Handler, Request, CapacityRange
<1>8. r \in Handler /\ r.uid = ais[Vol(p)].uid /\ r.since = h[p].since /\ r.pc = "ex_set"
    BY <1>4 DEF Handler, Pcs, Ai, AppInstance
<1>9. Answer(p, h[p], "InvalidArgument", 0) \/ Step(p, r) BY DEF EX_Get
<1> HIDE DEF r
<1>10. CASE Answer(p, h[p], "InvalidArgument", 0)
    BY <1>1, <1>2, <1>3, <1>4, <1>6, <1>7, <1>10, BuilderAnswers
<1>11. CASE Step(p, r)
    BY <1>1, <1>2, <1>3, <1>4, <1>5, <1>6, <1>8, <1>11, BuilderSteps DEF ExPcs
<1> QED BY <1>9, <1>10, <1>11

(* ControllerExpandVolume reads the volume back and answers.               *)
LEMMA EX_ReloadKeeps ==
    ASSUME IInv, NEW p \in Procs, EX_Reload(p)
    PROVE  IInv'
<1>1. phase[p] = "run" /\ h[p].pc = "ex_reload" BY DEF EX_Reload, At
<1>2. TInv' BY EX_ReloadType DEF IInv
<1>3. Kept BY QuietKept DEF EX_Reload
<1>4. /\ h[p] \in Handler /\ h[p].uid < uids' /\ h[p].since <= clock'
      /\ key[p] \in Request /\ Vol(p) \in Volumes /\ ais[Vol(p)] \in Ai
      /\ ais[Vol(p)].uid \in Nat /\ ais[Vol(p)].uid < uids'
    BY <1>1, <1>2, <1>3, Holding
<1>5. key[p].op = "ControllerExpandVolume" BY <1>1 DEF IInv, Local, OpMatches, ExPcs
<1>6. (Works \/ Errs(p)) /\ key[p].op \in Builders BY <1>5 DEF EX_Reload, Fails, Builders
<1>7. /\ {"OK", "Unknown"} \subseteq Codes
      /\ key[p].cr.required \in Nat
    BY <1>4, SizeAssumption DEF Codes, Handler, Request, CapacityRange
<1>8. Answer(p, h[p], "OK", key[p].cr.required) \/ Answer(p, h[p], "Unknown", 0) BY DEF EX_Reload
<1> QED BY <1>1, <1>2, <1>3, <1>4, <1>5, <1>6, <1>7, <1>8, BuilderAnswers

(* The new volume has the size the request asks for, except where the      *)
(* storage system takes it from elsewhere.                                 *)
LEMMA CV_CreateKeeps ==
    ASSUME IInv, NEW p \in Procs, CV_Create(p)
    PROVE  IInv'
<1> DEFINE r == [h[p] EXCEPT !.uid = uids, !.pc = "cv_md"]
           create == AiCreate(Vol(p), NewSize(p), Content(key[p]), key[p])
<1>1. phase[p] = "run" /\ h[p].pc = "cv_create" BY DEF CV_Create, At
<1>2. TInv' BY CV_CreateType DEF IInv
<1>3. key[p].op = "CreateVolume" BY <1>1 DEF IInv, Local, OpMatches, CvPcs
<1>4. (Works \/ Errs(p)) /\ key[p].op \in Builders /\ "Unknown" \in Codes
    BY <1>3 DEF CV_Create, Fails, Builders, Codes
<1>5. ASSUME Creatable(p), create
      PROVE  Kept /\ uids' = uids + 1
    <2>1. Vol(p) \in Volumes /\ key[p] \in Keys BY <1>1, RunningRequest DEF IInv
    <2>2. NewSize(p) \in Nat /\ Content(key[p]) \in Contents
        BY <1>1, <1>5, NewSizeType DEF IInv
    <2>3. uids # 0 BY <2>1, VolumeTypes DEF VolumeInv
    <2>4. h[p].size = SizeOf(key[p].cr) BY <1>1 DEF IInv, Local, SizeAsked
    <2>5. (key[p].template # "fixed" /\ Content(key[p]) # "snapshot")
             => NewSize(p) = SizeOf(key[p].cr)
        BY <2>4 DEF NewSize
    <2> QED BY <1>5, <2>1, <2>2, <2>3, <2>5, AiCreateKept DEF AiCreate
<1>6. Kept BY <1>5, QuietKept DEF CV_Create
<1>7. h[p] \in Handler /\ h[p].uid < uids' /\ h[p].since <= clock' BY <1>1, <1>2, <1>6, Holding
<1>8. CASE Answer(p, h[p], "Unknown", 0)
    BY <1>1, <1>2, <1>4, <1>6, <1>7, <1>8, BuilderAnswers
<1>9. CASE Creatable(p) /\ create /\ Step(p, r)
    <2>1. uids \in Nat /\ uids < uids' BY <1>5, <1>9, VolumeTypes
    <2>2. /\ r \in Handler /\ r.uid = uids /\ r.since = h[p].since /\ r.pc = "cv_md"
          /\ r.size = h[p].size
        BY <1>7, <2>1 DEF Handler, Pcs
    <2>3. h[p].size = SizeOf(key[p].cr) BY <1>1 DEF IInv, Local, SizeAsked
    <2> HIDE DEF r
    <2> QED BY <1>1, <1>2, <1>3, <1>4, <1>6, <1>7, <1>9, <2>1, <2>2, <2>3, BuilderSteps DEF CvPcs
<1> QED BY <1>8, <1>9 DEF CV_Create

(* The metadata are set or not; the answer is the same.                    *)
LEMMA CV_MdKeeps ==
    ASSUME IInv, NEW p \in Procs, CV_Md(p)
    PROVE  IInv'
<1>1. phase[p] = "run" /\ h[p].pc = "cv_md" BY DEF CV_Md, At
<1>2. TInv' BY CV_MdType DEF IInv
<1>3. key[p].op = "CreateVolume" BY <1>1 DEF IInv, Local, OpMatches, CvPcs
<1>4. (Works \/ Errs(p)) /\ key[p].op \in Builders /\ "OK" \in Codes
    BY <1>3 DEF CV_Md, Fails, Builders, Codes
<1>5. Vol(p) \in Volumes BY <1>1, RunningRequest DEF IInv
<1>6. Kept BY <1>5, QuietKept, AiSetMetadataKept DEF CV_Md
<1>7. h[p] \in Handler /\ h[p].uid < uids' /\ h[p].since <= clock' BY <1>1, <1>2, <1>6, Holding
<1>8. h[p].size * GiB \in Nat BY <1>7, SizeAssumption DEF Handler
<1>9. Answer(p, h[p], "OK", h[p].size * GiB) BY DEF CV_Md
<1>10. h[p].size = SizeOf(key[p].cr) BY <1>1 DEF IInv, Local, SizeAsked
<1> QED BY <1>1, <1>2, <1>4, <1>6, <1>7, <1>8, <1>9, <1>10, BuilderAnswers

(* A snapshot is taken, with a time stamp no snapshot has had.             *)
LEMMA CS_CreateKeeps ==
    ASSUME IInv, NEW p \in Procs, CS_Create(p)
    PROVE  IInv'
<1> DEFINE live == Live(Vol(p), h[p].uid)
           r == [h[p] EXCEPT !.ts = clock, !.pc = "cs_poll"]
           d == [h[p] EXCEPT !.pc = "cs_byuuid"]
<1>1. phase[p] = "run" /\ h[p].pc = "cs_create" BY DEF CS_Create, At
<1>2. TInv' BY CS_CreateType DEF IInv
<1>3. key[p].op = "CreateSnapshot" BY <1>1 DEF IInv, Local, OpMatches, CsPcs
<1>4. (Works \/ Errs(p)) /\ key[p].op \in Builders /\ "Unknown" \in Codes
    BY <1>3 DEF CS_Create, Fails, Builders, Codes
<1>5. Vol(p) \in Volumes /\ key[p].name \in SnapNames
    BY <1>1, RunningRequest DEF IInv, Request
<1>6. live => Exists(Vol(p)) BY DEF Live, Exists
<1>7. Kept BY <1>5, <1>6, QuietKept, SnapCreateKept DEF CS_Create
<1>8. h[p] \in Handler /\ h[p].uid < uids' /\ h[p].since <= clock' /\ clock \in Nat
    BY <1>1, <1>2, <1>7, Holding
<1>9. /\ r \in Handler /\ r.uid = h[p].uid /\ r.since = h[p].since /\ r.pc = "cs_poll"
      /\ d \in Handler /\ d.uid = h[p].uid /\ d.since = h[p].since /\ d.pc = "cs_byuuid"
    BY <1>8 DEF Handler, Pcs
<1>10. Answer(p, h[p], "Unknown", 0) \/ Step(p, r) \/ Step(p, d) BY DEF CS_Create
<1> HIDE DEF r, d
<1>11. CASE Answer(p, h[p], "Unknown", 0)
    BY <1>1, <1>2, <1>4, <1>7, <1>8, <1>11, BuilderAnswers
<1>12. CASE Step(p, r)
    BY <1>1, <1>2, <1>3, <1>4, <1>7, <1>8, <1>9, <1>12, BuilderSteps DEF CsPcs
<1>13. CASE Step(p, d)
    BY <1>1, <1>2, <1>3, <1>4, <1>7, <1>8, <1>9, <1>13, BuilderSteps DEF CsPcs
<1> QED BY <1>10, <1>11, <1>12, <1>13

(* The snapshot of an earlier attempt is answered.                         *)
LEMMA CS_ByUuidKeeps ==
    ASSUME IInv, NEW p \in Procs, CS_ByUuid(p)
    PROVE  IInv'
<1> DEFINE S == SnapsNamed(Vol(p), key[p].name)
           cap == h[p].size * GiB
<1>1. phase[p] = "run" /\ h[p].pc = "cs_byuuid" BY DEF CS_ByUuid, At
<1>2. TInv' BY CS_ByUuidType DEF IInv
<1>3. Kept BY QuietKept DEF CS_ByUuid
<1>4. /\ h[p] \in Handler /\ h[p].uid < uids' /\ h[p].since <= clock'
      /\ Vol(p) \in Volumes /\ ais[Vol(p)] \in Ai
    BY <1>1, <1>2, <1>3, Holding
<1>5. key[p].op = "CreateSnapshot" /\ key[p].op \in Builders
    BY <1>1 DEF IInv, Local, OpMatches, CsPcs, Builders
<1>6. (Works \/ Errs(p)) /\ {"OK", "Unknown"} \subseteq Codes BY DEF CS_ByUuid, Fails, Codes
<1>7. CASE Answer(p, h[p], "Unknown", 0)
    BY <1>1, <1>2, <1>3, <1>4, <1>5, <1>6, <1>7, BuilderAnswers
<1>8. ASSUME NEW s \in S, Answer(p, [h[p] EXCEPT !.ts = s.ts], "OK", cap)
      PROVE  IInv'
    <2> DEFINE r == [h[p] EXCEPT !.ts = s.ts]
    <2>1. s \in Snapshot BY <1>4 DEF SnapsNamed, Ai, AppInstance
    <2>2. r \in Handler /\ r.uid = h[p].uid /\ r.since = h[p].since
        BY <1>4, <2>1 DEF Handler, Snapshot
    <2>3. cap \in Nat BY <1>4, SizeAssumption DEF Handler
    <2>4. Answer(p, r, "OK", cap) BY <1>8
    <2> HIDE DEF r, cap
    <2> QED BY <1>1, <1>2, <1>3, <1>4, <1>5, <1>6, <2>2, <2>3, <2>4, BuilderAnswers
<1> QED BY <1>7, <1>8 DEF CS_ByUuid

(* One round of the poll for availability.                                 *)
LEMMA CS_PollKeeps ==
    ASSUME IInv, NEW p \in Procs, CS_Poll(p)
    PROVE  IInv'
<1> DEFINE r == [h[p] EXCEPT !.polls = @ + 1]
           cap == h[p].size * GiB
<1>1. phase[p] = "run" /\ h[p].pc = "cs_poll" BY DEF CS_Poll, At
<1>2. TInv' BY CS_PollType DEF IInv
<1>3. Kept BY QuietKept DEF CS_Poll
<1>4. h[p] \in Handler /\ h[p].uid < uids' /\ h[p].since <= clock' BY <1>1, <1>2, <1>3, Holding
<1>5. key[p].op = "CreateSnapshot" /\ key[p].op \in Builders
    BY <1>1 DEF IInv, Local, OpMatches, CsPcs, Builders
<1>6. (Works \/ Errs(p)) /\ {"OK", "Unknown"} \subseteq Codes BY DEF CS_Poll, Fails, Codes
<1>7. /\ r \in Handler /\ r.uid = h[p].uid /\ r.since = h[p].since /\ r.pc = "cs_poll"
      /\ cap \in Nat
    BY <1>1, <1>4, SizeAssumption DEF Handler
<1>8. Answer(p, h[p], "Unknown", 0) \/ Answer(p, h[p], "OK", cap) \/ Step(p, r)
    BY DEF CS_Poll, PollAgain
<1> HIDE DEF r, cap
<1>9. CASE Answer(p, h[p], "Unknown", 0) \/ Answer(p, h[p], "OK", cap)
    BY <1>1, <1>2, <1>3, <1>4, <1>5, <1>6, <1>7, <1>9, BuilderAnswers
<1>10. CASE Step(p, r)
    BY <1>1, <1>2, <1>3, <1>4, <1>5, <1>6, <1>7, <1>10, BuilderSteps DEF CsPcs
<1> QED BY <1>8, <1>9, <1>10

(* The volume grows, and no longer has its size from a CreateVolume.       *)
LEMMA EX_SetKeeps ==
    ASSUME IInv, NEW p \in Procs, EX_Set(p)
    PROVE  IInv'
<1> DEFINE r == [h[p] EXCEPT !.pc = "ex_reload"]
<1>1. phase[p] = "run" /\ h[p].pc = "ex_set" BY DEF EX_Set, At
<1>2. TInv' BY EX_SetType DEF IInv
<1>3. key[p].op = "ControllerExpandVolume" BY <1>1 DEF IInv, Local, OpMatches, ExPcs
<1>4. (Works \/ Errs(p)) /\ key[p].op \in Builders /\ "Unknown" \in Codes
    BY <1>3 DEF EX_Set, Fails, Builders, Codes
<1>5. Vol(p) \in Volumes /\ key[p] \in Keys /\ key[p] \in Request
    BY <1>1, RunningRequest DEF IInv
<1>6. ExpandedSize(key[p].cr) \in Nat
    BY <1>5, SizeAssumption DEF ExpandedSize, Request, CapacityRange
<1>7. Kept BY <1>3, <1>5, <1>6, QuietKept, AiResizeKept DEF EX_Set
<1>8. h[p] \in Handler /\ h[p].uid < uids' /\ h[p].since <= clock' BY <1>1, <1>2, <1>7, Holding
<1>9. r \in Handler /\ r.uid = h[p].uid /\ r.since = h[p].since /\ r.pc = "ex_reload"
    BY <1>8 DEF Handler, Pcs
<1>10. Answer(p, h[p], "Unknown", 0) \/ Step(p, r) BY DEF EX_Set
<1> HIDE DEF r
<1>11. CASE Answer(p, h[p], "Unknown", 0)
    BY <1>1, <1>2, <1>4, <1>7, <1>8, <1>11, BuilderAnswers
<1>12. CASE Step(p, r)
    BY <1>1, <1>2, <1>3, <1>4, <1>7, <1>8, <1>9, <1>12, BuilderSteps DEF ExPcs
<1> QED BY <1>10, <1>11, <1>12

-----------------------------------------------------------------------------
(* Entering and leaving a handler, and the environment.                    *)

(* A request answered without a call: DeleteVolume never answers OK so,    *)
(* and DeleteSnapshot only to an id that is none.                          *)
LEMMA RejectKeeps ==
    ASSUME IInv, NEW p \in Procs, Reject(p)
    PROVE  IInv'
<1> DEFINE code == IF key[p].form = "empty" THEN "InvalidArgument" ELSE "OK"
<1>1. phase[p] = "run" /\ h[p].pc = "reject" BY DEF Reject, At
<1>2. TInv' BY RejectType DEF IInv
<1>3. Kept BY QuietKept DEF Reject
<1>4. h[p] \in Handler /\ h[p].uid < uids' /\ h[p].since <= clock' BY <1>1, <1>2, <1>3, Holding
<1>5. /\ key[p].form # "ok"
      /\ key[p].op # "DeleteSnapshot" => key[p].form = "empty"
    BY <1>1 DEF IInv, Local, OpMatches
<1>6. code \in Codes /\ (key[p].op # "DeleteSnapshot" => code # "OK") BY <1>5 DEF Codes
<1>7. Works /\ Answer(p, h[p], code, 0) BY DEF Reject
<1> HIDE DEF code
<1> QED BY <1>1, <1>2, <1>3, <1>4, <1>5, <1>6, <1>7, ActAnswer

(* A request arrives; the id of a snapshot is one that has been given out. *)
LEMMA CallKeeps ==
    ASSUME IInv, NEW p \in Procs, NEW k \in Keys, Call(p, k)
    PROVE  IInv'
<1>1. TInv' BY CallType DEF IInv
<1>2. Kept BY QuietKept DEF Call
<1>3. /\ phase[p] = "idle" /\ phase'[p] \in {"dup", "insert"} /\ key'[p] = k
      /\ h' = h /\ hit' = hit /\ uids' = uids /\ clock' = clock
      /\ \A q \in Procs \ {p} : phase'[q] = phase[q] /\ key'[q] = key[q]
    BY DEF Call, FindKey, MissKey, IInv, TInv, TypeOK, GuardTypeOK, dateraVars
<1>4. h[p].pc \in {"idle", "answered"} BY <1>3 DEF IInv, TInv, PhaseMatches
<1>5. Older(p)' BY <1>3 DEF Call, Issuable, IInv, Local, Older
<1>6. Local(p)'
    BY <1>3, <1>4, <1>5
    DEF Local, OpMatches, LookStands, VolumeGone, NoSuchSnapshot, SnapshotGone, SizeAsked,
        CapacityTold, CvPcs, DvPcs, CsPcs, DsPcs, ExPcs
<1> QED BY <1>1, <1>2, <1>3, <1>6, ActorKeeps

(* The body of the handler starts with the first call of its operation.    *)
LEMMA AdmitKeeps ==
    ASSUME IInv, NEW p \in Procs, Admit(p)
    PROVE  IInv'
<1>1. TInv' BY AdmitType DEF IInv
<1>2. Kept BY QuietKept DEF Admit
<1>3. key[p] \in Keys BY DEF IInv, TInv, TypeOK, GuardTypeOK, ServesAKey, Admit, Record
<1>4. key[p] \in Request BY <1>3, RequestAssumption
<1>5. /\ phase[p] = "insert" /\ phase'[p] = "run" /\ key' = key
      /\ hit' = hit /\ uids' = uids /\ clock' = clock
      /\ \A q \in Procs \ {p} : phase'[q] = phase[q]
    BY DEF Admit, Record, IInv, TInv, TypeOK, GuardTypeOK, dateraVars
<1>6. /\ h'[p].pc = FirstCall(key[p]) /\ h'[p].uid = 0 /\ h'[p].since = 0
      /\ \A q \in Procs \ {p} : h'[q] = h[q]
    BY DEF Admit, Idle, IInv, TInv, TypeOK
<1>7. OpMatches(p)'
    BY <1>4, <1>5, <1>6
    DEF OpMatches, FirstCall, Request, Op, CvPcs, DvPcs, CsPcs, DsPcs, ExPcs
<1>8. Older(p)'
    <2>1. uids # 0 /\ uids \in Nat /\ clock \in Nat
        BY <1>4, VolumeTypes DEF VolumeInv, Request
    <2> QED BY <1>5, <1>6, <2>1 DEF IInv, Local, Older
<1>9. FirstCall(key[p]) \in {"reject", "cv_get", "dv_get", "cs_get", "ds_get", "ex_get"}
    BY <1>4 DEF FirstCall, Request, Op
<1>10. Local(p)'
    BY <1>5, <1>6, <1>7, <1>8, <1>9
    DEF Local, LookStands, VolumeGone, NoSuchSnapshot, SnapshotGone, SizeAsked, CapacityTold
<1> QED BY <1>1, <1>2, <1>5, <1>6, <1>10, ActorKeeps

(* The answer goes out and the goroutine is free.                          *)
LEMMA DoneKeeps ==
    ASSUME IInv, NEW p \in Procs, Done(p)
    PROVE  IInv'
<1>1. TInv' BY DoneType DEF IInv
<1>2. Kept BY QuietKept DEF Done
<1>3. /\ phase'[p] = "idle" /\ uids' = uids /\ clock' = clock
      /\ \A q \in Procs \ {p} : /\ phase'[q] = phase[q] /\ key'[q] = key[q]
                                /\ q \in hit <=> q \in hit'
    BY DEF Done, Clean, IInv, TInv, TypeOK, GuardTypeOK, dateraVars
<1>4. /\ h'[p].pc = "idle" /\ h'[p].uid = 0 /\ h'[p].since = 0
      /\ \A q \in Procs \ {p} : h'[q] = h[q]
    BY DEF Done, Idle, IInv, TInv, TypeOK
<1>5. h[p].uid < uids /\ h[p].uid \in Nat /\ uids \in Nat /\ clock \in Nat
    BY VolumeTypes DEF IInv, Local, Older, TInv, TypeOK, Handler
<1>6. Local(p)'
    BY <1>3, <1>4, <1>5
    DEF Local, OpMatches, Older, LookStands, VolumeGone, NoSuchSnapshot, SnapshotGone, SizeAsked,
        CapacityTold, CvPcs, DvPcs, CsPcs, DsPcs, ExPcs
<1> QED BY <1>1, <1>2, <1>3, <1>4, <1>6, ActorKeeps

(* A duplicate is answered Aborted.                                        *)
LEMMA AbortKeeps ==
    ASSUME IInv, NEW p \in Procs, Abort(p)
    PROVE  IInv'
<1>1. TInv' BY AbortType DEF IInv
<1>2. Kept BY QuietKept DEF Abort
<1>3. /\ phase[p] = "dup" /\ phase'[p] = "idle"
      /\ h' = h /\ hit' = hit /\ uids' = uids /\ clock' = clock
      /\ \A q \in Procs \ {p} : phase'[q] = phase[q] /\ key'[q] = key[q]
    BY DEF Abort, ReturnDup, IInv, TInv, TypeOK, GuardTypeOK, dateraVars
<1>4. h[p].pc \in {"idle", "answered"} BY <1>3 DEF IInv, TInv, PhaseMatches
<1>5. Local(p)'
    BY <1>3, <1>4
    DEF IInv, Local, OpMatches, Older, LookStands, VolumeGone, NoSuchSnapshot, SnapshotGone,
        SizeAsked, CapacityTold, CvPcs, DvPcs, CsPcs, DsPcs, ExPcs
<1> QED BY <1>1, <1>2, <1>3, <1>5, ActorKeeps

(* The process dies: every handler forgets what it held.                   *)
LEMMA DieKeeps ==
    ASSUME IInv, Die
    PROVE  IInv'
<1>1. TInv' BY DieType DEF IInv
<1>2. Kept BY QuietKept DEF Die
<1>3. ASSUME NEW p \in Procs PROVE Local(p)'
    <2>1. phase'[p] = "idle" /\ uids' = uids /\ clock' = clock
        BY DEF Die, Restart, dateraVars
    <2>2. h'[p].pc = "idle" /\ h'[p].uid = 0 /\ h'[p].since = 0 BY DEF Die, Idle
    <2>3. h[p].uid < uids /\ h[p].uid \in Nat /\ uids \in Nat /\ clock \in Nat
        BY VolumeTypes DEF IInv, Local, Older, TInv, TypeOK, Handler
    <2> QED BY <2>1, <2>2, <2>3
        DEF Local, OpMatches, Older, LookStands, VolumeGone, NoSuchSnapshot, SnapshotGone,
            SizeAsked, CapacityTold, CvPcs, DvPcs, CsPcs, DsPcs, ExPcs
<1> QED BY <1>1, <1>2, <1>3 DEF IInv, Kept

(* A snapshot becomes available: it keeps its time stamp.                  *)
LEMMA ReadyKeeps ==
    ASSUME IInv, Ready
    PROVE  IInv'
<1>1. TInv' BY ReadyType DEF IInv
<1>2. PICK v \in Volumes : \E s \in ais[v].snaps : SnapReady(v, s) BY DEF Ready
<1>3. Kept BY <1>2, SnapReadyKept
<1>4. h' = h /\ key' = key /\ phase' = phase /\ hit' = hit BY DEF Ready, guardVars
<1>5. \A q \in Procs : Local(q)' BY <1>1, <1>3, <1>4, OthersKeepLocal DEF Kept
<1> QED BY <1>1, <1>3, <1>5 DEF IInv, Kept

(* Nothing happens.                                                        *)
LEMMA StutterKeeps ==
    ASSUME IInv, UNCHANGED vars
    PROVE  IInv'
<1>1. TInv' BY NextType DEF IInv
<1>2. Kept BY QuietKept DEF vars
<1>3. h' = h /\ key' = key /\ phase' = phase /\ hit' = hit BY DEF vars, guardVars
<1>4. \A q \in Procs : Local(q)' BY <1>1, <1>2, <1>3, OthersKeepLocal DEF Kept
<1> QED BY <1>1, <1>2, <1>4 DEF IInv, Kept

-----------------------------------------------------------------------------

(* The invariant holds when the driver is started.                         *)
LEMMA InitIInv == Init => IInv
<1> SUFFICES ASSUME Init PROVE IInv OBVIOUS
<1>1. TInv BY InitType
<1>2. ASSUME NEW p \in Procs PROVE Local(p)
    <2>1. /\ phase[p] = "idle" /\ uids = 1 /\ clock = 1
          /\ h[p].pc = "idle" /\ h[p].uid = 0 /\ h[p].since = 0
        BY DEF Init, GuardInit, DateraInit, Idle
    <2> QED BY <2>1
        DEF Local, OpMatches, Older, LookStands, VolumeGone, NoSuchSnapshot, SnapshotGone,
            SizeAsked, CapacityTold, CvPcs, DvPcs, CsPcs, DsPcs, ExPcs
<1>3. \A v \in Volumes : VolumeInv(v) BY DEF Init, DateraInit, Absent, VolumeInv
<1> QED BY <1>1, <1>2, <1>3 DEF IInv

(* Every step of the controller keeps the invariant.                       *)
LEMMA NextIInv == IInv /\ [Next]_vars => IInv'
<1> SUFFICES ASSUME IInv, [Next]_vars PROVE IInv' OBVIOUS
<1>1. ASSUME NEW p \in Procs, NEW k \in Keys, Call(p, k) PROVE IInv' BY <1>1, CallKeeps
<1>2. ASSUME NEW p \in Procs, Handle(p) PROVE IInv'
    <2>1. CASE CreateVolume(p)
        BY <2>1, CV_GetKeeps, CV_SrcGetKeeps, CV_SrcReloadKeeps, CV_SrcListKeeps,
           CV_VersionKeeps, CV_CreateKeeps, CV_MdKeeps
        DEF CreateVolume
    <2>2. CASE DeleteVolume(p)
        BY <2>2, DV_GetKeeps, DV_ReloadKeeps, DV_ListKeeps, DV_OfflineKeeps, DV_DeleteKeeps
        DEF DeleteVolume
    <2>3. CASE CreateSnapshot(p)
        BY <2>3, CS_GetKeeps, CS_CreateKeeps, CS_ByUuidKeeps, CS_PollKeeps DEF CreateSnapshot
    <2>4. CASE DeleteSnapshot(p)
        BY <2>4, DS_GetKeeps, DS_ReloadKeeps, DS_DeleteKeeps DEF DeleteSnapshot
    <2>5. CASE ControllerExpandVolume(p)
        BY <2>5, EX_GetKeeps, EX_SetKeeps, EX_ReloadKeeps DEF ControllerExpandVolume
    <2>6. CASE Admit(p) \/ Reject(p) \/ Done(p) \/ Abort(p)
        BY <2>6, AdmitKeeps, RejectKeeps, DoneKeeps, AbortKeeps
    <2> QED BY <1>2, <2>1, <2>2, <2>3, <2>4, <2>5, <2>6 DEF Handle
<1>3. CASE Ready BY <1>3, ReadyKeeps
<1>4. CASE Die BY <1>4, DieKeeps
<1>5. CASE UNCHANGED vars BY <1>5, StutterKeeps
<1> QED BY <1>1, <1>2, <1>3, <1>4, <1>5 DEF Next

(* The invariant holds in every reachable state.                           *)
LEMMA Invariance == Spec => []IInv
<1> QED BY InitIInv, NextIInv, PTL DEF Spec

-----------------------------------------------------------------------------
(* What follows.                                                           *)

(* A DeleteVolume that looked for snapshots and saw none deletes at most   *)
(* snapshots taken after it looked, whoever else works on the volume.      *)
THEOREM DeleteRespectsItsLook == Spec => []SnapshotBlocksDelete
<1>1. IInv => SnapshotBlocksDelete BY DEF IInv, Local, LookStands, SnapshotBlocksDelete
<1> QED BY <1>1, Invariance, PTL

(* When DeleteVolume answers OK and no call of it failed, the incarnation  *)
(* it found is gone.                                                       *)
THEOREM DeleteAnswersTruly == Spec => []DeleteReported
<1>1. IInv => DeleteReported BY DEF IInv, Local, VolumeGone, DeleteReported
<1> QED BY <1>1, Invariance, PTL

(* When DeleteSnapshot answers and no call of it failed, the snapshot is   *)
(* gone.                                                                   *)
THEOREM SnapshotDeleteAnswersTruly == Spec => []SnapshotDeleteReported
<1>1. IInv => SnapshotDeleteReported
    BY DEF IInv, Local, SnapshotGone, SnapshotDeleteReported
<1> QED BY <1>1, Invariance, PTL

(* The capacity that CreateVolume answers is the size of the volume it     *)
(* answers for, whether this attempt made the volume or found it, as long  *)
(* as the volume has its size from this request.                           *)
THEOREM CapacityAnswersTruly == Spec => []CapacityReported
<1>1. ASSUME IInv PROVE CapacityReported
    <2>1. SUFFICES ASSUME NEW p \in Procs, phase[p] = "delete", key[p].op = "CreateVolume",
                          h[p].code = "OK", Live(Vol(p), h[p].uid), ais[Vol(p)].by = key[p],
                          key[p].template # "fixed", Content(key[p]) # "snapshot"
                   PROVE  h[p].cap = ais[Vol(p)].size * GiB
        BY DEF CapacityReported
    <2>2. key[p] \in Request
        BY <1>1, <2>1, RequestAssumption DEF IInv, TInv, TypeOK, GuardTypeOK, ServesAKey
    <2>3. Vol(p) \in Volumes BY <2>2 DEF Vol, Request
    <2>4. ais[Vol(p)].size = SizeOf(key[p].cr)
        BY <1>1, <2>1, <2>3 DEF IInv, VolumeInv, Live
    <2> QED BY <1>1, <2>1, <2>4 DEF IInv, Local, CapacityTold
<1> QED BY <1>1, Invariance, PTL

(* No step but the last call of DeleteVolume takes an incarnation away.    *)
LEMMA NextDeletesItsOwn ==
    ASSUME IInv, [Next]_vars, NEW v \in Volumes, Exists(v), ais'[v].uid # ais[v].uid
    PROVE  \E p \in Procs : h[p].pc = "dv_delete" /\ Vol(p) = v /\ h[p].uid = ais[v].uid
<1>0. ais \in [Volumes -> Ai] /\ uids \in Nat BY VolumeTypes
<1>1. ~UNCHANGED dateraVars BY DEF dateraVars
<1>2. ASSUME NEW p \in Procs, Handle(p)
      PROVE  h[p].pc = "dv_delete" /\ Vol(p) = v /\ h[p].uid = ais[v].uid
    <2>1. CASE CreateVolume(p)
        <3>1. CASE CV_Create(p) /\ ~UNCHANGED dateraVars
            BY <1>0, <3>1 DEF CV_Create, Creatable, AiCreate, Exists
        <3>2. CASE CV_Md(p) /\ ~UNCHANGED dateraVars
            BY <1>0, <3>2 DEF CV_Md, AiSetMetadata, Ai, AppInstance
        <3> QED BY <1>1, <2>1, <3>1, <3>2
            DEF CreateVolume, CV_Get, CV_SrcGet, CV_SrcReload, CV_SrcList, CV_Version
    <2>2. CASE DeleteVolume(p)
        <3>1. CASE DV_Offline(p) /\ ~UNCHANGED dateraVars
            BY <1>0, <3>1 DEF DV_Offline, AiOffline, Ai, AppInstance
        <3>2. CASE DV_Delete(p) /\ ~UNCHANGED dateraVars
            BY <1>0, <3>2 DEF DV_Delete, AiDelete, Live, At
        <3> QED BY <1>1, <2>2, <3>1, <3>2 DEF DeleteVolume, DV_Get, DV_Reload, DV_List
    <2>3. CASE CreateSnapshot(p)
        <3>1. CASE CS_Create(p) /\ ~UNCHANGED dateraVars
            BY <1>0, <3>1 DEF CS_Create, SnapCreate, Ai, AppInstance
        <3> QED BY <1>1, <2>3, <3>1 DEF CreateSnapshot, CS_Get, CS_ByUuid, CS_Poll
    <2>4. CASE DeleteSnapshot(p)
        <3>1. CASE DS_Delete(p) /\ ~UNCHANGED dateraVars
            BY <1>0, <3>1 DEF DS_Delete, SnapDelete, Ai, AppInstance
        <3> QED BY <1>1, <2>4, <3>1 DEF DeleteSnapshot, DS_Get, DS_Reload
    <2>5. CASE ControllerExpandVolume(p)
        <3>1. CASE EX_Set(p) /\ ~UNCHANGED dateraVars
            BY <1>0, <3>1 DEF EX_Set, AiResize, Ai, AppInstance
        <3> QED BY <1>1, <2>5, <3>1 DEF ControllerExpandVolume, EX_Get, EX_Reload
    <2> QED BY <1>1, <1>2, <2>1, <2>2, <2>3, <2>4, <2>5 DEF Handle, Admit, Reject, Done, Abort
<1>3. ~Ready BY <1>0 DEF Ready, SnapReady, Ai, AppInstance
<1> QED BY <1>1, <1>2, <1>3 DEF Next, Call, Die, vars

(* A volume only disappears by the hand of a DeleteVolume that holds this  *)
(* very incarnation.                                                       *)
THEOREM OnlyItsOwn == Spec => OnlyItsOwnIsDeleted
<1> DEFINE A == \A v \in Volumes :
                  (Exists(v) /\ ais'[v].uid # ais[v].uid)
                  => \E p \in Procs : h[p].pc = "dv_delete" /\ Vol(p) = v /\ h[p].uid = ais[v].uid
<1>1. IInv /\ [Next]_vars => [A]_vars BY NextDeletesItsOwn
<1> QED BY <1>1, Invariance, PTL DEF Spec, OnlyItsOwnIsDeleted

-----------------------------------------------------------------------------

(* A whole number of GiB survives the conversion to GiB and back.          *)
LEMMA WholeGiB ==
    ASSUME NEW n \in Nat, n # 0, n % GiB = 0
    PROVE  n \div GiB # 0 /\ (n \div GiB) * GiB = n
<1>1. GiB \in Nat \ {0} BY SizeAssumption
<1>2. n = (n \div GiB) * GiB + (n % GiB) BY <1>1
<1>3. n \div GiB \in Nat BY <1>1
<1> QED BY <1>1, <1>2, <1>3

\* A local state without the answer AlreadyExists.
NotRefused(r) == r.code # "AlreadyExists"

(* A handler only writes its own local state.                              *)
LEMMA HandlesItsOwn ==
    ASSUME TypeOK, NEW q \in Procs, NEW p \in Procs \ {q}, Handle(q)
    PROVE  h'[p] = h[p]
<1>0. h \in [Procs -> Handler] BY DEF TypeOK
<1>1. ASSUME NEW r, Step(q, r) PROVE h'[p] = h[p] BY <1>0, <1>1 DEF Step
<1>2. ASSUME NEW r, NEW c, NEW n, Answer(q, r, c, n) PROVE h'[p] = h[p]
    BY <1>0, <1>2 DEF Answer
<1>3. SizeVolume(q) => h'[p] = h[p] BY <1>1, <1>2 DEF SizeVolume
<1>4. CASE CreateVolume(q)
    BY <1>1, <1>2, <1>3, <1>4
    DEF CreateVolume, CV_Get, CV_SrcGet, CV_SrcReload, CV_SrcList, CV_Version, CV_Create, CV_Md
<1>5. CASE DeleteVolume(q)
    BY <1>1, <1>2, <1>5 DEF DeleteVolume, DV_Get, DV_Reload, DV_List, DV_Offline, DV_Delete
<1>6. CASE CreateSnapshot(q)
    BY <1>1, <1>2, <1>6 DEF CreateSnapshot, CS_Get, CS_Create, CS_ByUuid, CS_Poll, PollAgain
<1>7. CASE DeleteSnapshot(q)
    BY <1>1, <1>2, <1>7 DEF DeleteSnapshot, DS_Get, DS_Reload, DS_Delete
<1>8. CASE ControllerExpandVolume(q)
    BY <1>1, <1>2, <1>8 DEF ControllerExpandVolume, EX_Get, EX_Set, EX_Reload
<1>9. CASE Reject(q) \/ Admit(q) \/ Done(q) \/ Abort(q)
    BY <1>0, <1>2, <1>9 DEF Reject, Admit, Done, Abort
<1> QED BY <1>4, <1>5, <1>6, <1>7, <1>8, <1>9 DEF Handle

(* AlreadyExists is the answer of the first call of CreateVolume and of    *)
(* nothing else.                                                           *)
LEMMA WhoAnswersAlreadyExists ==
    ASSUME IInv, [Next]_vars, NEW p \in Procs,
           h[p].code = "none", h'[p].code = "AlreadyExists"
    PROVE  /\ At(p, "cv_get") /\ Exists(Vol(p))
           /\ Mismatch(key[p].cr, ais[Vol(p)].size * GiB)
<1>0. TypeOK /\ h \in [Procs -> Handler] /\ h[p] \in Handler BY DEF IInv, TInv, TypeOK
<1>1. ASSUME NEW r, Step(p, r) PROVE ~NotRefused(r)
    BY <1>0, <1>1 DEF Step, NotRefused
<1>2. ASSUME NEW r \in Handler, NEW c, NEW n, Answer(p, r, c, n) PROVE c = "AlreadyExists"
    BY <1>0, <1>2 DEF Answer, Handler
<1>3. ~SizeVolume(p)
    <2>1. NotRefused([h[p] EXCEPT !.size = SizeOf(key[p].cr),
                          !.pc = IF Vanilla(key[p]) THEN "cv_version" ELSE "cv_create"])
        BY <1>0 DEF NotRefused, Handler
    <2> QED BY <1>0, <1>1, <1>2, <2>1 DEF SizeVolume
<1>4. ASSUME CV_Get(p)
      PROVE  /\ At(p, "cv_get") /\ Exists(Vol(p))
             /\ Mismatch(key[p].cr, ais[Vol(p)].size * GiB)
    <2>1. NotRefused([h[p] EXCEPT !.pc = "cv_srcget"]) BY <1>0 DEF NotRefused, Handler
    <2>2. phase[p] = "run" BY <1>4 DEF CV_Get, At
    <2>3. ais[Vol(p)].uid \in Nat BY <2>2, RunningRequest DEF IInv, Ai, AppInstance
    <2>4. [h[p] EXCEPT !.uid = ais[Vol(p)].uid] \in Handler BY <1>0, <2>3 DEF Handler
    <2> QED BY <1>0, <1>1, <1>2, <1>3, <1>4, <2>1, <2>4 DEF CV_Get
<1>5. ASSUME Handle(p), ~CV_Get(p) PROVE FALSE
    <2>1. CASE CreateVolume(p)
        <3>1. /\ NotRefused([h[p] EXCEPT !.uid = ais[key[p].src.vol].uid, !.pc = "cv_srcreload"])
              /\ NotRefused([h[p] EXCEPT !.pc = "cv_srclist"])
              /\ NotRefused([h[p] EXCEPT !.pc = "cv_create"])
              /\ NotRefused([h[p] EXCEPT !.uid = uids, !.pc = "cv_md"])
            BY <1>0 DEF NotRefused, Handler
        <3> QED BY <1>0, <1>1, <1>2, <1>3, <1>5, <2>1, <3>1
            DEF CreateVolume, CV_SrcGet, CV_SrcReload, CV_SrcList, CV_Version, CV_Create, CV_Md
    <2>2. CASE DeleteVolume(p)
        <3>1. /\ NotRefused([h[p] EXCEPT !.uid = ais[Vol(p)].uid, !.pc = "dv_reload"])
              /\ NotRefused([h[p] EXCEPT !.pc = "dv_list"])
              /\ NotRefused([h[p] EXCEPT !.blind = TRUE, !.pc = "dv_offline"])
              /\ NotRefused([h[p] EXCEPT !.since = clock, !.pc = "dv_offline"])
              /\ NotRefused([h[p] EXCEPT !.pc = "dv_delete"])
            BY <1>0 DEF NotRefused, Handler
        <3> QED BY <1>0, <1>1, <1>2, <2>2, <3>1
            DEF DeleteVolume, DV_Get, DV_Reload, DV_List, DV_Offline, DV_Delete
    <2>3. CASE CS_Get(p) \/ CS_Create(p) \/ CS_Poll(p)
        <3>1. /\ NotRefused([h[p] EXCEPT !.uid = ais[Vol(p)].uid, !.size = ais[Vol(p)].size,
                                         !.pc = "cs_create"])
              /\ NotRefused([h[p] EXCEPT !.ts = clock, !.pc = "cs_poll"])
              /\ NotRefused([h[p] EXCEPT !.pc = "cs_byuuid"])
              /\ NotRefused([h[p] EXCEPT !.polls = @ + 1])
            BY <1>0 DEF NotRefused, Handler
        <3> QED BY <1>0, <1>1, <1>2, <2>3, <3>1 DEF CS_Get, CS_Create, CS_Poll, PollAgain
    <2>4. CASE CS_ByUuid(p)
        <3>1. phase[p] = "run" BY <2>4 DEF CS_ByUuid, At
        <3>2. ASSUME NEW s \in SnapsNamed(Vol(p), key[p].name)
              PROVE  [h[p] EXCEPT !.ts = s.ts] \in Handler
            <4>1. s \in Snapshot BY <3>1, RunningRequest DEF IInv, SnapsNamed, Ai, AppInstance
            <4> QED BY <1>0, <4>1 DEF Handler, Snapshot
        <3> QED BY <1>0, <1>2, <2>4, <3>2 DEF CS_ByUuid
    <2>5. CASE DeleteSnapshot(p)
        <3>1. /\ NotRefused([h[p] EXCEPT !.uid = ais[Vol(p)].uid, !.pc = "ds_reload"])
              /\ NotRefused([h[p] EXCEPT !.ts = key[p].ts, !.pc = "ds_delete"])
            BY <1>0 DEF NotRefused, Handler
        <3> QED BY <1>0, <1>1, <1>2, <2>5, <3>1 DEF DeleteSnapshot, DS_Get, DS_Reload, DS_Delete
    <2>6. CASE ControllerExpandVolume(p)
        <3>1. /\ NotRefused([h[p] EXCEPT !.uid = ais[Vol(p)].uid, !.pc = "ex_set"])
              /\ NotRefused([h[p] EXCEPT !.pc = "ex_reload"])
            BY <1>0 DEF NotRefused, Handler
        <3> QED BY <1>0, <1>1, <1>2, <2>6, <3>1
            DEF ControllerExpandVolume, EX_Get, EX_Set, EX_Reload
    <2>7. CASE Reject(p) BY <1>0, <1>2, <2>7 DEF Reject
    <2>8. CASE Admit(p) \/ Done(p) \/ Abort(p) BY <1>0, <2>8 DEF Admit, Done, Abort, Idle
    <2> QED BY <1>5, <2>1, <2>2, <2>3, <2>4, <2>5, <2>6, <2>7, <2>8 DEF Handle, CreateSnapshot
<1>6. ASSUME NEW q \in Procs, Handle(q) PROVE q = p BY <1>0, <1>6, HandlesItsOwn
<1>7. ~Die BY DEF Die, Idle
<1> QED BY <1>4, <1>5, <1>6, <1>7 DEF Next, Call, Ready, vars

(* A retry of an exact CreateVolume accepts the volume that an earlier     *)
(* attempt made, for every size and every GiB.                             *)
THEOREM RetriesAccepted == Spec => RetryAccepted
<1> DEFINE A == \A p \in Procs :
                  (/\ h[p].code = "none"
                   /\ h'[p].code = "AlreadyExists"
                   /\ Exact(key[p]))
                  => ais[Vol(p)].by # key[p]
<1>1. ASSUME IInv, [Next]_vars, NEW p \in Procs, h[p].code = "none",
             h'[p].code = "AlreadyExists", Exact(key[p]), ais[Vol(p)].by = key[p]
      PROVE  FALSE
    <2> DEFINE cr == key[p].cr
    <2>1. /\ At(p, "cv_get") /\ Exists(Vol(p)) /\ Mismatch(cr, ais[Vol(p)].size * GiB)
        BY <1>1, WhoAnswersAlreadyExists
    <2>2. key[p] \in Request /\ Vol(p) \in Volumes BY <1>1, <2>1, RunningRequest DEF IInv, At
    <2>3. key[p].op = "CreateVolume" BY <1>1, <2>1 DEF IInv, Local, OpMatches, At, CvPcs
    <2>4. ais[Vol(p)].size = SizeOf(cr)
        BY <1>1, <2>1, <2>2, <2>3 DEF IInv, VolumeInv, Exists, Exact
    <2>5. /\ cr.given /\ cr.required \in Nat /\ cr.required # 0 /\ cr.required % GiB = 0
          /\ Limit(cr) = cr.required
        BY <1>1, <2>2 DEF Exact, Request, CapacityRange
    <2>6. SizeOf(cr) * GiB = cr.required BY <2>5, WholeGiB DEF SizeOf
    <2> QED BY <2>1, <2>4, <2>5, <2>6 DEF Mismatch
<1>2. IInv /\ [Next]_vars => [A]_vars BY <1>1
<1> QED BY <1>2, Invariance, PTL DEF Spec, RetryAccepted
=============================================================================
