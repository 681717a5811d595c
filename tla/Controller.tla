----------------------------- MODULE Controller -----------------------------
(***************************************************************************)
(* The CSI controller service: the handlers of pkg/driver/controller.go    *)
(* that create, delete and expand volumes and create and delete snapshots, *)
(* with the pkg/client functions they call (volume.go, snapshots.go).      *)
(*                                                                         *)
(* A handler runs in its own goroutine and is a sequence of calls to the   *)
(* storage system; between two calls every other handler may run, and the  *)
(* process may die.  One action is one such call with the code that        *)
(* follows it up to the next call or to the answer.  A call may            *)
(*   - succeed, or fail because its object is not there;                   *)
(*   - fail without effect: network, authentication, overload ("Errs");    *)
(*   - take effect while its answer is lost, which the code cannot tell    *)
(*     from the former ("Errs" together with the effect).                  *)
(*                                                                         *)
(* Requests pass the guard of module RpcGuard; a request is its own key.   *)
(***************************************************************************)
EXTENDS RpcGuard, Datera

CONSTANTS
    GiB,           \* bytes per GiB (units.GiB), scaled down for TLC
    DefaultSize,   \* GiB of a volume of which no size was asked
    TemplateSize,  \* GiB of a volume made from a template without override
    PollLimit,     \* rounds of the availability poll (30 in the code)
    MaxUid,        \* bound: volumes created
    MaxTs,         \* bound: snapshots created
    MaxFaults,     \* bound: calls that fail
    MaxRestarts    \* bound: restarts of the process

ASSUME SizeAssumption ==
    /\ GiB \in Nat \ {0}
    /\ DefaultSize \in Nat \ {0}
    /\ TemplateSize \in Nat \ {0}

ASSUME BoundAssumption ==
    /\ PollLimit \in Nat \ {0}
    /\ MaxUid \in Nat
    /\ MaxTs \in Nat
    /\ MaxFaults \in Nat
    /\ MaxRestarts \in Nat

-----------------------------------------------------------------------------
(* Requests.  `form' says what is wrong with the request, if anything: an  *)
(* empty name or id; arguments CreateVolume rejects (topology,             *)
(* capabilities, parameters); a snapshot id not of the form "vol:ts".      *)
(* CapacityRange is optional for CreateVolume (`given').                   *)

Op == {"CreateVolume", "DeleteVolume", "CreateSnapshot", "DeleteSnapshot",
       "ControllerExpandVolume"}

CapacityRange == [given : BOOLEAN, required : Nat, limit : Nat]

Source == [kind : {"none", "snapshot", "volume"}, vol : Volumes, ts : Nat]

Request ==
    [op : Op, form : {"ok", "empty", "malformed"}, vol : Volumes, cr : CapacityRange,
     template : {"none", "override", "fixed"}, src : Source, name : SnapNames, ts : Nat]

ASSUME RequestAssumption == Keys \subseteq Request

Contents == {"blank", "template", "snapshot", "volume"}

VARIABLES
    h,         \* the local state of each handler
    hit,       \* ghost: handlers one of whose calls failed
    faults,    \* failed calls so far
    restarts   \* restarts so far

vars == <<guardVars, dateraVars, h, hit, faults, restarts>>

Codes == {"none", "OK", "InvalidArgument", "AlreadyExists", "NotFound",
          "FailedPrecondition", "Unknown"}

Pcs == {"idle", "reject", "answered",
        "cv_get", "cv_srcget", "cv_srcreload", "cv_srclist", "cv_version", "cv_create", "cv_md",
        "dv_get", "dv_reload", "dv_list", "dv_offline", "dv_delete",
        "cs_get", "cs_create", "cs_byuuid", "cs_poll",
        "ds_get", "ds_reload", "ds_delete",
        "ex_get", "ex_set", "ex_reload"}

\* pc:     the call the handler makes next
\* uid:    the incarnation its handle refers to
\* size:   the size it computed or read, in GiB
\* ts:     the snapshot it created or found
\* polls:  rounds of the availability poll
\* code:   its answer, and cap the CapacityBytes in it
\* since, blind: ghosts.  When DeleteVolume saw that there were no
\*         snapshots; that it could not look
Handler ==
    [pc : Pcs, uid : Nat, size : Nat, ts : Nat, polls : Nat, code : Codes, cap : Nat,
     since : Nat, blind : BOOLEAN]

Idle ==
    [pc |-> "idle", uid |-> 0, size |-> 0, ts |-> 0, polls |-> 0, code |-> "none",
     cap |-> 0, since |-> 0, blind |-> FALSE]

TypeOK ==
    /\ GuardTypeOK
    /\ ais \in [Volumes -> AppInstance(Keys \cup {NoKey}, Contents)]
    /\ uids \in Nat
    /\ clock \in Nat
    /\ h \in [Procs -> Handler]
    /\ hit \subseteq Procs
    /\ faults \in 0 .. MaxFaults
    /\ restarts \in 0 .. MaxRestarts

Init ==
    /\ GuardInit
    /\ DateraInit(NoKey)
    /\ h = [p \in Procs |-> Idle]
    /\ hit = {}
    /\ faults = 0
    /\ restarts = 0

-----------------------------------------------------------------------------
(* How a handler moves on.                                                 *)

At(p, pc) == phase[p] = "run" /\ h[p].pc = pc

\* The volume a request is about.
Vol(p) == key[p].vol

\* A call that does what it is asked, and one that returns an error for no
\* fault of the request.
Works == UNCHANGED <<hit, faults>>
Errs(p) ==
    /\ faults < MaxFaults
    /\ faults' = faults + 1
    /\ hit' = hit \cup {p}

\* A call without effect that returns an error, `found' saying whether its
\* object is there.
Fails(p, found) == (~found /\ Works) \/ Errs(p)

\* Go on with local state r.
Step(p, r) ==
    /\ h' = [h EXCEPT ![p] = r]
    /\ UNCHANGED <<guardVars, restarts>>

\* Mutant: the handler returns before its cleaner is deferred.
AnswerWithoutCleaner(p, r, code, cap) ==
    /\ phase[p] = "run"
    /\ phase' = [phase EXCEPT ![p] = "idle"]
    /\ key' = [key EXCEPT ![p] = NoKey]
    /\ UNCHANGED <<rpcStatus, raced>>
    /\ h' = [h EXCEPT ![p] = Idle]
    /\ UNCHANGED restarts

\* Return from the handler with local state r and answer code, CapacityBytes
\* cap.
Answer(p, r, code, cap) ==
    /\ Return(p)
    /\ h' = [h EXCEPT ![p] = [r EXCEPT !.pc = "answered", !.code = code, !.cap = cap]]
    /\ UNCHANGED restarts

-----------------------------------------------------------------------------
(* Entering and leaving a handler.                                         *)

\* The bounds, and what a caller can know: the id of a snapshot is the id of
\* one that exists or has existed, a source volume is there, and an expansion
\* says to what size (the handler dereferences the range unseen).
Issuable(r) ==
    /\ r.op = "CreateVolume" => uids <= MaxUid
    /\ r.op = "CreateSnapshot" => clock <= MaxTs
    /\ r.op = "DeleteSnapshot" => r.ts < clock
    /\ r.src.kind = "snapshot" => r.src.ts < clock
    /\ r.src.kind = "volume" => Exists(r.src.vol)
    /\ r.op = "ControllerExpandVolume" => r.cr.given

\* A request arrives and passes the lookup, one way or the other.
Call(p, r) ==
    /\ Issuable(r)
    /\ FindKey(p, r) \/ MissKey(p, r)
    /\ UNCHANGED <<dateraVars, h, hit, faults, restarts>>

FirstCall(r) ==
    IF r.form = "empty" \/ (r.op = "DeleteSnapshot" /\ r.form = "malformed")
    THEN "reject"
    ELSE CASE r.op = "CreateVolume" -> "cv_get"
           [] r.op = "DeleteVolume" -> "dv_get"
           [] r.op = "CreateSnapshot" -> "cs_get"
           [] r.op = "DeleteSnapshot" -> "ds_get"
           [] r.op = "ControllerExpandVolume" -> "ex_get"

\* The key is stored and the body of the handler starts.
Admit(p) ==
    /\ Record(p)
    /\ h' = [h EXCEPT ![p] = [Idle EXCEPT !.pc = FirstCall(key[p])]]
    /\ UNCHANGED <<dateraVars, hit, faults, restarts>>

\* Requests answered without a call.
Reject(p) ==
    /\ At(p, "reject")
    /\ Answer(p, h[p], IF key[p].form = "empty" THEN "InvalidArgument" ELSE "OK", 0)
    /\ Works
    /\ UNCHANGED dateraVars

\* The cleaner has run and the answer goes out.
Done(p) ==
    /\ Clean(p)
    /\ h' = [h EXCEPT ![p] = Idle]
    /\ hit' = hit \ {p}
    /\ UNCHANGED <<dateraVars, faults, restarts>>

\* A duplicate request: Aborted, "Operation is still in progress".
Abort(p) ==
    /\ ReturnDup(p)
    /\ UNCHANGED <<dateraVars, h, hit, faults, restarts>>

\* The process dies at any point of any handler.  The storage system stays.
Die ==
    /\ restarts < MaxRestarts
    /\ restarts' = restarts + 1
    /\ Restart
    /\ h' = [p \in Procs |-> Idle]
    /\ hit' = {}
    /\ UNCHANGED <<dateraVars, faults>>
-----------------------------------------------------------------------------
(* CreateVolume                                                            *)

\* LimitBytes defaults to RequiredBytes.
Limit(cr) == IF cr.limit = 0 THEN cr.required ELSE cr.limit

\* Mutant: the default of LimitBytes is forgotten in the comparison.
MismatchRawLimit(cr, size) == cr.given /\ (cr.limit < size \/ cr.required # size)

\* An existing volume of size bytes does not answer the request.
Mismatch(cr, size) == cr.given /\ (Limit(cr) < size \/ cr.required # size)

\* The size to ask for, in GiB.  (Negative ranges, which the code rounds up
\* to 1, are not CSI requests.)
SizeOf(cr) ==
    IF cr.given /\ Limit(cr) \div GiB # 0 THEN Limit(cr) \div GiB ELSE DefaultSize

BadRange(cr) == cr.given /\ cr.required > Limit(cr)

\* A volume from scratch: neither a template nor a snapshot to clone.
Vanilla(r) == r.template = "none" /\ r.src.kind # "snapshot"

\* The capacity range is looked at last, before the client is called.
SizeVolume(p) ==
    IF BadRange(key[p].cr)
    THEN Answer(p, h[p], "Unknown", 0)
    ELSE Step(p, [h[p] EXCEPT !.size = SizeOf(key[p].cr),
                              !.pc = IF Vanilla(key[p]) THEN "cv_version" ELSE "cv_create"])

\* The name is taken; or it is free, or the lookup failed, and the handler
\* goes on to create the volume.
CV_Get(p) ==
    LET v == Vol(p)
        size == ais[v].size * GiB IN
    /\ At(p, "cv_get")
    /\ \/ /\ Exists(v)
          /\ Works
          /\ IF Mismatch(key[p].cr, size)
             THEN Answer(p, h[p], "AlreadyExists", 0)
             ELSE Answer(p, [h[p] EXCEPT !.uid = ais[v].uid], "OK", size)
       \/ /\ Fails(p, Exists(v))
          /\ IF key[p].form = "malformed"
             THEN Answer(p, h[p], "InvalidArgument", 0)
             ELSE IF key[p].src.kind = "snapshot"
                  THEN Step(p, [h[p] EXCEPT !.pc = "cv_srcget"])
                  ELSE SizeVolume(p)
    /\ UNCHANGED dateraVars

\* SnapshotPathFromCsiId: get the parent volume, reload it, list its
\* snapshots and take the one with the time stamp of the id.
CV_SrcGet(p) ==
    LET v == key[p].src.vol IN
    /\ At(p, "cv_srcget")
    /\ \/ /\ Exists(v)
          /\ Works
          /\ Step(p, [h[p] EXCEPT !.uid = ais[v].uid, !.pc = "cv_srcreload"])
       \/ Fails(p, Exists(v)) /\ Answer(p, h[p], "InvalidArgument", 0)
    /\ UNCHANGED dateraVars

CV_SrcReload(p) ==
    LET live == Live(key[p].src.vol, h[p].uid) IN
    /\ At(p, "cv_srcreload")
    /\ \/ live /\ Works /\ Step(p, [h[p] EXCEPT !.pc = "cv_srclist"])
       \/ Fails(p, live) /\ Answer(p, h[p], "InvalidArgument", 0)
    /\ UNCHANGED dateraVars

\* The snapshot that the id of the request names.
SourceThere(p) ==
    /\ Live(key[p].src.vol, h[p].uid)
    /\ SnapsAt(key[p].src.vol, key[p].src.ts) # {}

CV_SrcList(p) ==
    /\ At(p, "cv_srclist")
    /\ \/ SourceThere(p) /\ Works /\ SizeVolume(p)
       \/ Fails(p, SourceThere(p)) /\ Answer(p, h[p], "InvalidArgument", 0)
    /\ UNCHANGED dateraVars

\* A volume from scratch first asks for the version of the storage system.
CV_Version(p) ==
    /\ At(p, "cv_version")
    /\ \/ Works /\ Step(p, [h[p] EXCEPT !.pc = "cv_create"])
       \/ Errs(p) /\ Answer(p, h[p], "Unknown", 0)
    /\ UNCHANGED dateraVars

\* Mutant: the kind of the source is taken as it comes.
ContentUnchecked(r) == r.src.kind

\* What the new volume is made of: a template wins over a snapshot, and a
\* volume as source is never looked at.
Content(r) ==
    IF r.template # "none" THEN "template"
    ELSE IF r.src.kind = "snapshot" THEN "snapshot" ELSE "blank"

\* A clone gets the size of its snapshot, a template without override its
\* own.
NewSize(p) ==
    LET r == key[p] IN
    CASE Content(r) = "snapshot" -> (CHOOSE s \in SnapsAt(r.src.vol, r.src.ts) : TRUE).size
      [] Content(r) # "snapshot" /\ r.template = "fixed" -> TemplateSize
      [] OTHER -> h[p].size

Creatable(p) ==
    /\ ~Exists(Vol(p))
    /\ Content(key[p]) = "snapshot" => SourceThere(p)

CV_Create(p) ==
    LET create == AiCreate(Vol(p), NewSize(p), Content(key[p]), key[p]) IN
    /\ At(p, "cv_create")
    /\ \/ /\ Creatable(p)
          /\ Works
          /\ create
          /\ Step(p, [h[p] EXCEPT !.uid = uids, !.pc = "cv_md"])
       \/ Creatable(p) /\ Errs(p) /\ create /\ Answer(p, h[p], "Unknown", 0)
       \/ /\ Fails(p, Creatable(p))
          /\ UNCHANGED dateraVars
          /\ Answer(p, h[p], "Unknown", 0)

\* Mutant: the answer repeats the request.
CV_MdEcho(p) ==
    LET live == Live(Vol(p), h[p].uid) IN
    /\ At(p, "cv_md")
    /\ \/ live /\ (Works \/ Errs(p)) /\ AiSetMetadata(Vol(p))
       \/ Fails(p, live) /\ UNCHANGED dateraVars
    /\ Answer(p, h[p], "OK", key[p].cr.required)

\* SetMetadata may fail; the answer is the same.
CV_Md(p) ==
    LET live == Live(Vol(p), h[p].uid) IN
    /\ At(p, "cv_md")
    /\ \/ live /\ (Works \/ Errs(p)) /\ AiSetMetadata(Vol(p))
       \/ Fails(p, live) /\ UNCHANGED dateraVars
    /\ Answer(p, h[p], "OK", h[p].size * GiB)

-----------------------------------------------------------------------------
(* DeleteVolume: every error but "it has snapshots" is answered with OK.   *)

DV_Get(p) ==
    LET v == Vol(p) IN
    /\ At(p, "dv_get")
    /\ \/ /\ Exists(v)
          /\ Works
          /\ Step(p, [h[p] EXCEPT !.uid = ais[v].uid, !.pc = "dv_reload"])
       \/ Fails(p, Exists(v)) /\ Answer(p, h[p], "OK", 0)
    /\ UNCHANGED dateraVars

\* Volume.ListSnapshots, first call.  When the reload fails it returns the
\* empty list and no error, so the volume looks as if it had no snapshots.
DV_Reload(p) ==
    LET live == Live(Vol(p), h[p].uid) IN
    /\ At(p, "dv_reload")
    /\ \/ live /\ Works /\ Step(p, [h[p] EXCEPT !.pc = "dv_list"])
       \/ Fails(p, live) /\ Step(p, [h[p] EXCEPT !.blind = TRUE, !.pc = "dv_offline"])
    /\ UNCHANGED dateraVars

\* Mutant: only snapshots that are available count.
HasAvailableSnapshots(p) == \E s \in ais[Vol(p)].snaps : s.available

\* Volume.ListSnapshots, second call, and HasSnapshots.
HasSnapshots(p) == ais[Vol(p)].snaps # {}

DV_List(p) ==
    LET live == Live(Vol(p), h[p].uid) IN
    /\ At(p, "dv_list")
    /\ \/ /\ live
          /\ Works
          /\ IF HasSnapshots(p)
             THEN Answer(p, h[p], "FailedPrecondition", 0)
             ELSE Step(p, [h[p] EXCEPT !.since = clock, !.pc = "dv_offline"])
       \/ Fails(p, live) /\ Answer(p, h[p], "OK", 0)
    /\ UNCHANGED dateraVars

\* Mutant: the volume is taken offline and left there.
DV_OfflineOnly(p) ==
    /\ At(p, "dv_offline")
    /\ Live(Vol(p), h[p].uid)
    /\ Works
    /\ AiOffline(Vol(p))
    /\ Answer(p, h[p], "OK", 0)

\* Volume.Delete, first call: admin state offline.
DV_Offline(p) ==
    LET live == Live(Vol(p), h[p].uid) IN
    /\ At(p, "dv_offline")
    /\ \/ /\ live
          /\ Works
          /\ AiOffline(Vol(p))
          /\ Step(p, [h[p] EXCEPT !.pc = "dv_delete"])
       \/ live /\ Errs(p) /\ AiOffline(Vol(p)) /\ Answer(p, h[p], "OK", 0)
       \/ Fails(p, live) /\ UNCHANGED dateraVars /\ Answer(p, h[p], "OK", 0)

\* Mutant: the volume is deleted by name instead of by path.
DV_DeleteByName(p) ==
    /\ At(p, "dv_delete")
    /\ \/ Exists(Vol(p)) /\ Works /\ AiDelete(Vol(p), NoKey)
       \/ Fails(p, Exists(Vol(p))) /\ UNCHANGED dateraVars
    /\ Answer(p, h[p], "OK", 0)

\* Volume.Delete, second call.
DV_Delete(p) ==
    LET live == Live(Vol(p), h[p].uid) IN
    /\ At(p, "dv_delete")
    /\ \/ live /\ (Works \/ Errs(p)) /\ AiDelete(Vol(p), NoKey)
       \/ Fails(p, live) /\ UNCHANGED dateraVars
    /\ Answer(p, h[p], "OK", 0)

-----------------------------------------------------------------------------
(* CreateSnapshot                                                          *)

CS_Get(p) ==
    LET v == Vol(p) IN
    /\ At(p, "cs_get")
    /\ \/ /\ Exists(v)
          /\ Works
          /\ Step(p, [h[p] EXCEPT !.uid = ais[v].uid, !.size = ais[v].size, !.pc = "cs_create"])
       \/ Fails(p, Exists(v)) /\ Answer(p, h[p], "NotFound", 0)
    /\ UNCHANGED dateraVars

\* The snapshot's UUID is a hash of its name, so that a retry of a request
\* meets the snapshot of the first attempt: InvalidRequestError, code 15.
CS_Create(p) ==
    LET live == Live(Vol(p), h[p].uid)
        dup  == SnapsNamed(Vol(p), key[p].name) # {} IN
    /\ At(p, "cs_create")
    /\ \/ /\ live /\ ~dup
          /\ Works
          /\ SnapCreate(Vol(p), key[p].name)
          /\ Step(p, [h[p] EXCEPT !.ts = clock, !.pc = "cs_poll"])
       \/ /\ live /\ dup
          /\ Works
          /\ UNCHANGED dateraVars
          /\ Step(p, [h[p] EXCEPT !.pc = "cs_byuuid"])
       \/ /\ live /\ ~dup
          /\ Errs(p)
          /\ SnapCreate(Vol(p), key[p].name)
          /\ Answer(p, h[p], "Unknown", 0)
       \/ Fails(p, live) /\ UNCHANGED dateraVars /\ Answer(p, h[p], "Unknown", 0)

\* GetSnapshotByUuid: the answer is the snapshot found, whatever its state.
CS_ByUuid(p) ==
    LET there == Live(Vol(p), h[p].uid) /\ SnapsNamed(Vol(p), key[p].name) # {} IN
    /\ At(p, "cs_byuuid")
    /\ \/ /\ there
          /\ Works
          /\ \E s \in SnapsNamed(Vol(p), key[p].name) :
                Answer(p, [h[p] EXCEPT !.ts = s.ts], "OK", h[p].size * GiB)
       \/ Fails(p, there) /\ Answer(p, h[p], "Unknown", 0)
    /\ UNCHANGED dateraVars

\* Mutant: the timeout is never counted down.
PollForever(p) == Step(p, h[p])

\* One more round of the poll, or the timeout.
PollAgain(p) ==
    IF h[p].polls + 1 >= PollLimit
    THEN Answer(p, h[p], "Unknown", 0)
    ELSE Step(p, [h[p] EXCEPT !.polls = @ + 1])

\* Poll for availability: Snapshot.Reload once a second.
CS_Poll(p) ==
    LET there == Live(Vol(p), h[p].uid) /\ SnapsAt(Vol(p), h[p].ts) # {} IN
    /\ At(p, "cs_poll")
    /\ \/ /\ there
          /\ Works
          /\ IF \E s \in SnapsAt(Vol(p), h[p].ts) : s.available
             THEN Answer(p, h[p], "OK", h[p].size * GiB)
             ELSE PollAgain(p)
       \/ Fails(p, there) /\ Answer(p, h[p], "Unknown", 0)
    /\ UNCHANGED dateraVars

-----------------------------------------------------------------------------
(* DeleteSnapshot: every outcome is answered with OK.                      *)

DS_Get(p) ==
    LET v == Vol(p) IN
    /\ At(p, "ds_get")
    /\ \/ /\ Exists(v)
          /\ Works
          /\ Step(p, [h[p] EXCEPT !.uid = ais[v].uid, !.pc = "ds_reload"])
       \/ Fails(p, Exists(v)) /\ Answer(p, h[p], "OK", 0)
    /\ UNCHANGED dateraVars

\* Mutant: a snapshot that is still being taken is overlooked.
IdFoundAvailable(p) == \E s \in SnapsAt(Vol(p), key[p].ts) : s.available

\* The reloaded volume has a snapshot with the time stamp of the id.
IdFound(p) == SnapsAt(Vol(p), key[p].ts) # {}

DS_Reload(p) ==
    LET live == Live(Vol(p), h[p].uid) IN
    /\ At(p, "ds_reload")
    /\ \/ /\ live
          /\ Works
          /\ IF IdFound(p)
             THEN Step(p, [h[p] EXCEPT !.ts = key[p].ts, !.pc = "ds_delete"])
             ELSE Answer(p, h[p], "OK", 0)
       \/ Fails(p, live) /\ Answer(p, h[p], "OK", 0)
    /\ UNCHANGED dateraVars

DS_Delete(p) ==
    LET there == Live(Vol(p), h[p].uid) /\ SnapsAt(Vol(p), h[p].ts) # {} IN
    /\ At(p, "ds_delete")
    /\ \/ there /\ (Works \/ Errs(p)) /\ SnapDelete(Vol(p), h[p].ts)
       \/ Fails(p, there) /\ UNCHANGED dateraVars
    /\ Answer(p, h[p], "OK", 0)

-----------------------------------------------------------------------------
(* ControllerExpandVolume                                                  *)

EX_Get(p) ==
    LET v == Vol(p) IN
    /\ At(p, "ex_get")
    /\ \/ /\ Exists(v)
          /\ Works
          /\ Step(p, [h[p] EXCEPT !.uid = ais[v].uid, !.pc = "ex_set"])
       \/ Fails(p, Exists(v)) /\ Answer(p, h[p], "InvalidArgument", 0)
    /\ UNCHANGED dateraVars

\* Resize to RequiredBytes in GiB, rounded down.
ExpandedSize(cr) == cr.required \div GiB

\* The storage system does not shrink a volume.
EX_Set(p) ==
    LET size == ExpandedSize(key[p].cr)
        fine == Live(Vol(p), h[p].uid) /\ ais[Vol(p)].size <= size
        grow == AiResize(Vol(p), size, key[p]) IN
    /\ At(p, "ex_set")
    /\ \/ fine /\ Works /\ grow /\ Step(p, [h[p] EXCEPT !.pc = "ex_reload"])
       \/ fine /\ Errs(p) /\ grow /\ Answer(p, h[p], "Unknown", 0)
       \/ Fails(p, fine) /\ UNCHANGED dateraVars /\ Answer(p, h[p], "Unknown", 0)

\* The volume is read back, but the answer repeats RequiredBytes.
EX_Reload(p) ==
    LET live == Live(Vol(p), h[p].uid) IN
    /\ At(p, "ex_reload")
    /\ \/ live /\ Works /\ Answer(p, h[p], "OK", key[p].cr.required)
       \/ Fails(p, live) /\ Answer(p, h[p], "Unknown", 0)
    /\ UNCHANGED dateraVars

-----------------------------------------------------------------------------

\* The storage system finishes a snapshot on its own time.
Ready ==
    /\ \E v \in Volumes : \E s \in ais[v].snaps : SnapReady(v, s)
    /\ UNCHANGED <<guardVars, h, hit, faults, restarts>>

CreateVolume(p) ==
    \/ CV_Get(p) \/ CV_SrcGet(p) \/ CV_SrcReload(p) \/ CV_SrcList(p)
    \/ CV_Version(p) \/ CV_Create(p) \/ CV_Md(p)

DeleteVolume(p) ==
    DV_Get(p) \/ DV_Reload(p) \/ DV_List(p) \/ DV_Offline(p) \/ DV_Delete(p)

CreateSnapshot(p) == CS_Get(p) \/ CS_Create(p) \/ CS_ByUuid(p) \/ CS_Poll(p)

DeleteSnapshot(p) == DS_Get(p) \/ DS_Reload(p) \/ DS_Delete(p)

ControllerExpandVolume(p) == EX_Get(p) \/ EX_Set(p) \/ EX_Reload(p)

Handle(p) ==
    \/ Admit(p) \/ Reject(p) \/ Done(p) \/ Abort(p)
    \/ CreateVolume(p) \/ DeleteVolume(p)
    \/ CreateSnapshot(p) \/ DeleteSnapshot(p)
    \/ ControllerExpandVolume(p)

Next ==
    \/ \E p \in Procs, r \in Keys : Call(p, r)
    \/ \E p \in Procs : Handle(p)
    \/ Ready
    \/ Die

Spec == Init /\ [][Next]_vars

\* A handler that has been let in keeps running; callers may stop calling,
\* snapshots need not become available and the process need not die.
FairSpec == Spec /\ \A p \in Procs : WF_vars(Handle(p))

-----------------------------------------------------------------------------
(* Properties                                                              *)

(* DeleteVolume keeps the promise of the comment in Client.DeleteVolume as *)
(* far as it looks: once it has seen no snapshot, the only snapshots the   *)
(* volume it is about to delete can have were taken after that look.  (It  *)
(* may also not have been able to look: `blind'.)                          *)
SnapshotBlocksDelete ==
    \A p \in Procs :
        (/\ h[p].pc \in {"dv_offline", "dv_delete"}
         /\ ~h[p].blind
         /\ Live(Vol(p), h[p].uid))
        => \A s \in ais[Vol(p)].snaps : s.ts >= h[p].since

(* DeleteVolume answers OK to nearly everything; if all its calls went     *)
(* through, the incarnation it found is gone by then, whoever deleted it,  *)
(* and whatever has been created under the name since.                     *)
DeleteReported ==
    \A p \in Procs :
        (/\ phase[p] = "delete"
         /\ key[p].op = "DeleteVolume"
         /\ h[p].code = "OK"
         /\ p \notin hit)
        => ~Live(Vol(p), h[p].uid)

(* DeleteSnapshot also answers OK to everything; if all its calls went     *)
(* through, no volume of that name has a snapshot with that id any more.   *)
SnapshotDeleteReported ==
    \A p \in Procs :
        (/\ phase[p] = "delete"
         /\ key[p].op = "DeleteSnapshot"
         /\ key[p].form = "ok"
         /\ p \notin hit)
        => SnapsAt(Vol(p), key[p].ts) = {}

(* A volume only ever disappears by the hand of a DeleteVolume handler     *)
(* that holds this very incarnation and has either looked for snapshots    *)
(* or failed to: a handler whose volume was deleted and created again      *)
(* under it does not hit the new one.                                      *)
OnlyItsOwnIsDeleted ==
    [][\A v \in Volumes :
         (Exists(v) /\ ais'[v].uid # ais[v].uid)
         => \E p \in Procs : h[p].pc = "dv_delete" /\ Vol(p) = v /\ h[p].uid = ais[v].uid]_vars

\* Requests of a whole number of GiB, no more and no less.
Exact(r) ==
    /\ r.cr.given
    /\ r.cr.required # 0
    /\ r.cr.required % GiB = 0
    /\ Limit(r.cr) = r.cr.required
    /\ r.template # "fixed"
    /\ Content(r) # "snapshot"

(* CreateVolume is idempotent for exact requests: a volume that an earlier *)
(* attempt of the same request made, its answer lost or its process dead,  *)
(* is never refused with AlreadyExists, "has a different size".            *)
RetryAccepted ==
    [][\A p \in Procs :
         (/\ h[p].code = "none"
          /\ h'[p].code = "AlreadyExists"
          /\ Exact(key[p]))
         => ais[Vol(p)].by # key[p]]_vars

(* CreateVolume answers the size it asked for, not the size of the volume; *)
(* where the storage system takes the size from the request the two agree, *)
(* until somebody expands the volume.                                      *)
CapacityReported ==
    \A p \in Procs :
        (/\ phase[p] = "delete"
         /\ key[p].op = "CreateVolume"
         /\ h[p].code = "OK"
         /\ Live(Vol(p), h[p].uid)
         /\ ais[Vol(p)].by = key[p]
         /\ key[p].template # "fixed"
         /\ Content(key[p]) # "snapshot")
        => h[p].cap = ais[Vol(p)].size * GiB

(* Every request that is let in is answered: the calls return and the poll *)
(* for availability gives up.                                              *)
EveryCallAnswered == \A p \in Procs : (phase[p] = "run") ~> (phase[p] # "run")

-----------------------------------------------------------------------------
(* What comments, tests and messages of the code claim, and what does not  *)
(* hold.                                                                   *)

(* Client.DeleteVolume: "we need to stop any deletion of a volume          *)
(* currently possessing snapshots to avoid unintentional data loss".       *)
NoSnapshotLost ==
    [][\A v \in Volumes :
         (Exists(v) /\ ais'[v].uid # ais[v].uid) => ais[v].snaps = {}]_vars

(* CreateSnapshot polls for availability and answers ReadyToUse: true.     *)
ReadyMeansAvailable ==
    \A p \in Procs :
        (/\ phase[p] = "delete"
         /\ key[p].op = "CreateSnapshot"
         /\ h[p].code = "OK")
        => \A s \in SnapsAt(Vol(p), h[p].ts) : s.available
=============================================================================
