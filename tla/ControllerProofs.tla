-------------------------- MODULE ControllerProofs --------------------------
(* Proofs about Controller, for any number of goroutines, volumes and      *)
(* snapshots, any set of requests and any bounds.                          *)
EXTENDS Controller, RpcGuardProofs

Ai == AppInstance(Keys \cup {NoKey}, Contents)

DateraType ==
    /\ ais \in [Volumes -> Ai]
    /\ uids \in Nat
    /\ clock \in Nat

FaultType == hit \subseteq Procs /\ faults \in 0 .. MaxFaults

-----------------------------------------------------------------------------
(* The types of the storage system's operations.                           *)

(* Creating an app instance keeps the storage system well-typed.           *)
LEMMA AiCreateType ==
    ASSUME DateraType, NEW v \in Volumes, NEW size \in Nat, NEW c \in Contents, NEW r \in Keys,
           AiCreate(v, size, c, r)
    PROVE  DateraType'
BY DEF DateraType, Ai, AppInstance, AiCreate, Snapshot

(* Setting metadata keeps the storage system well-typed.                   *)
LEMMA AiSetMetadataType ==
    ASSUME DateraType, NEW v \in Volumes, AiSetMetadata(v)
    PROVE  DateraType'
BY DEF DateraType, Ai, AppInstance, AiSetMetadata

(* Taking an app instance offline keeps the storage system well-typed.     *)
LEMMA AiOfflineType ==
    ASSUME DateraType, NEW v \in Volumes, AiOffline(v)
    PROVE  DateraType'
BY DEF DateraType, Ai, AppInstance, AiOffline

(* Deleting an app instance keeps the storage system well-typed.           *)
LEMMA AiDeleteType ==
    ASSUME DateraType, NEW v \in Volumes, AiDelete(v, NoKey)
    PROVE  DateraType'
BY DEF DateraType, Ai, AppInstance, AiDelete, Absent, Contents

(* Resizing a volume keeps the storage system well-typed.                  *)
LEMMA AiResizeType ==
    ASSUME DateraType, NEW v \in Volumes, NEW size \in Nat, NEW r \in Keys, AiResize(v, size, r)
    PROVE  DateraType'
BY DEF DateraType, Ai, AppInstance, AiResize

(* Creating a snapshot keeps the storage system well-typed.                *)
LEMMA SnapCreateType ==
    ASSUME DateraType, NEW v \in Volumes, NEW n \in SnapNames, SnapCreate(v, n)
    PROVE  DateraType'
<1> DEFINE s == [uuid |-> n, ts |-> clock, size |-> ais[v].size, available |-> FALSE]
<1>1. ais[v] \in Ai BY DEF DateraType
<1>2. s \in Snapshot BY <1>1 DEF DateraType, Ai, AppInstance, Snapshot
<1>3. ais[v].snaps \cup {s} \in SUBSET Snapshot BY <1>1, <1>2 DEF Ai, AppInstance
<1>4. [ais[v] EXCEPT !.snaps = @ \cup {s}] \in Ai BY <1>1, <1>3 DEF Ai, AppInstance
<1> QED BY <1>4 DEF DateraType, SnapCreate

(* Deleting a snapshot keeps the storage system well-typed.                *)
LEMMA SnapDeleteType ==
    ASSUME DateraType, NEW v \in Volumes, NEW n \in Nat, SnapDelete(v, n)
    PROVE  DateraType'
BY DEF DateraType, Ai, AppInstance, SnapDelete

(* A snapshot becoming available keeps the storage system well-typed.      *)
LEMMA SnapReadyType ==
    ASSUME DateraType, NEW v \in Volumes, NEW s \in ais[v].snaps, SnapReady(v, s)
    PROVE  DateraType'
<1> DEFINE t == [s EXCEPT !.available = TRUE]
<1>1. ais[v] \in Ai BY DEF DateraType
<1>2. s \in Snapshot BY <1>1 DEF Ai, AppInstance
<1>3. t \in Snapshot BY <1>2 DEF Snapshot
<1>4. (ais[v].snaps \ {s}) \cup {t} \in SUBSET Snapshot BY <1>1, <1>3 DEF Ai, AppInstance
<1>5. [ais[v] EXCEPT !.snaps = (@ \ {s}) \cup {t}] \in Ai BY <1>1, <1>4 DEF Ai, AppInstance
<1> QED BY <1>5 DEF DateraType, SnapReady

-----------------------------------------------------------------------------
(* The types of a handler's moves.                                         *)

\* The type invariant with what ties the parts of the state together: a
\* goroutine has a key while it serves a request, and is between two calls
\* of a handler only while it runs.
PhaseMatches == \A p \in Procs : h[p].pc \notin {"idle", "answered"} => phase[p] = "run"

TInv == TypeOK /\ ServesAKey /\ PhaseMatches

(* Going on to the next call of a handler keeps the types.                 *)
LEMMA StepType ==
    ASSUME TInv, NEW p \in Procs, phase[p] = "run", NEW r \in Handler, Step(p, r),
           DateraType', FaultType'
    PROVE  TInv'
<1>1. h' \in [Procs -> Handler] BY DEF TInv, TypeOK, Step
<1>2. GuardTypeOK' /\ ServesAKey'
    BY DEF TInv, TypeOK, GuardTypeOK, ServesAKey, Step, guardVars
<1>3. restarts' \in 0 .. MaxRestarts BY DEF TInv, TypeOK, Step
<1>4. PhaseMatches' BY DEF TInv, TypeOK, PhaseMatches, Step, guardVars
<1> QED BY <1>1, <1>2, <1>3, <1>4 DEF TInv, TypeOK, DateraType, FaultType, Ai

(* Returning an answer keeps the types.                                    *)
LEMMA AnswerType ==
    ASSUME TInv, NEW p \in Procs, phase[p] = "run", NEW r \in Handler,
           NEW code \in Codes, NEW cap \in Nat,
           Answer(p, r, code, cap), DateraType', FaultType'
    PROVE  TInv'
<1> DEFINE q == [r EXCEPT !.pc = "answered", !.code = code, !.cap = cap]
<1>0. q \in Handler /\ q.pc = "answered" BY DEF Handler, Pcs
<1>1. h' \in [Procs -> Handler] BY <1>0 DEF TInv, TypeOK, Answer
<1>2. GuardTypeOK' /\ ServesAKey'
    BY DEF TInv, TypeOK, GuardTypeOK, ServesAKey, Answer, Return, Phases
<1>3. restarts' \in 0 .. MaxRestarts BY DEF TInv, TypeOK, Answer
<1>4. PhaseMatches'
    BY <1>0 DEF TInv, TypeOK, PhaseMatches, Answer, Return, GuardTypeOK
<1> QED BY <1>1, <1>2, <1>3, <1>4 DEF TInv, TypeOK, DateraType, FaultType, Ai

(* A call that fails or not leaves the counters of failures well-typed.    *)
LEMMA FaultsType ==
    ASSUME TypeOK, NEW p \in Procs, Works \/ Errs(p)
    PROVE  FaultType'
BY BoundAssumption DEF TypeOK, FaultType, Works, Errs

(* A running handler serves a request.                                     *)
LEMMA RunningRequest ==
    ASSUME TInv, NEW p \in Procs, phase[p] = "run"
    PROVE  /\ key[p] \in Keys
           /\ key[p] \in Request
           /\ Vol(p) \in Volumes
           /\ h[p] \in Handler
           /\ ais[Vol(p)] \in Ai
           /\ DateraType
<1>1. key[p] \in Keys BY DEF TInv, TypeOK, GuardTypeOK, ServesAKey
<1>2. key[p] \in Request BY <1>1, RequestAssumption
<1>3. Vol(p) \in Volumes BY <1>2 DEF Request, Vol
<1> QED BY <1>1, <1>2, <1>3 DEF TInv, TypeOK, DateraType, Ai

-----------------------------------------------------------------------------
(* The types are kept by every call of every handler.                      *)

(* The type invariant survives the computation of the size.                *)
LEMMA SizeVolumeType ==
    ASSUME TInv, NEW p \in Procs, phase[p] = "run", SizeVolume(p), DateraType', FaultType'
    PROVE  TInv'
<1>1. key[p] \in Request /\ h[p] \in Handler BY RunningRequest
<1>2. SizeOf(key[p].cr) \in Nat
    BY <1>1, SizeAssumption DEF SizeOf, Limit, Request, CapacityRange
<1>3. ASSUME NEW n \in Nat, NEW pc \in Pcs
      PROVE  [h[p] EXCEPT !.size = n, !.pc = pc] \in Handler
    BY <1>1 DEF Handler
<1>4. CASE BadRange(key[p].cr)
    BY <1>1, <1>4, AnswerType DEF SizeVolume, Codes
<1>5. CASE ~BadRange(key[p].cr)
    <2> DEFINE pc == IF Vanilla(key[p]) THEN "cv_version" ELSE "cv_create"
    <2>1. pc \in Pcs BY DEF Pcs
    <2>2. [h[p] EXCEPT !.size = SizeOf(key[p].cr), !.pc = pc] \in Handler
        BY <1>2, <1>3, <2>1
    <2> QED BY <1>5, <2>2, StepType DEF SizeVolume
<1> QED BY <1>4, <1>5

(* The type invariant survives CreateVolume looking its name up.           *)
LEMMA CV_GetType ==
    ASSUME TInv, NEW p \in Procs, CV_Get(p)
    PROVE  TInv'
<1>1. phase[p] = "run" BY DEF CV_Get, At
<1>2. h[p] \in Handler /\ ais[Vol(p)] \in Ai /\ DateraType BY <1>1, RunningRequest
<1>3. FaultType' BY FaultsType DEF CV_Get, Fails, TInv
<1>4. DateraType' BY <1>2 DEF CV_Get, dateraVars, DateraType
<1>5. ais[Vol(p)].size * GiB \in Nat /\ ais[Vol(p)].uid \in Nat
    BY <1>2, SizeAssumption DEF Ai, AppInstance
<1>6. /\ [h[p] EXCEPT !.uid = ais[Vol(p)].uid] \in Handler
      /\ [h[p] EXCEPT !.pc = "cv_srcget"] \in Handler
    BY <1>2, <1>5 DEF Handler, Pcs
<1>7. {"OK", "AlreadyExists", "InvalidArgument"} \subseteq Codes BY DEF Codes
<1> QED BY <1>1, <1>2, <1>3, <1>4, <1>5, <1>6, <1>7, StepType, AnswerType, SizeVolumeType
        DEF CV_Get

(* The type invariant survives CreateVolume finding the parent of its      *)
(* source.                                                                 *)
LEMMA CV_SrcGetType ==
    ASSUME TInv, NEW p \in Procs, CV_SrcGet(p)
    PROVE  TInv'
<1>1. phase[p] = "run" BY DEF CV_SrcGet, At
<1>2. /\ h[p] \in Handler /\ key[p] \in Request
      /\ ais[Vol(p)] \in Ai /\ DateraType
    BY <1>1, RunningRequest
<1>3. FaultType' BY FaultsType DEF CV_SrcGet, Fails, TInv
<1>4. DateraType' BY <1>2 DEF CV_SrcGet, dateraVars, DateraType
<1>5. key[p].src.vol \in Volumes BY <1>2 DEF Request, Source
<1>6. ais[key[p].src.vol].uid \in Nat BY <1>2, <1>5 DEF DateraType, Ai, AppInstance
<1>7. /\ [h[p] EXCEPT !.uid = ais[key[p].src.vol].uid, !.pc = "cv_srcreload"] \in Handler
    BY <1>2, <1>5, <1>6 DEF Handler, Pcs
<1>8. {"InvalidArgument"} \subseteq Codes BY DEF Codes
<1> QED BY <1>1, <1>2, <1>3, <1>4, <1>5, <1>6, <1>7, <1>8, StepType, AnswerType
        DEF CV_SrcGet

(* The type invariant survives CreateVolume reloading the parent of its    *)
(* source.                                                                 *)
LEMMA CV_SrcReloadType ==
    ASSUME TInv, NEW p \in Procs, CV_SrcReload(p)
    PROVE  TInv'
<1>1. phase[p] = "run" BY DEF CV_SrcReload, At
<1>2. /\ h[p] \in Handler /\ key[p] \in Request
      /\ ais[Vol(p)] \in Ai /\ DateraType
    BY <1>1, RunningRequest
<1>3. FaultType' BY FaultsType DEF CV_SrcReload, Fails, TInv
<1>4. DateraType' BY <1>2 DEF CV_SrcReload, dateraVars, DateraType
<1>5. /\ [h[p] EXCEPT !.pc = "cv_srclist"] \in Handler
    BY <1>2 DEF Handler, Pcs
<1>6. {"InvalidArgument"} \subseteq Codes BY DEF Codes
<1> QED BY <1>1, <1>2, <1>3, <1>4, <1>5, <1>6, StepType, AnswerType
        DEF CV_SrcReload

(* The type invariant survives CreateVolume listing the snapshots of the   *)
(* parent.                                                                 *)
LEMMA CV_SrcListType ==
    ASSUME TInv, NEW p \in Procs, CV_SrcList(p)
    PROVE  TInv'
<1>1. phase[p] = "run" BY DEF CV_SrcList, At
<1>2. /\ h[p] \in Handler /\ key[p] \in Request
      /\ ais[Vol(p)] \in Ai /\ DateraType
    BY <1>1, RunningRequest
<1>3. FaultType' BY FaultsType DEF CV_SrcList, Fails, TInv
<1>4. DateraType' BY <1>2 DEF CV_SrcList, dateraVars, DateraType
<1>5. {"InvalidArgument"} \subseteq Codes BY DEF Codes
<1> QED BY <1>1, <1>2, <1>3, <1>4, <1>5, StepType, AnswerType, SizeVolumeType
        DEF CV_SrcList

(* The type invariant survives CreateVolume asking for the version.        *)
LEMMA CV_VersionType ==
    ASSUME TInv, NEW p \in Procs, CV_Version(p)
    PROVE  TInv'
<1>1. phase[p] = "run" BY DEF CV_Version, At
<1>2. /\ h[p] \in Handler /\ key[p] \in Request
      /\ ais[Vol(p)] \in Ai /\ DateraType
    BY <1>1, RunningRequest
<1>3. FaultType' BY FaultsType DEF CV_Version, TInv
<1>4. DateraType' BY <1>2 DEF CV_Version, dateraVars, DateraType
<1>5. /\ [h[p] EXCEPT !.pc = "cv_create"] \in Handler
    BY <1>2 DEF Handler, Pcs
<1>6. {"Unknown"} \subseteq Codes BY DEF Codes
<1> QED BY <1>1, <1>2, <1>3, <1>4, <1>5, <1>6, StepType, AnswerType
        DEF CV_Version

(* The type invariant survives DeleteVolume looking its volume up.         *)
LEMMA DV_GetType ==
    ASSUME TInv, NEW p \in Procs, DV_Get(p)
    PROVE  TInv'
<1>1. phase[p] = "run" BY DEF DV_Get, At
<1>2. /\ h[p] \in Handler /\ key[p] \in Request
      /\ ais[Vol(p)] \in Ai /\ DateraType
    BY <1>1, RunningRequest
<1>3. FaultType' BY FaultsType DEF DV_Get, Fails, TInv
<1>4. DateraType' BY <1>2 DEF DV_Get, dateraVars, DateraType
<1>5. ais[Vol(p)].uid \in Nat /\ ais[Vol(p)].size \in Nat BY <1>2 DEF Ai, AppInstance
<1>6. /\ [h[p] EXCEPT !.uid = ais[Vol(p)].uid, !.pc = "dv_reload"] \in Handler
    BY <1>2, <1>5 DEF Handler, Pcs
<1>7. {"OK"} \subseteq Codes BY DEF Codes
<1> QED BY <1>1, <1>2, <1>3, <1>4, <1>5, <1>6, <1>7, StepType, AnswerType
        DEF DV_Get

(* The type invariant survives DeleteVolume reloading its volume.          *)
LEMMA DV_ReloadType ==
    ASSUME TInv, NEW p \in Procs, DV_Reload(p)
    PROVE  TInv'
<1>1. phase[p] = "run" BY DEF DV_Reload, At
<1>2. /\ h[p] \in Handler /\ key[p] \in Request
      /\ ais[Vol(p)] \in Ai /\ DateraType
    BY <1>1, RunningRequest
<1>3. FaultType' BY FaultsType DEF DV_Reload, Fails, TInv
<1>4. DateraType' BY <1>2 DEF DV_Reload, dateraVars, DateraType
<1>5. /\ [h[p] EXCEPT !.pc = "dv_list"] \in Handler
      /\ [h[p] EXCEPT !.blind = TRUE, !.pc = "dv_offline"] \in Handler
    BY <1>2 DEF Handler, Pcs
<1> QED BY <1>1, <1>2, <1>3, <1>4, <1>5, StepType, AnswerType
        DEF DV_Reload

(* The type invariant survives DeleteVolume listing snapshots.             *)
LEMMA DV_ListType ==
    ASSUME TInv, NEW p \in Procs, DV_List(p)
    PROVE  TInv'
<1>1. phase[p] = "run" BY DEF DV_List, At
<1>2. /\ h[p] \in Handler /\ key[p] \in Request
      /\ ais[Vol(p)] \in Ai /\ DateraType
    BY <1>1, RunningRequest
<1>3. FaultType' BY FaultsType DEF DV_List, Fails, TInv
<1>4. DateraType' BY <1>2 DEF DV_List, dateraVars, DateraType
<1>5. /\ [h[p] EXCEPT !.since = clock, !.pc = "dv_offline"] \in Handler
    BY <1>2 DEF Handler, Pcs, DateraType
<1>6. {"OK", "FailedPrecondition"} \subseteq Codes BY DEF Codes
<1> QED BY <1>1, <1>2, <1>3, <1>4, <1>5, <1>6, StepType, AnswerType
        DEF DV_List

(* The type invariant survives CreateSnapshot looking its volume up.       *)
LEMMA CS_GetType ==
    ASSUME TInv, NEW p \in Procs, CS_Get(p)
    PROVE  TInv'
<1>1. phase[p] = "run" BY DEF CS_Get, At
<1>2. /\ h[p] \in Handler /\ key[p] \in Request
      /\ ais[Vol(p)] \in Ai /\ DateraType
    BY <1>1, RunningRequest
<1>3. FaultType' BY FaultsType DEF CS_Get, Fails, TInv
<1>4. DateraType' BY <1>2 DEF CS_Get, dateraVars, DateraType
<1>5. ais[Vol(p)].uid \in Nat /\ ais[Vol(p)].size \in Nat BY <1>2 DEF Ai, AppInstance
<1>6. /\ [h[p] EXCEPT !.uid = ais[Vol(p)].uid, !.size = ais[Vol(p)].size, !.pc = "cs_create"] \in Handler
    BY <1>2, <1>5 DEF Handler, Pcs
<1>7. {"NotFound"} \subseteq Codes BY DEF Codes
<1> QED BY <1>1, <1>2, <1>3, <1>4, <1>5, <1>6, <1>7, StepType, AnswerType
        DEF CS_Get

(* The type invariant survives DeleteSnapshot looking its volume up.       *)
LEMMA DS_GetType ==
    ASSUME TInv, NEW p \in Procs, DS_Get(p)
    PROVE  TInv'
<1>1. phase[p] = "run" BY DEF DS_Get, At
<1>2. /\ h[p] \in Handler /\ key[p] \in Request
      /\ ais[Vol(p)] \in Ai /\ DateraType
    BY <1>1, RunningRequest
<1>3. FaultType' BY FaultsType DEF DS_Get, Fails, TInv
<1>4. DateraType' BY <1>2 DEF DS_Get, dateraVars, DateraType
<1>5. ais[Vol(p)].uid \in Nat /\ ais[Vol(p)].size \in Nat BY <1>2 DEF Ai, AppInstance
<1>6. /\ [h[p] EXCEPT !.uid = ais[Vol(p)].uid, !.pc = "ds_reload"] \in Handler
    BY <1>2, <1>5 DEF Handler, Pcs
<1>7. {"OK"} \subseteq Codes BY DEF Codes
<1> QED BY <1>1, <1>2, <1>3, <1>4, <1>5, <1>6, <1>7, StepType, AnswerType
        DEF DS_Get

(* The type invariant survives DeleteSnapshot reloading its volume.        *)
LEMMA DS_ReloadType ==
    ASSUME TInv, NEW p \in Procs, DS_Reload(p)
    PROVE  TInv'
<1>1. phase[p] = "run" BY DEF DS_Reload, At
<1>2. /\ h[p] \in Handler /\ key[p] \in Request
      /\ ais[Vol(p)] \in Ai /\ DateraType
    BY <1>1, RunningRequest
<1>3. FaultType' BY FaultsType DEF DS_Reload, Fails, TInv
<1>4. DateraType' BY <1>2 DEF DS_Reload, dateraVars, DateraType
<1>5. /\ [h[p] EXCEPT !.ts = key[p].ts, !.pc = "ds_delete"] \in Handler
    BY <1>2 DEF Handler, Pcs, Request
<1>6. {"OK"} \subseteq Codes BY DEF Codes
<1> QED BY <1>1, <1>2, <1>3, <1>4, <1>5, <1>6, StepType, AnswerType
        DEF DS_Reload

(* The type invariant survives ControllerExpandVolume looking its volume   *)
(* up.                                                                     *)
LEMMA EX_GetType ==
    ASSUME TInv, NEW p \in Procs, EX_Get(p)
    PROVE  TInv'
<1>1. phase[p] = "run" BY DEF EX_Get, At
<1>2. /\ h[p] \in Handler /\ key[p] \in Request
      /\ ais[Vol(p)] \in Ai /\ DateraType
    BY <1>1, RunningRequest
<1>3. FaultType' BY FaultsType DEF EX_Get, Fails, TInv
<1>4. DateraType' BY <1>2 DEF EX_Get, dateraVars, DateraType
<1>5. ais[Vol(p)].uid \in Nat /\ ais[Vol(p)].size \in Nat BY <1>2 DEF Ai, AppInstance
<1>6. /\ [h[p] EXCEPT !.uid = ais[Vol(p)].uid, !.pc = "ex_set"] \in Handler
    BY <1>2, <1>5 DEF Handler, Pcs
<1>7. {"InvalidArgument"} \subseteq Codes BY DEF Codes
<1> QED BY <1>1, <1>2, <1>3, <1>4, <1>5, <1>6, <1>7, StepType, AnswerType
        DEF EX_Get

(* The type invariant survives ControllerExpandVolume reading the volume   *)
(* back.                                                                   *)
LEMMA EX_ReloadType ==
    ASSUME TInv, NEW p \in Procs, EX_Reload(p)
    PROVE  TInv'
<1>1. phase[p] = "run" BY DEF EX_Reload, At
<1>2. /\ h[p] \in Handler /\ key[p] \in Request
      /\ ais[Vol(p)] \in Ai /\ DateraType
    BY <1>1, RunningRequest
<1>3. FaultType' BY FaultsType DEF EX_Reload, Fails, TInv
<1>4. DateraType' BY <1>2 DEF EX_Reload, dateraVars, DateraType
<1>5. key[p].cr.required \in Nat BY <1>2 DEF Request, CapacityRange
<1>6. {"OK", "Unknown"} \subseteq Codes BY DEF Codes
<1> QED BY <1>1, <1>2, <1>3, <1>4, <1>5, <1>6, StepType, AnswerType
        DEF EX_Reload

(* The type invariant survives a request answered without a call.          *)
LEMMA RejectType ==
    ASSUME TInv, NEW p \in Procs, Reject(p)
    PROVE  TInv'
<1>1. phase[p] = "run" BY DEF Reject, At
<1>2. /\ h[p] \in Handler /\ key[p] \in Request
      /\ ais[Vol(p)] \in Ai /\ DateraType
    BY <1>1, RunningRequest
<1>3. FaultType' BY FaultsType DEF Reject, TInv
<1>4. DateraType' BY <1>2 DEF Reject, dateraVars, DateraType
<1>5. {"OK", "InvalidArgument"} \subseteq Codes BY DEF Codes
<1> QED BY <1>1, <1>2, <1>3, <1>4, <1>5, StepType, AnswerType
        DEF Reject

(* The type invariant survives a round of the availability poll.           *)
LEMMA CS_PollType ==
    ASSUME TInv, NEW p \in Procs, CS_Poll(p)
    PROVE  TInv'
<1>1. phase[p] = "run" BY DEF CS_Poll, At
<1>2. /\ h[p] \in Handler /\ key[p] \in Request
      /\ ais[Vol(p)] \in Ai /\ DateraType
    BY <1>1, RunningRequest
<1>3. FaultType' BY FaultsType DEF CS_Poll, Fails, TInv
<1>4. DateraType' BY <1>2 DEF CS_Poll, dateraVars, DateraType
<1>5. h[p].size * GiB \in Nat BY <1>2, SizeAssumption DEF Handler
<1>6. /\ [h[p] EXCEPT !.polls = @ + 1] \in Handler
    BY <1>2, <1>5 DEF Handler, Pcs
<1>7. {"OK", "Unknown"} \subseteq Codes BY DEF Codes
<1> QED BY <1>1, <1>2, <1>3, <1>4, <1>5, <1>6, <1>7, StepType, AnswerType
        DEF CS_Poll, PollAgain

(* The size of a new volume is a number: a clone is only made of a         *)
(* snapshot that is there.                                                 *)
LEMMA NewSizeType ==
    ASSUME TInv, NEW p \in Procs, phase[p] = "run", Creatable(p)
    PROVE  NewSize(p) \in Nat /\ Content(key[p]) \in Contents
<1>1. /\ h[p] \in Handler /\ key[p] \in Request /\ DateraType BY RunningRequest
<1>2. Content(key[p]) \in Contents BY DEF Content, Contents
<1>3. CASE Content(key[p]) = "snapshot"
    <2> DEFINE v == key[p].src.vol
               S == SnapsAt(v, key[p].src.ts)
    <2>1. v \in Volumes BY <1>1 DEF Request, Source
    <2>2. S \subseteq Snapshot BY <1>1, <2>1 DEF DateraType, Ai, AppInstance, SnapsAt
    <2>3. S # {} BY <1>3 DEF Creatable, SourceThere
    <2>4. (CHOOSE s \in S : TRUE) \in S BY <2>3
    <2>5. (CHOOSE s \in S : TRUE).size \in Nat BY <2>2, <2>4 DEF Snapshot
    <2> QED BY <1>2, <1>3, <2>5 DEF NewSize
<1>4. CASE Content(key[p]) # "snapshot" /\ key[p].template = "fixed"
    BY <1>2, <1>4, SizeAssumption DEF NewSize
<1>5. CASE Content(key[p]) # "snapshot" /\ key[p].template # "fixed"
    <2>1. h[p].size \in Nat BY <1>1 DEF Handler
    <2> QED BY <1>2, <1>5, <2>1 DEF NewSize
<1> QED BY <1>3, <1>4, <1>5

(* The type invariant survives the creation of an app instance.            *)
LEMMA CV_CreateType ==
    ASSUME TInv, NEW p \in Procs, CV_Create(p)
    PROVE  TInv'
<1>1. phase[p] = "run" BY DEF CV_Create, At
<1>2. /\ h[p] \in Handler /\ key[p] \in Request /\ key[p] \in Keys
      /\ Vol(p) \in Volumes /\ ais[Vol(p)] \in Ai /\ DateraType
    BY <1>1, RunningRequest
<1>3. FaultType' BY FaultsType DEF CV_Create, Fails, TInv
<1>4. DateraType'
    <2>1. CASE Creatable(p) /\ AiCreate(Vol(p), NewSize(p), Content(key[p]), key[p])
        BY <1>1, <1>2, <2>1, NewSizeType, AiCreateType
    <2>2. CASE UNCHANGED dateraVars BY <1>2, <2>2 DEF dateraVars, DateraType
    <2> QED BY <2>1, <2>2 DEF CV_Create
<1>5. [h[p] EXCEPT !.uid = uids, !.pc = "cv_md"] \in Handler
    BY <1>2 DEF Handler, Pcs, DateraType
<1>6. "Unknown" \in Codes BY DEF Codes
<1> QED BY <1>1, <1>2, <1>3, <1>4, <1>5, <1>6, StepType, AnswerType DEF CV_Create

(* The type invariant survives the metadata call of CreateVolume.          *)
LEMMA CV_MdType ==
    ASSUME TInv, NEW p \in Procs, CV_Md(p)
    PROVE  TInv'
<1>1. phase[p] = "run" BY DEF CV_Md, At
<1>2. /\ h[p] \in Handler /\ key[p] \in Request /\ key[p] \in Keys
      /\ Vol(p) \in Volumes /\ ais[Vol(p)] \in Ai /\ DateraType
    BY <1>1, RunningRequest
<1>3. FaultType' BY FaultsType DEF CV_Md, Fails, TInv
<1>4. DateraType'
    BY <1>2, AiSetMetadataType DEF CV_Md, dateraVars, DateraType
<1>5. h[p].size * GiB \in Nat /\ "OK" \in Codes
    BY <1>2, SizeAssumption DEF Handler, Codes
<1> QED BY <1>1, <1>2, <1>3, <1>4, <1>5, AnswerType DEF CV_Md

(* The type invariant survives taking a volume offline.                    *)
LEMMA DV_OfflineType ==
    ASSUME TInv, NEW p \in Procs, DV_Offline(p)
    PROVE  TInv'
<1>1. phase[p] = "run" BY DEF DV_Offline, At
<1>2. /\ h[p] \in Handler /\ key[p] \in Request /\ key[p] \in Keys
      /\ Vol(p) \in Volumes /\ ais[Vol(p)] \in Ai /\ DateraType
    BY <1>1, RunningRequest
<1>3. FaultType' BY FaultsType DEF DV_Offline, Fails, TInv
<1>4. DateraType'
    BY <1>2, AiOfflineType DEF DV_Offline, dateraVars, DateraType
<1>5. [h[p] EXCEPT !.pc = "dv_delete"] \in Handler /\ "OK" \in Codes
    BY <1>2 DEF Handler, Pcs, Codes
<1> QED BY <1>1, <1>2, <1>3, <1>4, <1>5, StepType, AnswerType DEF DV_Offline

(* The type invariant survives the deletion of an app instance.            *)
LEMMA DV_DeleteType ==
    ASSUME TInv, NEW p \in Procs, DV_Delete(p)
    PROVE  TInv'
<1>1. phase[p] = "run" BY DEF DV_Delete, At
<1>2. /\ h[p] \in Handler /\ key[p] \in Request /\ key[p] \in Keys
      /\ Vol(p) \in Volumes /\ ais[Vol(p)] \in Ai /\ DateraType
    BY <1>1, RunningRequest
<1>3. FaultType' BY FaultsType DEF DV_Delete, Fails, TInv
<1>4. DateraType'
    BY <1>2, AiDeleteType DEF DV_Delete, dateraVars, DateraType
<1>5. "OK" \in Codes BY DEF Codes
<1> QED BY <1>1, <1>2, <1>3, <1>4, <1>5, AnswerType DEF DV_Delete

(* The type invariant survives the creation of a snapshot.                 *)
LEMMA CS_CreateType ==
    ASSUME TInv, NEW p \in Procs, CS_Create(p)
    PROVE  TInv'
<1>1. phase[p] = "run" BY DEF CS_Create, At
<1>2. /\ h[p] \in Handler /\ key[p] \in Request /\ key[p] \in Keys
      /\ Vol(p) \in Volumes /\ ais[Vol(p)] \in Ai /\ DateraType
    BY <1>1, RunningRequest
<1>3. FaultType' BY FaultsType DEF CS_Create, Fails, TInv
<1>4. DateraType'
    <2>1. key[p].name \in SnapNames BY <1>2 DEF Request
    <2> QED BY <1>2, <2>1, SnapCreateType DEF CS_Create, dateraVars, DateraType
<1>5. /\ [h[p] EXCEPT !.ts = clock, !.pc = "cs_poll"] \in Handler
      /\ [h[p] EXCEPT !.pc = "cs_byuuid"] \in Handler
      /\ "Unknown" \in Codes
    BY <1>2 DEF Handler, Pcs, Codes, DateraType
<1> QED BY <1>1, <1>2, <1>3, <1>4, <1>5, StepType, AnswerType DEF CS_Create

(* The type invariant survives finding the snapshot of an earlier attempt. *)
LEMMA CS_ByUuidType ==
    ASSUME TInv, NEW p \in Procs, CS_ByUuid(p)
    PROVE  TInv'
<1>1. phase[p] = "run" BY DEF CS_ByUuid, At
<1>2. /\ h[p] \in Handler /\ key[p] \in Request /\ key[p] \in Keys
      /\ Vol(p) \in Volumes /\ ais[Vol(p)] \in Ai /\ DateraType
    BY <1>1, RunningRequest
<1>3. FaultType' BY FaultsType DEF CS_ByUuid, Fails, TInv
<1>4. DateraType' BY <1>2 DEF CS_ByUuid, dateraVars, DateraType
<1>5. /\ h[p].size * GiB \in Nat
      /\ {"OK", "Unknown"} \subseteq Codes
    BY <1>2, SizeAssumption DEF Handler, Codes
<1>6. ASSUME NEW s \in SnapsNamed(Vol(p), key[p].name)
      PROVE  [h[p] EXCEPT !.ts = s.ts] \in Handler
    <2>1. s \in Snapshot BY <1>2 DEF SnapsNamed, Ai, AppInstance
    <2> QED BY <1>2, <2>1 DEF Handler, Snapshot
<1> QED BY <1>1, <1>2, <1>3, <1>4, <1>5, <1>6, AnswerType DEF CS_ByUuid

(* The type invariant survives the deletion of a snapshot.                 *)
LEMMA DS_DeleteType ==
    ASSUME TInv, NEW p \in Procs, DS_Delete(p)
    PROVE  TInv'
<1>1. phase[p] = "run" BY DEF DS_Delete, At
<1>2. /\ h[p] \in Handler /\ key[p] \in Request /\ key[p] \in Keys
      /\ Vol(p) \in Volumes /\ ais[Vol(p)] \in Ai /\ DateraType
    BY <1>1, RunningRequest
<1>3. FaultType' BY FaultsType DEF DS_Delete, Fails, TInv
<1>4. DateraType'
    <2>1. h[p].ts \in Nat BY <1>2 DEF Handler
    <2> QED BY <1>2, <2>1, SnapDeleteType DEF DS_Delete, dateraVars, DateraType
<1>5. "OK" \in Codes BY DEF Codes
<1> QED BY <1>1, <1>2, <1>3, <1>4, <1>5, AnswerType DEF DS_Delete

(* The type invariant survives the resize of a volume.                     *)
LEMMA EX_SetType ==
    ASSUME TInv, NEW p \in Procs, EX_Set(p)
    PROVE  TInv'
<1>1. phase[p] = "run" BY DEF EX_Set, At
<1>2. /\ h[p] \in Handler /\ key[p] \in Request /\ key[p] \in Keys
      /\ Vol(p) \in Volumes /\ ais[Vol(p)] \in Ai /\ DateraType
    BY <1>1, RunningRequest
<1>3. FaultType' BY FaultsType DEF EX_Set, Fails, TInv
<1>4. DateraType'
    <2>1. ExpandedSize(key[p].cr) \in Nat
        BY <1>2, SizeAssumption DEF ExpandedSize, Request, CapacityRange
    <2> QED BY <1>2, <2>1, AiResizeType DEF EX_Set, dateraVars, DateraType
<1>5. [h[p] EXCEPT !.pc = "ex_reload"] \in Handler /\ "Unknown" \in Codes
    BY <1>2 DEF Handler, Pcs, Codes
<1> QED BY <1>1, <1>2, <1>3, <1>4, <1>5, StepType, AnswerType DEF EX_Set

-----------------------------------------------------------------------------
(* Entering and leaving a handler, and the environment.                    *)

(* A goroutine that does not run is not between two calls of a handler, so *)
(* the lookup of InitFunc leaves PhaseMatches alone.                       *)
LEMMA CallType ==
    ASSUME TInv, NEW p \in Procs, NEW r \in Keys, Call(p, r)
    PROVE  TInv'
<1>1. GuardTypeOK' /\ ServesAKey'
    BY NoKeyAssumption
    DEF TInv, TypeOK, Call, FindKey, MissKey, GuardTypeOK, ServesAKey, Phases
<1>2. PhaseMatches'
    BY DEF TInv, TypeOK, Call, FindKey, MissKey, GuardTypeOK, PhaseMatches
<1> QED BY <1>1, <1>2 DEF TInv, TypeOK, Call, dateraVars

(* The type invariant survives letting a request in.                       *)
LEMMA AdmitType ==
    ASSUME TInv, NEW p \in Procs, Admit(p)
    PROVE  TInv'
<1>1. key[p] \in Keys BY DEF TInv, TypeOK, GuardTypeOK, ServesAKey, Admit, Record
<1>2. GuardTypeOK' /\ ServesAKey'
    BY <1>1 DEF TInv, TypeOK, Admit, Record, GuardTypeOK, ServesAKey, Phases
<1>3. FirstCall(key[p]) \in Pcs
    BY <1>1, RequestAssumption DEF FirstCall, Pcs, Request, Op
<1>4. [Idle EXCEPT !.pc = FirstCall(key[p])] \in Handler
    BY <1>3 DEF Idle, Handler, Codes
<1>5. h' \in [Procs -> Handler] BY <1>4 DEF TInv, TypeOK, Admit
<1>6. PhaseMatches'
    BY DEF TInv, TypeOK, Admit, Record, GuardTypeOK, PhaseMatches
<1> QED BY <1>2, <1>5, <1>6 DEF TInv, TypeOK, Admit, dateraVars

(* The type invariant survives the cleaner of a handler.                   *)
LEMMA DoneType ==
    ASSUME TInv, NEW p \in Procs, Done(p)
    PROVE  TInv'
<1>1. key[p] \in Keys BY DEF TInv, TypeOK, GuardTypeOK, ServesAKey, Done, Clean
<1>2. GuardTypeOK' /\ ServesAKey'
    BY <1>1 DEF TInv, TypeOK, Done, Clean, GuardTypeOK, ServesAKey, Phases
<1>3. Idle \in Handler /\ Idle.pc = "idle" BY DEF Idle, Handler, Pcs, Codes
<1>4. h' \in [Procs -> Handler] BY <1>3 DEF TInv, TypeOK, Done
<1>5. PhaseMatches'
    BY <1>3 DEF TInv, TypeOK, Done, Clean, GuardTypeOK, PhaseMatches
<1>6. hit' \subseteq Procs BY DEF TInv, TypeOK, Done
<1> QED BY <1>2, <1>4, <1>5, <1>6 DEF TInv, TypeOK, Done, dateraVars

(* The type invariant survives the answer to a duplicate.                  *)
LEMMA AbortType ==
    ASSUME TInv, NEW p \in Procs, Abort(p)
    PROVE  TInv'
<1>1. GuardTypeOK' /\ ServesAKey'
    BY DEF TInv, TypeOK, Abort, ReturnDup, GuardTypeOK, ServesAKey, Phases
<1>2. PhaseMatches'
    BY DEF TInv, TypeOK, Abort, ReturnDup, GuardTypeOK, PhaseMatches
<1> QED BY <1>1, <1>2 DEF TInv, TypeOK, Abort, dateraVars

(* The type invariant survives the death of the process.                   *)
LEMMA DieType ==
    ASSUME TInv, Die
    PROVE  TInv'
<1>1. GuardTypeOK' /\ ServesAKey'
    BY DEF Die, Restart, GuardTypeOK, ServesAKey, Phases
<1>2. Idle \in Handler /\ Idle.pc = "idle" BY DEF Idle, Handler, Pcs, Codes
<1>3. h' \in [Procs -> Handler] /\ PhaseMatches'
    BY <1>2 DEF Die, PhaseMatches
<1>4. restarts' \in 0 .. MaxRestarts BY BoundAssumption DEF TInv, TypeOK, Die
<1> QED BY <1>1, <1>3, <1>4 DEF TInv, TypeOK, Die, dateraVars

(* The type invariant survives a snapshot becoming available.              *)
LEMMA ReadyType ==
    ASSUME TInv, Ready
    PROVE  TInv'
<1>1. DateraType BY DEF TInv, TypeOK, DateraType, Ai
<1>2. PICK v \in Volumes : \E s \in ais[v].snaps : SnapReady(v, s) BY DEF Ready
<1>3. DateraType' BY <1>1, <1>2, SnapReadyType
<1>4. GuardTypeOK' /\ ServesAKey' /\ PhaseMatches'
    BY DEF TInv, TypeOK, Ready, guardVars, GuardTypeOK, ServesAKey, PhaseMatches
<1> QED BY <1>3, <1>4 DEF TInv, TypeOK, DateraType, Ai, Ready

(* Before any request arrives the types hold.                              *)
LEMMA InitType == Init => TInv
<1> SUFFICES ASSUME Init PROVE TInv OBVIOUS
<1>1. GuardTypeOK /\ ServesAKey
    BY DEF Init, GuardInit, GuardTypeOK, ServesAKey, Phases
<1>2. Idle \in Handler /\ Idle.pc = "idle" BY DEF Idle, Handler, Pcs, Codes
<1>3. h \in [Procs -> Handler] /\ PhaseMatches BY <1>2 DEF Init, PhaseMatches
<1>4. Absent(NoKey) \in Ai BY DEF Absent, Ai, AppInstance, Contents
<1>5. DateraType BY <1>4 DEF Init, DateraInit, DateraType
<1> QED BY <1>1, <1>3, <1>5, BoundAssumption DEF TInv, TypeOK, DateraType, Ai, Init

(* Every step of the controller keeps the types.                           *)
LEMMA NextType == TInv /\ [Next]_vars => TInv'
<1> SUFFICES ASSUME TInv, [Next]_vars PROVE TInv' OBVIOUS
<1>1. ASSUME NEW p \in Procs, NEW r \in Keys, Call(p, r) PROVE TInv' BY <1>1, CallType
<1>2. ASSUME NEW p \in Procs, Handle(p) PROVE TInv'
    <2>1. CASE CreateVolume(p)
        BY <2>1, CV_GetType, CV_SrcGetType, CV_SrcReloadType, CV_SrcListType,
           CV_VersionType, CV_CreateType, CV_MdType
        DEF CreateVolume
    <2>2. CASE DeleteVolume(p)
        BY <2>2, DV_GetType, DV_ReloadType, DV_ListType, DV_OfflineType, DV_DeleteType
        DEF DeleteVolume
    <2>3. CASE CreateSnapshot(p)
        BY <2>3, CS_GetType, CS_CreateType, CS_ByUuidType, CS_PollType DEF CreateSnapshot
    <2>4. CASE DeleteSnapshot(p)
        BY <2>4, DS_GetType, DS_ReloadType, DS_DeleteType DEF DeleteSnapshot
    <2>5. CASE ControllerExpandVolume(p)
        BY <2>5, EX_GetType, EX_SetType, EX_ReloadType DEF ControllerExpandVolume
    <2>6. CASE Admit(p) \/ Reject(p) \/ Done(p) \/ Abort(p)
        BY <2>6, AdmitType, RejectType, DoneType, AbortType
    <2> QED BY <1>2, <2>1, <2>2, <2>3, <2>4, <2>5, <2>6 DEF Handle
<1>3. CASE Ready BY <1>3, ReadyType
<1>4. CASE Die BY <1>4, DieType
<1>5. CASE UNCHANGED vars
    BY <1>5 DEF vars, guardVars, dateraVars, TInv, TypeOK, GuardTypeOK, ServesAKey, PhaseMatches
<1> QED BY <1>1, <1>2, <1>3, <1>4, <1>5 DEF Next

(* The type invariant, with the phases that match it, holds throughout.    *)
LEMMA TypeInvariance == Spec => []TInv
<1>1. Init => TInv BY InitType
<1>2. TInv /\ [Next]_vars => TInv' BY NextType
<1> QED BY <1>1, <1>2, PTL DEF Spec

(* The controller's state keeps its types, whatever is requested and       *)
(* whichever calls fail.                                                   *)
THEOREM TypeCorrect == Spec => []TypeOK
<1>1. TInv => TypeOK BY DEF TInv
<1> QED BY <1>1, TypeInvariance, PTL

-----------------------------------------------------------------------------
(* The controller is a user of the guard.                                  *)

(* A call of a handler is nothing to the guard, or it is the handler's     *)
(* return.                                                                 *)
LEMMA HandlerIsQuiet ==
    ASSUME NEW p \in Procs,
           \/ CreateVolume(p) \/ DeleteVolume(p) \/ CreateSnapshot(p)
           \/ DeleteSnapshot(p) \/ ControllerExpandVolume(p) \/ Reject(p)
    PROVE  UNCHANGED guardVars \/ Return(p)
<1>1. ASSUME NEW r, Step(p, r) PROVE UNCHANGED guardVars BY <1>1 DEF Step
<1>2. ASSUME NEW r, NEW c, NEW n, Answer(p, r, c, n) PROVE Return(p) BY <1>2 DEF Answer
<1>3. SizeVolume(p) => UNCHANGED guardVars \/ Return(p) BY <1>1, <1>2 DEF SizeVolume
<1>4. CASE CreateVolume(p)
    BY <1>1, <1>2, <1>3, <1>4
    DEF CreateVolume, CV_Get, CV_SrcGet, CV_SrcReload, CV_SrcList, CV_Version, CV_Create, CV_Md
<1>5. CASE DeleteVolume(p)
    BY <1>1, <1>2, <1>5 DEF DeleteVolume, DV_Get, DV_Reload, DV_List, DV_Offline, DV_Delete
<1>6. CASE CreateSnapshot(p)
    BY <1>1, <1>2, <1>6 DEF CreateSnapshot, CS_Get, CS_Create, CS_ByUuid, CS_Poll, PollAgain
<1>7. CASE DeleteSnapshot(p)
    BY <1>1, <1>2, <1>7 DEF DeleteSnapshot, DS_Get, DS_Reload, DS_Delete
<1>8. CASE ControllerExpandVolume(p)
    BY <1>1, <1>2, <1>8 DEF ControllerExpandVolume, EX_Get, EX_Set, EX_Reload
<1>9. CASE Reject(p) BY <1>2, <1>9 DEF Reject
<1> QED BY <1>4, <1>5, <1>6, <1>7, <1>8, <1>9

(* Every step of the controller is a step of the guard or leaves it alone. *)
LEMMA NextRefinesGuard == [Next]_vars => [GuardNext]_guardVars
<1> SUFFICES ASSUME [Next]_vars PROVE [GuardNext]_guardVars OBVIOUS
<1>1. ASSUME NEW p \in Procs, NEW r \in Keys, Call(p, r) PROVE GuardNext
    BY <1>1 DEF Call, GuardNext
<1>2. ASSUME NEW p \in Procs, Handle(p) PROVE GuardNext \/ UNCHANGED guardVars
    BY <1>2, HandlerIsQuiet DEF Handle, Admit, Done, Abort, GuardNext
<1>3. CASE Ready BY <1>3 DEF Ready
<1>4. CASE Die BY <1>4 DEF Die, GuardNext
<1>5. CASE UNCHANGED vars BY <1>5 DEF vars
<1> QED BY <1>1, <1>2, <1>3, <1>4, <1>5 DEF Next

(* The controller implements the guard: no handler leaves by a path that   *)
(* skips its cleaner or enters by one that skips the lookup.               *)
THEOREM ControllerRefinesGuard == Spec => GuardSpec
<1>1. Init => GuardInit BY DEF Init
<1>2. [Next]_vars => [GuardNext]_guardVars BY NextRefinesGuard
<1> QED BY <1>1, <1>2, PTL DEF Spec, GuardSpec

(* What the guard promises therefore holds of the controller's requests.   *)
THEOREM ControllerExcludes == Spec => [](ExclusiveUnlessRace /\ KeyHasOwner)
BY ControllerRefinesGuard, GuardExcludes, GuardKeepsNoOrphan, PTL
=============================================================================
