----------------------- MODULE NodeServiceInvariants -----------------------
(***************************************************************************)
(* The inductive invariant NodeInv of NodeService, and the proof that      *)
(* every action keeps it.                                                  *)
(***************************************************************************)
EXTENDS NodeServiceTypes

-----------------------------------------------------------------------------
(* The inductive invariant, for volumes that are used on one node at a     *)
(* time and hosts on which lsblk and umount work.                          *)

Regular == ~LsblkFails /\ ~UmountFails

OneNode == vol.access \notin MultiNode

Active(r) == h[r].pc # "idle"

St(n) == [op |-> "stage", at |-> n]
Un(n) == [op |-> "unstage", at |-> n]
Pub(t) == [op |-> "publish", at |-> t]

(* What the caller keeps to: it remembers what it has asked for, pods come *)
(* and go while the volume is staged, and one node has it at a time.       *)
CallerInv ==
    /\ \A r \in Requests :
         Active(r) =>
            co[r.at] = CASE r.op \in {"stage", "publish"} -> "coming"
                         [] r.op \in {"unstage", "unpublish"} -> "leaving"
                         [] r.op = "expand" -> "in"
    /\ \A t \in Targets : co[t] # "out" => co[Home[t]] = "in"
    /\ \A m, n \in Nodes : (co[m] # "out" /\ co[n] # "out") => m = n

(* The record "formatted", in the metadata and in what handlers hold of    *)
(* them, is true.                                                          *)
RecordInv ==
    /\ vol.md.formatted => vol.content # "blank"
    /\ \A r \in Requests : h[r].md.formatted => vol.content # "blank"

(* Only volumes with a file system are mounted, or recorded as such.       *)
MountKeyInv ==
    /\ vol.md.mount = "staging" => vol.access = "mount"
    /\ \A n \in Nodes : host[n].staged => vol.access = "mount"
    /\ \A r \in Requests :
         (h[r].mpath = "staging" \/ h[r].md.mount = "staging") => vol.access = "mount"

(* How far NodeStageVolume has got on node n.                              *)
StageAt(n) ==
    LET hr == h[St(n)] IN
    /\ hr.pc \notin {"idle", "Get"} => vol.content # "gone"
    /\ hr.pc \notin {"idle", "Get", "Md"} => vol.access # "other"
    /\ hr.pc \in {"Online", "Login", "FindFs", "Mkfs", "Mount", "WriteMd"} => n \in vol.acl
    /\ hr.pc \in {"Login", "FindFs", "Mkfs", "Mount", "WriteMd"} => vol.online
    /\ hr.pc \in {"FindFs", "Mkfs", "Mount", "WriteMd"} => host[n].session
    /\ hr.pc \in {"FindFs", "Mkfs", "Mount"} => vol.access = "mount"
    /\ hr.pc = "Mkfs" => vol.content \in {"blank", "fs"}
    /\ (hr.pc = "WriteMd" /\ vol.access = "mount") =>
          host[n].staged /\ HasFs /\ hr.md.mount = "staging"

StageInv == \A n \in Nodes : StageAt(n)

(* A staged volume is usable and, short of an error, its mount is in the   *)
(* metadata, where publish and unpublish leave it.                         *)
StagedAt(n) ==
    co[n] = "in" =>
        /\ host[n].session /\ n \in vol.acl /\ vol.online
        /\ vol.content # "gone" /\ vol.access # "other"
        /\ vol.access = "mount" => host[n].staged /\ HasFs
        /\ (vol.access = "mount" /\ n \notin dirty) => vol.md.mount = "staging"

KeepsMount(r) ==
    (/\ r.op \in {"publish", "unpublish"}
     /\ h[r].pc \in {"Mount", "WriteMd"}
     /\ vol.access = "mount"
     /\ On(r) \notin dirty)
    => h[r].md.mount = "staging"

StagedInv ==
    /\ \A n \in Nodes : StagedAt(n)
    /\ \A r \in Requests : KeepsMount(r)

(* How far NodeUnstageVolume has got on node n.                            *)
UnstageAt(n) ==
    LET hr == h[Un(n)] IN
    /\ (/\ co[n] \in {"coming", "leaving"}
        /\ hr.pc \in {"idle", "Get", "Unmount"} /\ h[St(n)].pc # "WriteMd"
        /\ n \notin dirty /\ host[n].staged)
          => vol.md.mount = "staging"
    /\ (hr.pc = "Unmount" /\ n \notin dirty /\ host[n].staged) => hr.mpath = "staging"
    /\ (hr.pc \notin {"idle", "Get", "Unmount"} /\ n \notin dirty) => ~host[n].staged
    /\ (hr.pc \in {"Init", "AclGet", "AclSet", "Offline", "Delete"} /\ n \notin dirty)
          => ~host[n].session
    /\ (hr.pc \in {"Offline", "Delete"} /\ dirty \cap Nodes = {}) => vol.acl = {}

UnstageInv == \A n \in Nodes : UnstageAt(n)

(* Short of an error, what is mounted is known to be, a session belongs to *)
(* a node that has the volume, and so does an entry of the ACL.            *)
LeaveAt(n) ==
    n \notin dirty =>
        /\ host[n].staged => co[n] # "out"
        /\ host[n].session => co[n] # "out"

AclKnown ==
    dirty \cap Nodes = {} =>
        /\ \A n \in vol.acl : co[n] # "out"
        /\ \A r \in Requests : h[r].pc = "AclSet" => \A n \in h[r].acl : co[n] # "out"

LeaveInv == (\A n \in Nodes : LeaveAt(n)) /\ AclKnown

(* What a pod sees is the volume.                                          *)
PodAt(t) ==
    /\ pods[t] # "none" => pods[t] = "vol" /\ co[t] # "out" /\ vol.access = "mount"
    /\ (co[t] = "in" \/ h[Pub(t)].pc = "WriteMd") => pods[t] = "vol"

PodInv == \A t \in Targets : PodAt(t)

NodeInv ==
    /\ NodeTypeOK
    /\ PcFits
    /\ CallerInv
    /\ MountKeyInv
    /\ StageInv
    /\ StagedInv
    /\ UnstageInv
    /\ LeaveInv
    /\ PodInv

-----------------------------------------------------------------------------
(* What a step does to the handlers and to what the caller knows.          *)

LEMMA RequestFields ==
    ASSUME NEW r \in Requests
    PROVE  /\ r.op \in {"stage", "unstage", "expand"} => r.at \in Nodes /\ On(r) = r.at
           /\ r.op \in {"publish", "unpublish"} => r.at \in Targets /\ On(r) = Home[r.at]
           /\ r.op \in {"stage", "unstage", "expand", "publish", "unpublish"}
           /\ r.op = "stage" => r = St(r.at)
           /\ r.op = "unstage" => r = Un(r.at)
           /\ r.op = "publish" => r = Pub(r.at)
BY NodeAssumption DEF Requests, On, St, Un, Pub

LEMMA RequestNames ==
    /\ \A n \in Nodes : St(n) \in Requests /\ St(n).op = "stage" /\ St(n).at = n
    /\ \A n \in Nodes : Un(n) \in Requests /\ Un(n).op = "unstage" /\ Un(n).at = n
    /\ \A t \in Targets : Pub(t) \in Requests /\ Pub(t).op = "publish" /\ Pub(t).at = t
BY DEF Requests, St, Un, Pub

LEMMA IdleFields ==
    /\ Idle.pc = "idle"
    /\ Idle.mpath = "absent"
    /\ Idle.md.mount = "absent"
    /\ Idle.md.formatted = FALSE
BY DEF Idle, NoMd

LEMMA GoMoves ==
    ASSUME NodeTypeOK, NEW r \in Requests, NEW hr, Go(r, hr)
    PROVE  /\ h'[r] = hr
           /\ \A q \in Requests : q # r => h'[q] = h[q]
           /\ co' = co
BY DEF NodeTypeOK, Go

LEMMA ReplyMoves ==
    ASSUME NodeTypeOK, NEW r \in Requests, NEW ok \in BOOLEAN, Reply(r, ok)
    PROVE  /\ h'[r] = Idle
           /\ \A q \in Requests : q # r => h'[q] = h[q]
           /\ \/ co'[r.at] = co[r.at]
              \/ ok /\ r.op \in {"stage", "publish"} /\ co'[r.at] = "in"
              \/ ok /\ r.op \in {"unstage", "unpublish"} /\ co'[r.at] = "out"
           /\ \A x \in Nodes \cup Targets : x # r.at => co'[x] = co[x]
BY DEF NodeTypeOK, Reply, Told, Requests

LEMMA RefusalMoves ==
    ASSUME NodeTypeOK, NEW r \in Requests, Reply(r, FALSE)
    PROVE  co' = co
BY DEF NodeTypeOK, Reply, Requests

LEMMA KillMoves ==
    ASSUME NodeTypeOK, NEW n \in Nodes, Kill(n)
    PROVE  /\ \A q \in Requests : On(q) = n => h'[q] = Idle
           /\ \A q \in Requests : On(q) # n => h'[q] = h[q]
           /\ dirty \subseteq dirty'
           /\ \A q \in Requests :
                (On(q) = n /\ q.op \in {"stage", "publish"} /\ h[q].pc = "WriteMd") => q.at \in dirty'
BY DEF NodeTypeOK, Kill, Soil, Unrecorded

(* While a stage or an unstage runs, nothing else does and no pod has the  *)
(* volume; while anything else runs, the volume is staged.                 *)
LEMMA Alone ==
    ASSUME NodeTypeOK, CallerInv, PodInv,
           NEW r \in Requests, Active(r), r.op \in {"stage", "unstage"}
    PROVE  /\ \A q \in Requests : q # r => h[q].pc = "idle"
           /\ \A n \in Nodes : n # r.at => co[n] = "out"
           /\ \A t \in Targets : co[t] = "out" /\ pods[t] = "none"
<1>1. r.at \in Nodes /\ co[r.at] \in {"coming", "leaving"}
  BY RequestFields DEF CallerInv
<1>2. \A n \in Nodes : n # r.at => co[n] = "out"
  BY <1>1 DEF CallerInv
<1>3. \A t \in Targets : co[t] = "out"
  <2> SUFFICES ASSUME NEW t \in Targets, co[t] # "out" PROVE FALSE
    OBVIOUS
  <2>1. co[Home[t]] = "in" /\ Home[t] \in Nodes
    BY NodeAssumption DEF CallerInv
  <2> QED BY <1>1, <1>2, <2>1
<1>4. \A t \in Targets : pods[t] = "none"
  BY <1>3 DEF PodInv, PodAt
<1>5. ASSUME NEW q \in Requests, q # r, Active(q) PROVE FALSE
  <2>1. co[q.at] # "out"
    BY <1>5, RequestFields DEF CallerInv
  <2>2. q.op \in {"stage", "unstage", "expand"} /\ q.at \in Nodes
    BY <1>3, <2>1, RequestFields
  <2>3. q.at = r.at
    BY <1>2, <2>1, <2>2
  <2>4. q.op = r.op
    BY <1>1, <1>5, <2>2, <2>3 DEF CallerInv
  <2> QED BY <1>5, <2>3, <2>4, RequestFields
<1> QED BY <1>2, <1>3, <1>4, <1>5 DEF Active

LEMMA InUse ==
    ASSUME NodeTypeOK, CallerInv, PodInv,
           NEW r \in Requests, Active(r), r.op \in {"expand", "publish", "unpublish"}
    PROVE  /\ co[On(r)] = "in"
           /\ \A q \in Requests : q.op \in {"stage", "unstage"} => h[q].pc = "idle"
           /\ \A n \in Nodes : n # On(r) => co[n] = "out"
<1>1. co[On(r)] = "in"
  BY RequestFields DEF CallerInv
<1>2. \A q \in Requests : q.op \in {"stage", "unstage"} => h[q].pc = "idle"
  <2> SUFFICES ASSUME NEW q \in Requests, q.op \in {"stage", "unstage"}, Active(q) PROVE FALSE
    BY DEF Active
  <2>1. h[r].pc = "idle"
    BY Alone
  <2> QED BY <2>1 DEF Active
<1>3. \A n \in Nodes : n # On(r) => co[n] = "out"
  BY <1>1, OnANode DEF CallerInv
<1> QED BY <1>1, <1>2, <1>3

-----------------------------------------------------------------------------
(* Steps by which a handler ends.                                          *)

LEMMA KillKeepsInv ==
    ASSUME NodeInv, NEW n \in Nodes, Kill(n), UNCHANGED <<vol, host, pods, co>>, NodeTypeOK'
    PROVE  NodeInv'
<1> USE KillMoves, IdleFields, RequestNames, RequestFields DEF NodeInv
<1>1. \A q \in Requests : h'[q] = Idle \/ (h'[q] = h[q] /\ On(q) # n)
  OBVIOUS
<1>2. PcFits'
  BY <1>1 DEF PcFits
<1>3. CallerInv'
  BY <1>1 DEF CallerInv, Active
<1>4. MountKeyInv'
  BY <1>1 DEF MountKeyInv
<1>5. StageInv'
  BY <1>1 DEF StageInv, StageAt, HasFs
<1>6. StagedInv'
  BY <1>1 DEF StagedInv, StagedAt, KeepsMount, HasFs
<1>7. UnstageInv'
  BY <1>1 DEF UnstageInv, UnstageAt
<1>8. LeaveInv'
  BY <1>1 DEF LeaveInv, LeaveAt, AclKnown
<1>9. PodInv'
  BY <1>1 DEF PodInv, PodAt
<1> QED BY <1>2, <1>3, <1>4, <1>5, <1>6, <1>7, <1>8, <1>9

LEMMA RefusalKeepsInv ==
    ASSUME NodeInv, NEW r \in Requests, Active(r), Reply(r, FALSE), Clean, UNCHANGED pods,
           h[r].pc # "WriteMd", r.op = "unstage" => h[r].pc = "Get",
           vol'.md = vol.md, vol'.acl = vol.acl, vol'.access = vol.access,
           vol.online => vol'.online,
           \/ vol'.content = vol.content
           \/ vol.content \in {"blank", "fs"} /\ vol'.content = "fs",
           \A n \in Nodes :
              /\ host'[n].staged = host[n].staged
              /\ \/ host'[n].session = host[n].session
                 \/ r.op = "stage" /\ n = r.at /\ host'[n].session,
           NodeTypeOK'
    PROVE  NodeInv'
<1> USE IdleFields, RequestNames, RequestFields DEF NodeInv
<1>1. /\ h'[r] = Idle
      /\ \A q \in Requests : q # r => h'[q] = h[q]
      /\ co' = co
      /\ dirty' = dirty
  BY ReplyMoves, RefusalMoves DEF Clean
<1>2. PcFits'
  BY <1>1 DEF PcFits
<1>3. CallerInv'
  BY <1>1 DEF CallerInv, Active
<1>4. MountKeyInv'
  BY <1>1 DEF MountKeyInv
<1>5. StageInv'
  BY <1>1 DEF StageInv, StageAt, HasFs
<1>6. StagedInv'
  BY <1>1 DEF StagedInv, StagedAt, KeepsMount, HasFs
<1>7. UnstageInv'
  <2>1. r.op = "stage" => \A n \in Nodes : h[Un(n)].pc = "idle"
    BY Alone
  <2>2. \A n \in Nodes : h'[St(n)].pc # "WriteMd" => h[St(n)].pc # "WriteMd"
    BY <1>1
  <2> QED BY <1>1, <2>1, <2>2 DEF UnstageInv, UnstageAt
<1>8. LeaveInv'
  <2>1. r.op = "stage" => co[r.at] # "out"
    BY DEF CallerInv
  <2> QED BY <1>1, <2>1 DEF LeaveInv, LeaveAt, AclKnown
<1>9. PodInv'
  BY <1>1 DEF PodInv, PodAt
<1> QED BY <1>2, <1>3, <1>4, <1>5, <1>6, <1>7, <1>8, <1>9

-----------------------------------------------------------------------------
(* Calls that several handlers make.                                       *)

LEMMA GetVolumeKeepsInv ==
    ASSUME NodeInv, NEW r \in Requests, GetVolume(r), NodeTypeOK'
    PROVE  NodeInv'
<1> USE DEF NodeInv
<1>1. Active(r) /\ UNCHANGED <<vol, host, pods>>
  BY DEF GetVolume, Active
<1>2. CASE Panic(r)
  BY <1>1, <1>2, OnANode, KillKeepsInv DEF Panic
<1>3. CASE Reply(r, FALSE) /\ Clean
  BY <1>1, <1>3, RefusalKeepsInv DEF GetVolume
<1>4. CASE /\ There /\ Clean
           /\ Go(r, [h[r] EXCEPT !.pc = IF r.op = "unstage" THEN "Unmount" ELSE "Md",
                                 !.mpath = vol.md.mount])
  <2>1. /\ h'[r].pc = IF r.op = "unstage" THEN "Unmount" ELSE "Md"
        /\ h'[r].mpath = vol.md.mount
        /\ h'[r].md = h[r].md
        /\ h'[r].acl = h[r].acl
        /\ \A q \in Requests : q # r => h'[q] = h[q]
        /\ co' = co
        /\ dirty' = dirty
        /\ h[r].pc = "Get"
    <3> DEFINE hr == [h[r] EXCEPT !.pc = IF r.op = "unstage" THEN "Unmount" ELSE "Md",
                                  !.mpath = vol.md.mount]
    <3>1. h[r] \in Handler
      BY DEF NodeTypeOK
    <3>2. /\ hr.pc = IF r.op = "unstage" THEN "Unmount" ELSE "Md"
          /\ hr.mpath = vol.md.mount
          /\ hr.md = h[r].md
          /\ hr.acl = h[r].acl
      BY <3>1 DEF Handler, Metadata
    <3> HIDE DEF hr
    <3>3. h'[r] = hr /\ (\A q \in Requests : q # r => h'[q] = h[q]) /\ co' = co
      BY <1>4, GoMoves DEF hr
    <3> QED BY <1>4, <3>2, <3>3 DEF Clean, GetVolume
  <2> USE RequestNames, RequestFields
  <2>2. PcFits'
    BY <2>1 DEF PcFits
  <2>3. CallerInv'
    BY <2>1 DEF CallerInv, Active
  <2>4. MountKeyInv'
    BY <1>1, <2>1 DEF MountKeyInv
  <2>5. StageInv'
    BY <1>1, <1>4, <2>1 DEF StageInv, StageAt, HasFs, There
  <2>6. StagedInv'
    BY <1>1, <2>1 DEF StagedInv, StagedAt, KeepsMount, HasFs
  <2>7. UnstageInv'
    BY <1>1, <2>1 DEF UnstageInv, UnstageAt, CallerInv, Active
  <2>8. LeaveInv'
    BY <1>1, <2>1 DEF LeaveInv, LeaveAt, AclKnown
  <2>9. PodInv'
    BY <1>1, <2>1 DEF PodInv, PodAt
  <2> QED BY <2>2, <2>3, <2>4, <2>5, <2>6, <2>7, <2>8, <2>9
<1> QED BY <1>2, <1>3, <1>4 DEF GetVolume

(* The five ways on with the metadata m that were read.                    *)
LEMMA WithMdMoves ==
    ASSUME NodeTypeOK, NEW r \in Requests, NEW m \in Metadata, WithMd(r, m),
           ~(r.op # "unstage" /\ Reply(r, FALSE))
    PROVE  /\ \/ r.op = "stage" /\ vol.access # "other" /\ h'[r].pc = "Init"
              \/ r.op = "publish" /\ h'[r].pc = "Mount"
              \/ r.op = "unpublish" /\ h'[r].pc = "WriteMd"
              \/ r.op = "unstage" /\ h'[r].pc = "WriteMd"
              \/ r.op = "expand" /\ h'[r].pc = "Size"
           /\ h'[r].md.mount = m.mount \/ (r.op = "unstage" /\ h'[r].md.mount # "staging")
           /\ h'[r].md.formatted = m.formatted
           /\ h'[r].mpath = h[r].mpath
           /\ \A q \in Requests : q # r => h'[q] = h[q]
           /\ co' = co
<1> DEFINE hr == [h[r] EXCEPT !.md = m]
           h1 == [hr EXCEPT !.pc = "Init"]
           h2 == [hr EXCEPT !.pc = "Mount"]
           h3 == [hr EXCEPT !.pc = "WriteMd"]
           h4 == [hr EXCEPT !.pc = "WriteMd", !.md.mount = ""]
           h5 == [hr EXCEPT !.pc = "Size", !.tries = SizeTimeout]
<1>1. hr \in Handler /\ hr.md = m /\ hr.mpath = h[r].mpath
  <2>1. h[r] \in Handler
    BY DEF NodeTypeOK
  <2> QED BY <2>1, HandlerSet DEF Handler
<1> HIDE DEF hr
<1>2. /\ h1.pc = "Init" /\ h2.pc = "Mount" /\ h3.pc = "WriteMd"
      /\ h4.pc = "WriteMd" /\ h5.pc = "Size"
      /\ h4.md.mount = "" /\ h4.md.formatted = hr.md.formatted /\ h4.mpath = hr.mpath
      /\ \A x \in {h1, h2, h3, h5} : x.md = hr.md /\ x.mpath = hr.mpath
  BY <1>1 DEF Handler, Metadata
<1>3. \/ r.op = "stage" /\ vol.access # "other" /\ Go(r, h1)
      \/ r.op = "publish" /\ Go(r, h2)
      \/ r.op = "unpublish" /\ Go(r, h3)
      \/ r.op = "unstage" /\ Go(r, h4)
      \/ r.op = "expand" /\ Go(r, h5)
  BY RequestFields DEF WithMd, hr
<1> HIDE DEF h1, h2, h3, h4, h5
<1>4. CASE r.op = "stage" /\ Go(r, h1) /\ vol.access # "other"
  BY <1>1, <1>2, <1>4, GoMoves
<1>5. CASE r.op = "publish" /\ Go(r, h2)
  BY <1>1, <1>2, <1>5, GoMoves
<1>6. CASE r.op = "unpublish" /\ Go(r, h3)
  BY <1>1, <1>2, <1>6, GoMoves
<1>7. CASE r.op = "unstage" /\ Go(r, h4)
  BY <1>1, <1>2, <1>7, GoMoves
<1>8. CASE r.op = "expand" /\ Go(r, h5)
  BY <1>1, <1>2, <1>8, GoMoves
<1> QED BY <1>3, <1>4, <1>5, <1>6, <1>7, <1>8

LEMMA WithMdKeepsInv ==
    ASSUME NodeInv, NEW r \in Requests, h[r].pc = "Md", NEW m \in Metadata, WithMd(r, m),
           m.mount = "staging" => vol.access = "mount",
           r.op # "unstage" => m.mount = vol.md.mount,
           Clean, UNCHANGED <<vol, host, pods>>, NodeTypeOK'
    PROVE  NodeInv'
<1> USE DEF NodeInv
<1>1. CASE r.op # "unstage" /\ Reply(r, FALSE)
  BY <1>1, RefusalKeepsInv DEF Active
<1>2. CASE ~(r.op # "unstage" /\ Reply(r, FALSE))
  <2>1. /\ \/ r.op = "stage" /\ vol.access # "other" /\ h'[r].pc = "Init"
           \/ r.op = "publish" /\ h'[r].pc = "Mount"
           \/ r.op = "unpublish" /\ h'[r].pc = "WriteMd"
           \/ r.op = "unstage" /\ h'[r].pc = "WriteMd"
           \/ r.op = "expand" /\ h'[r].pc = "Size"
        /\ h'[r].md.mount = m.mount \/ (r.op = "unstage" /\ h'[r].md.mount # "staging")
        /\ h'[r].mpath = h[r].mpath
        /\ \A q \in Requests : q # r => h'[q] = h[q]
        /\ co' = co
        /\ dirty' = dirty
    BY <1>2, WithMdMoves DEF Clean
  <2>2. h[r].pc = "Md" /\ UNCHANGED <<vol, host, pods>>
    OBVIOUS
  <2>0. r.op \in {"publish", "unpublish"} => On(r) \in Nodes /\ co[On(r)] = "in"
    BY InUse, OnANode DEF Active
  <2> USE RequestNames, RequestFields
  <2>3. CASE r.op = "stage" /\ h'[r].pc = "Init" /\ vol.access # "other"
    <3>1. PcFits'
      BY <2>1, <2>2, <2>3 DEF PcFits
    <3>2. CallerInv'
      BY <2>1, <2>2, <2>3 DEF CallerInv, Active
    <3>3. MountKeyInv'
      BY <2>1, <2>2, <2>3 DEF MountKeyInv
    <3>4. StageInv'
      BY <2>1, <2>2, <2>3 DEF StageInv, StageAt, HasFs
    <3>5. StagedInv'
      BY <2>1, <2>2, <2>3 DEF StagedInv, StagedAt, KeepsMount, HasFs, Active
    <3>6. UnstageInv'
      BY <2>1, <2>2, <2>3 DEF UnstageInv, UnstageAt, CallerInv, Active
    <3>7. LeaveInv'
      BY <2>1, <2>2, <2>3 DEF LeaveInv, LeaveAt, AclKnown
    <3>8. PodInv'
      BY <2>1, <2>2, <2>3 DEF PodInv, PodAt
    <3> QED BY <3>1, <3>2, <3>3, <3>4, <3>5, <3>6, <3>7, <3>8
  <2>4. CASE r.op = "publish" /\ h'[r].pc = "Mount"
    <3>1. PcFits'
      BY <2>1, <2>2, <2>4 DEF PcFits
    <3>2. CallerInv'
      BY <2>1, <2>2, <2>4 DEF CallerInv, Active
    <3>3. MountKeyInv'
      BY <2>1, <2>2, <2>4 DEF MountKeyInv
    <3>4. StageInv'
      BY <2>1, <2>2, <2>4 DEF StageInv, StageAt, HasFs
    <3>5. StagedInv'
      BY <2>1, <2>2, <2>4, <2>0 DEF StagedInv, StagedAt, KeepsMount, HasFs, Active
    <3>6. UnstageInv'
      BY <2>1, <2>2, <2>4 DEF UnstageInv, UnstageAt, CallerInv, Active
    <3>7. LeaveInv'
      BY <2>1, <2>2, <2>4 DEF LeaveInv, LeaveAt, AclKnown
    <3>8. PodInv'
      BY <2>1, <2>2, <2>4 DEF PodInv, PodAt
    <3> QED BY <3>1, <3>2, <3>3, <3>4, <3>5, <3>6, <3>7, <3>8
  <2>5. CASE r.op = "unpublish" /\ h'[r].pc = "WriteMd"
    <3>1. PcFits'
      BY <2>1, <2>2, <2>5 DEF PcFits
    <3>2. CallerInv'
      BY <2>1, <2>2, <2>5 DEF CallerInv, Active
    <3>3. MountKeyInv'
      BY <2>1, <2>2, <2>5 DEF MountKeyInv
    <3>4. StageInv'
      BY <2>1, <2>2, <2>5 DEF StageInv, StageAt, HasFs
    <3>5. StagedInv'
      BY <2>1, <2>2, <2>5, <2>0 DEF StagedInv, StagedAt, KeepsMount, HasFs, Active
    <3>6. UnstageInv'
      BY <2>1, <2>2, <2>5 DEF UnstageInv, UnstageAt, CallerInv, Active
    <3>7. LeaveInv'
      BY <2>1, <2>2, <2>5 DEF LeaveInv, LeaveAt, AclKnown
    <3>8. PodInv'
      BY <2>1, <2>2, <2>5 DEF PodInv, PodAt
    <3> QED BY <3>1, <3>2, <3>3, <3>4, <3>5, <3>6, <3>7, <3>8
  <2>6. CASE r.op = "unstage" /\ h'[r].pc = "WriteMd"
    <3>1. PcFits'
      BY <2>1, <2>2, <2>6 DEF PcFits
    <3>2. CallerInv'
      BY <2>1, <2>2, <2>6 DEF CallerInv, Active
    <3>3. MountKeyInv'
      BY <2>1, <2>2, <2>6 DEF MountKeyInv
    <3>4. StageInv'
      BY <2>1, <2>2, <2>6 DEF StageInv, StageAt, HasFs
    <3>5. StagedInv'
      BY <2>1, <2>2, <2>6 DEF StagedInv, StagedAt, KeepsMount, HasFs, Active
    <3>6. UnstageInv'
      BY <2>1, <2>2, <2>6 DEF UnstageInv, UnstageAt, CallerInv, Active
    <3>7. LeaveInv'
      BY <2>1, <2>2, <2>6 DEF LeaveInv, LeaveAt, AclKnown
    <3>8. PodInv'
      BY <2>1, <2>2, <2>6 DEF PodInv, PodAt
    <3> QED BY <3>1, <3>2, <3>3, <3>4, <3>5, <3>6, <3>7, <3>8
  <2>7. CASE r.op = "expand" /\ h'[r].pc = "Size"
    <3>1. PcFits'
      BY <2>1, <2>2, <2>7 DEF PcFits
    <3>2. CallerInv'
      BY <2>1, <2>2, <2>7 DEF CallerInv, Active
    <3>3. MountKeyInv'
      BY <2>1, <2>2, <2>7 DEF MountKeyInv
    <3>4. StageInv'
      BY <2>1, <2>2, <2>7 DEF StageInv, StageAt, HasFs
    <3>5. StagedInv'
      BY <2>1, <2>2, <2>7 DEF StagedInv, StagedAt, KeepsMount, HasFs, Active
    <3>6. UnstageInv'
      BY <2>1, <2>2, <2>7 DEF UnstageInv, UnstageAt, CallerInv, Active
    <3>7. LeaveInv'
      BY <2>1, <2>2, <2>7 DEF LeaveInv, LeaveAt, AclKnown
    <3>8. PodInv'
      BY <2>1, <2>2, <2>7 DEF PodInv, PodAt
    <3> QED BY <3>1, <3>2, <3>3, <3>4, <3>5, <3>6, <3>7, <3>8
  <2> QED BY <2>1, <2>3, <2>4, <2>5, <2>6, <2>7
<1> QED BY <1>1, <1>2

LEMMA GetMetadataKeepsInv ==
    ASSUME NodeInv, NEW r \in Requests, GetMetadata(r), NodeTypeOK'
    PROVE  NodeInv'
<1> USE DEF NodeInv
<1>1. h[r].pc = "Md" /\ Clean /\ UNCHANGED <<vol, host, pods>>
  BY DEF GetMetadata
<1>2. CASE WithMd(r, vol.md)
  <2>1. PICK m \in Metadata : m = vol.md
    BY VolumeFields
  <2> QED BY <1>1, <1>2, <2>1, WithMdKeepsInv DEF MountKeyInv
<1>3. CASE r.op = "unstage" /\ WithMd(r, NoMd)
  <2>1. NoMd \in Metadata /\ NoMd.mount # "staging"
    BY DEF NoMd, Metadata
  <2> QED BY <1>1, <1>3, <2>1, WithMdKeepsInv
<1>4. CASE r.op # "unstage" /\ Reply(r, FALSE)
  BY <1>1, <1>4, RefusalKeepsInv DEF Active
<1> QED BY <1>2, <1>3, <1>4 DEF GetMetadata

LEMMA CreateGetInitiatorKeepsInv ==
    ASSUME NodeInv, NEW r \in Requests, CreateGetInitiator(r), NodeTypeOK'
    PROVE  NodeInv'
<1> USE DEF NodeInv
<1>1. h[r].pc = "Init" /\ UNCHANGED <<vol, host, pods>>
  BY DEF CreateGetInitiator
<1>2. CASE Panic(r)
  BY <1>1, <1>2, OnANode, KillKeepsInv DEF Panic
<1>3. CASE r.op = "stage" /\ Reply(r, FALSE) /\ Clean
  BY <1>1, <1>3, RefusalKeepsInv DEF Active
<1>4. CASE Clean /\ Go(r, [h[r] EXCEPT !.pc = "AclGet"])
  <2>1. /\ h'[r].pc = "AclGet"
        /\ h'[r].mpath = h[r].mpath
        /\ h'[r].md = h[r].md
        /\ h'[r].acl = h[r].acl
        /\ \A q \in Requests : q # r => h'[q] = h[q]
        /\ co' = co
        /\ dirty' = dirty
        /\ h[r].pc = "Init"
    <3> DEFINE hr == [h[r] EXCEPT !.pc = "AclGet"]
    <3>1. h[r] \in Handler
      BY DEF NodeTypeOK
    <3>2. /\ hr.pc = "AclGet"
          /\ hr.mpath = h[r].mpath
          /\ hr.md = h[r].md
          /\ hr.acl = h[r].acl
      BY <3>1 DEF Handler, Metadata
    <3> HIDE DEF hr
    <3>3. h'[r] = hr /\ (\A q \in Requests : q # r => h'[q] = h[q]) /\ co' = co
      BY <1>1, <1>4, GoMoves DEF hr
    <3> QED BY <1>1, <1>4, <3>2, <3>3 DEF Clean
  <2> USE RequestNames, RequestFields
  <2>2. PcFits'
    BY <1>1, <2>1 DEF PcFits
  <2>3. CallerInv'
    BY <1>1, <2>1 DEF CallerInv, Active
  <2>4. MountKeyInv'
    BY <1>1, <2>1 DEF MountKeyInv
  <2>5. StageInv'
    BY <1>1, <2>1 DEF StageInv, StageAt, HasFs
  <2>6. StagedInv'
    BY <1>1, <2>1 DEF StagedInv, StagedAt, KeepsMount, HasFs
  <2>7. UnstageInv'
    BY <1>1, <2>1 DEF UnstageInv, UnstageAt, CallerInv, Active
  <2>8. LeaveInv'
    BY <1>1, <2>1 DEF LeaveInv, LeaveAt, AclKnown
  <2>9. PodInv'
    BY <1>1, <2>1 DEF PodInv, PodAt
  <2> QED BY <2>2, <2>3, <2>4, <2>5, <2>6, <2>7, <2>8, <2>9
<1> QED BY <1>2, <1>3, <1>4 DEF CreateGetInitiator

LEMMA SameRequest ==
    ASSUME NEW q \in Requests, NEW r \in Requests, q.op = r.op, q.at = r.at
    PROVE  q = r
BY DEF Requests

-----------------------------------------------------------------------------
(* What remains to be shown of a step, by the request it works on.         *)

LEMMA PcMoves ==
    ASSUME NodeTypeOK, NEW r \in Requests, NEW pc, Go(r, [h[r] EXCEPT !.pc = pc])
    PROVE  /\ h'[r].pc = pc
           /\ h'[r].mpath = h[r].mpath
           /\ h'[r].md = h[r].md
           /\ h'[r].acl = h[r].acl
           /\ \A q \in Requests : q # r => h'[q] = h[q]
           /\ co' = co
<1> DEFINE hr == [h[r] EXCEPT !.pc = pc]
<1>1. h[r] \in Handler
  BY DEF NodeTypeOK
<1>2. hr.pc = pc /\ hr.mpath = h[r].mpath /\ hr.md = h[r].md /\ hr.acl = h[r].acl
  BY <1>1 DEF Handler
<1> HIDE DEF hr
<1>3. h'[r] = hr /\ (\A q \in Requests : q # r => h'[q] = h[q]) /\ co' = co
  BY GoMoves DEF hr
<1> QED BY <1>2, <1>3

(* Short of an error, a mount at the staging path stays recorded while     *)
(* NodeStageVolume runs again.                                             *)
LEMMA ComingKept ==
    ASSUME NodeInv, NEW r \in Requests, r.op = "stage", Active(r), h[r].pc # "WriteMd",
           vol'.md = vol.md, dirty \subseteq dirty',
           \A q \in Requests : q # r => h'[q] = h[q],
           host'[r.at].staged => host[r.at].staged \/ h'[r].pc = "WriteMd"
    PROVE  UnstageAt(r.at)'
<1>1. /\ r.at \in Nodes /\ r = St(r.at) /\ co[r.at] = "coming" /\ UnstageAt(r.at)
      /\ h[Un(r.at)].pc = "idle" /\ h'[Un(r.at)].pc = "idle"
  BY RequestFields, RequestNames, Alone DEF NodeInv, CallerInv, UnstageInv
<1> QED BY <1>1 DEF UnstageAt

(* A step of NodeStageVolume: nothing else runs, no other node and no pod  *)
(* has the volume.                                                         *)
LEMMA StageStepKeepsInv ==
    ASSUME NodeInv, NEW r \in Requests, r.op = "stage", Active(r),
           NodeTypeOK', PcFits', UNCHANGED pods, vol'.access = vol.access,
           \A q \in Requests : q # r => h'[q] = h[q],
           \A x \in Nodes \cup Targets : x # r.at => co'[x] = co[x],
           co'[r.at] \in {"coming", "in"}, Active(r)' => co'[r.at] = "coming",
           dirty \subseteq dirty',
           \A n \in Nodes : n # r.at => host'[n] = host[n],
           (\/ vol'.md.mount = "staging"
            \/ host'[r.at].staged
            \/ h'[r].mpath = "staging"
            \/ h'[r].md.mount = "staging") => vol.access = "mount",
           StageAt(r.at)', StagedAt(r.at)', UnstageAt(r.at)', LeaveAt(r.at)', AclKnown'
    PROVE  NodeInv'
<1> USE DEF NodeInv
<1>1. /\ \A q \in Requests : q # r => h[q].pc = "idle" /\ h'[q].pc = "idle"
      /\ \A n \in Nodes : n # r.at => co[n] = "out" /\ co'[n] = "out"
      /\ \A t \in Targets : co'[t] = "out" /\ pods'[t] = "none"
      /\ r.at \in Nodes
  BY Alone, RequestFields, NodeAssumption
<1> USE RequestNames, RequestFields
<1>2. CallerInv'
  BY <1>1 DEF CallerInv, Active
<1>3. MountKeyInv'
  BY <1>1 DEF MountKeyInv
<1>4. StageInv'
  <2> SUFFICES ASSUME NEW n \in Nodes, n # r.at PROVE StageAt(n)'
    BY DEF StageInv
  <2> QED BY <1>1 DEF StageAt
<1>5. StagedInv'
  <2>1. \A n \in Nodes : StagedAt(n)'
    <3> SUFFICES ASSUME NEW n \in Nodes, n # r.at PROVE StagedAt(n)'
      OBVIOUS
    <3> QED BY <1>1 DEF StagedAt
  <2>2. \A q \in Requests : KeepsMount(q)'
    BY <1>1 DEF KeepsMount
  <2> QED BY <2>1, <2>2 DEF StagedInv
<1>6. UnstageInv'
  <2> SUFFICES ASSUME NEW n \in Nodes, n # r.at PROVE UnstageAt(n)'
    BY DEF UnstageInv
  <2> QED BY <1>1 DEF UnstageAt
<1>7. LeaveInv'
  <2> SUFFICES ASSUME NEW n \in Nodes, n # r.at PROVE LeaveAt(n)'
    BY DEF LeaveInv
  <2> QED BY <1>1 DEF LeaveInv, LeaveAt
<1>8. PodInv'
  BY <1>1 DEF PodInv, PodAt
<1> QED BY <1>2, <1>3, <1>4, <1>5, <1>6, <1>7, <1>8

(* A step of NodeUnstageVolume: likewise.                                  *)
LEMMA UnstageStepKeepsInv ==
    ASSUME NodeInv, NEW r \in Requests, r.op = "unstage", Active(r),
           NodeTypeOK', PcFits', UNCHANGED pods, vol'.access = vol.access,
           \A q \in Requests : q # r => h'[q] = h[q],
           \A x \in Nodes \cup Targets : x # r.at => co'[x] = co[x],
           co'[r.at] \in {"leaving", "out"}, Active(r)' => co'[r.at] = "leaving",
           dirty \subseteq dirty',
           \A n \in Nodes : n # r.at => host'[n] = host[n],
           (\/ vol'.md.mount = "staging"
            \/ host'[r.at].staged
            \/ h'[r].mpath = "staging"
            \/ h'[r].md.mount = "staging") => vol.access = "mount",
           UnstageAt(r.at)', LeaveAt(r.at)', AclKnown'
    PROVE  NodeInv'
<1> USE DEF NodeInv
<1>1. /\ \A q \in Requests : q # r => h[q].pc = "idle" /\ h'[q].pc = "idle"
      /\ \A n \in Nodes : n # r.at => co[n] = "out" /\ co'[n] = "out"
      /\ \A t \in Targets : co'[t] = "out" /\ pods'[t] = "none"
      /\ r.at \in Nodes
  BY Alone, RequestFields, NodeAssumption
<1> USE RequestNames, RequestFields
<1>2. CallerInv'
  BY <1>1 DEF CallerInv, Active
<1>3. MountKeyInv'
  BY <1>1 DEF MountKeyInv
<1>4. StageInv'
  BY <1>1 DEF StageInv, StageAt
<1>5. StagedInv'
  BY <1>1 DEF StagedInv, StagedAt, KeepsMount
<1>6. UnstageInv'
  <2> SUFFICES ASSUME NEW n \in Nodes, n # r.at PROVE UnstageAt(n)'
    BY DEF UnstageInv
  <2> QED BY <1>1 DEF UnstageAt
<1>7. LeaveInv'
  <2> SUFFICES ASSUME NEW n \in Nodes, n # r.at PROVE LeaveAt(n)'
    BY DEF LeaveInv
  <2> QED BY <1>1 DEF LeaveInv, LeaveAt
<1>8. PodInv'
  BY <1>1 DEF PodInv, PodAt
<1> QED BY <1>2, <1>3, <1>4, <1>5, <1>6, <1>7, <1>8

(* A step of NodePublishVolume, NodeUnpublishVolume or NodeExpandVolume:   *)
(* the volume is staged here and nowhere else.                             *)
LEMMA UseStepKeepsInv ==
    ASSUME NodeInv, NEW r \in Requests, Active(r),
           r.op \in {"publish", "unpublish", "expand"}, NodeTypeOK', PcFits',
           vol'.content = vol.content, vol'.access = vol.access,
           vol'.online = vol.online, vol'.acl = vol.acl,
           vol'.md.mount = "staging" => vol.access = "mount",
           (vol.access = "mount" /\ On(r) \notin dirty) => vol'.md.mount = "staging",
           \A n \in Nodes :
              host'[n].staged = host[n].staged /\ host'[n].session = host[n].session,
           \A q \in Requests : q # r => h'[q] = h[q],
           \A x \in Nodes \cup Targets : x # r.at => co'[x] = co[x],
           r.op = "expand" => co' = co, Active(r)' => co' = co,
           \A x \in Nodes \cup Targets : x # r.at \/ r.op = "expand"
              => (x \in dirty' <=> x \in dirty),
           \A t \in Targets : t # r.at => pods'[t] = pods[t],
           r.op # "expand" => PodAt(r.at)',
           (h'[r].mpath = "staging" \/ h'[r].md.mount = "staging") => vol.access = "mount",
           KeepsMount(r)', h'[r].pc # "AclSet"
    PROVE  NodeInv'
<1> USE DEF NodeInv
<1>1. /\ co[On(r)] = "in" /\ On(r) \in Nodes
      /\ \A q \in Requests :
           q.op \in {"stage", "unstage"} => h[q].pc = "idle" /\ h'[q] = h[q]
      /\ \A n \in Nodes : n # On(r) => co[n] = "out"
  BY InUse, OnANode
<1>2. /\ \A n \in Nodes : co'[n] = co[n] /\ (n \in dirty' <=> n \in dirty)
      /\ r.op = "expand" => r.at \in Nodes
      /\ r.op # "expand" => r.at \in Targets /\ Home[r.at] = On(r)
  BY RequestFields, NodeAssumption
<1> USE RequestNames, RequestFields
<1>3. CallerInv'
  <2>1. ASSUME NEW q \in Requests, h'[q].pc # "idle"
        PROVE  h[q].pc # "idle" /\ co'[q.at] = co[q.at]
    <3>1. CASE q = r
      BY <2>1, <3>1 DEF Active
    <3>2. CASE q # r
      <4>1. h[q].pc # "idle"
        BY <2>1, <3>2
      <4>2. ASSUME q.at = r.at, r.op # "expand" PROVE FALSE
        <5>1. q.op \in {"publish", "unpublish"} /\ r.op \in {"publish", "unpublish"}
          BY <1>2, <4>2, NodeAssumption
        <5>2. q.op # r.op
          BY <3>2, <4>2, SameRequest
        <5> QED BY <4>1, <4>2, <5>1, <5>2 DEF CallerInv, Active
      <4>3. q.at \in Nodes \cup Targets
        BY <3>2
      <4> QED BY <4>1, <4>2, <4>3
    <3> QED BY <3>1, <3>2
  <2>2. ASSUME NEW t \in Targets, co'[t] # "out" PROVE co'[Home[t]] = "in"
    <3>1. Home[t] \in Nodes
      BY NodeAssumption
    <3> QED BY <1>1, <1>2, <2>2, <3>1 DEF CallerInv
  <2>3. \A m, n \in Nodes : (co'[m] # "out" /\ co'[n] # "out") => m = n
    BY <1>2 DEF CallerInv
  <2> QED BY <2>1, <2>2, <2>3 DEF CallerInv, Active
<1>4. MountKeyInv'
  BY <1>1 DEF MountKeyInv
<1>5. StageInv'
  BY <1>1 DEF StageInv, StageAt
<1>6. StagedInv'
  <2>1. ASSUME NEW n \in Nodes PROVE StagedAt(n)'
    BY <1>1, <1>2 DEF StagedInv, StagedAt, HasFs
  <2>2. ASSUME NEW q \in Requests, q # r PROVE KeepsMount(q)'
    <3>1. On(q) \in Nodes
      BY OnANode
    <3> QED BY <1>2, <2>2, <3>1 DEF StagedInv, KeepsMount
  <2> QED BY <2>1, <2>2 DEF StagedInv
<1>7. UnstageInv'
  BY <1>1, <1>2 DEF UnstageInv, UnstageAt
<1>8. LeaveInv'
  <2>1. ASSUME NEW n \in Nodes PROVE LeaveAt(n)'
    BY <1>1, <1>2 DEF LeaveInv, LeaveAt
  <2>2. AclKnown'
    <3>1. dirty' \cap Nodes = {} => dirty \cap Nodes = {}
      BY <1>2
    <3>2. \A q \in Requests : h'[q].pc = "AclSet" => h[q].pc = "AclSet" /\ h'[q] = h[q]
      OBVIOUS
    <3>3. /\ vol.acl \subseteq Nodes
          /\ \A q \in Requests : h[q].acl \subseteq Nodes
      BY HandlerFields, VolumeFields DEF NodeTypeOK
    <3> QED BY <1>2, <3>1, <3>2, <3>3 DEF LeaveInv, AclKnown
  <2> QED BY <2>1, <2>2 DEF LeaveInv
<1>9. PodInv'
  <2> SUFFICES ASSUME NEW t \in Targets, t # r.at \/ r.op = "expand" PROVE PodAt(t)'
    BY <1>2 DEF PodInv
  <2>1. h'[Pub(t)] = h[Pub(t)] /\ pods'[t] = pods[t] /\ co'[t] = co[t]
    BY <1>2, NodeAssumption
  <2> QED BY <2>1 DEF PodInv, PodAt
<1> QED BY <1>3, <1>4, <1>5, <1>6, <1>7, <1>8, <1>9

-----------------------------------------------------------------------------
(* What the calls leave in the handlers.                                   *)

LEMMA AclReadMoves ==
    ASSUME NodeTypeOK, NEW r \in Requests,
           Go(r, [h[r] EXCEPT !.pc = "AclSet", !.acl = vol.acl])
    PROVE  /\ h'[r].pc = "AclSet"
           /\ h'[r].mpath = h[r].mpath
           /\ h'[r].md = h[r].md
           /\ h'[r].acl = vol.acl
           /\ \A q \in Requests : q # r => h'[q] = h[q]
           /\ co' = co
<1> DEFINE hr == [h[r] EXCEPT !.pc = "AclSet", !.acl = vol.acl]
<1>1. h[r] \in Handler
  BY DEF NodeTypeOK
<1>2. hr.pc = "AclSet" /\ hr.mpath = h[r].mpath /\ hr.md = h[r].md /\ hr.acl = vol.acl
  BY <1>1 DEF Handler
<1> HIDE DEF hr
<1>3. h'[r] = hr /\ (\A q \in Requests : q # r => h'[q] = h[q]) /\ co' = co
  BY GoMoves DEF hr
<1> QED BY <1>2, <1>3

LEMMA MountMoves ==
    ASSUME NodeTypeOK, NEW r \in Requests, NEW path,
           Go(r, [h[r] EXCEPT !.pc = "WriteMd", !.md.mount = path])
    PROVE  /\ h'[r].pc = "WriteMd"
           /\ h'[r].mpath = h[r].mpath
           /\ h'[r].md.mount = path
           /\ h'[r].md.formatted = h[r].md.formatted
           /\ \A q \in Requests : q # r => h'[q] = h[q]
           /\ co' = co
<1> DEFINE hr == [h[r] EXCEPT !.pc = "WriteMd", !.md.mount = path]
<1>1. h[r] \in Handler
  BY DEF NodeTypeOK
<1>2. /\ hr.pc = "WriteMd" /\ hr.mpath = h[r].mpath
      /\ hr.md.mount = path /\ hr.md.formatted = h[r].md.formatted
  BY <1>1 DEF Handler, Metadata
<1> HIDE DEF hr
<1>3. h'[r] = hr /\ (\A q \in Requests : q # r => h'[q] = h[q]) /\ co' = co
  BY GoMoves DEF hr
<1> QED BY <1>2, <1>3

LEMMA FormattedMoves ==
    ASSUME NodeTypeOK, NEW r \in Requests,
           Go(r, [h[r] EXCEPT !.pc = "Mount", !.md.formatted = TRUE])
    PROVE  /\ h'[r].pc = "Mount"
           /\ h'[r].mpath = h[r].mpath
           /\ h'[r].md.mount = h[r].md.mount
           /\ \A q \in Requests : q # r => h'[q] = h[q]
           /\ co' = co
<1> DEFINE hr == [h[r] EXCEPT !.pc = "Mount", !.md.formatted = TRUE]
<1>1. h[r] \in Handler
  BY DEF NodeTypeOK
<1>2. hr.pc = "Mount" /\ hr.mpath = h[r].mpath /\ hr.md.mount = h[r].md.mount
  BY <1>1 DEF Handler, Metadata
<1> HIDE DEF hr
<1>3. h'[r] = hr /\ (\A q \in Requests : q # r => h'[q] = h[q]) /\ co' = co
  BY GoMoves DEF hr
<1> QED BY <1>2, <1>3

LEMMA TriesMoves ==
    ASSUME NodeTypeOK, NEW r \in Requests, NEW pc, NEW tries,
           Go(r, [h[r] EXCEPT !.pc = pc, !.tries = tries])
    PROVE  /\ h'[r].pc = pc
           /\ h'[r].mpath = h[r].mpath
           /\ h'[r].md = h[r].md
           /\ \A q \in Requests : q # r => h'[q] = h[q]
           /\ co' = co
<1> DEFINE hr == [h[r] EXCEPT !.pc = pc, !.tries = tries]
<1>1. h[r] \in Handler
  BY DEF NodeTypeOK
<1>2. hr.pc = pc /\ hr.mpath = h[r].mpath /\ hr.md = h[r].md
  BY <1>1 DEF Handler
<1> HIDE DEF hr
<1>3. h'[r] = hr /\ (\A q \in Requests : q # r => h'[q] = h[q]) /\ co' = co
  BY GoMoves DEF hr
<1> QED BY <1>2, <1>3

LEMMA RetryMoves ==
    ASSUME NodeTypeOK, NEW r \in Requests, Go(r, [h[r] EXCEPT !.tries = @ - 1])
    PROVE  /\ h'[r].pc = h[r].pc
           /\ h'[r].mpath = h[r].mpath
           /\ h'[r].md = h[r].md
           /\ \A q \in Requests : q # r => h'[q] = h[q]
           /\ co' = co
<1> DEFINE hr == [h[r] EXCEPT !.tries = @ - 1]
<1>1. h[r] \in Handler
  BY DEF NodeTypeOK
<1>2. hr.pc = h[r].pc /\ hr.mpath = h[r].mpath /\ hr.md = h[r].md
  BY <1>1 DEF Handler
<1> HIDE DEF hr
<1>3. h'[r] = hr /\ (\A q \in Requests : q # r => h'[q] = h[q]) /\ co' = co
  BY GoMoves DEF hr
<1> QED BY <1>2, <1>3

LEMMA BindMoves ==
    ASSUME NodeTypeOK, NEW r \in Requests, NEW t,
           Go(r, [h[r] EXCEPT !.pc = "WriteMd", !.md.bind = @ \cup {t}])
    PROVE  /\ h'[r].pc = "WriteMd"
           /\ h'[r].mpath = h[r].mpath
           /\ h'[r].md.mount = h[r].md.mount
           /\ h'[r].md.formatted = h[r].md.formatted
           /\ \A q \in Requests : q # r => h'[q] = h[q]
           /\ co' = co
<1> DEFINE hr == [h[r] EXCEPT !.pc = "WriteMd", !.md.bind = @ \cup {t}]
<1>1. h[r] \in Handler
  BY DEF NodeTypeOK
<1>2. /\ hr.pc = "WriteMd" /\ hr.mpath = h[r].mpath
      /\ hr.md.mount = h[r].md.mount /\ hr.md.formatted = h[r].md.formatted
  BY <1>1 DEF Handler, Metadata
<1> HIDE DEF hr
<1>3. h'[r] = hr /\ (\A q \in Requests : q # r => h'[q] = h[q]) /\ co' = co
  BY GoMoves DEF hr
<1> QED BY <1>2, <1>3

LEMMA SizeMoves ==
    ASSUME NodeTypeOK, NEW r \in Requests, CheckDeviceSize(r)
    PROVE  \/ Reply(r, FALSE)
           \/ /\ h'[r].pc \in {"Size", "Grow"}
              /\ h'[r].mpath = h[r].mpath
              /\ h'[r].md = h[r].md
              /\ \A q \in Requests : q # r => h'[q] = h[q]
              /\ co' = co
<1> DEFINE hr(read) == [h[r] EXCEPT !.want = Wrap(h[r].want * GiB), !.tries = @ - 1,
                                    !.blind = @ \/ ~read]
<1>1. h[r] \in Handler /\ h[r].pc = "Size"
  BY DEF NodeTypeOK, CheckDeviceSize, At
<1>2. ASSUME NEW read \in BOOLEAN
      PROVE  /\ [hr(read) EXCEPT !.pc = "Grow"].pc = "Grow"
             /\ [hr(read) EXCEPT !.pc = "Grow"].mpath = h[r].mpath
             /\ [hr(read) EXCEPT !.pc = "Grow"].md = h[r].md
             /\ hr(read).pc = "Size"
             /\ hr(read).mpath = h[r].mpath
             /\ hr(read).md = h[r].md
  BY <1>1 DEF Handler
<1>3. PICK read \in BOOLEAN :
        Go(r, [hr(read) EXCEPT !.pc = "Grow"]) \/ Reply(r, FALSE) \/ Go(r, hr(read))
  BY DEF CheckDeviceSize
<1> HIDE DEF hr
<1>4. CASE Go(r, [hr(read) EXCEPT !.pc = "Grow"])
  BY <1>2, <1>4, GoMoves
<1>5. CASE Go(r, hr(read))
  BY <1>2, <1>5, GoMoves
<1> QED BY <1>3, <1>4, <1>5

LEMMA MergeMount ==
    ASSUME NEW old, NEW new
    PROVE  Merge(old, new).mount = IF new.mount = "absent" THEN old.mount ELSE new.mount
BY DEF Merge

-----------------------------------------------------------------------------
(* The access list.                                                        *)

LEMMA UnregisterKeepsInv ==
    ASSUME NodeInv, NEW r \in Requests, r.op = "unstage", h[r].pc \in {"AclGet", "AclSet"},
           Unregister(r), NodeTypeOK', UNCHANGED <<host, pods>>,
           vol'.access = vol.access, vol'.md = vol.md,
           dirty \subseteq dirty', dirty' \cap Nodes = {} => vol'.acl = {}
    PROVE  NodeInv'
<1> USE DEF NodeInv
<1>1. /\ Active(r) /\ r.at \in Nodes /\ r = Un(r.at) /\ co[r.at] = "leaving"
      /\ \A q \in Requests : q # r => h[q].pc = "idle"
  BY RequestFields, Alone DEF Active, CallerInv
<1>2. UnstageAt(r.at) /\ LeaveAt(r.at)
  BY <1>1 DEF UnstageInv, LeaveInv
<1>3. CASE Go(r, [h[r] EXCEPT !.pc = "Offline"])
  <2>1. /\ h'[r].pc = "Offline" /\ h'[r].mpath = h[r].mpath /\ h'[r].md = h[r].md
        /\ \A q \in Requests : q # r => h'[q] = h[q]
        /\ co' = co
    BY <1>3, PcMoves
  <2>2. PcFits' /\ AclKnown'
    BY <1>1, <2>1 DEF PcFits, AclKnown
  <2>3. UnstageAt(r.at)'
    BY <1>1, <1>2, <2>1 DEF UnstageAt
  <2>4. LeaveAt(r.at)'
    BY <1>1, <1>2, <2>1 DEF LeaveAt
  <2> QED BY <1>1, <2>1, <2>2, <2>3, <2>4, UnstageStepKeepsInv DEF MountKeyInv, Active
<1>4. CASE Reply(r, TRUE)
  <2>1. /\ h'[r] = Idle
        /\ \A q \in Requests : q # r => h'[q] = h[q]
        /\ co'[r.at] \in {"leaving", "out"}
        /\ \A x \in Nodes \cup Targets : x # r.at => co'[x] = co[x]
    BY <1>1, <1>4, ReplyMoves
  <2>2. PcFits' /\ AclKnown'
    BY <1>1, <2>1, IdleFields DEF PcFits, AclKnown
  <2>3. UnstageAt(r.at)'
    BY <1>1, <1>2, <2>1, IdleFields DEF UnstageAt
  <2>4. LeaveAt(r.at)'
    BY <1>1, <1>2, <2>1 DEF LeaveAt, UnstageAt
  <2> QED
    BY <1>1, <2>1, <2>2, <2>3, <2>4, IdleFields, UnstageStepKeepsInv DEF MountKeyInv, Active
<1> QED BY <1>3, <1>4 DEF Unregister

LEMMA AclFailedKeepsInv ==
    ASSUME NodeInv, NEW r \in Requests, h[r].pc \in {"AclGet", "AclSet"}, AclFailed(r),
           NodeTypeOK', UNCHANGED <<vol, host, pods>>
    PROVE  NodeInv'
<1> USE DEF NodeInv
<1>1. r.op \in {"stage", "unstage"} /\ r.at \in Nodes
  BY RequestFields DEF PcFits
<1>2. CASE r.op = "stage"
  BY <1>2, RefusalKeepsInv DEF AclFailed, Active
<1>3. CASE r.op = "unstage"
  BY <1>1, <1>3, UnregisterKeepsInv DEF AclFailed, Soil
<1> QED BY <1>1, <1>2, <1>3

LEMMA AclGetKeepsInv ==
    ASSUME NodeInv, NEW r \in Requests, AclGet(r), NodeTypeOK'
    PROVE  NodeInv'
<1> USE DEF NodeInv
<1>1. h[r].pc = "AclGet" /\ UNCHANGED <<vol, host, pods>>
  BY DEF AclGet
<1>2. CASE AclFailed(r)
  BY <1>1, <1>2, AclFailedKeepsInv
<1>3. CASE Clean /\ Go(r, [h[r] EXCEPT !.pc = "AclSet", !.acl = vol.acl])
  <2>1. /\ h'[r].pc = "AclSet" /\ h'[r].mpath = h[r].mpath /\ h'[r].md = h[r].md
        /\ h'[r].acl = vol.acl
        /\ \A q \in Requests : q # r => h'[q] = h[q]
        /\ co' = co /\ dirty' = dirty
    BY <1>3, AclReadMoves DEF Clean
  <2>2. r.op \in {"stage", "unstage"} /\ r.at \in Nodes /\ Active(r)
    BY <1>1, RequestFields DEF PcFits, Active
  <2>3. PcFits' /\ AclKnown'
    BY <1>1, <2>1, <2>2 DEF PcFits, AclKnown, LeaveInv
  <2>4. CASE r.op = "stage"
    <3>1. /\ r = St(r.at) /\ co[r.at] = "coming"
          /\ StageAt(r.at) /\ UnstageAt(r.at) /\ LeaveAt(r.at)
      BY <2>2, <2>4, RequestFields DEF CallerInv, StageInv, UnstageInv, LeaveInv
    <3>2. StageAt(r.at)' /\ StagedAt(r.at)' /\ LeaveAt(r.at)'
      BY <1>1, <2>1, <3>1 DEF StageAt, StagedAt, LeaveAt
    <3>3. UnstageAt(r.at)'
      BY <1>1, <2>1, <2>2, <2>4, <3>1, ComingKept
    <3> QED
      BY <1>1, <2>1, <2>2, <2>3, <2>4, <3>1, <3>2, <3>3, StageStepKeepsInv
         DEF MountKeyInv, Active
  <2>5. CASE r.op = "unstage"
    <3>1. r = Un(r.at) /\ co[r.at] = "leaving" /\ UnstageAt(r.at) /\ LeaveAt(r.at)
      BY <2>2, <2>5, RequestFields DEF CallerInv, UnstageInv, LeaveInv
    <3>2. UnstageAt(r.at)' /\ LeaveAt(r.at)'
      BY <1>1, <2>1, <3>1 DEF UnstageAt, LeaveAt
    <3> QED
      BY <1>1, <2>1, <2>2, <2>3, <2>5, <3>1, <3>2, UnstageStepKeepsInv DEF MountKeyInv, Active
  <2> QED BY <2>2, <2>4, <2>5
<1> QED BY <1>2, <1>3 DEF AclGet

LEMMA VolumeSet ==
    ASSUME NodeTypeOK
    PROVE  /\ \A x : /\ [vol EXCEPT !.acl = x].acl = x
                     /\ [vol EXCEPT !.acl = x].md = vol.md
                     /\ [vol EXCEPT !.acl = x].access = vol.access
                     /\ [vol EXCEPT !.acl = x].online = vol.online
                     /\ [vol EXCEPT !.acl = x].content = vol.content
           /\ \A x : /\ [vol EXCEPT !.md = x].md = x
                     /\ [vol EXCEPT !.md = x].acl = vol.acl
                     /\ [vol EXCEPT !.md = x].access = vol.access
                     /\ [vol EXCEPT !.md = x].online = vol.online
                     /\ [vol EXCEPT !.md = x].content = vol.content
           /\ \A x : /\ [vol EXCEPT !.online = x].online = x
                     /\ [vol EXCEPT !.online = x].acl = vol.acl
                     /\ [vol EXCEPT !.online = x].access = vol.access
                     /\ [vol EXCEPT !.online = x].md = vol.md
                     /\ [vol EXCEPT !.online = x].content = vol.content
           /\ \A x : /\ [vol EXCEPT !.content = x].content = x
                     /\ [vol EXCEPT !.content = x].acl = vol.acl
                     /\ [vol EXCEPT !.content = x].access = vol.access
                     /\ [vol EXCEPT !.content = x].md = vol.md
                     /\ [vol EXCEPT !.content = x].online = vol.online
BY DEF NodeTypeOK, Volume

LEMMA AclSetKeepsInv ==
    ASSUME NodeInv, NEW r \in Requests, AclSet(r), NodeTypeOK'
    PROVE  NodeInv'
<1> USE DEF NodeInv
<1> DEFINE acl == IF r.op = "stage" THEN Registered(h[r].acl, r.at)
                                    ELSE Unregistered(h[r].acl, r.at)
<1>1. /\ h[r].pc = "AclSet" /\ Active(r) /\ UNCHANGED <<host, pods>>
      /\ r.op \in {"stage", "unstage"} /\ r.at \in Nodes
  BY RequestFields DEF AclSet, Active, PcFits
<1>2. /\ \A q \in Requests : q # r => h[q].pc = "idle"
      /\ \A n \in Nodes : n # r.at => co[n] = "out"
      /\ h[r].acl \subseteq Nodes
  BY <1>1, Alone, HandlerFields DEF NodeTypeOK
<1>3. dirty \cap Nodes = {} => h[r].acl \subseteq {r.at}
  BY <1>1, <1>2 DEF LeaveInv, AclKnown
<1>4. CASE UNCHANGED vol /\ AclFailed(r)
  BY <1>1, <1>4, AclFailedKeepsInv
<1>5. CASE vol' = [vol EXCEPT !.acl = acl] /\ r.op = "unstage"
  <2>1. vol'.acl = Unregistered(h[r].acl, r.at) /\ vol'.md = vol.md /\ vol'.access = vol.access
    BY <1>5, VolumeSet
  <2>2. Unregister(r) /\ dirty \subseteq dirty'
    BY <1>4, <1>5 DEF AclSet, AclFailed, Clean, Soil
  <2>3. dirty' \cap Nodes = {} => vol'.acl = {}
    BY <1>3, <2>1, <2>2 DEF Unregistered
  <2> QED BY <1>1, <1>5, <2>1, <2>2, <2>3, UnregisterKeepsInv
<1>6. CASE vol' = [vol EXCEPT !.acl = acl] /\ r.op = "stage"
  <2>1. /\ vol'.acl = Registered(h[r].acl, r.at) /\ vol'.md = vol.md
        /\ vol'.access = vol.access /\ vol'.content = vol.content /\ vol'.online = vol.online
    BY <1>6, VolumeSet
  <2> HIDE DEF acl
  <2>2. r = St(r.at) /\ co[r.at] = "coming" /\ StageAt(r.at) /\ LeaveAt(r.at) /\ dirty' = dirty
    BY <1>1, <1>4, <1>6, RequestFields DEF CallerInv, StageInv, LeaveInv, AclSet, AclFailed, Clean
  <2>3. \/ Go(r, [h[r] EXCEPT !.pc = "Online"])
        \/ Reply(r, FALSE)
    BY <1>4, <1>6 DEF AclSet, AclFailed
  <2>4. /\ h'[r].pc \in {"Online", "idle"}
        /\ h'[r].mpath = "staging" => h[r].mpath = "staging"
        /\ h'[r].md.mount = "staging" => h[r].md.mount = "staging"
        /\ \A q \in Requests : q # r => h'[q] = h[q]
        /\ co' = co
    <3>1. CASE Go(r, [h[r] EXCEPT !.pc = "Online"])
      BY <3>1, PcMoves
    <3>2. CASE Reply(r, FALSE)
      BY <3>2, ReplyMoves, RefusalMoves, IdleFields
    <3> QED BY <2>3, <3>1, <3>2
  <2>5. PcFits'
    BY <1>1, <2>4 DEF PcFits
  <2>6. AclKnown'
    BY <1>1, <1>2, <1>3, <2>1, <2>2, <2>4 DEF AclKnown, Registered
  <2>7. StageAt(r.at)'
    BY <1>1, <2>1, <2>2, <2>4 DEF StageAt, Registered
  <2>8. StagedAt(r.at)' /\ LeaveAt(r.at)'
    BY <1>1, <2>2, <2>4 DEF StagedAt, LeaveAt
  <2>9. UnstageAt(r.at)'
    BY <1>1, <1>6, <2>1, <2>2, <2>4, ComingKept
  <2> QED
    BY <1>1, <1>6, <2>1, <2>2, <2>4, <2>5, <2>6, <2>7, <2>8, <2>9, StageStepKeepsInv
       DEF MountKeyInv, Active
<1> QED BY <1>1, <1>4, <1>5, <1>6 DEF AclSet

-----------------------------------------------------------------------------
(* The metadata.                                                           *)

LEMMA SetMetadataMoves ==
    ASSUME NodeTypeOK, NEW r \in Requests, SetMetadata(r)
    PROVE  /\ h[r].pc = "WriteMd"
           /\ UNCHANGED <<host, pods>>
           /\ vol'.access = vol.access /\ vol'.content = vol.content
           /\ vol'.online = vol.online /\ vol'.acl = vol.acl
           /\ \/ vol'.md.mount = vol.md.mount
              \/ vol'.md.mount = h[r].md.mount
           /\ \/ /\ vol'.md = Merge(vol.md, h[r].md)
                 /\ Clean
                 /\ IF r.op \in {"stage", "publish"}
                    THEN Reply(r, TRUE)
                    ELSE Go(r, [h[r] EXCEPT !.pc = IF r.op = "unstage" THEN "Logout"
                                                                     ELSE "Unmount"])
              \/ /\ vol'.md \in {vol.md, Merge(vol.md, h[r].md)}
                 /\ Soil(IF r.op \in {"stage", "publish"} THEN {r.at} ELSE {})
                 /\ IF r.op = "unstage"
                    THEN Go(r, [h[r] EXCEPT !.pc = "Logout"])
                    ELSE Reply(r, FALSE)
<1>1. ASSUME vol' = [vol EXCEPT !.md = Merge(vol.md, h[r].md)]
      PROVE  /\ vol'.md = Merge(vol.md, h[r].md)
             /\ vol'.access = vol.access /\ vol'.content = vol.content
             /\ vol'.online = vol.online /\ vol'.acl = vol.acl
             /\ vol'.md.mount = vol.md.mount \/ vol'.md.mount = h[r].md.mount
  <2>1. vol'.md = Merge(vol.md, h[r].md)
    BY <1>1, VolumeSet
  <2> QED BY <1>1, <2>1, VolumeSet, MergeMount
<1>2. h[r].pc = "WriteMd" /\ UNCHANGED <<host, pods>>
  BY DEF SetMetadata
<1>3. \/ vol' = [vol EXCEPT !.md = Merge(vol.md, h[r].md)]
      \/ vol' = vol
  BY DEF SetMetadata
<1>4. CASE vol' = vol
  BY <1>1, <1>2, <1>4 DEF SetMetadata
<1>5. CASE vol' = [vol EXCEPT !.md = Merge(vol.md, h[r].md)]
  BY <1>1, <1>2, <1>5 DEF SetMetadata
<1> QED BY <1>3, <1>4, <1>5

LEMMA SetMetadataKeepsInv ==
    ASSUME NodeInv, NEW r \in Requests, SetMetadata(r), NodeTypeOK'
    PROVE  NodeInv'
<1> USE DEF NodeInv
<1>1. /\ h[r].pc = "WriteMd" /\ Active(r)
      /\ UNCHANGED <<host, pods>>
      /\ vol'.access = vol.access /\ vol'.content = vol.content
      /\ vol'.online = vol.online /\ vol'.acl = vol.acl
      /\ vol'.md.mount = vol.md.mount \/ vol'.md.mount = h[r].md.mount
  BY SetMetadataMoves DEF Active
<1>2. vol'.md.mount = "staging" => vol.access = "mount"
  BY <1>1 DEF MountKeyInv
<1>3. vol'.md = Merge(vol.md, h[r].md) /\ h[r].md.mount = "staging" => vol'.md.mount = "staging"
  BY MergeMount
<1>4. CASE r.op = "stage"
  <2>1. /\ r = St(r.at) /\ r.at \in Nodes /\ co[r.at] = "coming" /\ StageAt(r.at) /\ LeaveAt(r.at)
        /\ host[r.at].staged => vol.access = "mount"
        /\ h[Un(r.at)].pc = "idle"
    BY <1>1, <1>4, RequestFields, RequestNames, Alone
       DEF CallerInv, StageInv, LeaveInv, MountKeyInv
  <2>2. CASE Reply(r, TRUE) /\ Clean /\ vol'.md = Merge(vol.md, h[r].md)
    <3>1. /\ h'[r] = Idle /\ co'[r.at] \in {"coming", "in"} /\ dirty' = dirty
          /\ \A q \in Requests : q # r => h'[q] = h[q]
          /\ \A x \in Nodes \cup Targets : x # r.at => co'[x] = co[x]
      BY <1>4, <2>1, <2>2, ReplyMoves DEF Clean
    <3>2. PcFits' /\ AclKnown'
      <4>1. \A q \in Requests : h'[q].pc = "idle"
        BY <1>1, <1>4, <3>1, IdleFields, Alone
      <4> QED BY <1>1, <2>1, <3>1, <4>1, VolumeFields DEF PcFits, AclKnown, LeaveInv
    <3>3. StageAt(r.at)' /\ LeaveAt(r.at)'
      BY <2>1, <3>1, IdleFields DEF StageAt, LeaveAt
    <3>4. StagedAt(r.at)'
      BY <1>1, <1>3, <2>1, <2>2 DEF StageAt, StagedAt, HasFs
    <3>5. UnstageAt(r.at)'
      <4>1. h'[Un(r.at)].pc = "idle"
        BY <1>4, <2>1, <3>1, RequestNames
      <4> QED BY <1>1, <1>3, <2>1, <2>2, <4>1 DEF StageAt, UnstageAt
    <3> QED
      BY <1>1, <1>2, <1>4, <2>1, <3>1, <3>2, <3>3, <3>4, <3>5, IdleFields, StageStepKeepsInv
         DEF MountKeyInv, Active
  <2>3. CASE Reply(r, FALSE) /\ Soil({r.at})
    <3>1. /\ h'[r] = Idle /\ co' = co /\ dirty' = dirty \cup {r.at}
          /\ \A q \in Requests : q # r => h'[q] = h[q]
      BY <1>4, <2>3, ReplyMoves, RefusalMoves DEF Soil
    <3>2. PcFits' /\ AclKnown'
      BY <2>1, <3>1, IdleFields DEF PcFits, AclKnown
    <3>3. StageAt(r.at)' /\ StagedAt(r.at)' /\ LeaveAt(r.at)'
      BY <2>1, <3>1, IdleFields DEF StageAt, StagedAt, LeaveAt
    <3>4. UnstageAt(r.at)'
      <4>1. h'[Un(r.at)].pc = "idle"
        BY <1>4, <2>1, <3>1, RequestNames
      <4> QED BY <2>1, <3>1, <4>1 DEF UnstageAt
    <3> QED
      BY <1>1, <1>2, <1>4, <2>1, <3>1, <3>2, <3>3, <3>4, IdleFields, StageStepKeepsInv
         DEF MountKeyInv, Active
  <2> QED BY <1>4, <2>2, <2>3, SetMetadataMoves
<1>5. CASE r.op = "unstage"
  <2>1. r = Un(r.at) /\ r.at \in Nodes /\ co[r.at] = "leaving" /\ UnstageAt(r.at) /\ LeaveAt(r.at)
    BY <1>1, <1>5, RequestFields DEF CallerInv, UnstageInv, LeaveInv
  <2>2. Go(r, [h[r] EXCEPT !.pc = "Logout"]) /\ dirty' = dirty
    BY <1>5, SetMetadataMoves DEF Clean, Soil
  <2>3. /\ h'[r].pc = "Logout" /\ h'[r].mpath = h[r].mpath /\ h'[r].md = h[r].md
        /\ \A q \in Requests : q # r => h'[q] = h[q]
        /\ co' = co
    BY <2>2, PcMoves
  <2>4. PcFits' /\ AclKnown'
    BY <1>1, <2>2, <2>3 DEF PcFits, AclKnown, LeaveInv
  <2>5. UnstageAt(r.at)' /\ LeaveAt(r.at)'
    BY <1>1, <2>1, <2>2, <2>3 DEF UnstageAt, LeaveAt
  <2> QED
    BY <1>1, <1>2, <1>5, <2>1, <2>2, <2>3, <2>4, <2>5, UnstageStepKeepsInv
       DEF MountKeyInv, Active
<1>6. CASE r.op \in {"publish", "unpublish"}
  <2>1. /\ r.at \in Targets /\ On(r) \in Nodes /\ co[On(r)] = "in" /\ PodAt(r.at)
        /\ r.op = "publish" => r = Pub(r.at)
        /\ KeepsMount(r) /\ StagedAt(On(r))
        /\ co[r.at] = IF r.op = "publish" THEN "coming" ELSE "leaving"
        /\ r.at \notin Nodes
    BY <1>1, <1>6, RequestFields, InUse, OnANode, NodeAssumption
       DEF CallerInv, StagedInv, PodInv
  <2>2. (vol.access = "mount" /\ On(r) \notin dirty) => vol'.md.mount = "staging"
    BY <1>1, <1>6, <2>1 DEF StagedAt, KeepsMount
  <2>3. CASE Reply(r, TRUE) /\ Clean /\ r.op = "publish"
    <3>1. /\ h'[r] = Idle /\ co'[r.at] \in {"coming", "in"} /\ dirty' = dirty
          /\ \A q \in Requests : q # r => h'[q] = h[q]
          /\ \A x \in Nodes \cup Targets : x # r.at => co'[x] = co[x]
      BY <2>1, <2>3, ReplyMoves DEF Clean
    <3>2. PcFits' /\ KeepsMount(r)'
      BY <3>1, IdleFields DEF PcFits, KeepsMount
    <3>3. PodAt(r.at)'
      BY <1>1, <2>1, <2>3, <3>1 DEF PodAt
    <3> QED
      BY <1>1, <1>2, <1>6, <2>1, <2>2, <3>1, <3>2, <3>3, IdleFields, UseStepKeepsInv
         DEF Active
  <2>4. CASE Reply(r, FALSE) /\ Soil(IF r.op \in {"stage", "publish"} THEN {r.at} ELSE {})
    <3>1. /\ h'[r] = Idle /\ co' = co
          /\ dirty' = IF r.op = "publish" THEN dirty \cup {r.at} ELSE dirty
          /\ \A q \in Requests : q # r => h'[q] = h[q]
      BY <1>6, <2>4, ReplyMoves, RefusalMoves DEF Soil
    <3>2. PcFits' /\ KeepsMount(r)'
      BY <3>1, IdleFields DEF PcFits, KeepsMount
    <3>3. PodAt(r.at)'
      <4>1. CASE r.op = "publish"
        BY <1>1, <2>1, <3>1, <4>1, IdleFields DEF PodAt
      <4>2. CASE r.op = "unpublish"
        <5>1. h'[Pub(r.at)] = h[Pub(r.at)]
          BY <2>1, <3>1, <4>2, RequestNames
        <5> QED BY <1>1, <2>1, <3>1, <4>2, <5>1 DEF PodAt
      <4> QED BY <1>6, <4>1, <4>2
    <3>4. \A x \in Nodes \cup Targets : x # r.at => (x \in dirty' <=> x \in dirty)
      BY <3>1
    <3> QED
      BY <1>1, <1>2, <1>6, <2>1, <2>2, <3>1, <3>2, <3>3, <3>4, IdleFields, UseStepKeepsInv
         DEF Active
  <2>5. CASE r.op = "unpublish" /\ Clean /\ Go(r, [h[r] EXCEPT !.pc = "Unmount"])
    <3>1. /\ h'[r].pc = "Unmount" /\ h'[r].mpath = h[r].mpath /\ h'[r].md = h[r].md
          /\ \A q \in Requests : q # r => h'[q] = h[q]
          /\ co' = co /\ dirty' = dirty
      BY <2>5, PcMoves DEF Clean
    <3>2. PcFits' /\ KeepsMount(r)'
      BY <3>1 DEF PcFits, KeepsMount
    <3>3. h'[Pub(r.at)] = h[Pub(r.at)]
      BY <2>1, <2>5, <3>1, RequestNames
    <3>4. PodAt(r.at)'
      BY <1>1, <2>1, <3>1, <3>3 DEF PodAt
    <3> QED
      BY <1>1, <1>2, <1>6, <2>1, <2>2, <2>5, <3>1, <3>2, <3>4, UseStepKeepsInv
         DEF MountKeyInv, Active
  <2> QED BY <1>6, <2>3, <2>4, <2>5, SetMetadataMoves
<1>7. CASE r.op = "expand"
  <2>1. FALSE
    BY <1>1, <1>7 DEF PcFits
  <2> QED BY <2>1
<1> QED BY <1>4, <1>5, <1>6, <1>7, RequestFields

-----------------------------------------------------------------------------
(* NodeStageVolume                                                         *)

LEMMA OnlineSet ==
    ASSUME NodeTypeOK, NEW x, vol' = vol \/ vol' = [vol EXCEPT !.online = x]
    PROVE  /\ vol'.access = vol.access /\ vol'.md = vol.md /\ vol'.acl = vol.acl
           /\ vol'.content = vol.content
           /\ vol' # vol => vol'.online = x
BY DEF NodeTypeOK, Volume

LEMMA ContentSet ==
    ASSUME NodeTypeOK, NEW x, vol' = vol \/ vol' = [vol EXCEPT !.content = x]
    PROVE  /\ vol'.access = vol.access /\ vol'.md = vol.md /\ vol'.acl = vol.acl
           /\ vol'.online = vol.online
           /\ vol' # vol => vol'.content = x
BY DEF NodeTypeOK, Volume

(* A step of NodeStageVolume that goes on and touches neither ACL nor      *)
(* metadata of the volume.                                                 *)
LEMMA StageGoesOn ==
    ASSUME NodeInv, NEW r \in Requests, r.op = "stage",
           h[r].pc \in {"Online", "Login", "FindFs", "Mkfs", "Mount"},
           NodeTypeOK', Clean, UNCHANGED pods,
           vol'.access = vol.access, vol'.md = vol.md, vol'.acl = vol.acl,
           \A q \in Requests : q # r => h'[q] = h[q], co' = co,
           h'[r].pc \in {"Login", "FindFs", "Mkfs", "Mount", "WriteMd"},
           \A n \in Nodes : n # r.at => host'[n] = host[n],
           host'[r.at].staged => host[r.at].staged \/ (vol.access = "mount" /\ h'[r].pc = "WriteMd"),
           (h'[r].mpath = "staging" \/ h'[r].md.mount = "staging") => vol.access = "mount",
           StageAt(r.at)'
    PROVE  NodeInv'
<1> USE DEF NodeInv
<1>1. /\ Active(r) /\ r = St(r.at) /\ r.at \in Nodes /\ co[r.at] = "coming" /\ LeaveAt(r.at)
      /\ dirty' = dirty
  BY RequestFields DEF CallerInv, LeaveInv, Clean, Active
<1>2. PcFits' /\ AclKnown'
  BY <1>1 DEF PcFits, AclKnown, LeaveInv
<1>3. StagedAt(r.at)' /\ LeaveAt(r.at)'
  BY <1>1 DEF StagedAt, LeaveAt
<1>4. UnstageAt(r.at)'
  BY <1>1, ComingKept
<1> QED BY <1>1, <1>2, <1>3, <1>4, StageStepKeepsInv DEF MountKeyInv, Active

LEMMA OnlineKeepsInv ==
    ASSUME NodeInv, NEW r \in Requests, Online(r), NodeTypeOK'
    PROVE  NodeInv'
<1> USE DEF NodeInv
<1>1. /\ r.op = "stage" /\ h[r].pc = "Online" /\ Clean /\ UNCHANGED <<host, pods>>
      /\ vol' = vol \/ vol' = [vol EXCEPT !.online = TRUE]
  BY DEF Online, At
<1>2. /\ vol'.access = vol.access /\ vol'.md = vol.md /\ vol'.acl = vol.acl
      /\ vol'.content = vol.content
      /\ vol.online => vol'.online
  BY <1>1, OnlineSet
<1>3. CASE Reply(r, FALSE)
  BY <1>1, <1>2, <1>3, RefusalKeepsInv DEF Active
<1>4. CASE vol' = [vol EXCEPT !.online = TRUE] /\ Go(r, [h[r] EXCEPT !.pc = "Login"])
  <2>1. /\ h'[r].pc = "Login" /\ h'[r].mpath = h[r].mpath /\ h'[r].md = h[r].md
        /\ \A q \in Requests : q # r => h'[q] = h[q]
        /\ co' = co
    BY <1>4, PcMoves
  <2>2. StageAt(r.at)'
    <3>1. r = St(r.at) /\ StageAt(r.at) /\ vol'.online
      BY <1>1, <1>4, RequestFields, VolumeSet DEF StageInv
    <3> QED BY <1>1, <1>2, <2>1, <3>1 DEF StageAt
  <2> QED BY <1>1, <1>2, <2>1, <2>2, StageGoesOn DEF MountKeyInv
<1> QED BY <1>3, <1>4 DEF Online

LEMMA LoginKeepsInv ==
    ASSUME NodeInv, NEW r \in Requests, Login(r), NodeTypeOK'
    PROVE  NodeInv'
<1> USE DEF NodeInv
<1> DEFINE size == IF host[r.at].session THEN host[r.at].seen ELSE vol.size
           login == host' = [host EXCEPT ![r.at].session = TRUE, ![r.at].file = TRUE,
                                         ![r.at].seen = size]
<1>1. /\ r.op = "stage" /\ h[r].pc = "Login" /\ Clean /\ UNCHANGED <<vol, pods>>
      /\ r.at \in Nodes /\ r = St(r.at)
  BY RequestFields DEF Login, At
<1>2. /\ host' = host \/ login
      /\ Reply(r, FALSE) \/ (login /\ Go(r, LoggedIn(r)))
  BY DEF Login
<1>3. login => /\ host'[r.at].session /\ host'[r.at].staged = host[r.at].staged
               /\ \A m \in Nodes : m # r.at => host'[m] = host[m]
  <2> HIDE DEF size
  <2> SUFFICES ASSUME login
               PROVE  /\ host'[r.at].session /\ host'[r.at].staged = host[r.at].staged
                      /\ \A m \in Nodes : m # r.at => host'[m] = host[m]
    OBVIOUS
  <2> QED BY <1>1 DEF NodeTypeOK
<1> HIDE DEF login
<1>4. CASE Reply(r, FALSE)
  BY <1>1, <1>2, <1>3, <1>4, RefusalKeepsInv DEF Active
<1>5. CASE login /\ Go(r, LoggedIn(r))
  <2>1. StageAt(r.at)
    BY <1>1 DEF StageInv
  <2>2. CASE vol.access = "block"
    <3>1. Go(r, [h[r] EXCEPT !.pc = "WriteMd", !.md.mount = "device"])
      BY <1>5, <2>2 DEF LoggedIn
    <3>2. /\ h'[r].pc = "WriteMd" /\ h'[r].mpath = h[r].mpath /\ h'[r].md.mount = "device"
          /\ \A q \in Requests : q # r => h'[q] = h[q]
          /\ co' = co
      BY <3>1, MountMoves
    <3>3. StageAt(r.at)'
      BY <1>1, <1>3, <1>5, <2>1, <2>2, <3>2 DEF StageAt
    <3> QED BY <1>1, <1>3, <1>5, <3>2, <3>3, StageGoesOn DEF MountKeyInv
  <2>3. CASE vol.access # "block"
    <3>1. PICK pc \in {"Mount", "FindFs"} : Go(r, [h[r] EXCEPT !.pc = pc])
      BY <1>5, <2>3 DEF LoggedIn
    <3>2. /\ h'[r].pc \in {"Mount", "FindFs"} /\ h'[r].mpath = h[r].mpath /\ h'[r].md = h[r].md
          /\ \A q \in Requests : q # r => h'[q] = h[q]
          /\ co' = co
      BY <3>1, PcMoves
    <3>3. vol.access = "mount"
      BY <1>1, <2>1, <2>3 DEF StageAt, NodeTypeOK, Volume
    <3>4. StageAt(r.at)'
      BY <1>1, <1>3, <1>5, <2>1, <3>2, <3>3 DEF StageAt
    <3> QED BY <1>1, <1>3, <1>5, <3>2, <3>4, StageGoesOn DEF MountKeyInv
  <2> QED BY <2>2, <2>3
<1> QED BY <1>2, <1>4, <1>5

LEMMA FindFsKeepsInv ==
    ASSUME NodeInv, Regular, NEW r \in Requests, FindFs(r), NodeTypeOK'
    PROVE  NodeInv'
<1> USE DEF NodeInv
<1>1. /\ r.op = "stage" /\ h[r].pc = "FindFs" /\ Clean /\ UNCHANGED <<vol, host, pods>>
      /\ r.at \in Nodes /\ r = St(r.at)
  BY RequestFields DEF FindFs, At
<1>2. StageAt(r.at)
  BY <1>1 DEF StageInv
<1>3. CASE HasFs
  <2>1. Go(r, [h[r] EXCEPT !.pc = "Mount", !.md.formatted = TRUE])
    BY <1>3 DEF FindFs, Finds, Regular
  <2>2. /\ h'[r].pc = "Mount" /\ h'[r].mpath = h[r].mpath /\ h'[r].md.mount = h[r].md.mount
        /\ \A q \in Requests : q # r => h'[q] = h[q]
        /\ co' = co
    BY <2>1, FormattedMoves
  <2>3. StageAt(r.at)'
    BY <1>1, <1>2, <2>2 DEF StageAt
  <2> QED BY <1>1, <2>2, <2>3, StageGoesOn DEF MountKeyInv
<1>4. CASE ~HasFs
  <2>1. Go(r, [h[r] EXCEPT !.pc = "Mkfs", !.tries = FormatTimeout])
    BY <1>4 DEF FindFs, Finds, Regular
  <2>2. /\ h'[r].pc = "Mkfs" /\ h'[r].mpath = h[r].mpath /\ h'[r].md = h[r].md
        /\ \A q \in Requests : q # r => h'[q] = h[q]
        /\ co' = co
    BY <2>1, TriesMoves
  <2>3. StageAt(r.at)'
    BY <1>1, <1>2, <1>4, <2>2, VolumeFields DEF StageAt, HasFs
  <2> QED BY <1>1, <2>2, <2>3, StageGoesOn DEF MountKeyInv
<1> QED BY <1>3, <1>4

LEMMA MkfsKeepsInv ==
    ASSUME NodeInv, NEW r \in Requests, Mkfs(r), NodeTypeOK'
    PROVE  NodeInv'
<1> USE DEF NodeInv
<1>1. /\ r.op = "stage" /\ h[r].pc = "Mkfs" /\ Clean /\ UNCHANGED <<host, pods>>
      /\ vol' = vol \/ vol' = [vol EXCEPT !.content = "fs"]
      /\ r.at \in Nodes /\ r = St(r.at)
  BY RequestFields DEF Mkfs, At
<1>2. StageAt(r.at)
  BY <1>1 DEF StageInv
<1>3. /\ vol'.access = vol.access /\ vol'.md = vol.md /\ vol'.acl = vol.acl
      /\ vol'.online = vol.online
      /\ vol.content \in {"blank", "fs"}
      /\ vol'.content = vol.content \/ vol'.content = "fs"
  BY <1>1, <1>2, ContentSet DEF StageAt
<1>4. CASE Reply(r, FALSE)
  BY <1>1, <1>3, <1>4, RefusalKeepsInv DEF Active
<1>5. CASE Go(r, [h[r] EXCEPT !.pc = "Mount", !.md.formatted = TRUE])
  <2>1. /\ h'[r].pc = "Mount" /\ h'[r].mpath = h[r].mpath /\ h'[r].md.mount = h[r].md.mount
        /\ \A q \in Requests : q # r => h'[q] = h[q]
        /\ co' = co
    BY <1>5, FormattedMoves
  <2>2. StageAt(r.at)'
    BY <1>1, <1>2, <1>3, <2>1 DEF StageAt
  <2> QED BY <1>1, <1>3, <2>1, <2>2, StageGoesOn DEF MountKeyInv
<1>6. CASE Go(r, [h[r] EXCEPT !.tries = @ - 1])
  <2>1. /\ h'[r].pc = "Mkfs" /\ h'[r].mpath = h[r].mpath /\ h'[r].md = h[r].md
        /\ \A q \in Requests : q # r => h'[q] = h[q]
        /\ co' = co
    BY <1>1, <1>6, RetryMoves
  <2>2. StageAt(r.at)'
    BY <1>1, <1>2, <1>3, <2>1 DEF StageAt
  <2> QED BY <1>1, <1>3, <2>1, <2>2, StageGoesOn DEF MountKeyInv
<1> QED BY <1>4, <1>5, <1>6 DEF Mkfs, MkfsAgain

LEMMA StageMountKeepsInv ==
    ASSUME NodeInv, NEW r \in Requests, StageMount(r), NodeTypeOK'
    PROVE  NodeInv'
<1> USE DEF NodeInv
<1>1. /\ r.op = "stage" /\ h[r].pc = "Mount" /\ Clean /\ UNCHANGED <<vol, pods>>
      /\ r.at \in Nodes /\ r = St(r.at)
  BY RequestFields DEF StageMount, At
<1>2. StageAt(r.at)
  BY <1>1 DEF StageInv
<1>3. CASE Reply(r, FALSE) /\ UNCHANGED host
  BY <1>1, <1>3, RefusalKeepsInv DEF Active
<1>4. CASE /\ HasFs
           /\ host' = [host EXCEPT ![r.at].staged = TRUE]
           /\ Go(r, [h[r] EXCEPT !.pc = "WriteMd", !.md.mount = "staging"])
  <2>1. /\ h'[r].pc = "WriteMd" /\ h'[r].mpath = h[r].mpath /\ h'[r].md.mount = "staging"
        /\ \A q \in Requests : q # r => h'[q] = h[q]
        /\ co' = co
    BY <1>4, MountMoves
  <2>2. /\ host'[r.at].staged /\ host'[r.at].session = host[r.at].session
        /\ \A m \in Nodes : m # r.at => host'[m] = host[m]
    BY <1>1, <1>4 DEF NodeTypeOK
  <2>3. StageAt(r.at)' /\ vol.access = "mount"
    BY <1>1, <1>2, <1>4, <2>1, <2>2 DEF StageAt, HasFs
  <2> QED BY <1>1, <2>1, <2>2, <2>3, StageGoesOn DEF MountKeyInv
<1> QED BY <1>3, <1>4 DEF StageMount

-----------------------------------------------------------------------------
(* NodeUnstageVolume                                                       *)

(* A step of NodeUnstageVolume that goes on and touches neither ACL nor    *)
(* metadata of the volume.                                                 *)
LEMMA UnstageGoesOn ==
    ASSUME NodeInv, NEW r \in Requests, r.op = "unstage", Active(r),
           NodeTypeOK', dirty \subseteq dirty', UNCHANGED pods,
           vol'.access = vol.access, vol'.md = vol.md, vol'.acl = vol.acl,
           \A q \in Requests : q # r => h'[q] = h[q], co' = co,
           h'[r].pc \notin {"idle", "AclSet"}, h'[r].mpath = h[r].mpath, h'[r].md = h[r].md,
           \A n \in Nodes : n # r.at => host'[n] = host[n],
           host'[r.at].staged => host[r.at].staged,
           UnstageAt(r.at)'
    PROVE  NodeInv'
<1> USE DEF NodeInv
<1>1. r = Un(r.at) /\ r.at \in Nodes /\ co[r.at] = "leaving"
  BY RequestFields DEF CallerInv
<1>2. PcFits' /\ AclKnown' /\ LeaveAt(r.at)'
  BY <1>1 DEF PcFits, AclKnown, LeaveInv, LeaveAt
<1> QED BY <1>1, <1>2, UnstageStepKeepsInv DEF MountKeyInv, Active

(* The volume has been left.                                               *)
LEMMA UnstageEnds ==
    ASSUME NodeInv, NEW r \in Requests, r.op = "unstage", h[r].pc \in {"Offline", "Delete"},
           NodeTypeOK', Clean, Reply(r, TRUE), UNCHANGED <<host, pods>>,
           vol'.access = vol.access, vol'.md = vol.md, vol'.acl = vol.acl
    PROVE  NodeInv'
<1> USE DEF NodeInv
<1>1. /\ Active(r) /\ r.at \in Nodes /\ r = Un(r.at)
      /\ \A q \in Requests : q # r => h[q].pc = "idle"
      /\ UnstageAt(r.at)
  BY RequestFields, Alone DEF Active, UnstageInv
<1>2. /\ h'[r] = Idle
      /\ \A q \in Requests : q # r => h'[q] = h[q]
      /\ co'[r.at] \in {"leaving", "out"}
      /\ \A x \in Nodes \cup Targets : x # r.at => co'[x] = co[x]
      /\ dirty' = dirty
  BY <1>1, ReplyMoves DEF Clean, CallerInv
<1>3. PcFits' /\ AclKnown'
  BY <1>1, <1>2, IdleFields DEF PcFits, AclKnown, UnstageAt
<1>4. UnstageAt(r.at)' /\ LeaveAt(r.at)'
  BY <1>1, <1>2, IdleFields DEF UnstageAt, LeaveAt
<1> QED BY <1>1, <1>2, <1>3, <1>4, IdleFields, UnstageStepKeepsInv DEF MountKeyInv, Active

LEMMA StageUnmountKeepsInv ==
    ASSUME NodeInv, Regular, NEW r \in Requests, StageUnmount(r), NodeTypeOK'
    PROVE  NodeInv'
<1> USE DEF NodeInv
<1>1. /\ r.op = "unstage" /\ h[r].pc = "Unmount" /\ UNCHANGED pods
      /\ r.at \in Nodes /\ r = Un(r.at)
  BY RequestFields DEF StageUnmount, At
<1> DEFINE mounted == h[r].mpath = "staging" /\ host[r.at].staged
<1>2. /\ host' = [host EXCEPT ![r.at].staged = @ /\ ~mounted,
                              ![r.at].file = @ /\ h[r].mpath # "device"]
      /\ vol' = [vol EXCEPT !.content = vol.content]
      /\ dirty' = dirty
      /\ Go(r, [h[r] EXCEPT !.pc = "Md"])
  <2>1. PICK busy \in {FALSE} \cup (IF mounted THEN {UmountFails} ELSE {}) :
          /\ host' = [host EXCEPT ![r.at].staged = @ /\ (busy \/ ~mounted),
                                  ![r.at].file = @ /\ h[r].mpath # "device"]
          /\ vol' = [vol EXCEPT !.content = IF busy THEN Emptied ELSE @]
          /\ Soil(IF busy THEN {r.at} ELSE {})
    BY DEF StageUnmount
  <2>2. UmountFails = FALSE
    BY NodeAssumption DEF Regular
  <2>3. busy = FALSE
    BY <2>1, <2>2
  <2> QED BY <2>1, <2>3 DEF StageUnmount, Soil
<1>3. /\ vol'.access = vol.access /\ vol'.md = vol.md /\ vol'.acl = vol.acl
  BY <1>2, VolumeSet
<1>4. /\ host'[r.at].staged = (host[r.at].staged /\ ~mounted)
      /\ \A m \in Nodes : m # r.at => host'[m] = host[m]
  BY <1>1, <1>2 DEF NodeTypeOK
<1>5. /\ h'[r].pc = "Md" /\ h'[r].mpath = h[r].mpath /\ h'[r].md = h[r].md
      /\ \A q \in Requests : q # r => h'[q] = h[q]
      /\ co' = co
  BY <1>2, PcMoves
<1>6. UnstageAt(r.at)'
  <2>1. UnstageAt(r.at)
    BY <1>1 DEF UnstageInv
  <2> QED BY <1>1, <1>2, <1>4, <1>5, <2>1 DEF UnstageAt
<1> QED BY <1>1, <1>2, <1>3, <1>4, <1>5, <1>6, UnstageGoesOn DEF Active

LEMMA LogoutKeepsInv ==
    ASSUME NodeInv, NEW r \in Requests, Logout(r), NodeTypeOK'
    PROVE  NodeInv'
<1> USE DEF NodeInv
<1>1. /\ r.op = "unstage" /\ h[r].pc = "Logout" /\ UNCHANGED <<vol, pods>>
      /\ r.at \in Nodes /\ r = Un(r.at)
      /\ Go(r, [h[r] EXCEPT !.pc = "Init"])
  BY RequestFields DEF Logout, At
<1>2. /\ h'[r].pc = "Init" /\ h'[r].mpath = h[r].mpath /\ h'[r].md = h[r].md
      /\ \A q \in Requests : q # r => h'[q] = h[q]
      /\ co' = co
  BY <1>1, PcMoves
<1>3. /\ \/ dirty' = dirty /\ ~host'[r.at].session
         \/ dirty' = dirty \cup {r.at}
      /\ host'[r.at].staged = host[r.at].staged
      /\ \A m \in Nodes : m # r.at => host'[m] = host[m]
  BY <1>1 DEF Logout, Clean, Soil, NodeTypeOK
<1>4. UnstageAt(r.at)'
  <2>1. UnstageAt(r.at)
    BY <1>1 DEF UnstageInv
  <2> QED BY <1>1, <1>2, <1>3, <2>1 DEF UnstageAt
<1> QED BY <1>1, <1>2, <1>3, <1>4, UnstageGoesOn DEF Active

LEMMA OfflineKeepsInv ==
    ASSUME NodeInv, NEW r \in Requests, Offline(r), NodeTypeOK'
    PROVE  NodeInv'
<1> USE DEF NodeInv
<1>1. /\ r.op = "unstage" /\ h[r].pc = "Offline" /\ Clean /\ UNCHANGED <<host, pods>>
      /\ r.at \in Nodes /\ r = Un(r.at)
      /\ vol' = vol \/ vol' = [vol EXCEPT !.online = FALSE]
  BY RequestFields DEF Offline, At
<1>2. vol'.access = vol.access /\ vol'.md = vol.md /\ vol'.acl = vol.acl
  BY <1>1, OnlineSet
<1>3. CASE Reply(r, TRUE)
  BY <1>1, <1>2, <1>3, UnstageEnds
<1>4. CASE Go(r, [h[r] EXCEPT !.pc = "Delete"])
  <2>1. /\ h'[r].pc = "Delete" /\ h'[r].mpath = h[r].mpath /\ h'[r].md = h[r].md
        /\ \A q \in Requests : q # r => h'[q] = h[q]
        /\ co' = co
    BY <1>4, PcMoves
  <2>2. UnstageAt(r.at)'
    <3>1. UnstageAt(r.at)
      BY <1>1 DEF UnstageInv
    <3> QED BY <1>1, <1>2, <2>1, <3>1 DEF UnstageAt, Clean
  <2> QED BY <1>1, <1>2, <2>1, <2>2, UnstageGoesOn DEF Active, Clean
<1> QED BY <1>3, <1>4 DEF Offline

LEMMA DeleteKeepsInv ==
    ASSUME NodeInv, NEW r \in Requests, Delete(r), NodeTypeOK'
    PROVE  NodeInv'
<1> USE DEF NodeInv
<1>1. /\ r.op = "unstage" /\ h[r].pc = "Delete" /\ Clean /\ UNCHANGED <<host, pods>>
      /\ Reply(r, TRUE)
      /\ vol' = vol \/ vol' = [vol EXCEPT !.content = "gone"]
  BY DEF Delete, At
<1>2. vol'.access = vol.access /\ vol'.md = vol.md /\ vol'.acl = vol.acl
  BY <1>1, ContentSet
<1> QED BY <1>1, <1>2, UnstageEnds

-----------------------------------------------------------------------------
(* NodePublishVolume, NodeUnpublishVolume and NodeExpandVolume             *)

LEMMA PublishMountKeepsInv ==
    ASSUME NodeInv, NEW r \in Requests, PublishMount(r), NodeTypeOK'
    PROVE  NodeInv'
<1> USE DEF NodeInv
<1>1. /\ r.op = "publish" /\ h[r].pc = "Mount" /\ Active(r) /\ dirty' = dirty
      /\ UNCHANGED <<vol, host>>
      /\ r.at \in Targets /\ r = Pub(r.at) /\ r.at \notin Nodes
  BY RequestFields, NodeAssumption DEF PublishMount, At, Active, Clean
<1>2. CASE Reply(r, FALSE) /\ UNCHANGED pods
  BY <1>1, <1>2, RefusalKeepsInv DEF Clean
<1>3. CASE /\ h[r].mpath = "staging"
           /\ pods' = [pods EXCEPT ![r.at] = IF host[On(r)].staged THEN "vol" ELSE "dir"]
           /\ Go(r, [h[r] EXCEPT !.pc = "WriteMd", !.md.bind = @ \cup {r.at}])
  <2>1. /\ h'[r].pc = "WriteMd" /\ h'[r].mpath = h[r].mpath /\ h'[r].md.mount = h[r].md.mount
        /\ \A q \in Requests : q # r => h'[q] = h[q]
        /\ co' = co
    BY <1>3, BindMoves
  <2>2. /\ On(r) \in Nodes /\ StagedAt(On(r)) /\ co[On(r)] = "in" /\ vol.access = "mount"
        /\ co[r.at] = "coming"
    BY <1>1, <1>3, OnANode, InUse DEF StagedInv, MountKeyInv, CallerInv
  <2>3. host[On(r)].staged /\ (On(r) \notin dirty => vol.md.mount = "staging")
    BY <2>2 DEF StagedAt
  <2>4. pods'[r.at] = "vol" /\ \A t \in Targets : t # r.at => pods'[t] = pods[t]
    BY <1>1, <1>3, <2>3 DEF NodeTypeOK
  <2>5. PcFits' /\ PodAt(r.at)'
    BY <1>1, <2>1, <2>2, <2>4 DEF PcFits, PodAt
  <2>6. KeepsMount(r)'
    BY <1>1, <2>1 DEF KeepsMount, StagedInv
  <2> QED
    BY <1>1, <1>3, <2>1, <2>2, <2>3, <2>4, <2>5, <2>6, UseStepKeepsInv
       DEF Active, MountKeyInv
<1> QED BY <1>2, <1>3 DEF PublishMount

LEMMA PublishUnmountKeepsInv ==
    ASSUME NodeInv, Regular, NEW r \in Requests, PublishUnmount(r), NodeTypeOK'
    PROVE  NodeInv'
<1> USE DEF NodeInv
<1>1. /\ r.op = "unpublish" /\ h[r].pc = "Unmount" /\ Active(r) /\ UNCHANGED host
      /\ r.at \in Targets /\ r.at \notin Nodes /\ Reply(r, TRUE)
  BY RequestFields, NodeAssumption DEF PublishUnmount, At, Active
<1>2. /\ pods' = [pods EXCEPT ![r.at] = "none"]
      /\ vol' = [vol EXCEPT !.content = vol.content]
      /\ dirty' = dirty \ {r.at}
  <2>1. PICK busy \in {FALSE} \cup (IF pods[r.at] = "vol" THEN {UmountFails} ELSE {}) :
          /\ pods' = [pods EXCEPT ![r.at] = IF busy THEN @ ELSE "none"]
          /\ vol' = [vol EXCEPT !.content = IF busy THEN Emptied ELSE @]
          /\ dirty' = IF busy THEN dirty \cup {r.at} ELSE dirty \ {r.at}
    BY DEF PublishUnmount
  <2>2. UmountFails = FALSE
    BY NodeAssumption DEF Regular
  <2>3. busy = FALSE
    BY <2>1, <2>2
  <2> QED BY <2>1, <2>3
<1>3. vol' = vol
  BY <1>2 DEF NodeTypeOK, Volume
<1>4. /\ h'[r] = Idle /\ co'[r.at] \in {"leaving", "out"}
      /\ \A q \in Requests : q # r => h'[q] = h[q]
      /\ \A x \in Nodes \cup Targets : x # r.at => co'[x] = co[x]
  BY <1>1, ReplyMoves DEF CallerInv
<1>5. pods'[r.at] = "none" /\ \A t \in Targets : t # r.at => pods'[t] = pods[t]
  BY <1>1, <1>2 DEF NodeTypeOK
<1>6. PcFits' /\ KeepsMount(r)'
  BY <1>4, IdleFields DEF PcFits, KeepsMount
<1>7. PodAt(r.at)'
  <2>1. h[Pub(r.at)].pc = "idle" /\ h'[Pub(r.at)] = h[Pub(r.at)]
    BY <1>1, <1>4, RequestNames DEF CallerInv, Active
  <2> QED BY <1>4, <1>5, <2>1 DEF PodAt
<1>8. (vol.access = "mount" /\ On(r) \notin dirty) => vol.md.mount = "staging"
  BY <1>1, OnANode, InUse DEF StagedInv, StagedAt
<1> QED
  BY <1>1, <1>2, <1>3, <1>4, <1>5, <1>6, <1>7, <1>8, IdleFields, UseStepKeepsInv
     DEF Active, MountKeyInv

LEMMA ExpandKeepsInv ==
    ASSUME NodeInv, NEW r \in Requests, r.op = "expand", Active(r), NodeTypeOK',
           Clean, UNCHANGED <<vol, pods>>,
           \A n \in Nodes :
              host'[n].staged = host[n].staged /\ host'[n].session = host[n].session,
           h'[r].pc \in {"idle", "Size", "Grow"},
           h'[r].mpath = "staging" => h[r].mpath = "staging",
           h'[r].md.mount = "staging" => h[r].md.mount = "staging",
           \A q \in Requests : q # r => h'[q] = h[q], co' = co
    PROVE  NodeInv'
<1> USE DEF NodeInv
<1>1. PcFits' /\ KeepsMount(r)'
  BY DEF PcFits, KeepsMount
<1>2. (vol.access = "mount" /\ On(r) \notin dirty) => vol.md.mount = "staging"
  BY OnANode, InUse DEF StagedInv, StagedAt
<1> QED BY <1>1, <1>2, UseStepKeepsInv DEF Clean, MountKeyInv, Active

LEMMA CheckDeviceSizeKeepsInv ==
    ASSUME NodeInv, NEW r \in Requests, CheckDeviceSize(r), NodeTypeOK'
    PROVE  NodeInv'
<1> USE DEF NodeInv
<1>1. /\ r.op = "expand" /\ h[r].pc = "Size" /\ Active(r) /\ Clean /\ UNCHANGED <<vol, pods>>
      /\ r.at \in Nodes
  BY RequestFields DEF CheckDeviceSize, At, Active
<1>2. \A n \in Nodes : host'[n].staged = host[n].staged /\ host'[n].session = host[n].session
  <2>1. PICK seen : host' = [host EXCEPT ![r.at].seen = seen]
    BY DEF CheckDeviceSize
  <2> QED BY <1>1, <2>1 DEF NodeTypeOK
<1>3. CASE Reply(r, FALSE)
  BY <1>1, <1>2, <1>3, ReplyMoves, RefusalMoves, IdleFields, ExpandKeepsInv
<1>4. CASE ~Reply(r, FALSE)
  <2>1. /\ h'[r].pc \in {"Size", "Grow"} /\ h'[r].mpath = h[r].mpath /\ h'[r].md = h[r].md
        /\ \A q \in Requests : q # r => h'[q] = h[q]
        /\ co' = co
    BY <1>4, SizeMoves
  <2> QED BY <1>1, <1>2, <2>1, ExpandKeepsInv
<1> QED BY <1>3, <1>4

LEMMA ExpandFsKeepsInv ==
    ASSUME NodeInv, NEW r \in Requests, ExpandFs(r), NodeTypeOK'
    PROVE  NodeInv'
<1> USE DEF NodeInv
<1>1. /\ r.op = "expand" /\ h[r].pc = "Grow" /\ Active(r) /\ Clean
      /\ UNCHANGED <<vol, host, pods>>
  BY DEF ExpandFs, At, Active
<1>2. /\ h'[r] = Idle
      /\ \A q \in Requests : q # r => h'[q] = h[q]
      /\ co' = co
  <2>1. PICK ok \in BOOLEAN : Reply(r, ok)
    BY DEF ExpandFs
  <2>2. co' = co \/ co' = [co EXCEPT ![r.at] = @]
    BY <1>1, <2>1 DEF Reply, Told
  <2> QED BY <2>1, <2>2, ReplyMoves DEF NodeTypeOK
<1> QED BY <1>1, <1>2, IdleFields, ExpandKeepsInv

-----------------------------------------------------------------------------
(* The caller.                                                             *)

LEMMA IssueMoves ==
    ASSUME NodeTypeOK, NEW r \in Requests, Issue(r)
    PROVE  /\ h[r].pc = "idle"
           /\ h'[r].pc = "Get"
           /\ h'[r].mpath = "absent"
           /\ h'[r].md.mount = "absent"
           /\ h'[r].md.formatted = FALSE
           /\ \A q \in Requests : q # r => h'[q] = h[q]
           /\ co'[r.at] = CASE r.op \in {"stage", "publish"} -> "coming"
                            [] r.op \in {"unstage", "unpublish"} -> "leaving"
                            [] r.op = "expand" -> co[r.at]
           /\ \A x \in Nodes \cup Targets : x # r.at => co'[x] = co[x]
           /\ UNCHANGED <<vol, host, pods, dirty>>
<1> DEFINE hr == [Idle EXCEPT !.pc = "Get",
                              !.want = IF r.op = "expand" THEN vol.size ELSE 0,
                              !.asked = IF r.op = "expand" THEN vol.size ELSE 0]
<1>1. hr.pc = "Get" /\ hr.mpath = "absent" /\ hr.md.mount = "absent" /\ hr.md.formatted = FALSE
  BY DEF Idle, NoMd
<1>2. r.at \in Nodes \cup Targets
  BY RequestFields
<1>3. h' = [h EXCEPT ![r] = hr]
  BY DEF Issue
<1> HIDE DEF hr
<1>4. h'[r] = hr /\ \A q \in Requests : q # r => h'[q] = h[q]
  BY <1>3 DEF NodeTypeOK
<1> QED BY <1>1, <1>2, <1>4 DEF Issue, NodeTypeOK

(* A node that is asked to do something for the volume does nothing else.  *)
LEMMA NotBusy ==
    ASSUME NEW n \in Nodes, ~Busy(n, AllOps)
    PROVE  \A q \in Requests : On(q) = n => h[q].pc = "idle"
BY RequestFields DEF Busy, AllOps

LEMMA IssueKeepsInv ==
    ASSUME NodeInv, OneNode, NEW r \in Requests, Issue(r), NodeTypeOK'
    PROVE  NodeInv'
<1> USE DEF NodeInv
<1>1. /\ h[r].pc = "idle" /\ h'[r].pc = "Get"
      /\ h'[r].mpath = "absent" /\ h'[r].md.mount = "absent"
      /\ \A q \in Requests : q # r => h'[q] = h[q]
      /\ co'[r.at] = CASE r.op \in {"stage", "publish"} -> "coming"
                       [] r.op \in {"unstage", "unpublish"} -> "leaving"
                       [] r.op = "expand" -> co[r.at]
      /\ \A x \in Nodes \cup Targets : x # r.at => co'[x] = co[x]
      /\ UNCHANGED <<vol, host, pods, dirty>>
  BY IssueMoves
<1>2. PcFits'
  BY <1>1 DEF PcFits
<1>3. MountKeyInv'
  BY <1>1 DEF MountKeyInv
<1>4. StageInv'
  BY <1>1, RequestNames, RequestFields DEF StageInv, StageAt, HasFs
<1>5. r.at \in Nodes \cup Targets /\ May(r)
  BY RequestFields DEF Issue
<1>6. CASE r.op \in {"stage", "unstage", "expand"}
  <2>1. /\ r.at \in Nodes
        /\ \A q \in Requests : On(q) = r.at => h[q].pc = "idle"
        /\ r.op = "stage" => co[r.at] \in {"out", "coming"}
        /\ r.op = "stage" => \A n \in Nodes \ {r.at} : co[n] = "out"
        /\ r.op = "unstage" => co[r.at] # "out"
        /\ r.op = "unstage" => \A t \in Targets : Home[t] = r.at => co[t] = "out"
        /\ r.op = "expand" => co[r.at] = "in"
    BY <1>5, <1>6, RequestFields, NotBusy DEF May, OneNode
  <2>2. /\ \A t \in Targets : co'[t] = co[t]
        /\ \A n \in Nodes : co'[n] = "in" => co[n] = "in"
        /\ \A n \in Nodes : co[n] # "out" => co'[n] # "out"
    BY <1>1, <1>6, <2>1, NodeAssumption
  <2>3. CallerInv'
    <3>1. ASSUME NEW q \in Requests, q # r, h'[q].pc # "idle"
          PROVE  h[q].pc # "idle" /\ co'[q.at] = co[q.at]
      <4>1. q.at # r.at
        BY <1>1, <2>1, <3>1, RequestFields, NodeAssumption
      <4> QED BY <1>1, <3>1, <4>1, RequestFields
    <3>2. ASSUME NEW t \in Targets, co'[t] # "out" PROVE co'[Home[t]] = "in"
      <4>1. Home[t] \in Nodes /\ co[Home[t]] = "in"
        BY <2>2, <3>2, NodeAssumption DEF CallerInv
      <4> QED BY <1>1, <1>6, <2>1, <2>2, <3>2, <4>1
    <3>3. ASSUME NEW m \in Nodes, NEW n \in Nodes, co'[m] # "out", co'[n] # "out" PROVE m = n
      BY <1>1, <1>6, <2>1, <3>3 DEF CallerInv
    <3>4. h'[r].pc # "idle" => co'[r.at] = CASE r.op \in {"stage", "publish"} -> "coming"
                                             [] r.op \in {"unstage", "unpublish"} -> "leaving"
                                             [] r.op = "expand" -> "in"
      BY <1>1, <1>6, <2>1
    <3> QED BY <3>1, <3>2, <3>3, <3>4 DEF CallerInv, Active
  <2>4. StagedInv'
    BY <1>1, <2>2 DEF StagedInv, StagedAt, KeepsMount, HasFs
  <2>5. UnstageInv'
    <3> SUFFICES ASSUME NEW n \in Nodes PROVE UnstageAt(n)'
      BY DEF UnstageInv
    <3>1. CASE n = r.at /\ r.op = "unstage"
      <4>1. r = Un(n) /\ h[St(n)].pc = "idle"
        BY <2>1, <3>1, RequestFields, RequestNames
      <4>2. UnstageAt(n) /\ StagedAt(n) /\ LeaveAt(n)
        BY DEF UnstageInv, StagedInv, LeaveInv
      <4>3. (n \notin dirty /\ host[n].staged) => vol.md.mount = "staging"
        BY <1>1, <2>1, <3>1, <4>1, <4>2 DEF UnstageAt, StagedAt, LeaveAt, MountKeyInv, NodeTypeOK
      <4> QED BY <1>1, <4>1, <4>3 DEF UnstageAt
    <3>2. CASE n = r.at /\ r.op = "stage"
      <4>1. r = St(n) /\ h[St(n)].pc = "idle" /\ h'[Un(n)] = h[Un(n)]
        BY <1>1, <3>2, RequestFields, RequestNames
      <4>2. UnstageAt(n) /\ LeaveAt(n)
        BY DEF UnstageInv, LeaveInv
      <4>3. (n \notin dirty /\ host[n].staged) => co[n] = "coming"
        BY <2>1, <3>2, <4>2 DEF LeaveAt
      <4> QED BY <1>1, <4>1, <4>2, <4>3 DEF UnstageAt
    <3>3. CASE n # r.at \/ r.op = "expand"
      <4>1. h'[Un(n)] = h[Un(n)] /\ h'[St(n)] = h[St(n)] /\ co'[n] = co[n]
        BY <1>1, <1>6, <2>1, <3>3, RequestNames
      <4> QED BY <1>1, <4>1 DEF UnstageInv, UnstageAt
    <3> QED BY <1>6, <3>1, <3>2, <3>3
  <2>6. LeaveInv'
    <3>1. ASSUME NEW n \in Nodes PROVE LeaveAt(n)'
      <4>1. LeaveAt(n)
        BY DEF LeaveInv
      <4>2. CASE n = r.at
        <5>1. h[St(n)].pc = "idle"
          BY <2>1, <4>2, RequestNames, RequestFields
        <5> QED BY <1>1, <1>6, <2>1, <4>1, <4>2, <5>1 DEF LeaveAt
      <4>3. CASE n # r.at
        <5>1. h'[St(n)] = h[St(n)]
          BY <1>1, <4>3, RequestNames
        <5> QED BY <1>1, <4>1, <4>3, <5>1 DEF LeaveAt
      <4> QED BY <4>2, <4>3
    <3>2. AclKnown'
      <4>1. /\ vol.acl \subseteq Nodes
            /\ \A q \in Requests : h[q].acl \subseteq Nodes
        BY HandlerFields, VolumeFields DEF NodeTypeOK
      <4>2. \A q \in Requests : h'[q].pc = "AclSet" => h[q].pc = "AclSet" /\ h'[q] = h[q]
        BY <1>1
      <4> QED BY <1>1, <2>2, <4>1, <4>2 DEF LeaveInv, AclKnown
    <3> QED BY <3>1, <3>2 DEF LeaveInv
  <2>7. PodInv'
    <3> SUFFICES ASSUME NEW t \in Targets PROVE PodAt(t)'
      BY DEF PodInv
    <3>1. h'[Pub(t)] = h[Pub(t)]
      BY <1>1, <1>6, RequestNames
    <3> QED BY <1>1, <2>2, <3>1 DEF PodInv, PodAt
  <2> QED BY <1>2, <1>3, <1>4, <2>3, <2>4, <2>5, <2>6, <2>7
<1>7. CASE r.op \in {"publish", "unpublish"}
  <2>1. /\ r.at \in Targets /\ r.at \notin Nodes
        /\ r.op = "publish" => co[Home[r.at]] = "in" /\ co[r.at] \in {"out", "coming"}
        /\ r.op = "unpublish" => co[r.at] # "out"
        /\ \A q \in Requests : q.at = r.at => h[q].pc = "idle"
    <3>1. r.at \in Targets /\ r.at \notin Nodes
      BY <1>7, RequestFields, NodeAssumption
    <3>2. ASSUME NEW q \in Requests, q.at = r.at PROVE h[q].pc = "idle"
      <4>1. q.op \in {"publish", "unpublish"}
        BY <3>1, <3>2, RequestFields
      <4>2. CASE q.op = r.op
        BY <1>1, <3>2, <4>2, SameRequest
      <4>3. CASE q.op # r.op
        <5>1. q = [r EXCEPT !.op = q.op]
          BY <3>2 DEF Requests
        <5> QED BY <1>5, <1>7, <4>1, <4>3, <5>1 DEF May
      <4> QED BY <4>2, <4>3
    <3>3. /\ r.op = "publish" => co[Home[r.at]] = "in" /\ co[r.at] \in {"out", "coming"}
          /\ r.op = "unpublish" => co[r.at] # "out"
      BY <1>5, <1>7 DEF May
    <3> QED BY <3>1, <3>2, <3>3
  <2>2. /\ \A n \in Nodes : co'[n] = co[n] /\ h'[St(n)] = h[St(n)] /\ h'[Un(n)] = h[Un(n)]
    BY <1>1, <1>7, <2>1, RequestNames
  <2>3. CallerInv'
    <3>1. ASSUME NEW q \in Requests, q # r, h'[q].pc # "idle"
          PROVE  h[q].pc # "idle" /\ co'[q.at] = co[q.at]
      BY <1>1, <2>1, <3>1, RequestFields
    <3>2. ASSUME NEW t \in Targets, co'[t] # "out" PROVE co'[Home[t]] = "in"
      <4>1. Home[t] \in Nodes
        BY NodeAssumption
      <4> QED BY <1>1, <1>7, <2>1, <2>2, <3>2, <4>1 DEF CallerInv
    <3>3. \A m, n \in Nodes : (co'[m] # "out" /\ co'[n] # "out") => m = n
      BY <2>2 DEF CallerInv
    <3>4. co'[r.at] = CASE r.op \in {"stage", "publish"} -> "coming"
                        [] r.op \in {"unstage", "unpublish"} -> "leaving"
                        [] r.op = "expand" -> "in"
      BY <1>1, <1>7
    <3> QED BY <3>1, <3>2, <3>3, <3>4 DEF CallerInv, Active
  <2>4. StagedInv'
    BY <1>1, <2>2 DEF StagedInv, StagedAt, KeepsMount, HasFs
  <2>5. UnstageInv'
    BY <1>1, <2>2 DEF UnstageInv, UnstageAt
  <2>6. LeaveInv'
    <3>1. ASSUME NEW n \in Nodes PROVE LeaveAt(n)'
      BY <1>1, <2>2 DEF LeaveInv, LeaveAt
    <3>2. AclKnown'
      <4>1. /\ vol.acl \subseteq Nodes
            /\ \A q \in Requests : h[q].acl \subseteq Nodes
        BY HandlerFields, VolumeFields DEF NodeTypeOK
      <4>2. \A q \in Requests : h'[q].pc = "AclSet" => h[q].pc = "AclSet" /\ h'[q] = h[q]
        BY <1>1
      <4> QED BY <1>1, <2>2, <4>1, <4>2 DEF LeaveInv, AclKnown
    <3> QED BY <3>1, <3>2 DEF LeaveInv
  <2>7. PodInv'
    <3> SUFFICES ASSUME NEW t \in Targets PROVE PodAt(t)'
      BY DEF PodInv
    <3>1. PodAt(t)
      BY DEF PodInv
    <3>2. CASE t = r.at
      <4>1. h[Pub(t)].pc = "idle" /\ h'[Pub(t)].pc \in {"idle", "Get"}
        BY <1>1, <2>1, <3>2, RequestNames
      <4> QED BY <1>1, <1>7, <2>1, <3>1, <3>2, <4>1 DEF PodAt, NodeTypeOK
    <3>3. CASE t # r.at
      <4>1. h'[Pub(t)] = h[Pub(t)]
        BY <1>1, <3>3, RequestNames
      <4> QED BY <1>1, <3>1, <3>3, <4>1 DEF PodAt
    <3> QED BY <3>2, <3>3
  <2> QED BY <1>2, <1>3, <1>4, <2>3, <2>4, <2>5, <2>6, <2>7
<1> QED BY <1>6, <1>7, RequestFields

-----------------------------------------------------------------------------
(* The world around the handlers.                                          *)

LEMMA WriteKeepsInv ==
    ASSUME NodeInv, NEW t \in Targets, Write(t), NodeTypeOK'
    PROVE  NodeInv'
<1> USE DEF NodeInv
<1>1. /\ pods[t] = "vol" /\ HasFs /\ UNCHANGED <<host, pods, h, co, dirty>>
      /\ vol' = [vol EXCEPT !.content = "data"]
  BY DEF Write
<1>2. /\ vol'.access = vol.access /\ vol'.md = vol.md /\ vol'.acl = vol.acl
      /\ vol'.online = vol.online /\ vol'.content = "data"
  BY <1>1, VolumeSet
<1>3. \A n \in Nodes : h[St(n)].pc = "idle"
  BY <1>1, Alone, RequestNames DEF Active
<1>4. PcFits'
  BY <1>1 DEF PcFits
<1>5. CallerInv'
  BY <1>1 DEF CallerInv, Active
<1>6. MountKeyInv'
  BY <1>1, <1>2 DEF MountKeyInv
<1>7. StageInv'
  BY <1>1, <1>3 DEF StageInv, StageAt
<1>8. StagedInv'
  BY <1>1, <1>2 DEF StagedInv, StagedAt, KeepsMount, HasFs
<1>9. UnstageInv'
  BY <1>1, <1>2 DEF UnstageInv, UnstageAt
<1>10. LeaveInv'
  BY <1>1, <1>2 DEF LeaveInv, LeaveAt, AclKnown
<1>11. PodInv'
  BY <1>1, <1>2 DEF PodInv, PodAt
<1> QED BY <1>4, <1>5, <1>6, <1>7, <1>8, <1>9, <1>10, <1>11

LEMMA ResizeKeepsInv ==
    ASSUME NodeInv, Resize, NodeTypeOK'
    PROVE  NodeInv'
<1> USE DEF NodeInv
<1>1. /\ UNCHANGED <<host, pods, h, co, dirty>>
      /\ vol'.access = vol.access /\ vol'.md = vol.md /\ vol'.acl = vol.acl
      /\ vol'.online = vol.online /\ vol'.content = vol.content
  BY DEF Resize, NodeTypeOK, Volume
<1>2. PcFits'
  BY <1>1 DEF PcFits
<1>3. CallerInv'
  BY <1>1 DEF CallerInv, Active
<1>4. MountKeyInv'
  BY <1>1 DEF MountKeyInv
<1>5. StageInv'
  BY <1>1 DEF StageInv, StageAt, HasFs
<1>6. StagedInv'
  BY <1>1 DEF StagedInv, StagedAt, KeepsMount, HasFs
<1>7. UnstageInv'
  BY <1>1 DEF UnstageInv, UnstageAt
<1>8. LeaveInv'
  BY <1>1 DEF LeaveInv, LeaveAt, AclKnown
<1>9. PodInv'
  BY <1>1 DEF PodInv, PodAt
<1> QED BY <1>2, <1>3, <1>4, <1>5, <1>6, <1>7, <1>8, <1>9

LEMMA RebootMoves ==
    ASSUME NodeTypeOK, NEW n \in Nodes, Reboot(n)
    PROVE  /\ \A q \in Requests : On(q) = n => h'[q] = Idle
           /\ \A q \in Requests : On(q) # n => h'[q] = h[q]
           /\ ~host'[n].session /\ ~host'[n].staged
           /\ \A m \in Nodes : m # n => host'[m] = host[m]
           /\ \A t \in Targets : Home[t] = n => pods'[t] = "none" /\ co'[t] = "out"
           /\ \A t \in Targets : Home[t] # n =>
                pods'[t] = pods[t] /\ co'[t] = co[t] /\ (t \in dirty' <=> t \in dirty)
           /\ co'[n] = IF co[n] = "in" THEN "coming" ELSE co[n]
           /\ \A m \in Nodes : m # n => co'[m] = co[m]
           /\ \A m \in Nodes : m \in dirty' <=> m \in dirty
           /\ vol' = vol
<1>1. \A q \in Requests : /\ On(q) = n => h'[q] = Idle
                          /\ On(q) # n => h'[q] = h[q]
  BY DEF Reboot
<1>2. ~host'[n].session /\ ~host'[n].staged /\ \A m \in Nodes : m # n => host'[m] = host[m]
  BY DEF Reboot, NodeTypeOK
<1>3. \A t \in Targets : /\ Home[t] = n => pods'[t] = "none" /\ co'[t] = "out"
                         /\ Home[t] # n => pods'[t] = pods[t] /\ co'[t] = co[t]
  BY NodeAssumption DEF Reboot
<1>4. /\ \A t \in Targets : Home[t] # n => (t \in dirty' <=> t \in dirty)
      /\ \A m \in Nodes : m \in dirty' <=> m \in dirty
  BY NodeAssumption DEF Reboot
<1>5. /\ co'[n] = IF co[n] = "in" THEN "coming" ELSE co[n]
      /\ \A m \in Nodes : m # n => co'[m] = co[m]
  BY NodeAssumption DEF Reboot
<1> QED BY <1>1, <1>2, <1>3, <1>4, <1>5 DEF Reboot

LEMMA RebootKeepsInv ==
    ASSUME NodeInv, NEW n \in Nodes, Reboot(n), NodeTypeOK'
    PROVE  NodeInv'
<1> USE DEF NodeInv
<1>1. /\ \A q \in Requests : h'[q] = Idle \/ (h'[q] = h[q] /\ On(q) # n)
      /\ \A q \in Requests : On(q) = n => h'[q] = Idle
      /\ \A m \in Nodes : (co'[m] = "out" <=> co[m] = "out") /\ (co'[m] = "in" => co[m] = "in" /\ m # n)
      /\ \A m \in Nodes : m # n => co'[m] = co[m] /\ host'[m] = host[m]
      /\ \A m \in Nodes : m \in dirty' <=> m \in dirty
      /\ ~host'[n].session /\ ~host'[n].staged
      /\ vol' = vol
  BY RebootMoves
<1>2. PcFits'
  BY <1>1, IdleFields DEF PcFits
<1>3. CallerInv'
  <2>1. ASSUME NEW q \in Requests, h'[q].pc # "idle" PROVE h'[q] = h[q] /\ co'[q.at] = co[q.at]
    <3>1. h'[q] = h[q] /\ On(q) # n
      BY <1>1, <2>1, IdleFields
    <3> QED BY <1>1, <3>1, RebootMoves, RequestFields
  <2>2. ASSUME NEW t \in Targets, co'[t] # "out" PROVE co'[Home[t]] = "in"
    <3>1. Home[t] # n /\ Home[t] \in Nodes /\ co[t] # "out"
      BY <2>2, RebootMoves, NodeAssumption
    <3> QED BY <1>1, <3>1 DEF CallerInv
  <2>3. \A l, m \in Nodes : (co'[l] # "out" /\ co'[m] # "out") => l = m
    BY <1>1 DEF CallerInv
  <2> QED BY <2>1, <2>2, <2>3 DEF CallerInv, Active
<1>4. MountKeyInv'
  BY <1>1, IdleFields DEF MountKeyInv
<1>5. StageInv'
  <2> SUFFICES ASSUME NEW m \in Nodes PROVE StageAt(m)'
    BY DEF StageInv
  <2>1. m = n => h'[St(m)] = Idle
    BY <1>1, RequestNames, RequestFields
  <2> QED BY <1>1, <2>1, RequestNames, IdleFields DEF StageInv, StageAt, HasFs
<1>6. StagedInv'
  <2>1. \A m \in Nodes : StagedAt(m)'
    BY <1>1 DEF StagedInv, StagedAt, HasFs
  <2>2. \A q \in Requests : KeepsMount(q)'
    BY <1>1, IdleFields, OnANode DEF StagedInv, KeepsMount
  <2> QED BY <2>1, <2>2 DEF StagedInv
<1>7. UnstageInv'
  <2> SUFFICES ASSUME NEW m \in Nodes PROVE UnstageAt(m)'
    BY DEF UnstageInv
  <2>1. /\ m = n => h'[Un(m)] = Idle
        /\ m # n => h'[Un(m)] = h[Un(m)] /\ h'[St(m)] = h[St(m)]
    BY <1>1, RebootMoves, RequestNames, RequestFields
  <2>2. dirty' \cap Nodes = {} => dirty \cap Nodes = {}
    BY <1>1
  <2> QED BY <1>1, <2>1, <2>2, IdleFields DEF UnstageInv, UnstageAt
<1>8. LeaveInv'
  <2>1. ASSUME NEW m \in Nodes PROVE LeaveAt(m)'
    <3>1. m # n => h'[St(m)] = h[St(m)]
      BY RebootMoves, RequestNames, RequestFields
    <3> QED BY <1>1, <3>1 DEF LeaveInv, LeaveAt
  <2>2. AclKnown'
    <3>1. /\ vol.acl \subseteq Nodes
          /\ \A q \in Requests : h[q].acl \subseteq Nodes
      BY HandlerFields, VolumeFields DEF NodeTypeOK
    <3>2. dirty' \cap Nodes = {} => dirty \cap Nodes = {}
      BY <1>1
    <3> QED BY <1>1, <3>1, <3>2, IdleFields DEF LeaveInv, AclKnown
  <2> QED BY <2>1, <2>2 DEF LeaveInv
<1>9. PodInv'
  <2> SUFFICES ASSUME NEW t \in Targets PROVE PodAt(t)'
    BY DEF PodInv
  <2>1. CASE Home[t] = n
    <3>1. h'[Pub(t)] = Idle
      BY <1>1, <2>1, RequestNames, RequestFields
    <3> QED BY <2>1, <3>1, RebootMoves, IdleFields DEF PodAt
  <2>2. CASE Home[t] # n
    <3>1. h'[Pub(t)] = h[Pub(t)]
      BY <2>2, RebootMoves, RequestNames, RequestFields
    <3> QED BY <1>1, <2>2, <3>1, RebootMoves DEF PodInv, PodAt
  <2> QED BY <2>1, <2>2
<1> QED BY <1>2, <1>3, <1>4, <1>5, <1>6, <1>7, <1>8, <1>9

LEMMA DieKeepsInv ==
    ASSUME NodeInv, NEW n \in Nodes, Die(n), NodeTypeOK'
    PROVE  NodeInv'
BY KillKeepsInv DEF Die

LEMMA StutterKeepsInv ==
    ASSUME NodeInv, UNCHANGED vars
    PROVE  NodeInv'
<1> USE DEF NodeInv, vars
<1>1. NodeTypeOK' /\ PcFits'
  BY DEF NodeTypeOK, PcFits
<1>2. CallerInv'
  BY DEF CallerInv, Active
<1>3. MountKeyInv' /\ StageInv'
  BY DEF MountKeyInv, StageInv, StageAt, HasFs
<1>4. StagedInv'
  BY DEF StagedInv, StagedAt, KeepsMount, HasFs
<1>5. UnstageInv' /\ LeaveInv'
  BY DEF UnstageInv, UnstageAt, LeaveInv, LeaveAt, AclKnown
<1>6. PodInv'
  BY DEF PodInv, PodAt
<1> QED BY <1>1, <1>2, <1>3, <1>4, <1>5, <1>6
=============================================================================
