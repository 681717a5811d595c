------------------------- MODULE NodeServiceTypes -------------------------
(***************************************************************************)
(* Every action of NodeService keeps NodeTypeOK.                           *)
(***************************************************************************)
EXTENDS NodeService, TLAPS

\* Only a stage and an unstage get to the initiators and the ACL.
PcFits ==
    \A r \in Requests :
        /\ h[r].pc \in {"Init", "AclGet", "AclSet"} => r.op \in {"stage", "unstage"}
        /\ h[r].pc = "WriteMd" => r.op # "expand"

LEMMA OnANode ==
    ASSUME NEW r \in Requests
    PROVE  On(r) \in Nodes
BY NodeAssumption DEF On, Requests

LEMMA IdleTyped == Idle \in Handler
BY DEF Idle, Handler, NoMd, Metadata, Pcs

Mounts == {"absent", "", "staging", "device"}

LEMMA HandlerSet ==
    ASSUME NEW hr \in Handler
    PROVE  /\ \A x \in Pcs : [hr EXCEPT !.pc = x] \in Handler
           /\ \A x \in Mounts : [hr EXCEPT !.mpath = x] \in Handler
           /\ \A x \in Metadata : [hr EXCEPT !.md = x] \in Handler
           /\ \A x \in SUBSET Nodes : [hr EXCEPT !.acl = x] \in Handler
           /\ \A x \in Int : [hr EXCEPT !.tries = x] \in Handler
           /\ \A x \in Nat : [hr EXCEPT !.want = x] \in Handler
           /\ \A x \in Nat : [hr EXCEPT !.asked = x] \in Handler
           /\ \A x \in BOOLEAN : [hr EXCEPT !.blind = x] \in Handler
BY DEF Handler, Mounts

LEMMA HandlerSetMd ==
    ASSUME NEW hr \in Handler
    PROVE  /\ \A x \in Mounts : [hr EXCEPT !.md.mount = x] \in Handler
           /\ [hr EXCEPT !.md.formatted = TRUE] \in Handler
           /\ \A x \in SUBSET Targets : [hr EXCEPT !.md.bind = x] \in Handler
BY DEF Handler, Metadata, Mounts

Hosts == [Nodes -> [session : BOOLEAN, file : BOOLEAN, staged : BOOLEAN, seen : Nat]]

LEMMA HostSet ==
    ASSUME NEW hs \in Hosts, NEW n \in Nodes
    PROVE  /\ \A x \in BOOLEAN : [hs EXCEPT ![n].session = x] \in Hosts
           /\ \A x \in BOOLEAN : [hs EXCEPT ![n].file = x] \in Hosts
           /\ \A x \in BOOLEAN : [hs EXCEPT ![n].staged = x] \in Hosts
           /\ \A x \in Nat : [hs EXCEPT ![n].seen = x] \in Hosts
           /\ hs[n].session \in BOOLEAN /\ hs[n].file \in BOOLEAN
           /\ hs[n].staged \in BOOLEAN /\ hs[n].seen \in Nat
BY DEF Hosts

LEMMA HandlerFields ==
    ASSUME NEW hr \in Handler
    PROVE  /\ hr.pc \in Pcs
           /\ hr.mpath \in Mounts
           /\ hr.md \in Metadata
           /\ hr.md.mount \in Mounts
           /\ hr.md.formatted \in BOOLEAN
           /\ hr.md.bind \subseteq Targets
           /\ hr.acl \subseteq Nodes
           /\ hr.tries \in Int
           /\ hr.want \in Nat
           /\ hr.asked \in Nat
           /\ hr.blind \in BOOLEAN
BY DEF Handler, Metadata, Mounts

LEMMA VolumeFields ==
    ASSUME NodeTypeOK
    PROVE  /\ vol.content \in {"blank", "fs", "data", "gone"}
           /\ vol.md \in Metadata
           /\ vol.md.mount \in Mounts
           /\ vol.acl \subseteq Nodes
           /\ vol.size \in Nat
           /\ vol.online \in BOOLEAN
BY DEF NodeTypeOK, Volume, Metadata, Mounts

LEMMA FaultsTyped ==
    ASSUME NodeTypeOK, NEW can \in BOOLEAN, Works \/ Errs \/ Fails(can)
    PROVE  faults' \in 0 .. MaxFaults
BY NodeBoundAssumption DEF NodeTypeOK, Works, Errs, Fails

LEMMA GoTyped ==
    ASSUME NodeTypeOK, NEW r \in Requests, NEW hr \in Handler, Go(r, hr)
    PROVE  /\ h' \in [Requests -> Handler]
           /\ co' \in [Nodes \cup Targets -> {"out", "coming", "in", "leaving"}]
           /\ deaths' \in 0 .. MaxDeaths
BY DEF NodeTypeOK, Go

LEMMA ReplyTyped ==
    ASSUME NodeTypeOK, NEW r \in Requests, NEW ok \in BOOLEAN, Reply(r, ok)
    PROVE  /\ h' \in [Requests -> Handler]
           /\ co' \in [Nodes \cup Targets -> {"out", "coming", "in", "leaving"}]
           /\ deaths' \in 0 .. MaxDeaths
<1>1. h' \in [Requests -> Handler]
  BY IdleTyped DEF NodeTypeOK, Reply
<1>2. co' \in [Nodes \cup Targets -> {"out", "coming", "in", "leaving"}]
  <2>1. r.at \in Nodes \cup Targets /\ r.op \in {"stage", "publish", "unstage", "unpublish", "expand"}
    BY DEF Requests
  <2>2. Told(r) \in {"out", "coming", "in", "leaving"}
    BY <2>1 DEF Told, NodeTypeOK
  <2> QED BY <2>2 DEF NodeTypeOK, Reply
<1>3. deaths' \in 0 .. MaxDeaths
  BY DEF NodeTypeOK, Reply
<1> QED BY <1>1, <1>2, <1>3

LEMMA KillTyped ==
    ASSUME NodeTypeOK, NEW n \in Nodes, Kill(n)
    PROVE  /\ h' \in [Requests -> Handler]
           /\ dirty' \subseteq Nodes \cup Targets
<1>1. \A r \in Requests : r.at \in Nodes \cup Targets
  BY DEF Requests
<1>2. Unrecorded(n) \subseteq Nodes \cup Targets
  BY <1>1 DEF Unrecorded
<1>3. h' \in [Requests -> Handler]
  BY IdleTyped DEF NodeTypeOK, Kill
<1> QED BY <1>2, <1>3 DEF NodeTypeOK, Kill, Soil

LEMMA GetVolumeTyped ==
    ASSUME NodeTypeOK, NEW r \in Requests, GetVolume(r)
    PROVE  NodeTypeOK'
<1>1. /\ vol' \in Volume
      /\ host' \in [Nodes -> [session : BOOLEAN, file : BOOLEAN, staged : BOOLEAN, seen : Nat]]
      /\ pods' \in [Targets -> {"none", "vol", "dir"}]
  BY DEF NodeTypeOK, GetVolume
<1>2. faults' \in 0 .. MaxFaults
  BY FaultsTyped DEF GetVolume, There
<1> DEFINE hr == [h[r] EXCEPT !.pc = IF r.op = "unstage" THEN "Unmount" ELSE "Md",
                             !.mpath = vol.md.mount]
<1>a. h[r] \in Handler
  BY DEF NodeTypeOK
<1>b. hr \in Handler
  BY <1>a, HandlerSet, VolumeFields DEF Pcs
<1> HIDE DEF hr
<1>3. CASE Clean /\ Go(r, hr)
  BY <1>1, <1>2, <1>3, <1>b, GoTyped DEF NodeTypeOK, Clean
<1>4. CASE Panic(r)
  BY <1>1, <1>2, <1>4, KillTyped, OnANode DEF NodeTypeOK, Panic
<1>5. CASE Reply(r, FALSE) /\ Clean
  BY <1>1, <1>2, <1>5, ReplyTyped DEF NodeTypeOK, Clean
<1> QED BY <1>3, <1>4, <1>5 DEF GetVolume, hr

LEMMA WithMdTyped ==
    ASSUME NodeTypeOK, NEW r \in Requests, NEW md \in Metadata, WithMd(r, md)
    PROVE  /\ h' \in [Requests -> Handler]
           /\ co' \in [Nodes \cup Targets -> {"out", "coming", "in", "leaving"}]
           /\ deaths' \in 0 .. MaxDeaths
<1> DEFINE hr == [h[r] EXCEPT !.md = md]
<1>1. hr \in Handler
  BY HandlerSet DEF NodeTypeOK
<1> HIDE DEF hr
<1>2. /\ [hr EXCEPT !.pc = "Init"] \in Handler
      /\ [hr EXCEPT !.pc = "Mount"] \in Handler
      /\ [hr EXCEPT !.pc = "WriteMd"] \in Handler
  BY <1>1, HandlerSet DEF Pcs
<1>3. [hr EXCEPT !.pc = "WriteMd", !.md.mount = ""] \in Handler
  BY <1>1 DEF Handler, Metadata, Pcs
<1>4. [hr EXCEPT !.pc = "Size", !.tries = SizeTimeout] \in Handler
  <2>1. SizeTimeout \in Int
    BY NodeBoundAssumption
  <2>2. [hr EXCEPT !.pc = "Size"] \in Handler
    BY <1>1, HandlerSet DEF Pcs
  <2> QED BY <2>1, <2>2, HandlerSet
<1>5. \/ Go(r, [hr EXCEPT !.pc = "Init"])
      \/ Go(r, [hr EXCEPT !.pc = "Mount"])
      \/ Go(r, [hr EXCEPT !.pc = "WriteMd"])
      \/ Go(r, [hr EXCEPT !.pc = "WriteMd", !.md.mount = ""])
      \/ Go(r, [hr EXCEPT !.pc = "Size", !.tries = SizeTimeout])
      \/ Reply(r, FALSE)
  BY DEF WithMd, hr
<1> QED BY <1>2, <1>3, <1>4, <1>5, GoTyped, ReplyTyped

LEMMA GetMetadataTyped ==
    ASSUME NodeTypeOK, NEW r \in Requests, GetMetadata(r)
    PROVE  NodeTypeOK'
<1>1. NoMd \in Metadata
  BY DEF NoMd, Metadata
<1>2. faults' \in 0 .. MaxFaults
  BY FaultsTyped DEF GetMetadata, There
<1>3. /\ h' \in [Requests -> Handler]
      /\ co' \in [Nodes \cup Targets -> {"out", "coming", "in", "leaving"}]
      /\ deaths' \in 0 .. MaxDeaths
  BY <1>1, WithMdTyped, ReplyTyped, VolumeFields DEF GetMetadata
<1> QED BY <1>2, <1>3 DEF NodeTypeOK, GetMetadata, Clean

LEMMA CreateGetInitiatorTyped ==
    ASSUME NodeTypeOK, NEW r \in Requests, CreateGetInitiator(r)
    PROVE  NodeTypeOK'
<1> DEFINE hr == [h[r] EXCEPT !.pc = "AclGet"]
<1>1. hr \in Handler
  BY HandlerSet DEF NodeTypeOK, Pcs
<1> HIDE DEF hr
<1>2. faults' \in 0 .. MaxFaults
  BY FaultsTyped DEF CreateGetInitiator
<1>3. CASE Go(r, hr) /\ Clean
  BY <1>1, <1>2, <1>3, GoTyped DEF NodeTypeOK, CreateGetInitiator, Clean
<1>4. CASE Panic(r)
  BY <1>2, <1>4, KillTyped, OnANode DEF NodeTypeOK, CreateGetInitiator, Panic
<1>5. CASE Reply(r, FALSE) /\ Clean
  BY <1>2, <1>5, ReplyTyped DEF NodeTypeOK, CreateGetInitiator, Clean
<1> QED BY <1>3, <1>4, <1>5 DEF CreateGetInitiator, hr

LEMMA AclTyped ==
    ASSUME NodeTypeOK, NEW acl \in SUBSET Nodes, NEW n \in Nodes
    PROVE  /\ Registered(acl, n) \subseteq Nodes
           /\ Unregistered(acl, n) \subseteq Nodes
BY DEF Registered, Unregistered

LEMMA UnregisterTyped ==
    ASSUME NodeTypeOK, NEW r \in Requests, Unregister(r)
    PROVE  /\ h' \in [Requests -> Handler]
           /\ co' \in [Nodes \cup Targets -> {"out", "coming", "in", "leaving"}]
           /\ deaths' \in 0 .. MaxDeaths
<1>1. [h[r] EXCEPT !.pc = "Offline"] \in Handler
  BY HandlerSet DEF NodeTypeOK, Pcs
<1> QED BY <1>1, GoTyped, ReplyTyped DEF Unregister

LEMMA AclFailedTyped ==
    ASSUME NodeTypeOK, NEW r \in Requests, AclFailed(r)
    PROVE  /\ h' \in [Requests -> Handler]
           /\ co' \in [Nodes \cup Targets -> {"out", "coming", "in", "leaving"}]
           /\ deaths' \in 0 .. MaxDeaths
           /\ dirty' \subseteq Nodes \cup Targets
<1>1. r.at \in Nodes \cup Targets
  BY DEF Requests
<1>2. dirty' \subseteq Nodes \cup Targets
  BY <1>1 DEF NodeTypeOK, AclFailed, Clean, Soil
<1> QED BY <1>2, UnregisterTyped, ReplyTyped DEF AclFailed

LEMMA AclGetTyped ==
    ASSUME NodeTypeOK, NEW r \in Requests, AclGet(r)
    PROVE  NodeTypeOK'
<1> DEFINE hr == [h[r] EXCEPT !.pc = "AclSet", !.acl = vol.acl]
<1>1. hr \in Handler
  <2>1. [h[r] EXCEPT !.pc = "AclSet"] \in Handler
    BY HandlerSet DEF NodeTypeOK, Pcs
  <2> QED BY <2>1, HandlerSet, VolumeFields
<1> HIDE DEF hr
<1>2. faults' \in 0 .. MaxFaults
  BY FaultsTyped DEF AclGet, There
<1>3. CASE Go(r, hr) /\ Clean
  BY <1>1, <1>2, <1>3, GoTyped DEF NodeTypeOK, AclGet, Clean
<1>4. CASE AclFailed(r)
  BY <1>2, <1>4, AclFailedTyped DEF NodeTypeOK, AclGet
<1> QED BY <1>3, <1>4 DEF AclGet, hr

LEMMA AclSetTyped ==
    ASSUME NodeTypeOK, PcFits, NEW r \in Requests, AclSet(r)
    PROVE  NodeTypeOK'
<1> DEFINE hr == [h[r] EXCEPT !.pc = "Online"]
<1>1. hr \in Handler /\ h[r].acl \subseteq Nodes
  BY HandlerSet, HandlerFields DEF NodeTypeOK, Pcs
<1> HIDE DEF hr
<1>2. faults' \in 0 .. MaxFaults
  BY FaultsTyped DEF AclSet, There
<1>3. vol' \in Volume
  <2>1. r.at \in Nodes
    BY DEF AclSet, PcFits, Requests
  <2>2. \A S \in SUBSET Nodes : [vol EXCEPT !.acl = S] \in Volume
    BY DEF NodeTypeOK, Volume
  <2>3. /\ Registered(h[r].acl, r.at) \in SUBSET Nodes
        /\ Unregistered(h[r].acl, r.at) \in SUBSET Nodes
    BY <1>1, <2>1, AclTyped
  <2>4. /\ [vol EXCEPT !.acl = Registered(h[r].acl, r.at)] \in Volume
        /\ [vol EXCEPT !.acl = Unregistered(h[r].acl, r.at)] \in Volume
    BY <2>2, <2>3
  <2> QED BY <2>4 DEF NodeTypeOK, AclSet
<1>4. CASE Go(r, hr) /\ Clean
  BY <1>1, <1>2, <1>3, <1>4, GoTyped DEF NodeTypeOK, AclSet, Clean
<1>5. CASE Unregister(r) /\ Clean
  BY <1>2, <1>3, <1>5, UnregisterTyped DEF NodeTypeOK, AclSet, Clean
<1>6. CASE AclFailed(r)
  BY <1>2, <1>3, <1>6, AclFailedTyped DEF NodeTypeOK, AclSet
<1> QED BY <1>4, <1>5, <1>6 DEF AclSet, hr

LEMMA SetMetadataTyped ==
    ASSUME NodeTypeOK, NEW r \in Requests, SetMetadata(r)
    PROVE  NodeTypeOK'
<1>1. r.at \in Nodes \cup Targets
  BY DEF Requests
<1>2. faults' \in 0 .. MaxFaults
  <2> DEFINE can == There /\ Cardinality(Merge(vol.md, h[r].md).bind) <= MdLimit
  <2>1. can \in BOOLEAN
    OBVIOUS
  <2> QED BY <2>1, FaultsTyped DEF SetMetadata
<1>3. vol' \in Volume
  <2>1. Merge(vol.md, h[r].md) \in Metadata
    BY HandlerFields DEF NodeTypeOK, Volume, Merge, Metadata, Handler
  <2>2. \A md \in Metadata : [vol EXCEPT !.md = md] \in Volume
    BY DEF NodeTypeOK, Volume
  <2> QED BY <2>1, <2>2 DEF SetMetadata, NodeTypeOK
<1>4. dirty' \subseteq Nodes \cup Targets
  BY <1>1 DEF SetMetadata, NodeTypeOK, Clean, Soil
<1>5. \A x \in {"Logout", "Unmount"} : [h[r] EXCEPT !.pc = x] \in Handler
  BY HandlerSet DEF NodeTypeOK, Pcs
<1>6. CASE \E x \in {"Logout", "Unmount"} : Go(r, [h[r] EXCEPT !.pc = x])
  BY <1>2, <1>3, <1>4, <1>5, <1>6, GoTyped DEF NodeTypeOK, SetMetadata
<1>7. CASE \E ok \in BOOLEAN : Reply(r, ok)
  BY <1>2, <1>3, <1>4, <1>7, ReplyTyped DEF NodeTypeOK, SetMetadata
<1> QED BY <1>6, <1>7 DEF SetMetadata

LEMMA OnlineTyped ==
    ASSUME NodeTypeOK, NEW r \in Requests, Online(r)
    PROVE  NodeTypeOK'
<1> DEFINE hr == [h[r] EXCEPT !.pc = "Login"]
<1>1. hr \in Handler
  BY HandlerSet DEF NodeTypeOK, Pcs
<1> HIDE DEF hr
<1>2. faults' \in 0 .. MaxFaults
  BY FaultsTyped DEF Online, There
<1>3. vol' \in Volume
  <2>1. [vol EXCEPT !.online = TRUE] \in Volume
    BY DEF NodeTypeOK, Volume
  <2> QED BY <2>1 DEF NodeTypeOK, Online
<1> QED BY <1>1, <1>2, <1>3, GoTyped, ReplyTyped DEF NodeTypeOK, Online, Clean, hr

LEMMA LoginTyped ==
    ASSUME NodeTypeOK, NEW r \in Requests, Login(r)
    PROVE  NodeTypeOK'
<1> DEFINE can == /\ There /\ vol.online /\ r.at \in vol.acl
                  /\ host[r.at].session => host[r.at].file
<1>1. LoggedIn(r) \in Handler
  <2>1. h[r] \in Handler
    BY DEF NodeTypeOK
  <2>2. [h[r] EXCEPT !.pc = "WriteMd", !.md.mount = "device"] \in Handler
    BY <2>1 DEF Handler, Metadata, Pcs
  <2>3. /\ [h[r] EXCEPT !.pc = "Mount"] \in Handler
        /\ [h[r] EXCEPT !.pc = "FindFs"] \in Handler
    BY <2>1, HandlerSet DEF Pcs
  <2> QED BY <2>2, <2>3 DEF LoggedIn
<1>2. faults' \in 0 .. MaxFaults
  <2>1. can \in BOOLEAN
    BY VolumeFields DEF There
  <2> QED BY <2>1, FaultsTyped DEF Login
<1>3. host' \in [Nodes -> [session : BOOLEAN, file : BOOLEAN, staged : BOOLEAN, seen : Nat]]
  <2>1. r.at \in Nodes
    BY DEF Login, At, Requests
  <2>2. host \in Hosts /\ host[r.at].seen \in Nat /\ vol.size \in Nat
    BY <2>1, VolumeFields, HostSet DEF NodeTypeOK, Hosts
  <2>3. [host EXCEPT ![r.at].session = TRUE] \in Hosts
    BY <2>1, <2>2, HostSet
  <2>4. [host EXCEPT ![r.at].session = TRUE, ![r.at].file = TRUE] \in Hosts
    BY <2>1, <2>3, HostSet
  <2>5. [host EXCEPT ![r.at].session = TRUE, ![r.at].file = TRUE,
                     ![r.at].seen = IF host[r.at].session THEN host[r.at].seen ELSE vol.size] \in Hosts
    BY <2>1, <2>2, <2>4, HostSet
  <2> QED BY <2>2, <2>5 DEF Login, Hosts
<1> QED BY <1>1, <1>2, <1>3, GoTyped, ReplyTyped DEF NodeTypeOK, Login, Clean

LEMMA FindFsTyped ==
    ASSUME NodeTypeOK, NEW r \in Requests, FindFs(r)
    PROVE  NodeTypeOK'
<1>1. h[r] \in Handler
  BY DEF NodeTypeOK
<1>2. [h[r] EXCEPT !.pc = "Mount", !.md.formatted = TRUE] \in Handler
  BY <1>1 DEF Handler, Metadata, Pcs
<1>3. [h[r] EXCEPT !.pc = "Mkfs", !.tries = FormatTimeout] \in Handler
  <2>1. FormatTimeout \in Int
    BY NodeBoundAssumption
  <2>2. [h[r] EXCEPT !.pc = "Mkfs"] \in Handler
    BY <1>1, HandlerSet DEF Pcs
  <2> QED BY <2>1, <2>2, HandlerSet
<1> QED BY <1>2, <1>3, GoTyped DEF NodeTypeOK, FindFs, Clean, Works

LEMMA MkfsTyped ==
    ASSUME NodeTypeOK, NEW r \in Requests, Mkfs(r)
    PROVE  NodeTypeOK'
<1>1. h[r] \in Handler
  BY DEF NodeTypeOK
<1>2. [h[r] EXCEPT !.pc = "Mount", !.md.formatted = TRUE] \in Handler
  BY <1>1 DEF Handler, Metadata, Pcs
<1>3. [h[r] EXCEPT !.tries = @ - 1] \in Handler
  <2>1. h[r].tries - 1 \in Int
    BY <1>1, HandlerFields
  <2> QED BY <1>1, <2>1, HandlerSet
<1>4. vol' \in Volume
  <2>1. [vol EXCEPT !.content = "fs"] \in Volume
    BY DEF NodeTypeOK, Volume
  <2> QED BY <2>1 DEF NodeTypeOK, Mkfs
<1>5. \/ Reply(r, FALSE)
      \/ Go(r, [h[r] EXCEPT !.pc = "Mount", !.md.formatted = TRUE])
      \/ Go(r, [h[r] EXCEPT !.tries = @ - 1])
  BY DEF Mkfs, MkfsAgain
<1> QED BY <1>2, <1>3, <1>4, <1>5, GoTyped, ReplyTyped DEF NodeTypeOK, Mkfs, Clean, Works

LEMMA StageMountTyped ==
    ASSUME NodeTypeOK, NEW r \in Requests, StageMount(r)
    PROVE  NodeTypeOK'
<1>1. [h[r] EXCEPT !.pc = "WriteMd", !.md.mount = "staging"] \in Handler
  <2>1. [h[r] EXCEPT !.pc = "WriteMd"] \in Handler
    BY HandlerSet DEF NodeTypeOK, Pcs
  <2> QED BY <2>1, HandlerSetMd DEF Mounts
<1>2. faults' \in 0 .. MaxFaults
  <2> DEFINE can == HasFs /\ ~host[r.at].staged
  <2>1. can \in BOOLEAN
    BY DEF HasFs
  <2> QED BY <2>1, FaultsTyped DEF StageMount
<1>3. host' \in [Nodes -> [session : BOOLEAN, file : BOOLEAN, staged : BOOLEAN, seen : Nat]]
  <2>1. r.at \in Nodes
    BY DEF StageMount, At, Requests
  <2>2. [host EXCEPT ![r.at].staged = TRUE] \in Hosts
    BY <2>1, HostSet DEF NodeTypeOK, Hosts
  <2> QED BY <2>2 DEF StageMount, NodeTypeOK, Hosts
<1> QED BY <1>1, <1>2, <1>3, GoTyped, ReplyTyped DEF NodeTypeOK, StageMount, Clean

LEMMA StageUnmountTyped ==
    ASSUME NodeTypeOK, NEW r \in Requests, StageUnmount(r)
    PROVE  NodeTypeOK'
<1>1. [h[r] EXCEPT !.pc = "Md"] \in Handler
  BY HandlerSet DEF NodeTypeOK, Pcs
<1>2. r.at \in Nodes
  BY DEF StageUnmount, At, Requests
<1>3. host' \in [Nodes -> [session : BOOLEAN, file : BOOLEAN, staged : BOOLEAN, seen : Nat]]
  <2>1. \A x \in BOOLEAN : [host EXCEPT ![r.at].staged = x] \in Hosts
    BY <1>2, HostSet DEF NodeTypeOK, Hosts
  <2>2. \A x, y \in BOOLEAN : [host EXCEPT ![r.at].staged = x, ![r.at].file = y] \in Hosts
    BY <1>2, <2>1, HostSet
  <2>3. PICK busy \in BOOLEAN :
          LET mounted == h[r].mpath = "staging" /\ host[r.at].staged IN
          host' = [host EXCEPT ![r.at].staged = @ /\ (busy \/ ~mounted),
                               ![r.at].file = @ /\ h[r].mpath # "device"]
    BY NodeAssumption DEF StageUnmount
  <2>4. host[r.at].staged \in BOOLEAN /\ host[r.at].file \in BOOLEAN
    BY <1>2, HostSet DEF NodeTypeOK, Hosts
  <2> QED BY <2>2, <2>3, <2>4 DEF Hosts
<1>4. vol' \in Volume
  <2>1. Emptied \in {"blank", "fs", "data", "gone"}
    BY VolumeFields DEF Emptied
  <2>2. \A x \in {"blank", "fs", "data", "gone"} : [vol EXCEPT !.content = x] \in Volume
    BY DEF NodeTypeOK, Volume
  <2> QED BY <2>1, <2>2, VolumeFields DEF NodeTypeOK, StageUnmount
<1>5. dirty' \subseteq Nodes \cup Targets
  BY <1>2 DEF StageUnmount, Soil, NodeTypeOK
<1> QED BY <1>1, <1>3, <1>4, <1>5, GoTyped DEF NodeTypeOK, StageUnmount, Works

LEMMA LogoutTyped ==
    ASSUME NodeTypeOK, NEW r \in Requests, Logout(r)
    PROVE  NodeTypeOK'
<1>1. [h[r] EXCEPT !.pc = "Init"] \in Handler
  BY HandlerSet DEF NodeTypeOK, Pcs
<1>2. r.at \in Nodes
  BY DEF Logout, At, Requests
<1>3. host' \in [Nodes -> [session : BOOLEAN, file : BOOLEAN, staged : BOOLEAN, seen : Nat]]
  <2>1. [host EXCEPT ![r.at].session = FALSE] \in Hosts
    BY <1>2, HostSet DEF NodeTypeOK, Hosts
  <2>2. [host EXCEPT ![r.at].session = FALSE, ![r.at].file = FALSE] \in Hosts
    BY <1>2, <2>1, HostSet
  <2> QED BY <2>2 DEF Logout, NodeTypeOK, Hosts
<1>4. faults' \in 0 .. MaxFaults
  BY FaultsTyped DEF Logout
<1>5. dirty' \subseteq Nodes \cup Targets
  BY <1>2 DEF Logout, Soil, Clean, NodeTypeOK
<1> QED BY <1>1, <1>3, <1>4, <1>5, GoTyped DEF NodeTypeOK, Logout

LEMMA OfflineTyped ==
    ASSUME NodeTypeOK, NEW r \in Requests, Offline(r)
    PROVE  NodeTypeOK'
<1>1. [h[r] EXCEPT !.pc = "Delete"] \in Handler
  BY HandlerSet DEF NodeTypeOK, Pcs
<1>2. faults' \in 0 .. MaxFaults
  BY FaultsTyped DEF Offline, There
<1>3. vol' \in Volume
  <2>1. [vol EXCEPT !.online = FALSE] \in Volume
    BY DEF NodeTypeOK, Volume
  <2> QED BY <2>1 DEF NodeTypeOK, Offline
<1> QED BY <1>1, GoTyped, <1>2, <1>3, ReplyTyped DEF NodeTypeOK, Offline, Clean

LEMMA DeleteTyped ==
    ASSUME NodeTypeOK, NEW r \in Requests, Delete(r)
    PROVE  NodeTypeOK'
<1>2. faults' \in 0 .. MaxFaults
  BY FaultsTyped DEF Delete, There
<1>3. vol' \in Volume
  <2>1. [vol EXCEPT !.content = "gone"] \in Volume
    BY DEF NodeTypeOK, Volume
  <2> QED BY <2>1 DEF NodeTypeOK, Delete
<1> QED BY <1>2, <1>3, ReplyTyped DEF NodeTypeOK, Delete, Clean

LEMMA PublishMountTyped ==
    ASSUME NodeTypeOK, NEW r \in Requests, PublishMount(r)
    PROVE  NodeTypeOK'
<1> DEFINE hr == [h[r] EXCEPT !.pc = "WriteMd", !.md.bind = @ \cup {r.at}]
<1>1. r.at \in Targets
  BY DEF PublishMount, At, Requests
<1>2. hr \in Handler
  <2>1. h[r].md.bind \cup {r.at} \subseteq Targets
    BY <1>1, HandlerFields DEF NodeTypeOK
  <2>2. \A S \in SUBSET Targets : [h[r] EXCEPT !.pc = "WriteMd", !.md.bind = S] \in Handler
    <3>1. [h[r] EXCEPT !.pc = "WriteMd"] \in Handler
      BY HandlerSet DEF NodeTypeOK, Pcs
    <3> QED BY <3>1, HandlerSetMd
  <2> QED BY <2>1, <2>2
<1> HIDE DEF hr
<1>3. faults' \in 0 .. MaxFaults
  <2> DEFINE can == h[r].mpath = "staging" /\ ~(host[On(r)].staged /\ pods[r.at] = "vol")
  <2>1. can \in BOOLEAN
    OBVIOUS
  <2> QED BY <2>1, FaultsTyped DEF PublishMount
<1>4. pods' \in [Targets -> {"none", "vol", "dir"}]
  BY <1>1 DEF PublishMount, NodeTypeOK
<1> QED BY <1>2, <1>3, <1>4, GoTyped, ReplyTyped DEF NodeTypeOK, PublishMount, Clean, hr

LEMMA PublishUnmountTyped ==
    ASSUME NodeTypeOK, NEW r \in Requests, PublishUnmount(r)
    PROVE  NodeTypeOK'
<1>1. r.at \in Targets
  BY DEF PublishUnmount, At, Requests
<1>2. pods' \in [Targets -> {"none", "vol", "dir"}]
  BY <1>1 DEF PublishUnmount, NodeTypeOK
<1>3. vol' \in Volume
  <2>1. Emptied \in {"blank", "fs", "data", "gone"}
    BY VolumeFields DEF Emptied
  <2>2. \A x \in {"blank", "fs", "data", "gone"} : [vol EXCEPT !.content = x] \in Volume
    BY DEF NodeTypeOK, Volume
  <2> QED BY <2>1, <2>2, VolumeFields DEF NodeTypeOK, PublishUnmount
<1>4. dirty' \subseteq Nodes \cup Targets
  BY <1>1 DEF PublishUnmount, NodeTypeOK
<1> QED BY <1>2, <1>3, <1>4, ReplyTyped DEF NodeTypeOK, PublishUnmount, Works

LEMMA WrapTyped ==
    ASSUME NEW x \in Nat
    PROVE  Wrap(x * GiB) \in Nat
<1>1. GiB \in Nat /\ Word \in Nat \ {0}
  BY NodeBoundAssumption
<1>2. x * GiB \in Nat
  BY <1>1
<1> QED BY <1>1, <1>2 DEF Wrap

LEMMA CheckDeviceSizeTyped ==
    ASSUME NodeTypeOK, NEW r \in Requests, CheckDeviceSize(r)
    PROVE  NodeTypeOK'
<1> DEFINE want == Wrap(h[r].want * GiB)
<1>1. r.at \in Nodes
  BY DEF CheckDeviceSize, At, Requests
<1>2. want \in Nat
  BY WrapTyped, HandlerFields DEF NodeTypeOK
<1>3. PICK seen \in {host[r.at].seen, vol.size}, read \in BOOLEAN :
        LET size == IF read THEN Wrap(seen * GiB) ELSE 0
            hr == [h[r] EXCEPT !.want = want, !.tries = @ - 1, !.blind = @ \/ ~read] IN
        /\ IF read THEN Works ELSE Errs
        /\ host' = [host EXCEPT ![r.at].seen = seen]
        /\ IF SizeMatches(size, want) THEN Go(r, [hr EXCEPT !.pc = "Grow"])
           ELSE IF hr.tries < 0 THEN Reply(r, FALSE)
           ELSE Go(r, hr)
  BY DEF CheckDeviceSize
<1> DEFINE hr == [h[r] EXCEPT !.want = want, !.tries = @ - 1, !.blind = @ \/ ~read]
<1> HIDE DEF want
<1>4. hr \in Handler
  <2>1. h[r].tries - 1 \in Int /\ (h[r].blind \/ ~read) \in BOOLEAN
    BY HandlerFields DEF NodeTypeOK
  <2>2. [h[r] EXCEPT !.want = want] \in Handler
    BY <1>2, HandlerSet DEF NodeTypeOK
  <2>3. [h[r] EXCEPT !.want = want, !.tries = h[r].tries - 1] \in Handler
    BY <2>1, <2>2, HandlerSet
  <2>4. [h[r] EXCEPT !.want = want, !.tries = h[r].tries - 1, !.blind = h[r].blind \/ ~read] \in Handler
    BY <2>1, <2>3, HandlerSet
  <2> QED BY <2>4
<1>5. [hr EXCEPT !.pc = "Grow"] \in Handler
  BY <1>4, HandlerSet DEF Pcs
<1>6. Go(r, [hr EXCEPT !.pc = "Grow"]) \/ Reply(r, FALSE) \/ Go(r, hr)
  BY <1>3
<1> HIDE DEF hr
<1>7. host' \in [Nodes -> [session : BOOLEAN, file : BOOLEAN, staged : BOOLEAN, seen : Nat]]
  <2>1. seen \in Nat
    BY <1>1, VolumeFields, HostSet DEF NodeTypeOK, Hosts
  <2>2. [host EXCEPT ![r.at].seen = seen] \in Hosts
    BY <1>1, <2>1, HostSet DEF NodeTypeOK, Hosts
  <2> QED BY <1>3, <2>2 DEF Hosts
<1>8. faults' \in 0 .. MaxFaults
  BY <1>3, FaultsTyped
<1> QED BY <1>4, <1>5, <1>6, <1>7, <1>8, GoTyped, ReplyTyped DEF NodeTypeOK, CheckDeviceSize, Clean

LEMMA ExpandFsTyped ==
    ASSUME NodeTypeOK, NEW r \in Requests, ExpandFs(r)
    PROVE  NodeTypeOK'
<1>1. faults' \in 0 .. MaxFaults
  BY FaultsTyped DEF ExpandFs
<1> QED BY <1>1, ReplyTyped DEF NodeTypeOK, ExpandFs, Clean

LEMMA IssueTyped ==
    ASSUME NodeTypeOK, NEW r \in Requests, Issue(r)
    PROVE  NodeTypeOK'
<1> DEFINE size == IF r.op = "expand" THEN vol.size ELSE 0
            hr == [Idle EXCEPT !.pc = "Get", !.want = size, !.asked = size]
<1>1. size \in Nat
  BY VolumeFields
<1> HIDE DEF size
<1>2. hr \in Handler
  <2>1. [Idle EXCEPT !.pc = "Get"] \in Handler
    BY IdleTyped, HandlerSet DEF Pcs
  <2>2. [Idle EXCEPT !.pc = "Get", !.want = size] \in Handler
    BY <1>1, <2>1, HandlerSet
  <2> QED BY <1>1, <2>2, HandlerSet
<1>3. h' = [h EXCEPT ![r] = hr]
  BY DEF Issue, size
<1> HIDE DEF hr
<1>4. h' \in [Requests -> Handler]
  BY <1>2, <1>3 DEF NodeTypeOK
<1>5. co' \in [Nodes \cup Targets -> {"out", "coming", "in", "leaving"}]
  <2>1. r.op \in {"stage", "publish", "unstage", "unpublish", "expand"}
    BY DEF Requests
  <2> QED BY <2>1 DEF Issue, NodeTypeOK
<1> QED BY <1>4, <1>5 DEF NodeTypeOK, Issue

LEMMA WriteTyped ==
    ASSUME NodeTypeOK, NEW t \in Targets, Write(t)
    PROVE  NodeTypeOK'
<1>1. [vol EXCEPT !.content = "data"] \in Volume
  BY DEF NodeTypeOK, Volume
<1> QED BY <1>1 DEF NodeTypeOK, Write

LEMMA ResizeTyped ==
    ASSUME NodeTypeOK, Resize
    PROVE  NodeTypeOK'
<1>1. vol.size + 1 \in Nat
  BY VolumeFields
<1>2. \A x \in Nat : [vol EXCEPT !.size = x] \in Volume
  BY DEF NodeTypeOK, Volume
<1> QED BY <1>1, <1>2 DEF NodeTypeOK, Resize

LEMMA DieTyped ==
    ASSUME NodeTypeOK, NEW n \in Nodes, Die(n)
    PROVE  NodeTypeOK'
<1>1. deaths' \in 0 .. MaxDeaths
  BY NodeBoundAssumption DEF Die, NodeTypeOK
<1> QED BY <1>1, KillTyped DEF NodeTypeOK, Die

LEMMA RebootTyped ==
    ASSUME NodeTypeOK, NEW n \in Nodes, Reboot(n)
    PROVE  NodeTypeOK'
<1>1. deaths' \in 0 .. MaxDeaths
  BY NodeBoundAssumption DEF Reboot, NodeTypeOK
<1>2. h' \in [Requests -> Handler]
  BY IdleTyped DEF Reboot, NodeTypeOK
<1>3. host' \in [Nodes -> [session : BOOLEAN, file : BOOLEAN, staged : BOOLEAN, seen : Nat]]
  <2>1. [host EXCEPT ![n].session = FALSE] \in Hosts
    BY HostSet DEF NodeTypeOK, Hosts
  <2>2. [host EXCEPT ![n].session = FALSE, ![n].file = FALSE] \in Hosts
    BY <2>1, HostSet
  <2>3. [host EXCEPT ![n].session = FALSE, ![n].file = FALSE, ![n].staged = FALSE] \in Hosts
    BY <2>2, HostSet
  <2> QED BY <2>3 DEF Reboot, Hosts
<1>4. pods' \in [Targets -> {"none", "vol", "dir"}]
  BY DEF Reboot, NodeTypeOK
<1>5. co' \in [Nodes \cup Targets -> {"out", "coming", "in", "leaving"}]
  BY DEF Reboot, NodeTypeOK
<1> QED BY <1>1, <1>2, <1>3, <1>4, <1>5 DEF NodeTypeOK, Reboot
=============================================================================
