------------------------- MODULE NodeServiceProofs -------------------------
(***************************************************************************)
(* What the node service guarantees for any number of nodes and pods, and  *)
(* any bounds.                                                             *)
(***************************************************************************)
EXTENDS NodeServiceInvariants

-----------------------------------------------------------------------------
(* Whatever lsblk, umount and the nodes do: handlers are where they belong *)
(* and the record "formatted" is true.                                     *)

LEMMA StepSound ==
    ASSUME NodeTypeOK, PcFits, RecordInv, NEW r \in Requests,
           \A q \in Requests : q # r => h'[q] = h[q],
           h'[r].pc \in {"Init", "AclGet", "AclSet"} => r.op \in {"stage", "unstage"},
           h'[r].pc = "WriteMd" => r.op # "expand",
           vol.content # "blank" => vol'.content # "blank",
           vol'.md.formatted => vol.md.formatted \/ h[r].md.formatted,
           h'[r].md.formatted =>
              h[r].md.formatted \/ vol.md.formatted \/ vol'.content # "blank"
    PROVE  PcFits' /\ RecordInv'
BY DEF PcFits, RecordInv

LEMMA ReplySound ==
    ASSUME NodeTypeOK, PcFits, RecordInv, NEW r \in Requests, NEW ok \in BOOLEAN, Reply(r, ok),
           vol.content # "blank" => vol'.content # "blank",
           vol'.md.formatted => vol.md.formatted \/ h[r].md.formatted
    PROVE  PcFits' /\ RecordInv'
<1>1. h'[r] = Idle /\ \A q \in Requests : q # r => h'[q] = h[q]
  BY ReplyMoves
<1> QED BY <1>1, IdleFields, StepSound

LEMMA PcSound ==
    ASSUME NodeTypeOK, PcFits, RecordInv, NEW r \in Requests, NEW pc,
           Go(r, [h[r] EXCEPT !.pc = pc]),
           pc \in {"Init", "AclGet", "AclSet"} => r.op \in {"stage", "unstage"},
           pc = "WriteMd" => r.op # "expand",
           vol.content # "blank" => vol'.content # "blank",
           vol'.md.formatted => vol.md.formatted \/ h[r].md.formatted
    PROVE  PcFits' /\ RecordInv'
<1>1. /\ h'[r].pc = pc /\ h'[r].md = h[r].md
      /\ \A q \in Requests : q # r => h'[q] = h[q]
  BY PcMoves
<1> QED BY <1>1, StepSound

LEMMA KillSound ==
    ASSUME NodeTypeOK, PcFits, RecordInv, NEW n \in Nodes, Kill(n), UNCHANGED vol
    PROVE  PcFits' /\ RecordInv'
<1>1. \A q \in Requests : h'[q] = Idle \/ h'[q] = h[q]
  BY KillMoves
<1> QED BY <1>1, IdleFields DEF PcFits, RecordInv

LEMMA GetVolumeSound ==
    ASSUME NodeTypeOK, PcFits, RecordInv, NEW r \in Requests, GetVolume(r)
    PROVE  PcFits' /\ RecordInv'
<1>1. UNCHANGED vol
  BY DEF GetVolume
<1>2. CASE Panic(r)
  BY <1>1, <1>2, OnANode, KillSound DEF Panic
<1>3. CASE Reply(r, FALSE)
  BY <1>1, <1>3, ReplySound
<1>4. CASE Go(r, [h[r] EXCEPT !.pc = IF r.op = "unstage" THEN "Unmount" ELSE "Md",
                              !.mpath = vol.md.mount])
  <2> DEFINE hr == [h[r] EXCEPT !.pc = IF r.op = "unstage" THEN "Unmount" ELSE "Md",
                                !.mpath = vol.md.mount]
  <2>1. h[r] \in Handler
    BY DEF NodeTypeOK
  <2>2. hr.pc \in {"Unmount", "Md"} /\ hr.md = h[r].md
    BY <2>1 DEF Handler
  <2> HIDE DEF hr
  <2>3. h'[r] = hr /\ \A q \in Requests : q # r => h'[q] = h[q]
    BY <1>4, GoMoves DEF hr
  <2> QED BY <1>1, <2>2, <2>3, StepSound
<1> QED BY <1>2, <1>3, <1>4 DEF GetVolume

LEMMA WithMdSound ==
    ASSUME NodeTypeOK, PcFits, RecordInv, NEW r \in Requests, NEW m \in Metadata, WithMd(r, m),
           m.formatted => vol.md.formatted, UNCHANGED vol
    PROVE  PcFits' /\ RecordInv'
<1>1. CASE Reply(r, FALSE)
  BY <1>1, ReplySound
<1>2. CASE ~Reply(r, FALSE)
  <2>1. /\ h'[r].pc = "Init" => r.op = "stage"
        /\ h'[r].pc \in {"Init", "Mount", "WriteMd", "Size"}
        /\ h'[r].pc = "WriteMd" => r.op # "expand"
        /\ h'[r].md.formatted = m.formatted
        /\ \A q \in Requests : q # r => h'[q] = h[q]
    BY <1>2, WithMdMoves
  <2> QED BY <2>1, StepSound
<1> QED BY <1>1, <1>2

LEMMA GetMetadataSound ==
    ASSUME NodeTypeOK, PcFits, RecordInv, NEW r \in Requests, GetMetadata(r)
    PROVE  PcFits' /\ RecordInv'
<1>1. UNCHANGED vol
  BY DEF GetMetadata
<1>2. CASE WithMd(r, vol.md)
  <2>1. PICK m \in Metadata : m = vol.md
    BY VolumeFields
  <2> QED BY <1>1, <1>2, <2>1, WithMdSound
<1>3. CASE WithMd(r, NoMd)
  <2>1. NoMd \in Metadata /\ ~NoMd.formatted
    BY DEF NoMd, Metadata
  <2> QED BY <1>1, <1>3, <2>1, WithMdSound
<1>4. CASE Reply(r, FALSE)
  BY <1>1, <1>4, ReplySound
<1> QED BY <1>2, <1>3, <1>4 DEF GetMetadata

LEMMA CreateGetInitiatorSound ==
    ASSUME NodeTypeOK, PcFits, RecordInv, NEW r \in Requests, CreateGetInitiator(r)
    PROVE  PcFits' /\ RecordInv'
<1>1. UNCHANGED vol /\ r.op \in {"stage", "unstage"}
  BY DEF CreateGetInitiator, PcFits
<1>2. CASE Panic(r)
  BY <1>1, <1>2, OnANode, KillSound DEF Panic
<1>3. CASE Reply(r, FALSE)
  BY <1>1, <1>3, ReplySound
<1>4. CASE Go(r, [h[r] EXCEPT !.pc = "AclGet"])
  BY <1>1, <1>4, PcSound
<1> QED BY <1>2, <1>3, <1>4 DEF CreateGetInitiator

LEMMA UnregisterSound ==
    ASSUME NodeTypeOK, PcFits, RecordInv, NEW r \in Requests,
           Unregister(r) \/ AclFailed(r), vol'.content = vol.content, vol'.md = vol.md
    PROVE  PcFits' /\ RecordInv'
<1>1. \/ Go(r, [h[r] EXCEPT !.pc = "Offline"])
      \/ Reply(r, TRUE)
      \/ Reply(r, FALSE)
  BY DEF Unregister, AclFailed
<1>2. CASE Go(r, [h[r] EXCEPT !.pc = "Offline"])
  BY <1>2, PcSound
<1>3. CASE Reply(r, TRUE)
  BY <1>3, ReplySound
<1>4. CASE Reply(r, FALSE)
  BY <1>4, ReplySound
<1> QED BY <1>1, <1>2, <1>3, <1>4

LEMMA AclGetSound ==
    ASSUME NodeTypeOK, PcFits, RecordInv, NEW r \in Requests, AclGet(r)
    PROVE  PcFits' /\ RecordInv'
<1>1. UNCHANGED vol /\ r.op \in {"stage", "unstage"}
  BY DEF AclGet, PcFits
<1>2. CASE AclFailed(r)
  BY <1>1, <1>2, UnregisterSound
<1>3. CASE Go(r, [h[r] EXCEPT !.pc = "AclSet", !.acl = vol.acl])
  <2>1. h'[r].pc = "AclSet" /\ h'[r].md = h[r].md /\ \A q \in Requests : q # r => h'[q] = h[q]
    BY <1>3, AclReadMoves
  <2> QED BY <1>1, <2>1, StepSound
<1> QED BY <1>2, <1>3 DEF AclGet

LEMMA AclSetSound ==
    ASSUME NodeTypeOK, PcFits, RecordInv, NEW r \in Requests, AclSet(r)
    PROVE  PcFits' /\ RecordInv'
<1>1. \/ vol' = vol
      \/ vol' = [vol EXCEPT !.acl = IF r.op = "stage" THEN Registered(h[r].acl, r.at)
                                    ELSE Unregistered(h[r].acl, r.at)]
  BY DEF AclSet
<1>2. vol'.content = vol.content /\ vol'.md = vol.md
  BY <1>1 DEF NodeTypeOK, Volume
<1>3. CASE Go(r, [h[r] EXCEPT !.pc = "Online"])
  BY <1>2, <1>3, PcSound
<1>4. CASE Unregister(r) \/ AclFailed(r)
  BY <1>2, <1>4, UnregisterSound
<1> QED BY <1>3, <1>4 DEF AclSet

LEMMA SetMetadataSound ==
    ASSUME NodeTypeOK, PcFits, RecordInv, NEW r \in Requests, SetMetadata(r)
    PROVE  PcFits' /\ RecordInv'
<1>1. /\ vol'.content = vol.content
      /\ vol'.md = vol.md \/ vol'.md = Merge(vol.md, h[r].md)
      /\ \/ Reply(r, TRUE) \/ Reply(r, FALSE)
         \/ Go(r, [h[r] EXCEPT !.pc = "Logout"])
         \/ Go(r, [h[r] EXCEPT !.pc = "Unmount"])
  BY SetMetadataMoves
<1>2. vol'.md.formatted => vol.md.formatted \/ h[r].md.formatted
  <2>1. Merge(vol.md, h[r].md).formatted => vol.md.formatted \/ h[r].md.formatted
    BY DEF Merge
  <2> QED BY <1>1, <2>1
<1>3. CASE Reply(r, TRUE) \/ Reply(r, FALSE)
  BY <1>1, <1>2, <1>3, ReplySound
<1>4. CASE Go(r, [h[r] EXCEPT !.pc = "Logout"])
  BY <1>1, <1>2, <1>4, PcSound
<1>5. CASE Go(r, [h[r] EXCEPT !.pc = "Unmount"])
  BY <1>1, <1>2, <1>5, PcSound
<1> QED BY <1>1, <1>3, <1>4, <1>5

LEMMA NodeStageVolumeSound ==
    ASSUME NodeTypeOK, PcFits, RecordInv, NEW r \in Requests, NodeStageVolume(r)
    PROVE  PcFits' /\ RecordInv'
<1>1. CASE Online(r)
  <2>1. vol' = vol \/ vol' = [vol EXCEPT !.online = TRUE]
    BY <1>1 DEF Online
  <2>2. vol'.content = vol.content /\ vol'.md = vol.md
    BY <2>1, OnlineSet
  <2>3. CASE Reply(r, FALSE)
    BY <2>2, <2>3, ReplySound
  <2>4. CASE Go(r, [h[r] EXCEPT !.pc = "Login"])
    BY <2>2, <2>4, PcSound
  <2> QED BY <1>1, <2>3, <2>4 DEF Online
<1>2. CASE Login(r)
  <2>1. UNCHANGED vol /\ r.op = "stage"
    BY <1>2 DEF Login, At
  <2>2. CASE Reply(r, FALSE)
    BY <2>1, <2>2, ReplySound
  <2>3. CASE Go(r, [h[r] EXCEPT !.pc = "WriteMd", !.md.mount = "device"])
    <3>1. /\ h'[r].pc = "WriteMd" /\ h'[r].md.formatted = h[r].md.formatted
          /\ \A q \in Requests : q # r => h'[q] = h[q]
      BY <2>3, MountMoves
    <3> QED BY <2>1, <3>1, StepSound
  <2>4. CASE \E pc \in {"Mount", "FindFs"} : Go(r, [h[r] EXCEPT !.pc = pc])
    BY <2>1, <2>4, PcSound
  <2> QED BY <1>2, <2>2, <2>3, <2>4 DEF Login, LoggedIn
<1>3. CASE FindFs(r)
  <2>1. UNCHANGED vol
    BY <1>3 DEF FindFs
  <2>2. CASE HasFs /\ Go(r, [h[r] EXCEPT !.pc = "Mount", !.md.formatted = TRUE])
    <3>1. h'[r].pc = "Mount" /\ \A q \in Requests : q # r => h'[q] = h[q]
      BY <2>2, FormattedMoves
    <3> QED BY <2>1, <2>2, <3>1, StepSound DEF HasFs
  <2>3. CASE Go(r, [h[r] EXCEPT !.pc = "Mkfs", !.tries = FormatTimeout])
    <3>1. /\ h'[r].pc = "Mkfs" /\ h'[r].md = h[r].md
          /\ \A q \in Requests : q # r => h'[q] = h[q]
      BY <2>3, TriesMoves
    <3> QED BY <2>1, <3>1, StepSound
  <2>4. \A found \in Finds : found => HasFs
    BY DEF Finds
  <2> QED BY <1>3, <2>2, <2>3, <2>4 DEF FindFs
<1>4. CASE Mkfs(r)
  <2>1. vol' = vol \/ vol' = [vol EXCEPT !.content = "fs"]
    BY <1>4 DEF Mkfs
  <2>2. vol'.md = vol.md /\ (vol'.content = vol.content \/ vol'.content = "fs")
    BY <2>1, ContentSet
  <2>3. CASE Reply(r, FALSE)
    BY <2>2, <2>3, ReplySound
  <2>4. CASE /\ vol' = [vol EXCEPT !.content = "fs"]
             /\ Go(r, [h[r] EXCEPT !.pc = "Mount", !.md.formatted = TRUE])
    <3>1. h'[r].pc = "Mount" /\ \A q \in Requests : q # r => h'[q] = h[q]
      BY <2>4, FormattedMoves
    <3>2. vol'.content = "fs"
      BY <2>4, VolumeSet
    <3> QED BY <2>2, <3>1, <3>2, StepSound
  <2>5. CASE Go(r, [h[r] EXCEPT !.tries = @ - 1])
    <3>1. /\ h'[r].pc = "Mkfs" /\ h'[r].md = h[r].md
          /\ \A q \in Requests : q # r => h'[q] = h[q]
      BY <1>4, <2>5, RetryMoves DEF Mkfs, At
    <3> QED BY <2>2, <3>1, StepSound
  <2> QED BY <1>4, <2>3, <2>4, <2>5 DEF Mkfs, MkfsAgain
<1>5. CASE StageMount(r)
  <2>1. UNCHANGED vol /\ r.op = "stage"
    BY <1>5 DEF StageMount, At
  <2>2. CASE Reply(r, FALSE)
    BY <2>1, <2>2, ReplySound
  <2>3. CASE Go(r, [h[r] EXCEPT !.pc = "WriteMd", !.md.mount = "staging"])
    <3>1. /\ h'[r].pc = "WriteMd" /\ h'[r].md.formatted = h[r].md.formatted
          /\ \A q \in Requests : q # r => h'[q] = h[q]
      BY <2>3, MountMoves
    <3> QED BY <2>1, <3>1, StepSound
  <2> QED BY <1>5, <2>2, <2>3 DEF StageMount
<1> QED BY <1>1, <1>2, <1>3, <1>4, <1>5 DEF NodeStageVolume

LEMMA EmptiedNotBlank ==
    ASSUME NodeTypeOK, NEW busy,
           vol' = [vol EXCEPT !.content = IF busy THEN Emptied ELSE @]
    PROVE  /\ vol.content # "blank" => vol'.content # "blank"
           /\ vol'.md = vol.md
<1>1. vol'.content = (IF busy THEN Emptied ELSE vol.content) /\ vol'.md = vol.md
  BY DEF NodeTypeOK, Volume
<1> QED BY <1>1 DEF Emptied

LEMMA NodeUnstageVolumeSound ==
    ASSUME NodeTypeOK, PcFits, RecordInv, NEW r \in Requests, NodeUnstageVolume(r)
    PROVE  PcFits' /\ RecordInv'
<1>1. CASE StageUnmount(r)
  <2>1. (vol.content # "blank" => vol'.content # "blank") /\ vol'.md = vol.md
    <3>1. PICK busy : vol' = [vol EXCEPT !.content = IF busy THEN Emptied ELSE @]
      BY <1>1 DEF StageUnmount
    <3> QED BY <3>1, EmptiedNotBlank
  <2>2. Go(r, [h[r] EXCEPT !.pc = "Md"])
    BY <1>1 DEF StageUnmount
  <2> QED BY <2>1, <2>2, PcSound
<1>2. CASE Logout(r)
  <2>1. UNCHANGED vol /\ r.op = "unstage" /\ Go(r, [h[r] EXCEPT !.pc = "Init"])
    BY <1>2 DEF Logout, At
  <2> QED BY <2>1, PcSound
<1>3. CASE Offline(r)
  <2>1. vol' = vol \/ vol' = [vol EXCEPT !.online = FALSE]
    BY <1>3 DEF Offline
  <2>2. vol'.content = vol.content /\ vol'.md = vol.md
    BY <2>1, OnlineSet
  <2>3. CASE Reply(r, TRUE)
    BY <2>2, <2>3, ReplySound
  <2>4. CASE Go(r, [h[r] EXCEPT !.pc = "Delete"])
    BY <2>2, <2>4, PcSound
  <2> QED BY <1>3, <2>3, <2>4 DEF Offline
<1>4. CASE Delete(r)
  <2>1. vol' = vol \/ vol' = [vol EXCEPT !.content = "gone"]
    BY <1>4 DEF Delete
  <2>2. vol'.md = vol.md /\ (vol'.content = vol.content \/ vol'.content = "gone")
    BY <2>1, ContentSet
  <2>3. Reply(r, TRUE)
    BY <1>4 DEF Delete
  <2> QED BY <2>2, <2>3, ReplySound
<1> QED BY <1>1, <1>2, <1>3, <1>4 DEF NodeUnstageVolume

LEMMA PodCallsSound ==
    ASSUME NodeTypeOK, PcFits, RecordInv, NEW r \in Requests,
           NodePublishVolume(r) \/ NodeUnpublishVolume(r) \/ NodeExpandVolume(r)
    PROVE  PcFits' /\ RecordInv'
<1>1. CASE PublishMount(r)
  <2>1. UNCHANGED vol /\ r.op = "publish"
    BY <1>1 DEF PublishMount, At
  <2>2. CASE Reply(r, FALSE)
    BY <2>1, <2>2, ReplySound
  <2>3. CASE Go(r, [h[r] EXCEPT !.pc = "WriteMd", !.md.bind = @ \cup {r.at}])
    <3>1. /\ h'[r].pc = "WriteMd" /\ h'[r].md.formatted = h[r].md.formatted
          /\ \A q \in Requests : q # r => h'[q] = h[q]
      BY <2>3, BindMoves
    <3> QED BY <2>1, <3>1, StepSound
  <2> QED BY <1>1, <2>2, <2>3 DEF PublishMount
<1>2. CASE PublishUnmount(r)
  <2>1. (vol.content # "blank" => vol'.content # "blank") /\ vol'.md = vol.md
    <3>1. PICK busy : vol' = [vol EXCEPT !.content = IF busy THEN Emptied ELSE @]
      BY <1>2 DEF PublishUnmount
    <3> QED BY <3>1, EmptiedNotBlank
  <2>2. Reply(r, TRUE)
    BY <1>2 DEF PublishUnmount
  <2> QED BY <2>1, <2>2, ReplySound
<1>3. CASE CheckDeviceSize(r)
  <2>1. UNCHANGED vol
    BY <1>3 DEF CheckDeviceSize
  <2>2. CASE Reply(r, FALSE)
    BY <2>1, <2>2, ReplySound
  <2>3. CASE ~Reply(r, FALSE)
    <3>1. /\ h'[r].pc \in {"Size", "Grow"} /\ h'[r].md = h[r].md
          /\ \A q \in Requests : q # r => h'[q] = h[q]
      BY <1>3, <2>3, SizeMoves
    <3> QED BY <2>1, <3>1, StepSound
  <2> QED BY <2>2, <2>3
<1>4. CASE ExpandFs(r)
  <2>1. UNCHANGED vol /\ (Reply(r, TRUE) \/ Reply(r, FALSE))
    BY <1>4 DEF ExpandFs
  <2> QED BY <2>1, ReplySound
<1> QED BY <1>1, <1>2, <1>3, <1>4 DEF NodePublishVolume, NodeUnpublishVolume, NodeExpandVolume

LEMMA IssueSound ==
    ASSUME NodeTypeOK, PcFits, RecordInv, NEW r \in Requests, Issue(r)
    PROVE  PcFits' /\ RecordInv'
<1>1. /\ h'[r].pc = "Get" /\ ~h'[r].md.formatted /\ UNCHANGED vol
      /\ \A q \in Requests : q # r => h'[q] = h[q]
  BY IssueMoves
<1> QED BY <1>1, StepSound

LEMMA WorldSound ==
    ASSUME NodeTypeOK, PcFits, RecordInv,
           \/ \E t \in Targets : Write(t)
           \/ Resize
           \/ \E n \in Nodes : Die(n) \/ Reboot(n)
    PROVE  PcFits' /\ RecordInv'
<1>1. CASE \E t \in Targets : Write(t)
  <2>1. h' = h /\ vol' = [vol EXCEPT !.content = "data"]
    BY <1>1 DEF Write
  <2>2. vol'.content = "data"
    BY <2>1, VolumeSet
  <2> QED BY <2>1, <2>2 DEF PcFits, RecordInv
<1>2. CASE Resize
  <2>1. h' = h /\ vol'.content = vol.content /\ vol'.md = vol.md
    BY <1>2 DEF Resize, NodeTypeOK, Volume
  <2> QED BY <2>1 DEF PcFits, RecordInv
<1>3. ASSUME NEW n \in Nodes, Die(n) PROVE PcFits' /\ RecordInv'
  BY <1>3, KillSound DEF Die
<1>4. ASSUME NEW n \in Nodes, Reboot(n) PROVE PcFits' /\ RecordInv'
  <2>1. vol' = vol /\ \A q \in Requests : h'[q] = Idle \/ h'[q] = h[q]
    BY <1>4, RebootMoves
  <2> QED BY <2>1, IdleFields DEF PcFits, RecordInv
<1> QED BY <1>1, <1>2, <1>3, <1>4

-----------------------------------------------------------------------------
(* The theorems.                                                           *)

LEMMA StepTyped ==
    ASSUME NodeTypeOK, PcFits, Next
    PROVE  NodeTypeOK'
<1>1. ASSUME NEW r \in Requests, Handle(r) PROVE NodeTypeOK'
  <2>1. CASE GetVolume(r) \/ GetMetadata(r) \/ CreateGetInitiator(r)
    BY <2>1, GetVolumeTyped, GetMetadataTyped, CreateGetInitiatorTyped
  <2>2. CASE AclGet(r) \/ AclSet(r) \/ SetMetadata(r)
    BY <2>2, AclGetTyped, AclSetTyped, SetMetadataTyped
  <2>3. CASE NodeStageVolume(r)
    BY <2>3, OnlineTyped, LoginTyped, FindFsTyped, MkfsTyped, StageMountTyped
       DEF NodeStageVolume
  <2>4. CASE NodeUnstageVolume(r)
    BY <2>4, StageUnmountTyped, LogoutTyped, OfflineTyped, DeleteTyped DEF NodeUnstageVolume
  <2>5. CASE NodePublishVolume(r) \/ NodeUnpublishVolume(r)
    BY <2>5, PublishMountTyped, PublishUnmountTyped DEF NodePublishVolume, NodeUnpublishVolume
  <2>6. CASE NodeExpandVolume(r)
    BY <2>6, CheckDeviceSizeTyped, ExpandFsTyped DEF NodeExpandVolume
  <2> QED BY <1>1, <2>1, <2>2, <2>3, <2>4, <2>5, <2>6 DEF Handle
<1>2. ASSUME NEW r \in Requests, Issue(r) PROVE NodeTypeOK'
  BY <1>2, IssueTyped
<1>3. CASE Resize \/ \E t \in Targets : Write(t)
  BY <1>3, ResizeTyped, WriteTyped
<1>4. CASE \E n \in Nodes : Die(n) \/ Reboot(n)
  BY <1>4, DieTyped, RebootTyped
<1> QED BY <1>1, <1>2, <1>3, <1>4 DEF Next

LEMMA NextSound ==
    ASSUME NodeTypeOK, PcFits, RecordInv, Next
    PROVE  PcFits' /\ RecordInv'
<1>1. ASSUME NEW r \in Requests, Handle(r) PROVE PcFits' /\ RecordInv'
  <2>1. CASE GetVolume(r) \/ GetMetadata(r) \/ CreateGetInitiator(r)
    BY <2>1, GetVolumeSound, GetMetadataSound, CreateGetInitiatorSound
  <2>2. CASE AclGet(r) \/ AclSet(r) \/ SetMetadata(r)
    BY <2>2, AclGetSound, AclSetSound, SetMetadataSound
  <2>3. CASE NodeStageVolume(r) \/ NodeUnstageVolume(r)
    BY <2>3, NodeStageVolumeSound, NodeUnstageVolumeSound
  <2>4. CASE NodePublishVolume(r) \/ NodeUnpublishVolume(r) \/ NodeExpandVolume(r)
    BY <2>4, PodCallsSound
  <2> QED BY <1>1, <2>1, <2>2, <2>3, <2>4 DEF Handle
<1>2. ASSUME NEW r \in Requests, Issue(r) PROVE PcFits' /\ RecordInv'
  BY <1>2, IssueSound
<1> QED BY <1>1, <1>2, WorldSound DEF Next

LEMMA InitTyped == Init => NodeTypeOK /\ PcFits /\ RecordInv
<1> SUFFICES ASSUME Init PROVE NodeTypeOK /\ PcFits /\ RecordInv
  OBVIOUS
<1>1. h = [r \in Requests |-> Idle]
  BY DEF Init
<1>2. vol \in Volume /\ ~vol.md.formatted
  <2>1. \A d \in BOOLEAN : [NoMd EXCEPT !.del = d] \in Metadata
                           /\ ~[NoMd EXCEPT !.del = d].formatted
    BY DEF NoMd, Metadata
  <2>2. PICK d \in BOOLEAN : vol.md = [NoMd EXCEPT !.del = d]
    BY DEF Init
  <2>3. vol.md \in Metadata /\ ~vol.md.formatted
    BY <2>1, <2>2
  <2> DEFINE Made == {[NoMd EXCEPT !.del = e] : e \in BOOLEAN}
  <2>4. vol \in Volume
    <3>2. vol \in [content : {"blank", "data"}, clone : BOOLEAN, online : {TRUE}, acl : {{}},
                   md : Made, size : {1}, access : {"mount", "block", "other"}]
      BY DEF Init
    <3> HIDE DEF Made
    <3>3. /\ vol = [content |-> vol.content, clone |-> vol.clone, online |-> vol.online,
                     acl |-> vol.acl, md |-> vol.md, size |-> vol.size, access |-> vol.access]
          /\ vol.content \in {"blank", "data"} /\ vol.clone \in BOOLEAN /\ vol.online = TRUE
          /\ vol.acl = {} /\ vol.size = 1 /\ vol.access \in {"mount", "block", "other"}
      BY <3>2
    <3>4. vol.content \in {"blank", "fs", "data", "gone"} /\ vol.size \in Nat
      BY <3>3
    <3>5. vol.online \in BOOLEAN
      BY <3>3, Zenon
    <3>6. vol.acl \in SUBSET Nodes
      BY <3>3
    <3> QED BY <2>3, <3>3, <3>4, <3>5, <3>6, Zenon DEF Volume
  <2> QED BY <2>3, <2>4
<1>3. NodeTypeOK
  BY <1>1, <1>2, IdleTyped, NodeBoundAssumption DEF Init, NodeTypeOK
<1>4. PcFits /\ RecordInv
  BY <1>1, <1>2, IdleFields DEF PcFits, RecordInv
<1> QED BY <1>3, <1>4

LEMMA AlwaysSound == Spec => [](NodeTypeOK /\ PcFits /\ RecordInv)
<1>1. Init => NodeTypeOK /\ PcFits /\ RecordInv
  BY InitTyped
<1>2. NodeTypeOK /\ PcFits /\ RecordInv /\ [Next]_vars
        => (NodeTypeOK /\ PcFits /\ RecordInv)'
  <2> SUFFICES ASSUME NodeTypeOK, PcFits, RecordInv, [Next]_vars
               PROVE  NodeTypeOK' /\ PcFits' /\ RecordInv'
    OBVIOUS
  <2>1. CASE Next
    BY <2>1, StepTyped, NextSound
  <2>2. CASE UNCHANGED vars
    BY <2>2 DEF vars, NodeTypeOK, PcFits, RecordInv
  <2> QED BY <2>1, <2>2
<1> QED BY <1>1, <1>2, PTL DEF Spec

(* The node service keeps its types: in particular only nodes, never       *)
(* targets or paths, get into the ACL, whatever CreateGetInitiator,        *)
(* RegisterAcl and UnregisterAcl make of a failed call.                    *)
THEOREM NodeTypeCorrect == Spec => []NodeTypeOK
BY AlwaysSound, PTL

(* The metadata never record a format that has not been made: for any      *)
(* number of nodes that stage the volume at once, failing lsblk and umount *)
(* included.                                                               *)
THEOREM RecordsTrue == Spec => []RecordTrue
<1>1. RecordInv => RecordTrue
  BY DEF RecordInv, RecordTrue
<1> QED BY <1>1, AlwaysSound, PTL

LEMMA NextKeepsInv ==
    ASSUME Regular, OneNode, NodeInv, Next
    PROVE  NodeInv'
<1>1. NodeTypeOK'
  BY StepTyped DEF NodeInv
<1>2. ASSUME NEW r \in Requests, Handle(r) PROVE NodeInv'
  <2>1. CASE GetVolume(r) \/ GetMetadata(r) \/ CreateGetInitiator(r)
    BY <1>1, <2>1, GetVolumeKeepsInv, GetMetadataKeepsInv, CreateGetInitiatorKeepsInv
  <2>2. CASE AclGet(r) \/ AclSet(r) \/ SetMetadata(r)
    BY <1>1, <2>2, AclGetKeepsInv, AclSetKeepsInv, SetMetadataKeepsInv
  <2>3. CASE NodeStageVolume(r)
    BY <1>1, <2>3, OnlineKeepsInv, LoginKeepsInv, FindFsKeepsInv, MkfsKeepsInv,
       StageMountKeepsInv DEF NodeStageVolume
  <2>4. CASE NodeUnstageVolume(r)
    BY <1>1, <2>4, StageUnmountKeepsInv, LogoutKeepsInv, OfflineKeepsInv, DeleteKeepsInv
       DEF NodeUnstageVolume
  <2>5. CASE NodePublishVolume(r) \/ NodeUnpublishVolume(r)
    BY <1>1, <2>5, PublishMountKeepsInv, PublishUnmountKeepsInv
       DEF NodePublishVolume, NodeUnpublishVolume
  <2>6. CASE NodeExpandVolume(r)
    BY <1>1, <2>6, CheckDeviceSizeKeepsInv, ExpandFsKeepsInv DEF NodeExpandVolume
  <2> QED BY <1>2, <2>1, <2>2, <2>3, <2>4, <2>5, <2>6 DEF Handle
<1>3. ASSUME NEW r \in Requests, Issue(r) PROVE NodeInv'
  BY <1>1, <1>3, IssueKeepsInv
<1>4. CASE Resize \/ \E t \in Targets : Write(t)
  BY <1>1, <1>4, ResizeKeepsInv, WriteKeepsInv
<1>5. CASE \E n \in Nodes : Die(n) \/ Reboot(n)
  BY <1>1, <1>5, DieKeepsInv, RebootKeepsInv
<1> QED BY <1>2, <1>3, <1>4, <1>5 DEF Next

LEMMA InitInv == Init => NodeInv
<1> SUFFICES ASSUME Init PROVE NodeInv
  OBVIOUS
<1>1. NodeTypeOK /\ PcFits
  BY InitTyped
<1>2. /\ \A r \in Requests : h[r] = Idle
      /\ \A x \in Nodes \cup Targets : co[x] = "out"
      /\ \A n \in Nodes : ~host[n].session /\ ~host[n].staged
      /\ \A t \in Targets : pods[t] = "none"
      /\ vol.acl = {}
  BY DEF Init
<1>3. vol.md.mount = "absent"
  <2>1. PICK d \in BOOLEAN : vol.md = [NoMd EXCEPT !.del = d]
    BY DEF Init
  <2> QED BY <2>1 DEF NoMd
<1>4. CallerInv
  BY <1>2, IdleFields DEF CallerInv, Active
<1>5. MountKeyInv
  BY <1>2, <1>3, IdleFields DEF MountKeyInv
<1>6. StageInv /\ StagedInv /\ UnstageInv
  BY <1>2, IdleFields, RequestNames
     DEF StageInv, StageAt, StagedInv, StagedAt, KeepsMount, UnstageInv, UnstageAt
<1>7. LeaveInv
  BY <1>2, IdleFields DEF LeaveInv, LeaveAt, AclKnown
<1>8. PodInv
  BY <1>2, IdleFields, RequestNames DEF PodInv, PodAt
<1> QED BY <1>1, <1>4, <1>5, <1>6, <1>7, <1>8 DEF NodeInv

\* A volume keeps its access mode.
LEMMA AccessKept ==
    ASSUME NodeTypeOK, Next
    PROVE  vol'.access = vol.access
<1>1. ASSUME NEW r \in Requests, Handle(r) PROVE vol'.access = vol.access
  <2>1. CASE GetVolume(r) \/ GetMetadata(r) \/ CreateGetInitiator(r) \/ AclGet(r)
    BY <2>1 DEF GetVolume, GetMetadata, CreateGetInitiator, AclGet
  <2>2. CASE AclSet(r)
    <3>1. \/ vol' = vol
          \/ vol' = [vol EXCEPT !.acl = IF r.op = "stage" THEN Registered(h[r].acl, r.at)
                                        ELSE Unregistered(h[r].acl, r.at)]
      BY <2>2 DEF AclSet
    <3> QED BY <3>1 DEF NodeTypeOK, Volume
  <2>3. CASE SetMetadata(r)
    <3>1. vol' = vol \/ vol' = [vol EXCEPT !.md = Merge(vol.md, h[r].md)]
      BY <2>3 DEF SetMetadata
    <3> QED BY <3>1 DEF NodeTypeOK, Volume
  <2>4. CASE Online(r) \/ Offline(r)
    <3>1. \/ vol' = vol
          \/ vol' = [vol EXCEPT !.online = TRUE]
          \/ vol' = [vol EXCEPT !.online = FALSE]
      BY <2>4 DEF Online, Offline
    <3> QED BY <3>1 DEF NodeTypeOK, Volume
  <2>5. CASE Mkfs(r) \/ Delete(r)
    <3>1. \/ vol' = vol
          \/ vol' = [vol EXCEPT !.content = "fs"]
          \/ vol' = [vol EXCEPT !.content = "gone"]
      BY <2>5 DEF Mkfs, Delete
    <3> QED BY <3>1 DEF NodeTypeOK, Volume
  <2>6. CASE StageUnmount(r) \/ PublishUnmount(r)
    <3>1. PICK busy : vol' = [vol EXCEPT !.content = IF busy THEN Emptied ELSE @]
      BY <2>6 DEF StageUnmount, PublishUnmount
    <3> QED BY <3>1 DEF NodeTypeOK, Volume
  <2>7. CASE Login(r) \/ FindFs(r) \/ StageMount(r) \/ Logout(r) \/ PublishMount(r)
    BY <2>7 DEF Login, FindFs, StageMount, Logout, PublishMount
  <2>8. CASE NodeExpandVolume(r)
    BY <2>8 DEF NodeExpandVolume, CheckDeviceSize, ExpandFs
  <2> QED BY <1>1, <2>1, <2>2, <2>3, <2>4, <2>5, <2>6, <2>7, <2>8
          DEF Handle, NodeStageVolume, NodeUnstageVolume, NodePublishVolume, NodeUnpublishVolume
<1>2. ASSUME NEW r \in Requests, Issue(r) PROVE vol'.access = vol.access
  BY <1>2 DEF Issue
<1>3. CASE Resize \/ \E t \in Targets : Write(t)
  <2>1. vol' = [vol EXCEPT !.size = vol.size + 1] \/ vol' = [vol EXCEPT !.content = "data"]
    BY <1>3 DEF Resize, Write
  <2> QED BY <2>1 DEF NodeTypeOK, Volume
<1>4. CASE \E n \in Nodes : Die(n) \/ Reboot(n)
  BY <1>4 DEF Die, Reboot
<1> QED BY <1>1, <1>2, <1>3, <1>4 DEF Next

LEMMA AlwaysInv == ASSUME Regular PROVE Spec /\ OneNode => [](NodeInv /\ OneNode)
<1>1. Init => NodeInv
  BY InitInv
<1>2. NodeInv /\ OneNode /\ [Next]_vars => (NodeInv /\ OneNode)'
  <2> SUFFICES ASSUME NodeInv, OneNode, [Next]_vars PROVE NodeInv' /\ OneNode'
    OBVIOUS
  <2>1. CASE Next
    <3>1. vol'.access = vol.access
      BY <2>1, AccessKept DEF NodeInv
    <3> QED BY <2>1, <3>1, NextKeepsInv DEF OneNode
  <2>2. CASE UNCHANGED vars
    BY <2>2, StutterKeepsInv DEF vars, OneNode
  <2> QED BY <2>1, <2>2
<1> QED BY <1>1, <1>2, PTL DEF Spec

(* A published target shows the volume and the node can reach it, as long  *)
(* as the volume is used on one node at a time: through lost answers,      *)
(* repeated and overlapping calls for its pods, crashes and reboots.       *)
THEOREM Reachable == ASSUME Regular PROVE Spec /\ OneNode => []PublishedReachable
<1>1. NodeInv => PublishedReachable
  <2> SUFFICES ASSUME NodeInv, NEW t \in Targets, co[t] = "in"
               PROVE  /\ pods[t] = "vol"
                      /\ host[Home[t]].session
                      /\ Home[t] \in vol.acl
                      /\ HasFs /\ vol.online
    BY DEF PublishedReachable
  <2>1. pods[t] = "vol" /\ vol.access = "mount"
    BY DEF NodeInv, PodInv, PodAt
  <2>2. Home[t] \in Nodes /\ co[Home[t]] = "in"
    BY NodeAssumption DEF NodeInv, CallerInv
  <2> QED BY <2>1, <2>2 DEF NodeInv, StagedInv, StagedAt
<1> QED BY <1>1, AlwaysInv, PTL

(* A node that was left without an error is free of the volume, and so is  *)
(* a target.                                                               *)
THEOREM LeftClean == ASSUME Regular PROVE Spec /\ OneNode => []CleanLeave
<1>1. NodeInv => CleanLeave
  <2> SUFFICES ASSUME NodeInv
               PROVE  /\ \A n \in Nodes :
                           (co[n] = "out" /\ n \notin dirty) =>
                             /\ ~host[n].staged
                             /\ ~host[n].session
                             /\ n \in vol.acl => dirty \cap Nodes # {}
                      /\ \A t \in Targets : co[t] = "out" => pods[t] = "none"
    BY DEF CleanLeave
  <2>1. ASSUME NEW n \in Nodes, co[n] = "out", n \notin dirty
        PROVE  /\ ~host[n].staged
               /\ ~host[n].session
               /\ n \in vol.acl => dirty \cap Nodes # {}
    <3>1. LeaveAt(n) /\ AclKnown
      BY DEF NodeInv, LeaveInv
    <3> QED BY <2>1, <3>1 DEF LeaveAt, AclKnown
  <2>2. ASSUME NEW t \in Targets, co[t] = "out" PROVE pods[t] = "none"
    BY <2>2 DEF NodeInv, PodInv, PodAt
  <2> QED BY <2>1, <2>2
<1> QED BY <1>1, AlwaysInv, PTL

-----------------------------------------------------------------------------
(* NodeService implements VolumeData.                                      *)

Users == {t \in Targets : pods[t] = "vol"}

(* Most steps change neither what is on the volume nor who sees it.        *)
LEMMA DataStutters ==
    ASSUME vol'.content = vol.content, pods' = pods
    PROVE  UNCHANGED Data!dataVars
BY DEF Data!dataVars

LEMMA ContentAndPods ==
    ASSUME NodeInv, Regular, NEW r \in Requests, Handle(r)
    PROVE  \/ vol'.content = vol.content /\ pods' = pods
           \/ Mkfs(r) \/ Delete(r) \/ PublishMount(r) \/ PublishUnmount(r)
<1>1. NodeTypeOK
  BY DEF NodeInv
<1>2. CASE GetVolume(r) \/ GetMetadata(r) \/ CreateGetInitiator(r) \/ AclGet(r)
  BY <1>2 DEF GetVolume, GetMetadata, CreateGetInitiator, AclGet
<1>3. CASE AclSet(r)
  <2>1. pods' = pods
    BY <1>3 DEF AclSet
  <2>2. \/ vol' = vol
        \/ vol' = [vol EXCEPT !.acl = IF r.op = "stage" THEN Registered(h[r].acl, r.at)
                                      ELSE Unregistered(h[r].acl, r.at)]
    BY <1>3 DEF AclSet
  <2> QED BY <1>1, <2>1, <2>2 DEF NodeTypeOK, Volume
<1>4. CASE SetMetadata(r)
  BY <1>1, <1>4, SetMetadataMoves
<1>5. CASE Online(r)
  <2>1. pods' = pods /\ (vol' = vol \/ vol' = [vol EXCEPT !.online = TRUE])
    BY <1>5 DEF Online
  <2> QED BY <1>1, <2>1, OnlineSet
<1>6. CASE Login(r) \/ FindFs(r) \/ StageMount(r) \/ Logout(r)
  BY <1>6 DEF Login, FindFs, StageMount, Logout
<1>7. CASE StageUnmount(r)
  <2>1. pods' = pods
    BY <1>7 DEF StageUnmount
  <2> DEFINE mounted == h[r].mpath = "staging" /\ host[r.at].staged
  <2>2. PICK busy \in {FALSE} \cup (IF mounted THEN {UmountFails} ELSE {}) :
          vol' = [vol EXCEPT !.content = IF busy THEN Emptied ELSE @]
    BY <1>7 DEF StageUnmount
  <2>3. UmountFails = FALSE
    BY NodeAssumption DEF Regular
  <2>4. busy = FALSE
    BY <2>2, <2>3
  <2> QED BY <1>1, <2>1, <2>2, <2>4 DEF NodeTypeOK, Volume
<1>8. CASE Offline(r)
  <2>1. pods' = pods /\ (vol' = vol \/ vol' = [vol EXCEPT !.online = FALSE])
    BY <1>8 DEF Offline
  <2> QED BY <1>1, <2>1, OnlineSet
<1>9. CASE NodeExpandVolume(r)
  BY <1>9 DEF NodeExpandVolume, CheckDeviceSize, ExpandFs
<1> QED BY <1>2, <1>3, <1>4, <1>5, <1>6, <1>7, <1>8, <1>9
        DEF Handle, NodeStageVolume, NodeUnstageVolume, NodePublishVolume, NodeUnpublishVolume

LEMMA MkfsRefines ==
    ASSUME NodeInv, NEW r \in Requests, Mkfs(r)
    PROVE  [Data!Next]_(Data!dataVars)
<1> USE DEF NodeInv
<1>1. /\ r.op = "stage" /\ h[r].pc = "Mkfs" /\ Active(r) /\ pods' = pods
      /\ vol' = vol \/ vol' = [vol EXCEPT !.content = "fs"]
      /\ r.at \in Nodes /\ r = St(r.at)
  BY RequestFields DEF Mkfs, At, Active
<1>2. vol.content \in {"blank", "fs"} /\ Users = {}
  BY <1>1, Alone DEF StageInv, StageAt, Users
<1>3. vol'.content = vol.content \/ vol'.content = "fs"
  BY <1>1, ContentSet
<1>4. CASE vol'.content = vol.content
  BY <1>1, <1>4, DataStutters
<1>5. CASE vol.content = "blank" /\ vol'.content = "fs"
  BY <1>1, <1>2, <1>5 DEF Data!Next, Data!Format, Users
<1> QED BY <1>2, <1>3, <1>4, <1>5

LEMMA DeleteRefines ==
    ASSUME NodeInv, NEW r \in Requests, Delete(r)
    PROVE  [Data!Next]_(Data!dataVars)
<1> USE DEF NodeInv
<1>1. /\ r.op = "unstage" /\ Active(r) /\ pods' = pods
      /\ vol' = vol \/ vol' = [vol EXCEPT !.content = "gone"]
  BY DEF Delete, At, Active
<1>2. Users = {}
  BY <1>1, Alone DEF Users
<1>3. vol'.content = vol.content \/ vol'.content = "gone"
  BY <1>1, ContentSet
<1>4. CASE vol'.content = vol.content
  BY <1>1, <1>4, DataStutters
<1>5. CASE vol'.content = "gone"
  BY <1>1, <1>2, <1>5 DEF Data!Next, Data!Delete, Users
<1> QED BY <1>3, <1>4, <1>5

LEMMA PublishRefines ==
    ASSUME NodeInv, NodeInv', NEW r \in Requests, PublishMount(r)
    PROVE  [Data!Next]_(Data!dataVars)
<1> USE DEF NodeInv
<1>1. /\ vol' = vol /\ r.at \in Targets
      /\ \/ pods' = pods
         \/ pods' = [pods EXCEPT ![r.at] = "vol"]
         \/ pods' = [pods EXCEPT ![r.at] = "dir"]
      /\ r.op = "publish" /\ Active(r)
  BY RequestFields DEF PublishMount, At, Active
<1>2. CASE pods' = pods
  BY <1>1, <1>2, DataStutters
<1>3. CASE pods' = [pods EXCEPT ![r.at] = "dir"]
  <2>1. pods'[r.at] = "dir"
    BY <1>1, <1>3 DEF NodeTypeOK
  <2> QED BY <1>1, <2>1 DEF PodInv, PodAt
<1>4. CASE pods' = [pods EXCEPT ![r.at] = "vol"]
  <2>1. Users' = Users \cup {r.at} /\ pods'[r.at] = "vol"
    BY <1>1, <1>4 DEF NodeTypeOK, Users
  <2>2. vol.access = "mount"
    BY <1>1, <2>1 DEF PodInv, PodAt
  <2>3. On(r) \in Nodes /\ co[On(r)] = "in"
    BY <1>1, InUse, OnANode
  <2>4. HasFs
    BY <2>2, <2>3 DEF StagedInv, StagedAt
  <2> QED BY <1>1, <2>1, <2>4 DEF Data!Next, Data!Use, HasFs, Users
<1> QED BY <1>1, <1>2, <1>3, <1>4

LEMMA LeaveRefines ==
    ASSUME NEW S \in SUBSET Targets, vol'.content = vol.content, Users' = Users \ S
    PROVE  [Data!Next]_(Data!dataVars)
BY DEF Data!Next, Data!Leave, Users

LEMMA UnpublishRefines ==
    ASSUME NodeInv, Regular, NEW r \in Requests, PublishUnmount(r)
    PROVE  [Data!Next]_(Data!dataVars)
<1>1. r.at \in Targets /\ NodeTypeOK
  BY RequestFields DEF PublishUnmount, At, NodeInv
<1>2. PICK busy \in {FALSE} \cup (IF pods[r.at] = "vol" THEN {UmountFails} ELSE {}) :
        /\ pods' = [pods EXCEPT ![r.at] = IF busy THEN @ ELSE "none"]
        /\ vol' = [vol EXCEPT !.content = IF busy THEN Emptied ELSE @]
  BY DEF PublishUnmount
<1>3. UmountFails = FALSE
  BY NodeAssumption DEF Regular
<1>4. busy = FALSE
  BY <1>2, <1>3
<1>5. vol'.content = vol.content /\ Users' = Users \ {r.at}
  BY <1>1, <1>2, <1>4 DEF NodeTypeOK, Volume, Users
<1> QED BY <1>1, <1>5, LeaveRefines

LEMMA StepRefines ==
    ASSUME NodeInv, NodeInv', Regular, [Next]_vars
    PROVE  [Data!Next]_(Data!dataVars)
<1>1. ASSUME NEW r \in Requests, Handle(r) PROVE [Data!Next]_(Data!dataVars)
  <2>1. CASE vol'.content = vol.content /\ pods' = pods
    BY <2>1, DataStutters
  <2>2. CASE Mkfs(r) \/ Delete(r) \/ PublishMount(r) \/ PublishUnmount(r)
    BY <2>2, MkfsRefines, DeleteRefines, PublishRefines, UnpublishRefines
  <2> QED BY <1>1, <2>1, <2>2, ContentAndPods
<1>2. ASSUME NEW r \in Requests, Issue(r) PROVE [Data!Next]_(Data!dataVars)
  BY <1>2, DataStutters DEF Issue
<1>3. ASSUME NEW t \in Targets, Write(t) PROVE [Data!Next]_(Data!dataVars)
  <2>1. pods' = pods /\ pods[t] = "vol" /\ vol' = [vol EXCEPT !.content = "data"]
    BY <1>3 DEF Write
  <2>2. vol'.content = "data" /\ Users # {}
    BY <2>1, VolumeSet DEF NodeInv, Users
  <2> QED BY <2>1, <2>2 DEF Data!Next, Data!Write, Users
<1>4. CASE Resize
  <2>1. vol'.content = vol.content /\ pods' = pods
    BY <1>4 DEF Resize, NodeInv, NodeTypeOK, Volume
  <2> QED BY <2>1, DataStutters
<1>5. ASSUME NEW n \in Nodes, Die(n) PROVE [Data!Next]_(Data!dataVars)
  BY <1>5, DataStutters DEF Die
<1>6. ASSUME NEW n \in Nodes, Reboot(n) PROVE [Data!Next]_(Data!dataVars)
  <2>1. vol' = vol /\ Users' = Users \ {t \in Targets : Home[t] = n}
    BY <1>6, RebootMoves DEF NodeInv, Users
  <2> QED BY <2>1, LeaveRefines
<1>7. CASE UNCHANGED vars
  BY <1>7, DataStutters DEF vars
<1> QED BY <1>1, <1>2, <1>3, <1>4, <1>5, <1>6, <1>7 DEF Next

(* As long as lsblk and umount work and the volume is used on one node at  *)
(* a time, the node service does to its content only what VolumeData       *)
(* allows: through failed calls to the storage system, lost answers,       *)
(* repeated calls, cut-off handlers, restarts and moves between nodes.     *)
THEOREM Implements == ASSUME Regular PROVE Spec /\ OneNode => DataKept
<1>1. Init => Data!Init
  BY DEF Init, Data!Init
<1>2. NodeInv /\ NodeInv' /\ [Next]_vars => [Data!Next]_(Data!dataVars)
  BY StepRefines
<1> QED BY <1>1, <1>2, AlwaysInv, PTL DEF Spec, DataKept, Data!Spec

-----------------------------------------------------------------------------
(* The wait of an expansion for the device to grow.  The sizes of the      *)
(* system: an int64 wraps around at a multiple of GiB * GiB (2^64 and      *)
(* 2^30 in the code), and no volume is larger than GiB * GiB bytes.        *)

SizesFit ==
    /\ \E m \in Nat : Word = m * (GiB * GiB)
    /\ MaxSize <= GiB

\* Integers.
LEMMA WrapRest ==
    ASSUME NEW x \in Nat
    PROVE  \E q \in Int : x = Word * q + Wrap(x)
<1>1. Word \in Nat /\ Word > 0
  BY NodeBoundAssumption
<1>2. x = Word * (x \div Word) + (x % Word) /\ x \div Word \in Int
  BY <1>1, SMT
<1> QED BY <1>2 DEF Wrap

LEMMA Cancel ==
    ASSUME NEW g \in Nat \ {0}, NEW a \in Int, NEW b \in Int, g * a = g * b
    PROVE  a = b
BY SMT

LEMMA NotBetween ==
    ASSUME NEW g \in Nat \ {0}, NEW c \in Int, NEW s \in Int, s = g * c
    PROVE  /\ (-g < s /\ s < g) => s = 0
           /\ (0 < s /\ s <= g) => s = g
<1>1. c = 0 \/ c >= 1 \/ c <= -1
  BY SMT
<1>2. CASE c = 0
  BY <1>2, SMT
<1>3. CASE c >= 1
  <2>1. s >= g
    BY <1>3, SMT
  <2> QED BY <2>1, SMT
<1>4. CASE c <= -1
  <2>1. s <= -g
    BY <1>4, SMT
  <2> QED BY <2>1, SMT
<1> QED BY <1>1, <1>2, <1>3, <1>4

\* After a round the expected size is a multiple of GiB, wrapped around or not.
LEMMA RoundMultiplies ==
    ASSUME SizesFit, NEW want \in Nat
    PROVE  \E k \in Nat : Wrap(want * GiB) = k * GiB
<1>1. GiB \in Nat \ {0} /\ Word \in Nat \ {0}
  BY NodeBoundAssumption
<1>2. PICK m \in Nat : Word = m * (GiB * GiB)
  BY DEF SizesFit
<1>3. want * GiB \in Nat
  BY <1>1, SMT
<1>4. PICK q \in Int : want * GiB = Word * q + Wrap(want * GiB)
  BY <1>3, WrapRest
<1>5. Wrap(want * GiB) \in Nat
  BY <1>1, <1>3, WrapTyped
<1> DEFINE k == want - m * GiB * q
<1>6. k \in Int
  BY <1>1, SMT
<1>7. Wrap(want * GiB) = k * GiB
  <2>1. Word * q = (m * GiB * q) * GiB
    BY <1>1, <1>2, SMT
  <2> QED BY <1>1, <1>4, <1>5, <2>1, SMT
<1>8. k \in Nat
  BY <1>1, <1>5, <1>6, <1>7, SMT
<1> QED BY <1>7, <1>8

\* A round that matches has seen a device as large as was asked for: the first
\* one compares the two sizes, and in a later one the expected size is a
\* multiple of GiB * GiB, which the size of a device in bytes is only if it is
\* the largest there is.
LEMMA RoundMatches ==
    ASSUME SizesFit, NEW seen \in 1 .. MaxSize, NEW asked \in 1 .. MaxSize, NEW want \in Nat,
           want = asked \/ \E k \in Nat : want = k * GiB,
           Wrap(seen * GiB) = Wrap(want * GiB)
    PROVE  seen >= asked
<1>1. /\ GiB \in Nat \ {0} /\ Word \in Nat \ {0} /\ MaxSize \in Nat /\ MaxSize <= GiB
      /\ seen \in Nat /\ asked \in Nat
  BY NodeBoundAssumption, SMT DEF SizesFit
<1>2. PICK m \in Nat : Word = m * (GiB * GiB)
  BY DEF SizesFit
<1>3. want * GiB \in Nat /\ seen * GiB \in Nat
  BY <1>1, SMT
<1>4. PICK p \in Int : seen * GiB = Word * p + Wrap(seen * GiB)
  BY <1>3, WrapRest
<1>5. PICK q \in Int : want * GiB = Word * q + Wrap(want * GiB)
  BY <1>3, WrapRest
<1>6. Wrap(want * GiB) \in Nat
  BY <1>1, <1>3, WrapTyped
<1> DEFINE c == m * (p - q)
<1>7. c \in Int /\ seen = want + GiB * c
  <2>1. c \in Int
    BY <1>1, SMT
  <2>2. Word * p - Word * q = GiB * (GiB * c)
    BY <1>1, <1>2, SMT
  <2>3. seen * GiB - want * GiB = Word * p - Word * q
    BY <1>1, <1>4, <1>5, <1>6, SMT
  <2>4. GiB * (seen - want) = GiB * (GiB * c)
    BY <1>1, <2>1, <2>2, <2>3, SMT
  <2>5. seen - want = GiB * c
    BY <1>1, <2>1, <2>4, Cancel
  <2> QED BY <1>1, <2>1, <2>5, SMT
<1> HIDE DEF c
<1>8. CASE want = asked
  <2>1. seen - asked = GiB * c /\ -GiB < seen - asked /\ seen - asked < GiB
    BY <1>1, <1>7, <1>8, SMT
  <2>2. seen - asked = 0
    BY <1>1, <1>7, <2>1, NotBetween
  <2> QED BY <1>1, <2>2, SMT
<1>9. ASSUME NEW k \in Nat, want = k * GiB PROVE seen >= asked
  <2>1. seen = GiB * (k + c) /\ k + c \in Int
    BY <1>1, <1>7, <1>9, SMT
  <2>2. seen \in Int /\ 0 < seen /\ seen <= GiB
    BY <1>1, SMT
  <2>3. seen = GiB
    BY <1>1, <2>1, <2>2, NotBetween
  <2> QED BY <1>1, <2>3, SMT
<1> QED BY <1>8, <1>9

\* The size of the volume, as the storage system, the nodes and the handlers
\* know it: nobody knows a size the volume has not got to, a device that is
\* there has a size, and an expansion waits for the size it was asked for or,
\* after a round, for a multiple of GiB.
HostSized(n) ==
    /\ host[n].seen <= vol.size
    /\ (host[n].session \/ host[n].staged) => host[n].seen >= 1

RequestSized(r) ==
    /\ h[r].pc \in {"Size", "Grow"} => r.op = "expand"
    /\ (r.op = "expand" /\ h[r].pc # "idle") => h[r].asked \in 1 .. vol.size
    /\ (r.op = "expand" /\ h[r].pc \in {"Get", "Md"}) => h[r].want = h[r].asked
    /\ h[r].pc = "Size" =>
         /\ host[r.at].seen >= 1
         /\ h[r].want = h[r].asked \/ \E k \in Nat : h[r].want = k * GiB
    /\ (h[r].pc = "Grow" /\ ~h[r].blind) => host[r.at].seen >= h[r].asked
    /\ (r.op = "stage" /\ h[r].pc \in {"FindFs", "Mkfs", "Mount"}) => host[r.at].seen >= 1

SizeInv ==
    /\ vol.size \in 1 .. MaxSize
    /\ \A n \in Nodes : HostSized(n)
    /\ \A r \in Requests : RequestSized(r)

\* Sizes only grow.
SizesGrow ==
    /\ vol'.size \in vol.size .. MaxSize
    /\ \A n \in Nodes :
         /\ host'[n].seen >= host[n].seen
         /\ host'[n].seen <= vol'.size
         /\ (host'[n].session \/ host'[n].staged) => host'[n].seen >= 1

LEMMA OthersSized ==
    ASSUME NodeTypeOK, NodeTypeOK', SizeInv, SizesGrow, NEW q \in Requests, h'[q] = h[q]
    PROVE  RequestSized(q)'
<1>1. RequestSized(q)
  BY DEF SizeInv
<1>2. vol.size \in Nat /\ vol'.size \in Nat /\ h[q].asked \in Nat
  <2>1. vol.size \in Nat /\ vol'.size \in Nat
    BY DEF NodeTypeOK, Volume
  <2>2. h[q].asked \in Nat
    BY HandlerFields DEF NodeTypeOK
  <2> QED BY <2>1, <2>2
<1>3. q.op \in {"stage", "expand"} =>
        /\ host[q.at].seen \in Nat /\ host'[q.at].seen \in Nat
        /\ host'[q.at].seen >= host[q.at].seen
  BY RequestFields DEF NodeTypeOK, SizesGrow
<1>4. vol'.size >= vol.size
  BY <1>2 DEF SizesGrow
<1>5. (q.op = "expand" /\ h'[q].pc # "idle") => h'[q].asked \in 1 .. vol'.size
  BY <1>1, <1>2, <1>4 DEF RequestSized
<1>6. h'[q].pc = "Size" => host'[q.at].seen >= 1
  BY <1>1, <1>3 DEF RequestSized
<1>7. (h'[q].pc = "Grow" /\ ~h'[q].blind) => host'[q.at].seen >= h'[q].asked
  <2> SUFFICES ASSUME h[q].pc = "Grow", ~h[q].blind PROVE host'[q.at].seen >= h[q].asked
    OBVIOUS
  <2>1. host[q.at].seen >= h[q].asked /\ q.op = "expand"
    BY <1>1 DEF RequestSized
  <2> QED BY <1>2, <1>3, <2>1
<1>8. (q.op = "stage" /\ h'[q].pc \in {"FindFs", "Mkfs", "Mount"}) => host'[q.at].seen >= 1
  BY <1>1, <1>3 DEF RequestSized
<1> QED BY <1>1, <1>5, <1>6, <1>7, <1>8 DEF RequestSized

LEMMA StepSized ==
    ASSUME NodeTypeOK, NodeTypeOK', SizeInv, SizesGrow, NEW r \in Requests,
           \A q \in Requests : q # r => h'[q] = h[q],
           RequestSized(r)'
    PROVE  SizeInv'
<1>1. vol'.size \in 1 .. MaxSize
  BY VolumeFields, NodeBoundAssumption DEF SizeInv, SizesGrow
<1>2. \A n \in Nodes : HostSized(n)'
  BY DEF SizesGrow, HostSized
<1>3. \A q \in Requests : RequestSized(q)'
  BY OthersSized
<1> QED BY <1>1, <1>2, <1>3 DEF SizeInv

LEMMA KillSized ==
    ASSUME NodeTypeOK, NodeTypeOK', SizeInv, SizesGrow,
           \A q \in Requests : h'[q] = Idle \/ h'[q] = h[q]
    PROVE  SizeInv'
<1>1. vol'.size \in 1 .. MaxSize
  BY VolumeFields, NodeBoundAssumption DEF SizeInv, SizesGrow
<1>2. \A n \in Nodes : HostSized(n)'
  BY DEF SizesGrow, HostSized
<1>3. \A q \in Requests : RequestSized(q)'
  BY OthersSized, IdleFields DEF RequestSized
<1> QED BY <1>1, <1>2, <1>3 DEF SizeInv

LEMMA ReplySized ==
    ASSUME NodeTypeOK, NodeTypeOK', SizeInv, SizesGrow, NEW r \in Requests,
           NEW ok \in BOOLEAN, Reply(r, ok)
    PROVE  SizeInv'
<1>1. h'[r] = Idle /\ \A q \in Requests : q # r => h'[q] = h[q]
  BY ReplyMoves
<1> QED BY <1>1, KillSized

\* A step of a handler that is no expansion.
LEMMA OtherStepSized ==
    ASSUME NodeTypeOK, NodeTypeOK', SizeInv, SizesGrow, NEW r \in Requests,
           \A q \in Requests : q # r => h'[q] = h[q],
           r.op # "expand", h'[r].pc \notin {"Size", "Grow"},
           (r.op = "stage" /\ h'[r].pc \in {"FindFs", "Mkfs", "Mount"}) => host'[r.at].seen >= 1
    PROVE  SizeInv'
<1>1. RequestSized(r)'
  BY DEF RequestSized
<1> QED BY <1>1, StepSized

LEMMA PcSized ==
    ASSUME NodeTypeOK, NodeTypeOK', SizeInv, SizesGrow, NEW r \in Requests, NEW pc,
           Go(r, [h[r] EXCEPT !.pc = pc]), r.op # "expand",
           pc \notin {"Size", "Grow", "FindFs", "Mkfs", "Mount"}
    PROVE  SizeInv'
<1>1. h'[r].pc = pc /\ \A q \in Requests : q # r => h'[q] = h[q]
  BY PcMoves
<1> QED BY <1>1, OtherStepSized

LEMMA SameSizes ==
    ASSUME NodeTypeOK, SizeInv, host' = host, vol'.size = vol.size
    PROVE  SizesGrow
<1>1. \A n \in Nodes : HostSized(n) /\ host[n].seen \in Nat
  BY DEF SizeInv, NodeTypeOK
<1>2. vol.size \in Nat /\ vol.size <= MaxSize /\ MaxSize \in Nat
  BY VolumeFields, NodeBoundAssumption DEF SizeInv
<1> QED BY <1>1, <1>2 DEF SizesGrow, HostSized

LEMMA VolumeSizeKept ==
    ASSUME NodeTypeOK
    PROVE  \A x : /\ [vol EXCEPT !.acl = x].size = vol.size
                  /\ [vol EXCEPT !.md = x].size = vol.size
                  /\ [vol EXCEPT !.online = x].size = vol.size
                  /\ [vol EXCEPT !.content = x].size = vol.size
BY DEF NodeTypeOK, Volume

LEMMA GetVolumeSized ==
    ASSUME NodeTypeOK, NodeTypeOK', SizeInv, NEW r \in Requests, GetVolume(r)
    PROVE  SizeInv'
<1>1. SizesGrow
  BY SameSizes DEF GetVolume
<1>2. CASE Panic(r)
  BY <1>1, <1>2, OnANode, KillMoves, KillSized DEF Panic
<1>3. CASE Reply(r, FALSE)
  BY <1>1, <1>3, ReplySized
<1>4. CASE Go(r, [h[r] EXCEPT !.pc = IF r.op = "unstage" THEN "Unmount" ELSE "Md",
                              !.mpath = vol.md.mount])
  <2> DEFINE hr == [h[r] EXCEPT !.pc = IF r.op = "unstage" THEN "Unmount" ELSE "Md",
                                !.mpath = vol.md.mount]
  <2>1. h[r] \in Handler /\ h[r].pc = "Get" /\ RequestSized(r)
    BY DEF NodeTypeOK, GetVolume, SizeInv
  <2>2. /\ hr.pc = (IF r.op = "unstage" THEN "Unmount" ELSE "Md")
        /\ hr.want = h[r].want /\ hr.asked = h[r].asked
    BY <2>1 DEF Handler
  <2> HIDE DEF hr
  <2>3. h'[r] = hr /\ \A q \in Requests : q # r => h'[q] = h[q]
    BY <1>4, GoMoves DEF hr
  <2>4. vol' = vol
    BY DEF GetVolume
  <2>5. RequestSized(r)'
    BY <2>1, <2>2, <2>3, <2>4 DEF RequestSized
  <2> QED BY <1>1, <2>3, <2>5, StepSized
<1> QED BY <1>2, <1>3, <1>4 DEF GetVolume

LEMMA WithMdSized ==
    ASSUME NodeTypeOK, NodeTypeOK', SizeInv, NEW r \in Requests, NEW m \in Metadata,
           WithMd(r, m), h[r].pc = "Md", UNCHANGED <<vol, host>>
    PROVE  SizeInv'
<1>1. SizesGrow
  BY SameSizes
<1>2. CASE Reply(r, FALSE)
  BY <1>1, <1>2, ReplySized
<1>3. CASE ~Reply(r, FALSE) /\ r.op # "expand"
  <2>1. /\ r.op = "stage" => h'[r].pc = "Init"
        /\ h'[r].pc \in {"Init", "Mount", "WriteMd"}
        /\ \A q \in Requests : q # r => h'[q] = h[q]
    BY <1>3, WithMdMoves
  <2> QED BY <1>1, <1>3, <2>1, OtherStepSized
<1>4. CASE ~Reply(r, FALSE) /\ r.op = "expand"
  <2> DEFINE hm == [h[r] EXCEPT !.md = m]
             hr == [hm EXCEPT !.pc = "Size", !.tries = SizeTimeout]
  <2>1. h[r] \in Handler /\ RequestSized(r)
    BY DEF NodeTypeOK, SizeInv
  <2>2. Go(r, hr) /\ host[r.at].staged
    BY <1>4 DEF WithMd
  <2>3. hr.pc = "Size" /\ hr.want = h[r].want /\ hr.asked = h[r].asked
    BY <2>1 DEF Handler
  <2> HIDE DEF hr
  <2>4. h'[r] = hr /\ \A q \in Requests : q # r => h'[q] = h[q]
    BY <2>2, GoMoves
  <2>5. host[r.at].seen >= 1
    BY <1>4, <2>2, RequestFields DEF SizeInv, HostSized
  <2>6. h[r].want = h[r].asked /\ h[r].asked \in 1 .. vol.size
    BY <1>4, <2>1 DEF RequestSized
  <2>7. RequestSized(r)'
    BY <1>4, <2>3, <2>4, <2>5, <2>6 DEF RequestSized
  <2> QED BY <1>1, <2>4, <2>7, StepSized
<1> QED BY <1>2, <1>3, <1>4

LEMMA GetMetadataSized ==
    ASSUME NodeTypeOK, NodeTypeOK', SizeInv, NEW r \in Requests, GetMetadata(r)
    PROVE  SizeInv'
<1>1. UNCHANGED <<vol, host>> /\ h[r].pc = "Md" /\ SizesGrow
  BY SameSizes DEF GetMetadata
<1>2. CASE WithMd(r, vol.md)
  <2>1. PICK m \in Metadata : m = vol.md
    BY VolumeFields
  <2> QED BY <1>1, <1>2, <2>1, WithMdSized
<1>3. CASE WithMd(r, NoMd)
  <2>1. NoMd \in Metadata
    BY DEF NoMd, Metadata
  <2> QED BY <1>1, <1>3, <2>1, WithMdSized
<1>4. CASE Reply(r, FALSE)
  BY <1>1, <1>4, ReplySized
<1> QED BY <1>2, <1>3, <1>4 DEF GetMetadata

LEMMA SharedCallsSized ==
    ASSUME NodeTypeOK, NodeTypeOK', PcFits, SizeInv, NEW r \in Requests,
           CreateGetInitiator(r) \/ AclGet(r) \/ AclSet(r) \/ SetMetadata(r)
    PROVE  SizeInv'
<1>1. r.op # "expand" /\ host' = host
  BY DEF CreateGetInitiator, AclGet, AclSet, SetMetadata, PcFits
<1>2. vol'.size = vol.size
  <2>1. \/ vol' = vol
        \/ vol' = [vol EXCEPT !.acl = IF r.op = "stage" THEN Registered(h[r].acl, r.at)
                                      ELSE Unregistered(h[r].acl, r.at)]
        \/ vol' = [vol EXCEPT !.md = Merge(vol.md, h[r].md)]
    BY DEF CreateGetInitiator, AclGet, AclSet, SetMetadata
  <2> QED BY <2>1 DEF NodeTypeOK, Volume
<1>3. SizesGrow
  BY <1>1, <1>2, SameSizes
<1>4. CASE Panic(r)
  BY <1>3, <1>4, OnANode, KillMoves, KillSized DEF Panic
<1>5. CASE Reply(r, TRUE) \/ Reply(r, FALSE)
  BY <1>3, <1>5, ReplySized
<1>6. CASE \E pc \in {"AclGet", "Online", "Offline", "Logout", "Unmount"} :
             Go(r, [h[r] EXCEPT !.pc = pc])
  BY <1>1, <1>3, <1>6, PcSized
<1>7. CASE Go(r, [h[r] EXCEPT !.pc = "AclSet", !.acl = vol.acl])
  <2>1. h'[r].pc = "AclSet" /\ \A q \in Requests : q # r => h'[q] = h[q]
    BY <1>7, AclReadMoves
  <2> QED BY <1>1, <1>3, <2>1, OtherStepSized
<1>8. CASE CreateGetInitiator(r)
  BY <1>4, <1>5, <1>6, <1>8 DEF CreateGetInitiator
<1>9. CASE AclGet(r)
  BY <1>5, <1>6, <1>7, <1>9 DEF AclGet, AclFailed, Unregister
<1>10. CASE AclSet(r)
  BY <1>5, <1>6, <1>10 DEF AclSet, AclFailed, Unregister
<1>11. CASE SetMetadata(r)
  BY <1>5, <1>6, <1>11, SetMetadataMoves
<1> QED BY <1>8, <1>9, <1>10, <1>11

LEMMA LoginSized ==
    ASSUME NodeTypeOK, NodeTypeOK', SizeInv, NEW r \in Requests, Login(r)
    PROVE  SizeInv'
<1>1. r.op = "stage" /\ r.at \in Nodes /\ vol' = vol
  BY RequestFields DEF Login, At
<1> DEFINE size == IF host[r.at].session THEN host[r.at].seen ELSE vol.size
<1>2. CASE host' = host /\ Reply(r, FALSE)
  BY <1>1, <1>2, SameSizes, ReplySized
<1>3. CASE host' = [host EXCEPT ![r.at].session = TRUE, ![r.at].file = TRUE,
                                ![r.at].seen = size]
  <2>1. HostSized(r.at) /\ host[r.at].seen \in Nat /\ vol.size \in Nat /\ vol.size >= 1
    BY <1>1, VolumeFields DEF SizeInv, NodeTypeOK
  <2>2. size >= host[r.at].seen /\ size <= vol.size /\ size >= 1
    BY <2>1 DEF HostSized
  <2> HIDE DEF size
  <2>3. host'[r.at].seen = size /\ \A n \in Nodes : n # r.at => host'[n] = host[n]
    BY <1>1, <1>3 DEF NodeTypeOK
  <2>4. SizesGrow
    <3>1. \A n \in Nodes : n # r.at => HostSized(n) /\ host[n].seen \in Nat
      BY DEF SizeInv, NodeTypeOK
    <3>2. vol.size <= MaxSize /\ MaxSize \in Nat
      BY <2>1, NodeBoundAssumption DEF SizeInv
    <3>3. vol'.size \in vol.size .. MaxSize
      BY <1>1, <2>1, <3>2
    <3>4. ASSUME NEW n \in Nodes
          PROVE  /\ host'[n].seen >= host[n].seen
                 /\ host'[n].seen <= vol'.size
                 /\ (host'[n].session \/ host'[n].staged) => host'[n].seen >= 1
      <4>1. CASE n = r.at
        BY <1>1, <2>2, <2>3, <4>1
      <4>2. CASE n # r.at
        BY <1>1, <2>1, <2>3, <3>1, <4>2 DEF HostSized
      <4> QED BY <4>1, <4>2
    <3> QED BY <3>3, <3>4 DEF SizesGrow
  <2>5. CASE Reply(r, FALSE)
    BY <2>4, <2>5, ReplySized
  <2>6. CASE Go(r, [h[r] EXCEPT !.pc = "WriteMd", !.md.mount = "device"])
    <3>1. h'[r].pc = "WriteMd" /\ \A q \in Requests : q # r => h'[q] = h[q]
      BY <2>6, MountMoves
    <3> QED BY <1>1, <2>4, <3>1, OtherStepSized
  <2>7. CASE \E pc \in {"Mount", "FindFs"} : Go(r, [h[r] EXCEPT !.pc = pc])
    <3>1. h'[r].pc \in {"Mount", "FindFs"} /\ \A q \in Requests : q # r => h'[q] = h[q]
      BY <2>7, PcMoves
    <3> QED BY <1>1, <2>2, <2>3, <2>4, <3>1, OtherStepSized
  <2> QED BY <2>5, <2>6, <2>7 DEF Login, LoggedIn
<1> QED BY <1>2, <1>3 DEF Login

LEMMA MountStateSized ==
    ASSUME NodeTypeOK, SizeInv, vol'.size = vol.size,
           NEW n \in Nodes, \A m \in Nodes : m # n => host'[m] = host[m],
           host'[n].seen = host[n].seen,
           (host'[n].session \/ host'[n].staged) => host[n].seen >= 1
    PROVE  SizesGrow
<1>1. \A m \in Nodes : HostSized(m) /\ host[m].seen \in Nat
  BY DEF SizeInv, NodeTypeOK
<1>2. vol.size \in Nat /\ vol.size <= MaxSize /\ MaxSize \in Nat
  BY VolumeFields, NodeBoundAssumption DEF SizeInv
<1> QED BY <1>1, <1>2 DEF SizesGrow, HostSized

LEMMA NodeStageVolumeSized ==
    ASSUME NodeTypeOK, NodeTypeOK', SizeInv, NEW r \in Requests, NodeStageVolume(r)
    PROVE  SizeInv'
<1>1. r.op = "stage" /\ r.at \in Nodes /\ RequestSized(r)
  BY RequestFields DEF NodeStageVolume, Online, Login, FindFs, Mkfs, StageMount, At, SizeInv
<1>2. CASE Online(r)
  <2>1. vol' = vol \/ vol' = [vol EXCEPT !.online = TRUE]
    BY <1>2 DEF Online
  <2>2. SizesGrow
    BY <1>2, <2>1, VolumeSizeKept, SameSizes DEF Online
  <2>3. CASE Reply(r, FALSE)
    BY <2>2, <2>3, ReplySized
  <2>4. CASE Go(r, [h[r] EXCEPT !.pc = "Login"])
    BY <1>1, <2>2, <2>4, PcSized
  <2> QED BY <1>2, <2>3, <2>4 DEF Online
<1>3. CASE FindFs(r)
  <2>1. SizesGrow /\ host' = host /\ host[r.at].seen >= 1
    BY <1>1, <1>3, SameSizes DEF FindFs, At, RequestSized
  <2>2. CASE Go(r, [h[r] EXCEPT !.pc = "Mount", !.md.formatted = TRUE])
    BY <1>1, <2>1, <2>2, FormattedMoves, OtherStepSized
  <2>3. CASE Go(r, [h[r] EXCEPT !.pc = "Mkfs", !.tries = FormatTimeout])
    <3>1. h'[r].pc = "Mkfs" /\ \A q \in Requests : q # r => h'[q] = h[q]
      BY <2>3, TriesMoves
    <3> QED BY <1>1, <2>1, <3>1, OtherStepSized
  <2> QED BY <1>3, <2>2, <2>3 DEF FindFs
<1>4. CASE Mkfs(r)
  <2>1. vol' = vol \/ vol' = [vol EXCEPT !.content = "fs"]
    BY <1>4 DEF Mkfs
  <2>2. SizesGrow /\ host' = host /\ host[r.at].seen >= 1 /\ h[r].pc = "Mkfs"
    BY <1>1, <1>4, <2>1, VolumeSizeKept, SameSizes DEF Mkfs, At, RequestSized
  <2>3. CASE Reply(r, FALSE)
    BY <2>2, <2>3, ReplySized
  <2>4. CASE Go(r, [h[r] EXCEPT !.pc = "Mount", !.md.formatted = TRUE])
    BY <1>1, <2>2, <2>4, FormattedMoves, OtherStepSized
  <2>5. CASE Go(r, [h[r] EXCEPT !.tries = @ - 1])
    <3>1. h'[r].pc = "Mkfs" /\ \A q \in Requests : q # r => h'[q] = h[q]
      BY <2>2, <2>5, RetryMoves
    <3> QED BY <1>1, <2>2, <3>1, OtherStepSized
  <2> QED BY <1>4, <2>3, <2>4, <2>5 DEF Mkfs, MkfsAgain
<1>5. CASE StageMount(r)
  <2>1. vol' = vol /\ host[r.at].seen >= 1
    BY <1>1, <1>5 DEF StageMount, At, RequestSized
  <2>2. CASE host' = host /\ Reply(r, FALSE)
    BY <2>1, <2>2, SameSizes, ReplySized
  <2>3. CASE /\ host' = [host EXCEPT ![r.at].staged = TRUE]
             /\ Go(r, [h[r] EXCEPT !.pc = "WriteMd", !.md.mount = "staging"])
    <3>1. /\ host'[r.at].seen = host[r.at].seen
          /\ \A m \in Nodes : m # r.at => host'[m] = host[m]
      BY <1>1, <2>3 DEF NodeTypeOK
    <3>2. SizesGrow
      BY <1>1, <2>1, <3>1, MountStateSized
    <3>3. h'[r].pc = "WriteMd" /\ \A q \in Requests : q # r => h'[q] = h[q]
      BY <2>3, MountMoves
    <3> QED BY <1>1, <3>2, <3>3, OtherStepSized
  <2> QED BY <1>5, <2>2, <2>3 DEF StageMount
<1> QED BY <1>2, <1>3, <1>4, <1>5, LoginSized DEF NodeStageVolume

LEMMA NodeUnstageVolumeSized ==
    ASSUME NodeTypeOK, NodeTypeOK', SizeInv, NEW r \in Requests, NodeUnstageVolume(r)
    PROVE  SizeInv'
<1>1. r.op = "unstage" /\ r.at \in Nodes /\ HostSized(r.at)
  BY RequestFields DEF NodeUnstageVolume, StageUnmount, Logout, Offline, Delete, At, SizeInv
<1>2. CASE StageUnmount(r)
  <2>1. PICK busy :
          /\ host' = [host EXCEPT ![r.at].staged =
                        @ /\ (busy \/ ~(h[r].mpath = "staging" /\ host[r.at].staged)),
                                  ![r.at].file = @ /\ h[r].mpath # "device"]
          /\ vol' = [vol EXCEPT !.content = IF busy THEN Emptied ELSE @]
    BY <1>2 DEF StageUnmount
  <2>2. vol'.size = vol.size
    BY <2>1, VolumeSizeKept
  <2>3. /\ host'[r.at].seen = host[r.at].seen /\ host'[r.at].session = host[r.at].session
        /\ host'[r.at].staged => host[r.at].staged
        /\ \A m \in Nodes : m # r.at => host'[m] = host[m]
    BY <1>1, <2>1 DEF NodeTypeOK
  <2>4. SizesGrow
    BY <1>1, <2>2, <2>3, MountStateSized DEF HostSized
  <2>5. Go(r, [h[r] EXCEPT !.pc = "Md"])
    BY <1>2 DEF StageUnmount
  <2> QED BY <1>1, <2>4, <2>5, PcSized
<1>3. CASE Logout(r)
  <2>1. vol' = vol /\ Go(r, [h[r] EXCEPT !.pc = "Init"])
    BY <1>3 DEF Logout
  <2>2. host' = host \/ host' = [host EXCEPT ![r.at].session = FALSE, ![r.at].file = FALSE]
    BY <1>3 DEF Logout
  <2>3. /\ host'[r.at].seen = host[r.at].seen /\ host'[r.at].staged = host[r.at].staged
        /\ host'[r.at].session => host[r.at].session
        /\ \A m \in Nodes : m # r.at => host'[m] = host[m]
    BY <1>1, <2>2 DEF NodeTypeOK
  <2>4. SizesGrow
    BY <1>1, <2>1, <2>3, MountStateSized DEF HostSized
  <2> QED BY <1>1, <2>1, <2>4, PcSized
<1>4. CASE Offline(r)
  <2>1. vol' = vol \/ vol' = [vol EXCEPT !.online = FALSE]
    BY <1>4 DEF Offline
  <2>2. SizesGrow
    BY <1>4, <2>1, VolumeSizeKept, SameSizes DEF Offline
  <2>3. CASE Reply(r, TRUE)
    BY <2>2, <2>3, ReplySized
  <2>4. CASE Go(r, [h[r] EXCEPT !.pc = "Delete"])
    BY <1>1, <2>2, <2>4, PcSized
  <2> QED BY <1>4, <2>3, <2>4 DEF Offline
<1>5. CASE Delete(r)
  <2>1. vol' = vol \/ vol' = [vol EXCEPT !.content = "gone"]
    BY <1>5 DEF Delete
  <2>2. SizesGrow /\ Reply(r, TRUE)
    BY <1>5, <2>1, VolumeSizeKept, SameSizes DEF Delete
  <2> QED BY <2>2, ReplySized
<1> QED BY <1>2, <1>3, <1>4, <1>5 DEF NodeUnstageVolume

LEMMA PodCallsSized ==
    ASSUME NodeTypeOK, NodeTypeOK', SizeInv, NEW r \in Requests,
           NodePublishVolume(r) \/ NodeUnpublishVolume(r)
    PROVE  SizeInv'
<1>1. CASE PublishMount(r)
  <2>1. SizesGrow /\ r.op = "publish"
    BY <1>1, SameSizes DEF PublishMount, At
  <2>2. CASE Reply(r, FALSE)
    BY <2>1, <2>2, ReplySized
  <2>3. CASE Go(r, [h[r] EXCEPT !.pc = "WriteMd", !.md.bind = @ \cup {r.at}])
    <3>1. h'[r].pc = "WriteMd" /\ \A q \in Requests : q # r => h'[q] = h[q]
      BY <2>3, BindMoves
    <3> QED BY <2>1, <3>1, OtherStepSized
  <2> QED BY <1>1, <2>2, <2>3 DEF PublishMount
<1>2. CASE PublishUnmount(r)
  <2>1. PICK busy : vol' = [vol EXCEPT !.content = IF busy THEN Emptied ELSE @]
    BY <1>2 DEF PublishUnmount
  <2>2. vol'.size = vol.size
    BY <2>1, VolumeSizeKept
  <2>3. SizesGrow /\ Reply(r, TRUE)
    BY <1>2, <2>2, SameSizes DEF PublishUnmount
  <2> QED BY <2>3, ReplySized
<1> QED BY <1>1, <1>2 DEF NodePublishVolume, NodeUnpublishVolume

LEMMA RoundMoves ==
    ASSUME NodeTypeOK, NEW r \in Requests, CheckDeviceSize(r)
    PROVE  \E seen \in {host[r.at].seen, vol.size}, read \in BOOLEAN :
             /\ host' = [host EXCEPT ![r.at].seen = seen]
             /\ \/ Reply(r, FALSE)
                \/ /\ h'[r].pc = "Size" \/
                      (h'[r].pc = "Grow" /\
                       (IF read THEN Wrap(seen * GiB) ELSE 0) = Wrap(h[r].want * GiB))
                   /\ h'[r].want = Wrap(h[r].want * GiB)
                   /\ h'[r].asked = h[r].asked
                   /\ ~h'[r].blind => read
                   /\ \A q \in Requests : q # r => h'[q] = h[q]
<1> DEFINE want == Wrap(h[r].want * GiB)
           hr(read) == [h[r] EXCEPT !.want = want, !.tries = @ - 1, !.blind = @ \/ ~read]
           hg(read) == [hr(read) EXCEPT !.pc = "Grow"]
<1>1. h[r] \in Handler /\ h[r].pc = "Size"
  BY DEF NodeTypeOK, CheckDeviceSize, At
<1>2. ASSUME NEW read \in BOOLEAN
      PROVE  /\ hr(read).pc = "Size" /\ hg(read).pc = "Grow"
             /\ hr(read).want = want /\ hg(read).want = want
             /\ hr(read).asked = h[r].asked /\ hg(read).asked = h[r].asked
             /\ ~hr(read).blind => read
             /\ ~hg(read).blind => read
  BY <1>1 DEF Handler
<1>3. PICK seen \in {host[r.at].seen, vol.size}, read \in BOOLEAN :
        /\ host' = [host EXCEPT ![r.at].seen = seen]
        /\ IF SizeMatches(IF read THEN Wrap(seen * GiB) ELSE 0, want) THEN Go(r, hg(read))
           ELSE IF hr(read).tries < 0 THEN Reply(r, FALSE)
           ELSE Go(r, hr(read))
  BY DEF CheckDeviceSize
<1> HIDE DEF hr, hg
<1>4. CASE /\ (IF read THEN Wrap(seen * GiB) ELSE 0) = want
           /\ Go(r, hg(read))
  <2>1. h'[r] = hg(read) /\ \A q \in Requests : q # r => h'[q] = h[q]
    BY <1>4, GoMoves
  <2> QED BY <1>2, <1>3, <1>4, <2>1
<1>5. CASE Go(r, hr(read))
  <2>1. h'[r] = hr(read) /\ \A q \in Requests : q # r => h'[q] = h[q]
    BY <1>5, GoMoves
  <2> QED BY <1>2, <1>3, <2>1
<1>6. CASE Reply(r, FALSE)
  BY <1>3, <1>6
<1> QED BY <1>3, <1>4, <1>5, <1>6 DEF SizeMatches

\* One round of checkDeviceSize, which may see the device grow.
LEMMA CheckDeviceSizeSized ==
    ASSUME SizesFit, NodeTypeOK, NodeTypeOK', SizeInv, NEW r \in Requests, CheckDeviceSize(r)
    PROVE  SizeInv'
<1>1. /\ r.op = "expand" /\ r.at \in Nodes /\ h[r].pc = "Size" /\ vol' = vol
      /\ RequestSized(r) /\ HostSized(r.at)
  BY RequestFields DEF CheckDeviceSize, At, SizeInv
<1>2. PICK seen \in {host[r.at].seen, vol.size}, read \in BOOLEAN :
        /\ host' = [host EXCEPT ![r.at].seen = seen]
        /\ \/ Reply(r, FALSE)
           \/ /\ h'[r].pc = "Size" \/
                 (h'[r].pc = "Grow" /\
                  (IF read THEN Wrap(seen * GiB) ELSE 0) = Wrap(h[r].want * GiB))
              /\ h'[r].want = Wrap(h[r].want * GiB)
              /\ h'[r].asked = h[r].asked
              /\ ~h'[r].blind => read
              /\ \A q \in Requests : q # r => h'[q] = h[q]
  BY RoundMoves
<1>3. /\ vol.size \in Nat /\ vol.size >= 1 /\ vol.size <= MaxSize /\ MaxSize \in Nat
      /\ host[r.at].seen \in Nat /\ host[r.at].seen <= vol.size
      /\ h[r].want \in Nat /\ h[r].asked \in Nat
  BY <1>1, VolumeFields, HandlerFields, NodeBoundAssumption DEF SizeInv, NodeTypeOK, HostSized
<1>4. host[r.at].seen >= 1 /\ h[r].asked \in 1 .. vol.size
  BY <1>1 DEF RequestSized
<1>5. seen \in 1 .. MaxSize /\ seen >= host[r.at].seen /\ seen <= vol.size
  BY <1>2, <1>3, <1>4
<1>6. host'[r.at].seen = seen /\ \A n \in Nodes : n # r.at => host'[n] = host[n]
  BY <1>1, <1>2 DEF NodeTypeOK
<1>7. SizesGrow
  <2>1. ASSUME NEW n \in Nodes
        PROVE  /\ host'[n].seen >= host[n].seen
               /\ host'[n].seen <= vol'.size
               /\ (host'[n].session \/ host'[n].staged) => host'[n].seen >= 1
    <3>1. CASE n = r.at
      BY <1>1, <1>3, <1>5, <1>6, <3>1
    <3>2. CASE n # r.at
      <4>1. HostSized(n) /\ host[n].seen \in Nat
        BY DEF SizeInv, NodeTypeOK
      <4> QED BY <1>1, <1>6, <3>2, <4>1 DEF HostSized
    <3> QED BY <3>1, <3>2
  <2>2. vol'.size \in vol.size .. MaxSize
    BY <1>1, <1>3
  <2> QED BY <2>1, <2>2 DEF SizesGrow
<1>8. CASE Reply(r, FALSE)
  BY <1>7, <1>8, ReplySized
<1>9. CASE ~Reply(r, FALSE)
  <2>1. \E k \in Nat : h'[r].want = k * GiB
    BY <1>2, <1>3, <1>9, RoundMultiplies
  <2>2. ASSUME h'[r].pc = "Grow", ~h'[r].blind PROVE seen >= h'[r].asked
    <3>1. Wrap(seen * GiB) = Wrap(h[r].want * GiB) /\ h'[r].asked = h[r].asked
      BY <1>2, <1>9, <2>2
    <3>2. h[r].want = h[r].asked \/ \E k \in Nat : h[r].want = k * GiB
      BY <1>1 DEF RequestSized
    <3>3. h[r].asked \in 1 .. MaxSize
      BY <1>3, <1>4
    <3> QED BY <1>3, <1>5, <3>1, <3>2, <3>3, RoundMatches
  <2>3. h'[r].pc \in {"Size", "Grow"} /\ h'[r].asked = h[r].asked
    BY <1>2, <1>9
  <2>4. seen >= 1
    BY <1>5, <1>3
  <2>5. RequestSized(r)'
    BY <1>1, <1>4, <1>6, <2>1, <2>2, <2>3, <2>4 DEF RequestSized
  <2> QED BY <1>2, <1>7, <1>9, <2>5, StepSized
<1> QED BY <1>8, <1>9

LEMMA IssueSized ==
    ASSUME NodeTypeOK, NodeTypeOK', SizeInv, NEW r \in Requests, Issue(r)
    PROVE  SizeInv'
<1> DEFINE size == IF r.op = "expand" THEN vol.size ELSE 0
           hr == [Idle EXCEPT !.pc = "Get", !.want = size, !.asked = size]
<1>1. hr.pc = "Get" /\ hr.want = size /\ hr.asked = size
  BY DEF Idle
<1>2. h' = [h EXCEPT ![r] = hr] /\ UNCHANGED <<vol, host>>
  BY DEF Issue
<1> HIDE DEF hr
<1>3. h'[r] = hr /\ \A q \in Requests : q # r => h'[q] = h[q]
  BY <1>2 DEF NodeTypeOK
<1>4. vol.size \in 1 .. vol.size
  BY VolumeFields, NodeBoundAssumption DEF SizeInv
<1>5. RequestSized(r)'
  BY <1>1, <1>2, <1>3, <1>4 DEF RequestSized
<1> QED BY <1>2, <1>3, <1>5, SameSizes, StepSized

LEMMA WorldSized ==
    ASSUME NodeTypeOK, NodeTypeOK', SizeInv,
           \/ \E t \in Targets : Write(t)
           \/ Resize
           \/ \E n \in Nodes : Die(n) \/ Reboot(n)
    PROVE  SizeInv'
<1>1. CASE \E t \in Targets : Write(t)
  <2>1. h' = h /\ host' = host /\ vol' = [vol EXCEPT !.content = "data"]
    BY <1>1 DEF Write
  <2> QED BY <2>1, VolumeSizeKept, SameSizes, KillSized
<1>2. CASE Resize
  <2>1. h' = h /\ host' = host /\ vol.size < MaxSize /\ vol'.size = vol.size + 1
    BY <1>2 DEF Resize, NodeTypeOK, Volume
  <2>2. vol.size \in Nat /\ MaxSize \in Nat
    BY VolumeFields, NodeBoundAssumption
  <2>3. \A n \in Nodes : HostSized(n) /\ host[n].seen \in Nat
    BY DEF SizeInv, NodeTypeOK
  <2>4. SizesGrow
    BY <2>1, <2>2, <2>3 DEF SizesGrow, HostSized
  <2> QED BY <2>1, <2>4, KillSized
<1>3. ASSUME NEW n \in Nodes, Die(n) PROVE SizeInv'
  <2>1. SizesGrow /\ Kill(n)
    BY <1>3, SameSizes DEF Die
  <2> QED BY <2>1, KillMoves, KillSized
<1>4. ASSUME NEW n \in Nodes, Reboot(n) PROVE SizeInv'
  <2>1. /\ host' = [host EXCEPT ![n].session = FALSE, ![n].file = FALSE, ![n].staged = FALSE]
        /\ vol' = vol
    BY <1>4 DEF Reboot
  <2>2. /\ host'[n].seen = host[n].seen /\ ~host'[n].session /\ ~host'[n].staged
        /\ \A m \in Nodes : m # n => host'[m] = host[m]
    BY <2>1 DEF NodeTypeOK
  <2>3. SizesGrow
    BY <2>1, <2>2, MountStateSized
  <2> QED BY <1>4, <2>3, RebootMoves, KillSized
<1> QED BY <1>1, <1>2, <1>3, <1>4

LEMMA NextSized ==
    ASSUME SizesFit, NodeTypeOK, NodeTypeOK', PcFits, SizeInv, Next
    PROVE  SizeInv'
<1>1. ASSUME NEW r \in Requests, Handle(r) PROVE SizeInv'
  <2>1. CASE GetVolume(r) \/ GetMetadata(r)
    BY <2>1, GetVolumeSized, GetMetadataSized
  <2>2. CASE CreateGetInitiator(r) \/ AclGet(r) \/ AclSet(r) \/ SetMetadata(r)
    BY <2>2, SharedCallsSized
  <2>3. CASE NodeStageVolume(r) \/ NodeUnstageVolume(r)
    BY <2>3, NodeStageVolumeSized, NodeUnstageVolumeSized
  <2>4. CASE NodePublishVolume(r) \/ NodeUnpublishVolume(r)
    BY <2>4, PodCallsSized
  <2>5. CASE ExpandFs(r)
    <3>1. SizesGrow /\ (Reply(r, TRUE) \/ Reply(r, FALSE))
      BY <2>5, SameSizes DEF ExpandFs
    <3> QED BY <3>1, ReplySized
  <2> QED BY <1>1, <2>1, <2>2, <2>3, <2>4, <2>5, CheckDeviceSizeSized DEF Handle, NodeExpandVolume
<1>2. ASSUME NEW r \in Requests, Issue(r) PROVE SizeInv'
  BY <1>2, IssueSized
<1> QED BY <1>1, <1>2, WorldSized DEF Next

LEMMA InitSized == Init => SizeInv
<1> SUFFICES ASSUME Init PROVE SizeInv
  OBVIOUS
<1>1. vol.size = 1 /\ 1 \in 1 .. MaxSize
  BY NodeBoundAssumption DEF Init
<1>2. \A n \in Nodes : host[n].seen = 0 /\ ~host[n].session /\ ~host[n].staged
  BY DEF Init
<1>3. \A r \in Requests : h[r].pc = "idle"
  BY IdleFields DEF Init
<1>4. \A n \in Nodes : HostSized(n)
  BY <1>1, <1>2 DEF HostSized
<1>5. \A r \in Requests : RequestSized(r)
  BY <1>3 DEF RequestSized
<1> QED BY <1>1, <1>4, <1>5 DEF SizeInv

(* Although checkDeviceSize multiplies the size it waits for in every      *)
(* round and the product wraps around, the file system is only grown on a  *)
(* device that has grown, however long the wait, as long as blockdev can   *)
(* read the device and the volume is not larger than GiB * GiB bytes.      *)
THEOREM GrowsAfterDevice == ASSUME SizesFit PROVE Spec => []GrownDevice
<1>1. NodeTypeOK /\ NodeTypeOK' /\ PcFits /\ SizeInv /\ [Next]_vars => SizeInv'
  <2> SUFFICES ASSUME NodeTypeOK, NodeTypeOK', PcFits, SizeInv, [Next]_vars PROVE SizeInv'
    OBVIOUS
  <2>1. CASE UNCHANGED vars
    BY <2>1 DEF vars, SizeInv, HostSized, RequestSized
  <2> QED BY <2>1, NextSized
<1>2. SizeInv => GrownDevice
  BY DEF SizeInv, RequestSized, GrownDevice
<1> QED BY <1>1, <1>2, InitSized, AlwaysSound, PTL DEF Spec
=============================================================================
