---------------------------- MODULE NodeService ----------------------------
(***************************************************************************)
(* The node service of the driver: NodeStageVolume, NodeUnstageVolume,     *)
(* NodePublishVolume, NodeUnpublishVolume and NodeExpandVolume of          *)
(* pkg/driver/node.go, with the client functions they call (acl.go,        *)
(* login.go, mount.go, the metadata of volume.go), for one volume and the  *)
(* drivers of several nodes.                                               *)
(*                                                                         *)
(* One action is one call, to the storage system or to a command of the    *)
(* host, and the code after it up to the next call or the answer.  A call  *)
(* may fail for no fault of the request, or take effect and still report   *)
(* an error; a process may die between any two calls and a node may go     *)
(* down.  The caller (kubelet, external) follows the rules of CSI: it      *)
(* stages before it publishes and unpublishes before it unstages, and      *)
(* repeats a call until it hears OK, which it may fail to hear.            *)
(*                                                                         *)
(* A handler is named by its request: a repeated request is Aborted by the *)
(* guard while its handler runs (RpcGuard), races of the guard aside.      *)
(***************************************************************************)
EXTENDS Integers, FiniteSets

CONSTANTS
    Nodes,          \* hosts, each with its driver
    Targets,        \* target paths: one for each pod that uses the volume
    Home,           \* Home[t]: the node on which the pod of t runs
    Tenanted,       \* nodes whose ACL entries come back with a Tenant
    MultiNode,      \* kinds of access that may be used on several nodes at a time
    LsblkFails,     \* may lsblk fail on a device with a file system?
    UmountFails,    \* may umount fail on a mounted path (busy)?
    FormatTimeout,  \* failed attempts of mkfs that are followed by another, less one
    SizeTimeout,    \* rounds of the wait for a grown device, less one
    GiB,            \* bytes per GiB
    Word,           \* 2^64: what an int64 wraps around at
    MdLimit,        \* target paths that fit into the metadata of a volume
    MaxPods,        \* bound: pods that use the volume at a time
    MaxSize,        \* bound: size of the volume
    MaxFaults,      \* bound: failing calls
    MaxDeaths       \* bound: deaths of processes and nodes

ASSUME NodeAssumption ==
    /\ Nodes \cap Targets = {}
    /\ Home \in [Targets -> Nodes]
    /\ MultiNode \subseteq {"mount", "block"}
    /\ {LsblkFails, UmountFails} \subseteq BOOLEAN

ASSUME NodeBoundAssumption ==
    /\ {FormatTimeout, SizeTimeout, MdLimit, MaxPods, MaxFaults, MaxDeaths} \subseteq Nat
    /\ {GiB, Word, MaxSize} \subseteq Nat \ {0}

VARIABLES
    vol,      \* the app instance on the storage system
    host,     \* per node: iSCSI session, device file, staging mount, size of the device
    pods,     \* per target: what is mounted there
    h,        \* the handlers, by request
    co,       \* what the caller knows of each node and target
    dirty,    \* ghost: nodes and targets where an error left something behind
    faults,   \* failing calls so far
    deaths    \* deaths so far

vars == <<vol, host, pods, h, co, dirty, faults, deaths>>

Requests ==
    [op : {"stage", "unstage", "expand"}, at : Nodes]
      \cup [op : {"publish", "unpublish"}, at : Targets]

\* The node that serves a request.
On(r) == IF r.at \in Targets THEN Home[r.at] ELSE r.at

\* The keys of the metadata that the node service reads: formatted (never
\* stored but as "true"), mount_path, bind_mount and delete_on_unmount.  A
\* key that is not there is not written back.  device_path is stored with
\* mount_path and never cleared.
Metadata ==
    [formatted : BOOLEAN, mount : {"absent", "", "staging", "device"},
     bind : SUBSET Targets, del : BOOLEAN]

NoMd == [formatted |-> FALSE, mount |-> "absent", bind |-> {}, del |-> FALSE]

\* What becomes of metadata old when new is set: keys of new win.
Merge(old, new) ==
    [formatted |-> old.formatted \/ new.formatted,
     mount |-> IF new.mount = "absent" THEN old.mount ELSE new.mount,
     bind |-> IF new.bind = {} THEN old.bind ELSE new.bind,
     del |-> old.del]

\* access is the capability the volume is used with: a mount, a raw block
\* device, or something the driver does not support.  clone: made from a
\* snapshot or a template.
Volume ==
    [content : {"blank", "fs", "data", "gone"}, clone : BOOLEAN, online : BOOLEAN,
     acl : SUBSET Nodes, md : Metadata, size : Nat, access : {"mount", "block", "other"}]

Pcs == {"idle", "Get", "Md", "Init", "AclGet", "AclSet", "Online", "Login", "FindFs",
        "Mkfs", "Mount", "WriteMd", "Unmount", "Logout", "Offline", "Delete", "Size", "Grow"}

\* pc:     the call that comes next
\* mpath:  vol.MountPath, from the metadata as GetVolume read them
\* md:     the metadata as GetMetadata read them, with the changes made since
\* acl:    the ACL as it was read
\* tries:  what is left of a timeout
\* want:   expectedSize of checkDeviceSize, and asked the size it started with
\* blind:  ghost: blockdev failed
Handler ==
    [pc : Pcs, mpath : {"absent", "", "staging", "device"}, md : Metadata,
     acl : SUBSET Nodes, tries : Int, want : Nat, asked : Nat, blind : BOOLEAN]

Idle ==
    [pc |-> "idle", mpath |-> "absent", md |-> NoMd, acl |-> {}, tries |-> 0,
     want |-> 0, asked |-> 0, blind |-> FALSE]

NodeTypeOK ==
    /\ vol \in Volume
    /\ host \in [Nodes -> [session : BOOLEAN, file : BOOLEAN, staged : BOOLEAN, seen : Nat]]
    /\ pods \in [Targets -> {"none", "vol", "dir"}]
    /\ h \in [Requests -> Handler]
    /\ co \in [Nodes \cup Targets -> {"out", "coming", "in", "leaving"}]
    /\ dirty \subseteq Nodes \cup Targets
    /\ faults \in 0 .. MaxFaults
    /\ deaths \in 0 .. MaxDeaths

\* CreateVolume has made the volume and stored its metadata.
Init ==
    /\ vol \in [content : {"blank", "data"}, clone : BOOLEAN, online : {TRUE}, acl : {{}},
                md : {[NoMd EXCEPT !.del = d] : d \in BOOLEAN}, size : {1},
                access : {"mount", "block", "other"}]
    /\ vol.clone <=> vol.content = "data"
    /\ host = [n \in Nodes |->
                 [session |-> FALSE, file |-> FALSE, staged |-> FALSE, seen |-> 0]]
    /\ pods = [t \in Targets |-> "none"]
    /\ h = [r \in Requests |-> Idle]
    /\ co = [x \in Nodes \cup Targets |-> "out"]
    /\ dirty = {}
    /\ faults = 0
    /\ deaths = 0

-----------------------------------------------------------------------------
(* How a handler moves on.                                                 *)

There == vol.content # "gone"
HasFs == vol.content \in {"fs", "data"}

At(r, op, pc) == r.op = op /\ h[r].pc = pc

\* A call that does what it is asked, one that returns an error for no fault
\* of the request, and one without effect that returns an error, `can' saying
\* whether it could have succeeded.
Works == UNCHANGED faults
Errs ==
    /\ faults < MaxFaults
    /\ faults' = faults + 1
Fails(can) == (~can /\ Works) \/ Errs

Clean == UNCHANGED dirty
Soil(S) == dirty' = dirty \cup S

\* Go on with local state hr.
Go(r, hr) ==
    /\ h' = [h EXCEPT ![r] = hr]
    /\ UNCHANGED <<co, deaths>>

\* What the caller knows once it hears OK.
Told(r) ==
    CASE r.op \in {"stage", "publish"} -> "in"
      [] r.op \in {"unstage", "unpublish"} -> "out"
      [] r.op = "expand" -> co[r.at]

\* The answer, OK or an error.  The caller does not hear an OK that comes
\* after its deadline or while it is restarted, and repeats a call that is
\* complete.
Reply(r, ok) ==
    /\ h' = [h EXCEPT ![r] = Idle]
    /\ \/ UNCHANGED co
       \/ ok /\ co' = [co EXCEPT ![r.at] = Told(r)]
    /\ UNCHANGED deaths

\* Mounts that are made and not yet recorded in the metadata.
Unrecorded(n) ==
    {r.at : r \in {q \in Requests :
        On(q) = n /\ q.op \in {"stage", "publish"} /\ h[q].pc = "WriteMd"}}

\* The process of a node ends, and with it every handler it runs.
Kill(n) ==
    /\ h' = [r \in Requests |-> IF On(r) = n THEN Idle ELSE h[r]]
    /\ Soil(Unrecorded(n))

\* A nil dereference: nothing recovers, the process ends.
Panic(r) ==
    /\ Kill(On(r))
    /\ UNCHANGED <<co, deaths>>

-----------------------------------------------------------------------------
(* The caller (external)                                                   *)

Busy(n, ops) == \E r \in Requests : On(r) = n /\ r.op \in ops /\ h[r].pc # "idle"

AllOps == {"stage", "unstage", "expand", "publish", "unpublish"}

\* Calls for one volume on one node are made one at a time, but those for the
\* pods go together.  A call whose OK was not heard is repeated from "coming"
\* or "leaving".  A volume goes to a second node while it is on a first one
\* only with an access mode of several nodes.
May(r) ==
    CASE r.op = "stage" ->
            /\ co[r.at] \in {"out", "coming"}
            /\ ~Busy(r.at, AllOps)
            /\ vol.access \in MultiNode \/ \A n \in Nodes \ {r.at} : co[n] = "out"
      [] r.op = "unstage" ->
            /\ co[r.at] # "out"
            /\ ~Busy(r.at, AllOps)
            /\ \A t \in Targets : Home[t] = r.at => co[t] = "out"
      [] r.op = "expand" ->
            /\ co[r.at] = "in"
            /\ ~Busy(r.at, AllOps)
      [] r.op = "publish" ->
            /\ co[Home[r.at]] = "in"
            /\ co[r.at] \in {"out", "coming"}
            /\ co[r.at] = "out" => Cardinality({t \in Targets : co[t] # "out"}) < MaxPods
            /\ ~Busy(On(r), AllOps \ {"publish", "unpublish"})
            /\ h[[r EXCEPT !.op = "unpublish"]].pc = "idle"
      [] r.op = "unpublish" ->
            /\ co[r.at] # "out"
            /\ ~Busy(On(r), AllOps \ {"publish", "unpublish"})
            /\ h[[r EXCEPT !.op = "publish"]].pc = "idle"

\* A request arrives.  An expansion asks for the size the controller has
\* given the volume.
Issue(r) ==
    /\ h[r].pc = "idle"
    /\ May(r)
    /\ h' = [h EXCEPT ![r] =
               [Idle EXCEPT !.pc = "Get",
                            !.want = IF r.op = "expand" THEN vol.size ELSE 0,
                            !.asked = IF r.op = "expand" THEN vol.size ELSE 0]]
    /\ co' = [co EXCEPT ![r.at] =
                CASE r.op \in {"stage", "publish"} -> "coming"
                  [] r.op \in {"unstage", "unpublish"} -> "leaving"
                  [] r.op = "expand" -> @]
    /\ UNCHANGED <<vol, host, pods, dirty, faults, deaths>>

-----------------------------------------------------------------------------
(* Calls that several handlers make.                                       *)

\* GetVolume, which reads the metadata too.  NodePublishVolume does not look
\* at its error and goes on with a nil volume.
GetVolume(r) ==
    /\ h[r].pc = "Get"
    /\ \/ /\ There /\ Works /\ Clean
          /\ Go(r, [h[r] EXCEPT !.pc = IF r.op = "unstage" THEN "Unmount" ELSE "Md",
                                !.mpath = vol.md.mount])
       \/ /\ Fails(There)
          /\ IF r.op = "publish" THEN Panic(r) ELSE Reply(r, FALSE) /\ Clean
    /\ UNCHANGED <<vol, host, pods>>

\* Where a handler goes with the metadata it read.  The capability has to be
\* one the driver supports (RegisterVolumeCapability) and the device of an
\* expansion has to be found among the mounts.
WithMd(r, md) ==
    LET hr == [h[r] EXCEPT !.md = md] IN
    CASE r.op = "stage" /\ vol.access # "other" -> Go(r, [hr EXCEPT !.pc = "Init"])
      [] r.op = "publish" /\ vol.access # "other" -> Go(r, [hr EXCEPT !.pc = "Mount"])
      [] r.op = "unpublish" -> Go(r, [hr EXCEPT !.pc = "WriteMd"])
      [] r.op = "unstage" -> Go(r, [hr EXCEPT !.pc = "WriteMd", !.md.mount = ""])
      [] r.op = "expand" /\ host[r.at].staged ->
            Go(r, [hr EXCEPT !.pc = "Size", !.tries = SizeTimeout])
      [] OTHER -> Reply(r, FALSE)

\* GetMetadata.  NodeUnstageVolume goes on without metadata if it fails.
GetMetadata(r) ==
    /\ h[r].pc = "Md"
    /\ \/ There /\ Works /\ WithMd(r, vol.md)
       \/ /\ Fails(There)
          /\ IF r.op = "unstage" THEN WithMd(r, NoMd) ELSE Reply(r, FALSE)
    /\ Clean
    /\ UNCHANGED <<vol, host, pods>>

\* CreateGetInitiator.  A lookup that fails returns neither an initiator nor
\* an error; a creation that fails returns an error, which NodeUnstageVolume
\* only logs.  A nil initiator is dereferenced.
CreateGetInitiator(r) ==
    /\ h[r].pc = "Init"
    /\ \/ Works /\ Clean /\ Go(r, [h[r] EXCEPT !.pc = "AclGet"])
       \/ Errs /\ Panic(r)
       \/ Errs /\ r.op = "stage" /\ Reply(r, FALSE) /\ Clean
    /\ UNCHANGED <<vol, host, pods>>

\* Mutant: the entry is written with its tenant, not only its path.
RegisteredWithTenant(acl, n) == acl \cup {<<n, "root">>}

\* RegisterAcl appends the node and then drops every entry with a Tenant.
Registered(acl, n) == {m \in acl : m \notin Tenanted} \cup {n}

\* Mutant: the node stays in the list.
UnregisteredNot(acl, n) == acl

\* UnregisterAcl writes the path of the node once for every other entry.
Unregistered(acl, n) == IF acl \ {n} = {} THEN {} ELSE {n}

\* NodeUnstageVolume after the ACL.
Unregister(r) ==
    IF h[r].md.del
    THEN Go(r, [h[r] EXCEPT !.pc = "Offline"])
    ELSE Reply(r, TRUE)

\* A failure of an ACL call: staging fails, unstaging only logs it.
AclFailed(r) ==
    IF r.op = "stage"
    THEN Reply(r, FALSE) /\ Clean
    ELSE Unregister(r) /\ Soil({r.at})

AclGet(r) ==
    /\ h[r].pc = "AclGet"
    /\ \/ /\ There /\ Works /\ Clean
          /\ Go(r, [h[r] EXCEPT !.pc = "AclSet", !.acl = vol.acl])
       \/ Fails(There) /\ AclFailed(r)
    /\ UNCHANGED <<vol, host, pods>>

AclSet(r) ==
    LET set == vol' = [vol EXCEPT !.acl = IF r.op = "stage"
                                          THEN Registered(h[r].acl, r.at)
                                          ELSE Unregistered(h[r].acl, r.at)] IN
    /\ h[r].pc = "AclSet"
    /\ \/ /\ There /\ Works /\ Clean /\ set
          /\ IF r.op = "stage" THEN Go(r, [h[r] EXCEPT !.pc = "Online"]) ELSE Unregister(r)
       \/ Fails(There) /\ UNCHANGED vol /\ AclFailed(r)
       \/ There /\ Errs /\ set /\ AclFailed(r)
    /\ UNCHANGED <<host, pods>>

\* SetMetadata of all that was read, with the changes.  The storage system
\* refuses more than it can hold.
SetMetadata(r) ==
    LET md == Merge(vol.md, h[r].md)
        can == There /\ Cardinality(md.bind) <= MdLimit
        set == vol' = [vol EXCEPT !.md = md] IN
    /\ h[r].pc = "WriteMd"
    /\ \/ /\ can /\ Works /\ set /\ Clean
          /\ IF r.op \in {"stage", "publish"}
             THEN Reply(r, TRUE)
             ELSE Go(r, [h[r] EXCEPT !.pc = IF r.op = "unstage" THEN "Logout" ELSE "Unmount"])
       \/ /\ (Fails(can) /\ UNCHANGED vol) \/ (can /\ Errs /\ set)
          /\ Soil(IF r.op \in {"stage", "publish"} THEN {r.at} ELSE {})
          /\ IF r.op = "unstage"
             THEN Go(r, [h[r] EXCEPT !.pc = "Logout"])
             ELSE Reply(r, FALSE)
    /\ UNCHANGED <<host, pods>>

-----------------------------------------------------------------------------
(* NodeStageVolume                                                         *)

\* Online sets the admin state and reloads the volume.
Online(r) ==
    LET set == vol' = [vol EXCEPT !.online = TRUE] IN
    /\ At(r, "stage", "Online")
    /\ \/ There /\ Works /\ set /\ Go(r, [h[r] EXCEPT !.pc = "Login"])
       \/ Fails(There) /\ UNCHANGED vol /\ Reply(r, FALSE)
       \/ There /\ Errs /\ set /\ Reply(r, FALSE)
    /\ Clean
    /\ UNCHANGED <<host, pods>>

\* Mutant: a block device is recorded as formatted too.
LoggedInFormatted(r) ==
    IF vol.access = "block"
    THEN [h[r] EXCEPT !.pc = "WriteMd", !.md.mount = "device", !.md.formatted = TRUE]
    ELSE [h[r] EXCEPT !.pc = IF h[r].md.formatted THEN "Mount" ELSE "FindFs"]

\* What comes after the login: a block device is used as it is, a file system
\* is made unless the metadata say that there is one.
LoggedIn(r) ==
    IF vol.access = "block" THEN [h[r] EXCEPT !.pc = "WriteMd", !.md.mount = "device"]
    ELSE [h[r] EXCEPT !.pc = IF h[r].md.formatted THEN "Mount" ELSE "FindFs"]

\* A session that is there is used again, and then no file is made for its
\* device.
Login(r) ==
    LET n == r.at
        can == /\ There /\ vol.online /\ n \in vol.acl
               /\ host[n].session => host[n].file
        login == host' = [host EXCEPT ![n].session = TRUE,
                                      ![n].file = TRUE,
                                      ![n].seen = IF host[n].session THEN @ ELSE vol.size] IN
    /\ At(r, "stage", "Login")
    /\ \/ can /\ Works /\ login /\ Go(r, LoggedIn(r))
       \/ Fails(can) /\ UNCHANGED host /\ Reply(r, FALSE)
       \/ can /\ Errs /\ login /\ Reply(r, FALSE)
    /\ Clean
    /\ UNCHANGED <<vol, pods>>

\* Mutant: a file system that is not in the metadata is not looked for.
FindsNothing == {FALSE}

\* What findFs can answer.  Every failure of lsblk is an answer "no file
\* system", and findMnt, which greps for a quoted name, never finds a mount.
Finds == {HasFs} \cup (IF LsblkFails THEN {FALSE} ELSE {})

FindFs(r) ==
    /\ At(r, "stage", "FindFs")
    /\ \E found \in Finds :
         Go(r, IF found THEN [h[r] EXCEPT !.pc = "Mount", !.md.formatted = TRUE]
               ELSE [h[r] EXCEPT !.pc = "Mkfs", !.tries = FormatTimeout])
    /\ Works /\ Clean
    /\ UNCHANGED <<vol, host, pods>>

\* Mutant: the timeout starts over.
MkfsForever(r) ==
    Go(r, [h[r] EXCEPT !.tries = IF @ < 0 THEN FormatTimeout ELSE @ - 1])

\* An attempt of mkfs has failed.
MkfsAgain(r) ==
    IF h[r].tries < 0
    THEN Reply(r, FALSE)
    ELSE Go(r, [h[r] EXCEPT !.tries = @ - 1])

\* One attempt of mkfs, which does not ask what is on the device, but refuses
\* one that is mounted on this node.
Mkfs(r) ==
    LET made == vol' = [vol EXCEPT !.content = "fs"] IN
    /\ At(r, "stage", "Mkfs")
    /\ IF host[r.at].staged
       THEN Reply(r, FALSE) /\ UNCHANGED vol
       ELSE \/ made /\ Go(r, [h[r] EXCEPT !.pc = "Mount", !.md.formatted = TRUE])
            \/ (made \/ UNCHANGED vol) /\ MkfsAgain(r)
    /\ Works /\ Clean
    /\ UNCHANGED <<host, pods>>

\* Mutant: a failed mount is only logged.
StageMountUnchecked(r) ==
    /\ At(r, "stage", "Mount")
    /\ host' = [host EXCEPT ![r.at].staged = HasFs \/ @] \/ UNCHANGED host
    /\ Go(r, [h[r] EXCEPT !.pc = "WriteMd", !.md.mount = "staging"])
    /\ Works /\ Clean
    /\ UNCHANGED <<vol, pods>>

\* Mount at the staging path; the kernel refuses to mount it there twice.
StageMount(r) ==
    LET can == HasFs /\ ~host[r.at].staged IN
    /\ At(r, "stage", "Mount")
    /\ \/ /\ can /\ Works
          /\ host' = [host EXCEPT ![r.at].staged = TRUE]
          /\ Go(r, [h[r] EXCEPT !.pc = "WriteMd", !.md.mount = "staging"])
       \/ Fails(can) /\ UNCHANGED host /\ Reply(r, FALSE)
    /\ Clean
    /\ UNCHANGED <<vol, pods>>

-----------------------------------------------------------------------------
(* NodeUnstageVolume                                                       *)

\* What umount and the RemoveAll after it do to the volume: a volume that is
\* still mounted loses its files.
Emptied == IF vol.content = "data" THEN "fs" ELSE vol.content

\* The recorded path of a block volume is the file of its device: nothing is
\* mounted there, and the file is removed.
StageUnmount(r) ==
    LET n == r.at
        mounted == h[r].mpath = "staging" /\ host[n].staged IN
    /\ At(r, "unstage", "Unmount")
    /\ \E busy \in {FALSE} \cup (IF mounted THEN {UmountFails} ELSE {}) :
         /\ host' = [host EXCEPT ![n].staged = @ /\ (busy \/ ~mounted),
                                 ![n].file = @ /\ h[r].mpath # "device"]
         /\ vol' = [vol EXCEPT !.content = IF busy THEN Emptied ELSE @]
         /\ Soil(IF busy THEN {n} ELSE {})
    /\ Go(r, [h[r] EXCEPT !.pc = "Md"])
    /\ Works
    /\ UNCHANGED pods

Logout(r) ==
    /\ At(r, "unstage", "Logout")
    /\ \/ Works /\ Clean /\ host' = [host EXCEPT ![r.at].session = FALSE, ![r.at].file = FALSE]
       \/ Errs /\ Soil({r.at}) /\ UNCHANGED host
    /\ Go(r, [h[r] EXCEPT !.pc = "Init"])
    /\ UNCHANGED <<vol, pods>>

\* Volume.Delete of delete_on_unmount: offline, then delete.  Errors are
\* logged.
Offline(r) ==
    LET set == vol' = [vol EXCEPT !.online = FALSE] IN
    /\ At(r, "unstage", "Offline")
    /\ \/ There /\ Works /\ set /\ Go(r, [h[r] EXCEPT !.pc = "Delete"])
       \/ Fails(There) /\ UNCHANGED vol /\ Reply(r, TRUE)
       \/ There /\ Errs /\ set /\ Reply(r, TRUE)
    /\ Clean
    /\ UNCHANGED <<host, pods>>

Delete(r) ==
    LET delete == vol' = [vol EXCEPT !.content = "gone"] IN
    /\ At(r, "unstage", "Delete")
    /\ \/ There /\ Works /\ delete
       \/ Fails(There) /\ UNCHANGED vol
       \/ There /\ Errs /\ delete
    /\ Reply(r, TRUE)
    /\ Clean
    /\ UNCHANGED <<host, pods>>

-----------------------------------------------------------------------------
(* NodePublishVolume and NodeUnpublishVolume                               *)

\* BindMount of the staging path of the metadata.  mount looks the device up:
\* if the staging path is mounted the device is mounted at the target, else
\* the bare directory is.  A device path cannot be bound to the directory
\* that mount has made.
PublishMount(r) ==
    LET t == r.at
        staged == host[On(r)].staged
        can == h[r].mpath = "staging" /\ ~(staged /\ pods[t] = "vol") IN
    /\ At(r, "publish", "Mount")
    /\ \/ /\ can /\ Works
          /\ pods' = [pods EXCEPT ![t] = IF staged THEN "vol" ELSE "dir"]
          /\ Go(r, [h[r] EXCEPT !.pc = "WriteMd", !.md.bind = @ \cup {t}])
       \/ Fails(can) /\ UNCHANGED pods /\ Reply(r, FALSE)
    /\ Clean
    /\ UNCHANGED <<vol, host>>

\* UnBindMount: errors are only logged.
PublishUnmount(r) ==
    LET t == r.at IN
    /\ At(r, "unpublish", "Unmount")
    /\ \E busy \in {FALSE} \cup (IF pods[t] = "vol" THEN {UmountFails} ELSE {}) :
         /\ pods' = [pods EXCEPT ![t] = IF busy THEN @ ELSE "none"]
         /\ vol' = [vol EXCEPT !.content = IF busy THEN Emptied ELSE @]
         /\ dirty' = IF busy THEN dirty \cup {t} ELSE dirty \ {t}
    /\ Reply(r, TRUE)
    /\ Works
    /\ UNCHANGED host

-----------------------------------------------------------------------------
(* NodeExpandVolume                                                        *)

\* An int64, for what is compared with it.
Wrap(x) == x % Word

\* Mutant: a smaller device is good enough.
SizeMatchesUpTo(size, want) == size <= want

SizeMatches(size, want) == size = want

\* One round of checkDeviceSize: rescan, read the size of the device (0 if
\* blockdev fails) and compare it with the expected size, which is multiplied
\* by GiB in every round.
CheckDeviceSize(r) ==
    LET n == r.at
        want == Wrap(h[r].want * GiB) IN
    /\ At(r, "expand", "Size")
    /\ \E seen \in {host[n].seen, vol.size}, read \in BOOLEAN :
         LET size == IF read THEN Wrap(seen * GiB) ELSE 0
             hr == [h[r] EXCEPT !.want = want, !.tries = @ - 1, !.blind = @ \/ ~read] IN
         /\ IF read THEN Works ELSE Errs
         /\ host' = [host EXCEPT ![n].seen = seen]
         /\ IF SizeMatches(size, want) THEN Go(r, [hr EXCEPT !.pc = "Grow"])
            ELSE IF hr.tries < 0 THEN Reply(r, FALSE)
            ELSE Go(r, hr)
    /\ Clean
    /\ UNCHANGED <<vol, pods>>

\* resize2fs or xfs_growfs.
ExpandFs(r) ==
    /\ At(r, "expand", "Grow")
    /\ (Works /\ Reply(r, TRUE)) \/ (Errs /\ Reply(r, FALSE))
    /\ Clean
    /\ UNCHANGED <<vol, host, pods>>

-----------------------------------------------------------------------------
(* The world around the handlers.                                          *)

\* A pod writes to the volume it sees.
Write(t) ==
    /\ pods[t] = "vol"
    /\ host[Home[t]].session
    /\ Home[t] \in vol.acl
    /\ HasFs /\ vol.online
    /\ vol' = [vol EXCEPT !.content = "data"]
    /\ UNCHANGED <<host, pods, h, co, dirty, faults, deaths>>

\* ControllerExpandVolume has made the volume larger.
Resize ==
    /\ There
    /\ vol.size < MaxSize
    /\ vol' = [vol EXCEPT !.size = @ + 1]
    /\ UNCHANGED <<host, pods, h, co, dirty, faults, deaths>>

\* The driver of a node dies and is started again.
Die(n) ==
    /\ deaths < MaxDeaths
    /\ deaths' = deaths + 1
    /\ Kill(n)
    /\ UNCHANGED <<vol, host, pods, co, faults>>

\* A node goes down: its sessions and mounts are gone, its pods too, and what
\* was staged has to be staged again.
Reboot(n) ==
    /\ deaths < MaxDeaths
    /\ deaths' = deaths + 1
    /\ h' = [r \in Requests |-> IF On(r) = n THEN Idle ELSE h[r]]
    /\ host' = [host EXCEPT ![n].session = FALSE, ![n].file = FALSE, ![n].staged = FALSE]
    /\ pods' = [t \in Targets |-> IF Home[t] = n THEN "none" ELSE pods[t]]
    /\ co' = [x \in Nodes \cup Targets |->
                IF x = n /\ co[x] = "in" THEN "coming"
                ELSE IF x \in Targets /\ Home[x] = n THEN "out" ELSE co[x]]
    /\ dirty' = {x \in dirty : x \in Targets => Home[x] # n}
    /\ UNCHANGED <<vol, faults>>

NodeStageVolume(r) == Online(r) \/ Login(r) \/ FindFs(r) \/ Mkfs(r) \/ StageMount(r)
NodeUnstageVolume(r) == StageUnmount(r) \/ Logout(r) \/ Offline(r) \/ Delete(r)
NodePublishVolume(r) == PublishMount(r)
NodeUnpublishVolume(r) == PublishUnmount(r)
NodeExpandVolume(r) == CheckDeviceSize(r) \/ ExpandFs(r)

Handle(r) ==
    \/ GetVolume(r) \/ GetMetadata(r) \/ CreateGetInitiator(r)
    \/ AclGet(r) \/ AclSet(r) \/ SetMetadata(r)
    \/ NodeStageVolume(r) \/ NodeUnstageVolume(r)
    \/ NodePublishVolume(r) \/ NodeUnpublishVolume(r)
    \/ NodeExpandVolume(r)

Next ==
    \/ \E r \in Requests : Issue(r) \/ Handle(r)
    \/ \E t \in Targets : Write(t)
    \/ Resize
    \/ \E n \in Nodes : Die(n) \/ Reboot(n)

Spec == Init /\ [][Next]_vars

\* A handler that runs keeps running: calls and commands return.  The caller
\* need not call, nothing need die.
FairSpec == Spec /\ \A r \in Requests : WF_vars(Handle(r))

-----------------------------------------------------------------------------
(* Properties                                                              *)

Data ==
    INSTANCE VolumeData WITH
        Pods <- Targets,
        content <- vol.content,
        users <- {t \in Targets : pods[t] = "vol"}

(* The node service implements VolumeData: as long as lsblk and umount     *)
(* work, NodeStageVolume formats a blank volume only, nothing that was     *)
(* written is lost, and delete_on_unmount deletes no volume that a pod     *)
(* sees, through failed calls to the storage system, lost answers, crashes *)
(* between mkfs and its record, repeated requests and moves between nodes. *)
DataKept == Data!Spec

(* A target that NodePublishVolume has reported and nobody has asked to    *)
(* unpublish shows the volume, not a directory of the host, and the node   *)
(* can reach it: session, ACL and admin state are as staging left them,    *)
(* whatever other nodes and handlers did to the shared metadata.           *)
PublishedReachable ==
    \A t \in Targets :
        co[t] = "in" =>
            /\ pods[t] = "vol"
            /\ host[Home[t]].session
            /\ Home[t] \in vol.acl
            /\ HasFs /\ vol.online

(* NodeUnstageVolume answers OK whatever fails in it.  Still, a node that  *)
(* has been left is free of the volume (no mount, no session, no entry in  *)
(* the ACL) unless one of the errors it logs, or a stage that was cut off  *)
(* between its mount and its record, left something behind.  This holds    *)
(* for a stage whose OK was not heard too.  UnregisterAcl spoils it for    *)
(* the ACL of a volume on several nodes.  A target that has been left      *)
(* shows nothing.                                                          *)
CleanLeave ==
    /\ \A n \in Nodes :
        (co[n] = "out" /\ n \notin dirty) =>
            /\ ~host[n].staged
            /\ ~host[n].session
            /\ n \in vol.acl => dirty \cap Nodes # {} \/ vol.access \in MultiNode
    /\ \A t \in Targets : (co[t] = "out" /\ t \notin dirty) => pods[t] = "none"

(* The record "formatted" of the metadata, on whose word NodeStageVolume   *)
(* skips the format, is never ahead of the format itself, although stages  *)
(* are cut off and repeated, and handlers for several pods write back      *)
(* metadata they read before others changed them.                          *)
RecordTrue == vol.md.formatted => vol.content # "blank"

(* checkDeviceSize multiplies the size it waits for in every round until   *)
(* it overflows; as long as blockdev can read the device, the file system  *)
(* is only grown on a device that has grown.                               *)
GrownDevice ==
    \A r \in Requests :
        (h[r].pc = "Grow" /\ ~h[r].blind) => host[r.at].seen >= h[r].asked

(* Every request is answered: mkfs gives up, and so does the wait for a    *)
(* larger device.                                                          *)
NodeCallsAnswered == \A r \in Requests : []<>(h[r].pc = "idle")

-----------------------------------------------------------------------------
(* What comments of the code claim, and what does not hold.                *)

(* InitFunc: "K8s will often call a long running function many times with  *)
(* the same arguments before the first one completes".  The repeat runs    *)
(* once the first is complete, as "only allows execution if the previous   *)
(* function is complete" says, and ought to succeed as well: nothing is    *)
(* mounted where it mounts, unless an earlier call was cut off.            *)
Repeatable ==
    \A r \in Requests :
        /\ (At(r, "stage", "Mount") /\ r.at \notin dirty) => ~host[r.at].staged
        /\ (At(r, "publish", "Mount") /\ r.at \notin dirty) => pods[r.at] = "none"

(* UnregisterAcl: "Remove the matching initiator from the initiators       *)
(* list".                                                                  *)
UnregisterRemovesOne ==
    [][\A r \in Requests :
         (At(r, "unstage", "AclSet") /\ h'[r].pc # "AclSet" /\ vol'.acl # vol.acl)
         => vol'.acl = h[r].acl \ {r.at}]_vars

(* Client.CreateVolume: "DO NOT FORMAT when volume is created from another *)
(* source".                                                                *)
SourceNeverFormatted ==
    [][\A r \in Requests :
         (At(r, "stage", "Mkfs") /\ vol.clone) => UNCHANGED vol.content]_vars
=============================================================================
