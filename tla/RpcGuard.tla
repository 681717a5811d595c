------------------------------ MODULE RpcGuard ------------------------------
(***************************************************************************)
(* The duplicate-request guard of the driver: Driver.InitFunc              *)
(* (pkg/driver/driver.go) and the cleaner that every handler defers.       *)
(*                                                                         *)
(* Every gRPC request is served by its own goroutine.  InitFunc builds a   *)
(* key out of the service, the function and the arguments, looks it up in  *)
(* the map d.rpcStatus and, when it is absent, stores it and hands out a   *)
(* cleaner that deletes it again; when it is present the handler answers   *)
(* Aborted and its cleaner does nothing.                                   *)
(*                                                                         *)
(* d.rpcStatus is a plain Go map and no lock protects it, so               *)
(*   - the lookup and the store are two steps, and                         *)
(*   - a map access that overlaps another goroutine's write is a data      *)
(*     race: the write may be lost, a lookup may miss a present key, or    *)
(*     the runtime throws and the process restarts.                        *)
(*                                                                         *)
(* `raced' is a history variable: the keys of which two handlers were let  *)
(* in or whose map access was hit by a race, until the last handler of the *)
(* key has deleted it.                                                     *)
(***************************************************************************)
EXTENDS FiniteSets

CONSTANTS
    Procs,   \* the goroutines that serve requests
    Keys,    \* the "piece|funcName|request" keys
    NoKey    \* the key of a goroutine that serves nothing

ASSUME NoKeyAssumption == NoKey \notin Keys

VARIABLES
    rpcStatus,  \* the keys in the map d.rpcStatus
    phase,      \* how far each goroutine is
    key,        \* the key of the request it serves
    raced       \* history: keys hit by a race

guardVars == <<rpcStatus, phase, key, raced>>

Phases == {"idle", "insert", "run", "delete", "dup"}

GuardTypeOK ==
    /\ rpcStatus \subseteq Keys
    /\ phase \in [Procs -> Phases]
    /\ key \in [Procs -> Keys \cup {NoKey}]
    /\ raced \subseteq Keys

GuardInit ==
    /\ rpcStatus = {}
    /\ phase = [p \in Procs |-> "idle"]
    /\ key = [p \in Procs |-> NoKey]
    /\ raced = {}

-----------------------------------------------------------------------------

\* Handlers that were let in with key k and have not yet deleted it.
Holders(k) == {p \in Procs : phase[p] \in {"insert", "run", "delete"} /\ key[p] = k}

\* Goroutines other than p that are inside a write of the map.
Writers(p) == {q \in Procs \ {p} : phase[q] \in {"insert", "delete"}}

\* InitFunc looks the key up and finds it: the caller will answer Aborted.
FindKey(p, k) ==
    /\ phase[p] = "idle"
    /\ k \in rpcStatus
    /\ phase' = [phase EXCEPT ![p] = "dup"]
    /\ key' = [key EXCEPT ![p] = k]
    /\ UNCHANGED <<rpcStatus, raced>>

\* The lookup that lets the handler in, k being absent or hidden by a write
\* in progress.
Misses(p, k) == k \notin rpcStatus \/ Writers(p) # {}

MissKey(p, k) ==
    /\ phase[p] = "idle"
    /\ Misses(p, k)
    /\ phase' = [phase EXCEPT ![p] = "insert"]
    /\ key' = [key EXCEPT ![p] = k]
    /\ raced' = IF Holders(k) = {} THEN raced ELSE raced \cup {k}
    /\ UNCHANGED rpcStatus

\* Mutant: the key is stored before it has been built.
RecordEmptyKey(p) ==
    /\ phase[p] = "insert"
    /\ phase' = [phase EXCEPT ![p] = "run"]
    /\ rpcStatus' = rpcStatus \cup {NoKey}
    /\ UNCHANGED <<key, raced>>

\* d.rpcStatus[key] = struct{}{}
Record(p) ==
    /\ phase[p] = "insert"
    /\ phase' = [phase EXCEPT ![p] = "run"]
    /\ \/ /\ rpcStatus' = rpcStatus \cup {key[p]}
          /\ raced' = raced
       \/ /\ Writers(p) # {}
          /\ rpcStatus' = rpcStatus
          /\ raced' = raced \cup {key[p]}
    /\ UNCHANGED key

\* Mutant: an early return before the cleaner is deferred.
ReturnEarly(p) ==
    /\ phase[p] = "run"
    /\ phase' = [phase EXCEPT ![p] = "idle"]
    /\ key' = [key EXCEPT ![p] = NoKey]
    /\ UNCHANGED <<rpcStatus, raced>>

\* The handler returns, on whatever path, and the deferred cleaner starts.
Return(p) ==
    /\ phase[p] = "run"
    /\ phase' = [phase EXCEPT ![p] = "delete"]
    /\ UNCHANGED <<rpcStatus, key, raced>>

\* Mutant: the cleaner deletes some other key.
CleanNothing(p) ==
    /\ phase[p] = "delete"
    /\ phase' = [phase EXCEPT ![p] = "idle"]
    /\ key' = [key EXCEPT ![p] = NoKey]
    /\ UNCHANGED <<rpcStatus, raced>>

\* The cleaner: delete(d.rpcStatus, key).
Clean(p) ==
    /\ phase[p] = "delete"
    /\ phase' = [phase EXCEPT ![p] = "idle"]
    /\ key' = [key EXCEPT ![p] = NoKey]
    /\ \/ /\ rpcStatus' = rpcStatus \ {key[p]}
          /\ raced' = IF Holders(key[p]) = {p} THEN raced \ {key[p]} ELSE raced
       \/ /\ Writers(p) # {}
          /\ rpcStatus' = rpcStatus
          /\ raced' = raced \cup {key[p]}

\* Mutant: the cleaner is set up before the lookup, so a duplicate deletes
\* the key of the handler that owns it.
ReturnDupDeleting(p) ==
    /\ phase[p] = "dup"
    /\ phase' = [phase EXCEPT ![p] = "idle"]
    /\ key' = [key EXCEPT ![p] = NoKey]
    /\ rpcStatus' = rpcStatus \ {key[p]}
    /\ UNCHANGED raced

\* The handler of a duplicate answers Aborted; its cleaner is func() {}.
ReturnDup(p) ==
    /\ phase[p] = "dup"
    /\ phase' = [phase EXCEPT ![p] = "idle"]
    /\ key' = [key EXCEPT ![p] = NoKey]
    /\ UNCHANGED <<rpcStatus, raced>>

\* The process dies (a throw on the racing map included) and comes back with
\* an empty map: NewDateraDriver makes a new one.
Restart ==
    /\ rpcStatus' = {}
    /\ phase' = [p \in Procs |-> "idle"]
    /\ key' = [p \in Procs |-> NoKey]
    /\ raced' = {}

Progress(p) == Record(p) \/ Return(p) \/ Clean(p) \/ ReturnDup(p)

GuardNext ==
    \/ \E p \in Procs, k \in Keys : FindKey(p, k)
    \/ \E p \in Procs, k \in Keys : MissKey(p, k)
    \/ \E p \in Procs : Record(p)
    \/ \E p \in Procs : Return(p)
    \/ \E p \in Procs : Clean(p)
    \/ \E p \in Procs : ReturnDup(p)
    \/ Restart

GuardSpec == GuardInit /\ [][GuardNext]_guardVars

\* Every goroutine that has been let in keeps running until it is done: the
\* Go scheduler is fair and no handler of the driver loops for ever.
GuardFairSpec == GuardSpec /\ \A p \in Procs : WF_guardVars(Progress(p))

-----------------------------------------------------------------------------

(* The promise of the comment above the map in InitFunc: two handlers of   *)
(* the same request never run together.                                    *)
Exclusive ==
    \A p, q \in Procs :
        (p # q /\ phase[p] = "run" /\ phase[q] = "run") => key[p] # key[q]

(* What InitFunc really gives: as long as no lookup of a key fell into     *)
(* another handler's window between lookup and store, and no map access of *)
(* it overlapped another write, at most one handler of the key has been    *)
(* let in and the key is in the map while that handler runs.               *)
ExclusiveUnlessRace ==
    \A k \in Keys \ raced :
        /\ \A p, q \in Holders(k) : p = q
        /\ \A p \in Holders(k) : phase[p] # "insert" => k \in rpcStatus

(* No key is left behind: a key in the map that was not hit by a race      *)
(* belongs to a handler that is still running or about to delete it, so    *)
(* the key cannot turn every later request into Aborted.                   *)
KeyHasOwner ==
    \A k \in rpcStatus \ raced :
        \E p \in Procs : key[p] = k /\ phase[p] \in {"run", "delete"}

(* A key that is in the map leaves it again (or is hit by a race), so a    *)
(* retried request is eventually let in.                                   *)
KeyReleased ==
    \A k \in Keys : (k \in rpcStatus) ~> (k \notin rpcStatus \/ k \in raced)

(* The strengthening that makes the two invariants above inductive: a      *)
(* goroutine has a key exactly while it serves a request.                  *)
ServesAKey == \A p \in Procs : phase[p] = "idle" <=> key[p] = NoKey

GuardInv ==
    /\ GuardTypeOK
    /\ ServesAKey
    /\ ExclusiveUnlessRace
    /\ KeyHasOwner
=============================================================================
