--------------------------- MODULE RpcGuardProofs ---------------------------
(* Proofs about RpcGuard, for any set of goroutines and any set of keys.   *)
EXTENDS RpcGuard, TLAPS

(* The map starts empty and nobody serves anything, so the inductive       *)
(* invariant of the guard holds at first (NewDateraDriver).                *)
LEMMA GuardInitInv == GuardInit => GuardInv
BY NoKeyAssumption
DEF GuardInit, GuardInv, GuardTypeOK, ServesAKey, ExclusiveUnlessRace, KeyHasOwner,
    Holders, Phases

(* A lookup that finds the key changes neither the map nor its holders.    *)
LEMMA FindKeyInv ==
    ASSUME NEW p \in Procs, NEW k \in Keys, GuardInv, FindKey(p, k)
    PROVE  GuardInv'
<1> USE DEF GuardInv
<1>1. GuardTypeOK' BY DEF GuardTypeOK, FindKey, Phases
<1>2. ServesAKey' BY NoKeyAssumption DEF ServesAKey, FindKey, GuardTypeOK
<1>3. \A j \in Keys : Holders(j)' = Holders(j)
    BY DEF Holders, FindKey, GuardTypeOK
<1>4. ExclusiveUnlessRace'
    <2>1. ASSUME NEW q \in Procs, phase'[q] # "insert", NEW j \in Keys, q \in Holders(j)
          PROVE  phase[q] # "insert"
        BY <2>1 DEF Holders, FindKey, GuardTypeOK
    <2> QED BY <1>3, <2>1 DEF ExclusiveUnlessRace, FindKey, GuardTypeOK, Holders
<1>5. KeyHasOwner' BY DEF KeyHasOwner, FindKey, GuardTypeOK
<1> QED BY <1>1, <1>2, <1>4, <1>5

(* A lookup that lets a handler in while another one of the key is inside  *)
(* marks the key as raced; otherwise the new handler is the only one.      *)
LEMMA MissKeyInv ==
    ASSUME NEW p \in Procs, NEW k \in Keys, GuardInv, MissKey(p, k)
    PROVE  GuardInv'
<1> USE DEF GuardInv
<1>1. GuardTypeOK' BY DEF GuardTypeOK, MissKey, Phases
<1>2. ServesAKey' BY NoKeyAssumption DEF ServesAKey, MissKey, GuardTypeOK
<1>3. /\ Holders(k)' = Holders(k) \cup {p}
      /\ \A j \in Keys \ {k} : Holders(j)' = Holders(j)
    BY DEF Holders, MissKey, GuardTypeOK
<1>4. ExclusiveUnlessRace'
    <2>1. SUFFICES ASSUME NEW j \in Keys \ raced'
                   PROVE  /\ \A q, r \in Holders(j)' : q = r
                          /\ \A q \in Holders(j)' : phase'[q] # "insert" => j \in rpcStatus'
        BY DEF ExclusiveUnlessRace
    <2>2. j \notin raced BY <2>1 DEF MissKey
    <2>3. CASE j = k
        <3>1. Holders(k) = {} BY <2>1, <2>3 DEF MissKey
        <3> QED BY <1>3, <2>3, <3>1 DEF MissKey, GuardTypeOK
    <2>4. CASE j # k
        <3>1. \A q \in Holders(j) : q # p BY DEF Holders, MissKey
        <3> QED BY <1>3, <2>2, <2>4, <3>1 DEF ExclusiveUnlessRace, MissKey, GuardTypeOK, Holders
    <2> QED BY <2>3, <2>4
<1>5. KeyHasOwner' BY DEF KeyHasOwner, MissKey, GuardTypeOK
<1> QED BY <1>1, <1>2, <1>4, <1>5

(* Storing the key makes its handler the owner of the entry.               *)
LEMMA RecordInv ==
    ASSUME NEW p \in Procs, GuardInv, Record(p)
    PROVE  GuardInv'
<1> USE DEF GuardInv
<1>0. key[p] \in Keys BY DEF Record, ServesAKey, GuardTypeOK
<1>1. GuardTypeOK' BY <1>0 DEF GuardTypeOK, Record, Phases
<1>2. ServesAKey' BY DEF ServesAKey, Record, GuardTypeOK
<1>3. \A j \in Keys : Holders(j)' = Holders(j)
    BY DEF Holders, Record, GuardTypeOK
<1>4. ExclusiveUnlessRace'
    <2>1. SUFFICES ASSUME NEW j \in Keys \ raced'
                   PROVE  /\ \A q, r \in Holders(j)' : q = r
                          /\ \A q \in Holders(j)' : phase'[q] # "insert" => j \in rpcStatus'
        BY DEF ExclusiveUnlessRace
    <2>2. j \notin raced BY <2>1 DEF Record
    <2>3. \A q, r \in Holders(j)' : q = r
        BY <1>3, <2>2 DEF ExclusiveUnlessRace
    <2>4. ASSUME NEW q \in Holders(j)', phase'[q] # "insert"
          PROVE  j \in rpcStatus'
        <3>1. q \in Holders(j) BY <1>3, <2>4
        <3>2. CASE q = p
            <4>1. key[p] = j BY <3>1, <3>2 DEF Holders
            <4> QED BY <2>1, <4>1 DEF Record
        <3>3. CASE q # p
            <4>1. phase[q] # "insert"
                BY <2>4, <3>1, <3>3 DEF Record, GuardTypeOK, Holders
            <4>2. j \in rpcStatus BY <2>2, <3>1, <4>1 DEF ExclusiveUnlessRace
            <4> QED BY <4>2 DEF Record
        <3> QED BY <3>2, <3>3
    <2> QED BY <2>3, <2>4
<1>5. KeyHasOwner'
    <2>1. SUFFICES ASSUME NEW j \in rpcStatus' \ raced'
                   PROVE  \E q \in Procs : key'[q] = j /\ phase'[q] \in {"run", "delete"}
        BY DEF KeyHasOwner
    <2>2. CASE j = key[p] BY <2>2 DEF Record, GuardTypeOK
    <2>3. CASE j # key[p]
        <3>1. j \in rpcStatus \ raced BY <2>1, <2>3 DEF Record
        <3> QED BY <3>1 DEF KeyHasOwner, Record, GuardTypeOK
    <2> QED BY <2>2, <2>3
<1> QED BY <1>1, <1>2, <1>4, <1>5

(* The handler returns; its key stays in the map and stays its own.        *)
LEMMA ReturnInv ==
    ASSUME NEW p \in Procs, GuardInv, Return(p)
    PROVE  GuardInv'
<1> USE DEF GuardInv
<1>1. GuardTypeOK' BY DEF GuardTypeOK, Return, Phases
<1>2. ServesAKey' BY DEF ServesAKey, Return, GuardTypeOK
<1>3. \A j \in Keys : Holders(j)' = Holders(j)
    BY DEF Holders, Return, GuardTypeOK
<1>4. ExclusiveUnlessRace'
    <2>1. \A q \in Procs : phase[q] = "insert" => phase'[q] = "insert"
        BY DEF Return, GuardTypeOK
    <2> QED BY <1>3, <2>1 DEF ExclusiveUnlessRace, Return, Holders
<1>5. KeyHasOwner' BY DEF KeyHasOwner, Return, GuardTypeOK
<1> QED BY <1>1, <1>2, <1>4, <1>5

(* Deleting the key: either nobody else holds it and the key is as good as *)
(* new, or somebody does and the key was, and stays, raced.                *)
LEMMA CleanInv ==
    ASSUME NEW p \in Procs, GuardInv, Clean(p)
    PROVE  GuardInv'
<1> USE DEF GuardInv
<1>0. key[p] \in Keys /\ p \in Holders(key[p])
    BY DEF Clean, ServesAKey, GuardTypeOK, Holders
<1>1. GuardTypeOK' BY <1>0 DEF GuardTypeOK, Clean, Phases
<1>2. ServesAKey' BY DEF ServesAKey, Clean, GuardTypeOK
<1>3. \A j \in Keys : Holders(j)' = Holders(j) \ {p}
    BY <1>0, NoKeyAssumption DEF Holders, Clean, GuardTypeOK
<1>4. ExclusiveUnlessRace'
    <2>1. SUFFICES ASSUME NEW j \in Keys \ raced'
                   PROVE  /\ \A q, r \in Holders(j)' : q = r
                          /\ \A q \in Holders(j)' : phase'[q] # "insert" => j \in rpcStatus'
        BY DEF ExclusiveUnlessRace
    <2>2. CASE Holders(j)' = {} BY <2>2
    <2>3. CASE Holders(j)' # {}
        <3>1. j # key[p] \/ Holders(j) # {p} BY <1>3, <2>3
        <3>2. j \notin raced BY <2>1, <3>1 DEF Clean
        <3>3. \A q, r \in Holders(j) : q = r BY <3>2 DEF ExclusiveUnlessRace
        <3>4. j # key[p] BY <1>0, <1>3, <2>3, <3>3
        <3>5. \A q \in Holders(j)' : q \in Procs /\ q \in Holders(j) /\ q # p
            BY <1>3 DEF Holders
        <3>6. \A q \in Holders(j)' : phase'[q] = phase[q]
            BY <3>5 DEF Clean, GuardTypeOK
        <3>7. \A q \in Holders(j)' : phase'[q] # "insert" => j \in rpcStatus
            BY <3>2, <3>5, <3>6 DEF ExclusiveUnlessRace
        <3> QED BY <3>3, <3>4, <3>5, <3>7 DEF Clean
    <2> QED BY <2>2, <2>3
<1>5. KeyHasOwner'
    <2>1. SUFFICES ASSUME NEW j \in rpcStatus' \ raced'
                   PROVE  \E q \in Procs : key'[q] = j /\ phase'[q] \in {"run", "delete"}
        BY DEF KeyHasOwner
    <2>2. j # key[p] /\ j \in rpcStatus \ raced BY <2>1 DEF Clean
    <2>3. PICK q \in Procs : key[q] = j /\ phase[q] \in {"run", "delete"}
        BY <2>2 DEF KeyHasOwner
    <2> QED BY <2>2, <2>3 DEF Clean, GuardTypeOK
<1> QED BY <1>1, <1>2, <1>4, <1>5

(* The no-op cleaner of a duplicate leaves the map to its owner.           *)
LEMMA ReturnDupInv ==
    ASSUME NEW p \in Procs, GuardInv, ReturnDup(p)
    PROVE  GuardInv'
<1> USE DEF GuardInv
<1>1. GuardTypeOK' BY DEF GuardTypeOK, ReturnDup, Phases
<1>2. ServesAKey' BY DEF ServesAKey, ReturnDup, GuardTypeOK
<1>3. \A j \in Keys : Holders(j)' = Holders(j)
    BY NoKeyAssumption DEF Holders, ReturnDup, GuardTypeOK
<1>4. ExclusiveUnlessRace'
    <2>1. \A j \in Keys : \A q \in Holders(j) : phase'[q] = phase[q]
        BY DEF Holders, ReturnDup, GuardTypeOK
    <2> QED BY <1>3, <2>1 DEF ExclusiveUnlessRace, ReturnDup, Holders
<1>5. KeyHasOwner'
    BY DEF KeyHasOwner, ReturnDup, GuardTypeOK
<1> QED BY <1>1, <1>2, <1>4, <1>5

(* A restart empties the map.                                              *)
LEMMA RestartInv ==
    ASSUME GuardInv, Restart
    PROVE  GuardInv'
BY NoKeyAssumption
DEF Restart, GuardInv, GuardTypeOK, ServesAKey, ExclusiveUnlessRace, KeyHasOwner,
    Holders, Phases

(* Every step of the guard keeps its inductive invariant.                  *)
LEMMA GuardStepInv == GuardInv /\ [GuardNext]_guardVars => GuardInv'
<1> SUFFICES ASSUME GuardInv, [GuardNext]_guardVars
             PROVE  GuardInv'
    OBVIOUS
<1>1. ASSUME NEW p \in Procs, NEW k \in Keys, FindKey(p, k) PROVE GuardInv'
    BY <1>1, FindKeyInv
<1>2. ASSUME NEW p \in Procs, NEW k \in Keys, MissKey(p, k) PROVE GuardInv'
    BY <1>2, MissKeyInv
<1>3. ASSUME NEW p \in Procs, Record(p) PROVE GuardInv' BY <1>3, RecordInv
<1>4. ASSUME NEW p \in Procs, Return(p) PROVE GuardInv' BY <1>4, ReturnInv
<1>5. ASSUME NEW p \in Procs, Clean(p) PROVE GuardInv' BY <1>5, CleanInv
<1>6. ASSUME NEW p \in Procs, ReturnDup(p) PROVE GuardInv' BY <1>6, ReturnDupInv
<1>7. CASE Restart BY <1>7, RestartInv
<1>8. CASE UNCHANGED guardVars
    BY <1>8 DEF guardVars, GuardInv, GuardTypeOK, ServesAKey, ExclusiveUnlessRace,
                KeyHasOwner, Holders
<1> QED BY <1>1, <1>2, <1>3, <1>4, <1>5, <1>6, <1>7, <1>8 DEF GuardNext

(* The inductive invariant of the guard holds throughout.                  *)
LEMMA GuardInvariance == GuardSpec => []GuardInv
<1>1. GuardInit => GuardInv BY GuardInitInv
<1>2. GuardInv /\ [GuardNext]_guardVars => GuardInv' BY GuardStepInv
<1> QED BY <1>1, <1>2, PTL DEF GuardSpec

(* InitFunc keeps its map and its goroutines well-typed.                   *)
THEOREM GuardTypeCorrect == GuardSpec => []GuardTypeOK
<1>1. GuardInv => GuardTypeOK BY DEF GuardInv
<1> QED BY <1>1, GuardInvariance, PTL

(* However many goroutines serve however many requests, InitFunc lets in   *)
(* one handler per key unless a race hit the key.                          *)
THEOREM GuardExcludes == GuardSpec => []ExclusiveUnlessRace
<1>1. GuardInv => ExclusiveUnlessRace BY DEF GuardInv
<1> QED BY <1>1, GuardInvariance, PTL

(* The cleaners leave no entry of d.rpcStatus behind unless a race hit it. *)
THEOREM GuardKeepsNoOrphan == GuardSpec => []KeyHasOwner
<1>1. GuardInv => KeyHasOwner BY DEF GuardInv
<1> QED BY <1>1, GuardInvariance, PTL
=============================================================================
