---------------------------- MODULE ListingProofs ----------------------------
(***************************************************************************)
(* Proofs about Listing: the type invariant, and that a snapshot which is  *)
(* there for the whole of a walk is reported exactly once, for any number  *)
(* of volumes, snapshots and pages.                                        *)
(*                                                                         *)
(* The argument: in a clean walk the snapshots the walk began with are the *)
(* oldest ones asked for, so they are a prefix of every list that is made. *)
(* What has been reported is a prefix of that prefix, as long as the token *)
(* (CaseOld), or all of it and perhaps some younger snapshots, and then    *)
(* the token is past the prefix (CaseAll).  Only snapshots the token has   *)
(* not reached are deleted, so the prefix behind the token never moves.    *)
(***************************************************************************)
EXTENDS Listing, FiniteSetTheorems, SequenceTheorems, TLAPS

USE ListingAssumption, QueryAssumption

-----------------------------------------------------------------------------
(* The list of one call.                                                   *)

\* sort.Slice permutes: the list has everything found, once.
LEMMA SortedIsEnumeration ==
    ASSUME NEW S, IsFiniteSet(S), NEW list \in Sorted(S)
    PROVE  /\ Cardinality(S) \in Nat
           /\ list \in [1 .. Cardinality(S) -> S]
           /\ list \in Seq(S)
           /\ Len(list) = Cardinality(S)
           /\ \A i, j \in 1 .. Cardinality(S) : list[i] = list[j] => i = j
           /\ \A s \in S : \E i \in 1 .. Cardinality(S) : list[i] = s
           /\ \A i, j \in 1 .. Cardinality(S) : i < j => list[i].ts <= list[j].ts
<1> DEFINE n == Cardinality(S)
<1>1. n \in Nat
  BY FS_CardinalityType
<1>2. /\ list \in [1 .. n -> S]
      /\ \A i, j \in 1 .. n : i # j => list[i] # list[j]
      /\ \A i, j \in DOMAIN list : i < j => list[i].ts <= list[j].ts
  BY <1>1 DEF Sorted, SetToSeqs
<1>3. list \in Seq(S) /\ Len(list) = n
  BY <1>1, <1>2
<1>4. list \in Injection(1 .. n, S)
  BY <1>2 DEF Injection, IsInjective
<1>5. IsFiniteSet(1 .. n) /\ Cardinality(1 .. n) = n
  <2>1. (1 > n) => n = 0
    BY <1>1
  <2> QED
    BY <1>1, <2>1, FS_Interval
<1>6. list \in Surjection(1 .. n, S)
  BY <1>4, <1>5, FS_Injection
<1>7. \A s \in S : \E i \in 1 .. n : list[i] = s
  BY <1>6 DEF Surjection
<1> QED
  BY <1>1, <1>2, <1>3, <1>7

\* What is closed towards the front of an enumeration is a prefix of it.
LEMMA DownClosedIsPrefix ==
    ASSUME NEW S, NEW n \in Nat, NEW list \in [1 .. n -> S],
           \A i, j \in 1 .. n : list[i] = list[j] => i = j,
           \A s \in S : \E i \in 1 .. n : list[i] = s,
           NEW D, D \subseteq S,
           \A i, j \in 1 .. n : i < j /\ list[j] \in D => list[i] \in D
    PROVE  /\ IsFiniteSet(D)
           /\ Cardinality(D) \in 0 .. n
           /\ \A i \in 1 .. n : list[i] \in D <=> i <= Cardinality(D)
<1> DEFINE E == {i \in 1 .. n : list[i] \in D}
           f == [i \in E |-> list[i]]
           k == Cardinality(D)
<1>1. f \in Bijection(E, D)
  BY DEF Bijection, Injection, Surjection, IsInjective
<1>2. \A m \in Nat : IsFiniteSet(1 .. m) /\ Cardinality(1 .. m) = m
  <2> TAKE m \in Nat
  <2>1. (1 > m) => m = 0
    OBVIOUS
  <2> QED
    BY <2>1, FS_Interval
<1>3. IsFiniteSet(E) /\ Cardinality(E) <= n
  BY <1>2, FS_Subset
<1>4. IsFiniteSet(D) /\ k = Cardinality(E)
  BY <1>1, <1>3, FS_Bijection DEF ExistsBijection
<1>5. k \in Nat /\ k <= n
  BY <1>3, <1>4, FS_CardinalityType
<1>6. \A i \in E : i <= k
  <2> SUFFICES ASSUME NEW i \in E PROVE i <= k
    OBVIOUS
  <2>1. 1 .. i \subseteq E
    OBVIOUS
  <2>2. Cardinality(1 .. i) <= Cardinality(E)
    BY <2>1, <1>3, FS_Subset
  <2> QED
    BY <2>2, <1>2, <1>4, <1>5
<1>7. E \subseteq 1 .. k
  BY <1>5, <1>6
<1>8. E = 1 .. k
  <2>1. IsFiniteSet(1 .. k) /\ Cardinality(1 .. k) = Cardinality(E)
    BY <1>2, <1>4, <1>5
  <2> HIDE DEF E
  <2> QED
    BY <2>1, <1>7, FS_Subset
<1> QED
  BY <1>4, <1>5, <1>8

\* The page ends within the list, and is empty only at its end.
LEMMA EndInList ==
    ASSUME NEW list, Len(list) \in Nat, NEW st \in Nat, st <= Len(list),
           NEW max \in Nat, Len(list) # 0
    PROVE  /\ End(list, st, max) \in st .. Len(list)
           /\ End(list, st, max) # 0
           /\ End(list, st, max) = st => st = Len(list)
BY DEF End

-----------------------------------------------------------------------------
(* Types.                                                                  *)

\* Finite sets of snapshots; nothing collected outside a collection.
Shape ==
    /\ IsFiniteSet(snaps)
    /\ IsFiniteSet(found)
    /\ \A s \in snaps : s.ts <= clock
    /\ pc # "collect" => todo = {} /\ found = {}
    /\ walk.state = "on" <=> pc # "idle"

TypeInv == ListingTypeOK /\ Shape

LEMMA QueryTypes ==
    \A q \in Queries : /\ q.kind \in {"all", "vol", "id", "bad"}
                       /\ q.vol \in Volumes \cup Missing
                       /\ q.ts \in Nat
                       /\ q.source \in BOOLEAN
BY DEF Query

LEMMA InitTypes == Init => TypeInv
<1> SUFFICES ASSUME Init PROVE TypeInv
  OBVIOUS
<1>1. /\ (CHOOSE q \in Queries : TRUE) \in Queries
      /\ (CHOOSE n \in PageSizes : TRUE) \in PageSizes
  OBVIOUS
<1>2. walk \in Walk
  BY <1>1 DEF Init, Walk
<1>3. ListingTypeOK
  BY <1>2 DEF Init, ListingTypeOK
<1>4. IsFiniteSet({})
  BY FS_EmptySet
<1>5. walk.state = "none"
  BY DEF Init
<1>6. Shape
  BY <1>4, <1>5 DEF Init, Shape
<1> QED
  BY <1>3, <1>6 DEF TypeInv

LEMMA WalkTypes ==
    ASSUME ListingTypeOK
    PROVE  /\ walk.state \in {"none", "on", "ended"}
           /\ walk.q \in Queries
           /\ walk.max \in PageSizes
           /\ walk.token \in Nat
           /\ walk.got \in Seq(Snap)
BY DEF ListingTypeOK, Walk

\* What a page leaves behind has its type.
LEMMA RespondTypes ==
    ASSUME TypeInv, NEW page \in Seq(Snap), NEW next \in Nat, Respond(page, next),
           pc # "idle", clean' \in BOOLEAN, faults' \in 0 .. MaxFaults
    PROVE  TypeInv'
<1>1. walk.got \o page \in Seq(Snap)
  BY WalkTypes DEF TypeInv
<1>2. walk' \in Walk
  BY <1>1, WalkTypes DEF TypeInv, Respond, Walk, ListingTypeOK
<1>3. ListingTypeOK'
  BY <1>2 DEF TypeInv, ListingTypeOK, Respond
<1>4. walk'.state = IF next = 0 \/ page = <<>> THEN "ended" ELSE "on"
  BY DEF Respond, TypeInv, ListingTypeOK, Walk
<1>5. Shape'
  BY <1>4, FS_EmptySet DEF TypeInv, Shape, Respond
<1> QED
  BY <1>3, <1>5 DEF TypeInv

\* So does an error.
LEMMA RefuseTypes ==
    ASSUME TypeInv, Refuse, pc = "resolve", clean' \in BOOLEAN, faults' \in 0 .. MaxFaults
    PROVE  TypeInv'
<1>1. walk' \in Walk /\ walk'.state = "none"
  BY DEF TypeInv, Refuse, Walk, ListingTypeOK
<1>2. ListingTypeOK'
  BY <1>1 DEF TypeInv, ListingTypeOK, Refuse
<1>3. Shape'
  BY <1>1 DEF TypeInv, Shape, Refuse
<1> QED
  BY <1>2, <1>3 DEF TypeInv

LEMMA ErrsTypes ==
    ASSUME faults \in 0 .. MaxFaults, Errs
    PROVE  faults' \in 0 .. MaxFaults
BY DEF Errs

LEMMA TypesKept == TypeInv /\ [Next]_vars => TypeInv'
<1> SUFFICES ASSUME TypeInv, [Next]_vars PROVE TypeInv'
  OBVIOUS
<1>t. ListingTypeOK /\ Shape
  BY DEF TypeInv
<1>1. ASSUME NEW v \in Volumes, Take(v) PROVE TypeInv'
  <2> DEFINE new == [vol |-> v, ts |-> clock]
  <2>1. new \in Snap /\ clock' \in Nat /\ clock <= clock' /\ clean' \in BOOLEAN
    BY <1>1, <1>t DEF Take, Snap, ListingTypeOK
  <2>2. ListingTypeOK'
    BY <1>1, <1>t, <2>1 DEF Take, ListingTypeOK
  <2>3. IsFiniteSet(snaps')
    BY <1>1, <1>t, FS_AddElement DEF Take, Shape
  <2>4. \A s \in snaps' : s.ts <= clock'
    BY <1>1, <1>t, <2>1 DEF Take, Shape, ListingTypeOK, Snap
  <2>5. Shape'
    BY <1>1, <1>t, <2>3, <2>4 DEF Take, Shape
  <2> QED
    BY <2>2, <2>5 DEF TypeInv
<1>2. ASSUME NEW s \in snaps, Drop(s) PROVE TypeInv'
  <2>1. ListingTypeOK'
    BY <1>2, <1>t DEF Drop, ListingTypeOK
  <2>2. IsFiniteSet(snaps')
    BY <1>2, <1>t, FS_Subset DEF Drop, Shape
  <2>3. Shape'
    BY <1>2, <1>t, <2>2 DEF Drop, Shape
  <2> QED
    BY <2>1, <2>3 DEF TypeInv
<1>3. ASSUME NEW q \in Queries, NEW max \in PageSizes, Start(q, max) PROVE TypeInv'
  <2>1. <<>> \in Seq(Snap)
    OBVIOUS
  <2>2. walk' \in Walk /\ walk'.state = "on"
    BY <1>3, <2>1 DEF Start, Walk
  <2>3. since' \subseteq snaps' /\ clean' \in BOOLEAN
    BY <1>3 DEF Start
  <2>4. ListingTypeOK'
    BY <1>3, <1>t, <2>2, <2>3 DEF Start, ListingTypeOK
  <2>5. Shape'
    BY <1>3, <1>t, <2>2 DEF Start, Shape
  <2> QED
    BY <2>4, <2>5 DEF TypeInv
<1>4. ASSUME Resolve PROVE TypeInv'
  <2> DEFINE q == walk.q
             there == q.kind = "all" \/ q.vol \in Volumes
  <2>q. q \in Queries /\ pc = "resolve"
    BY <1>4, <1>t, WalkTypes DEF Resolve
  <2>c. clean \in BOOLEAN /\ faults \in 0 .. MaxFaults
    BY <1>t DEF ListingTypeOK
  <2>1. CASE Respond(<<>>, 0) /\ UNCHANGED <<faults, clean>>
    <3>1. <<>> \in Seq(Snap)
      OBVIOUS
    <3> QED
      BY <2>1, <2>q, <2>c, <3>1, RespondTypes
  <2>2. CASE Refuse /\ UNCHANGED <<faults, clean>>
    BY <2>2, <2>q, <2>c, RefuseTypes
  <2>3. CASE Errs /\ Refuse /\ clean' = FALSE
    BY <2>3, <2>q, <2>c, ErrsTypes, RefuseTypes
  <2>4. CASE /\ q.kind # "bad" /\ there
             /\ todo' = IF q.kind = "all" THEN Volumes ELSE {q.vol}
             /\ pc' = "collect"
             /\ UNCHANGED <<snaps, clock, walk, found, since, clean, drops, faults>>
    <3>1. todo' \subseteq Volumes
      BY <2>4
    <3>2. ListingTypeOK'
      BY <2>4, <3>1, <1>t DEF ListingTypeOK
    <3>3. Shape'
      BY <2>4, <2>q, <1>t DEF Shape
    <3> QED
      BY <3>2, <3>3 DEF TypeInv
  <2> QED
    BY <1>4, <2>1, <2>2, <2>3, <2>4 DEF Resolve
<1>5. ASSUME NEW v \in Volumes, Collect(v) PROVE TypeInv'
  <2>1. found' \subseteq found \cup snaps
    BY <1>5 DEF Collect
  <2>a. clean' \in BOOLEAN
    BY <1>5, <1>t DEF Collect, ListingTypeOK
  <2>b. faults' \in 0 .. MaxFaults
    BY <1>5, <1>t, ErrsTypes DEF Collect, ListingTypeOK
  <2>2. ListingTypeOK'
    BY <1>5, <1>t, <2>1, <2>a, <2>b DEF Collect, ListingTypeOK
  <2>3. IsFiniteSet(found \cup snaps)
    BY <1>t, FS_Union DEF Shape
  <2>4. Shape'
    BY <1>5, <1>t, <2>1, <2>3, FS_Subset DEF Collect, Shape
  <2> QED
    BY <2>2, <2>4 DEF TypeInv
<1>6. ASSUME Answer PROVE TypeInv'
  <2> PICK list \in Sorted(found) :
          IF NothingLeft(list, walk.token)
          THEN Respond(list, 0)
          ELSE Respond(SubSeq(list, walk.token + 1, End(list, walk.token, walk.max)),
                       End(list, walk.token, walk.max))
    BY <1>6 DEF Answer
  <2> DEFINE st == walk.token
             end == End(list, st, walk.max)
             page == SubSeq(list, st + 1, end)
  <2>1. list \in Seq(found) /\ found \subseteq Snap
    BY <1>t, SortedIsEnumeration DEF Shape, ListingTypeOK
  <2>2. list \in Seq(Snap) /\ Len(list) \in Nat
    BY <2>1
  <2>3. clean' \in BOOLEAN /\ faults' \in 0 .. MaxFaults /\ pc # "idle"
    BY <1>6, <1>t DEF Answer, ListingTypeOK
  <2>4. CASE NothingLeft(list, st)
    BY <2>2, <2>3, <2>4, RespondTypes
  <2>5. CASE ~NothingLeft(list, st)
    <3>1. st \in Nat /\ walk.max \in Nat
      BY <1>t, WalkTypes
    <3>2. Len(list) # 0 /\ st <= Len(list)
      BY <2>2, <2>5, <3>1 DEF NothingLeft
    <3>3. end \in st .. Len(list)
      BY <2>2, <3>1, <3>2, EndInList
    <3>4. end \in Nat /\ page \in Seq(Snap)
      BY <2>2, <3>1, <3>3
    <3> QED
      BY <2>5, <2>3, <3>4, RespondTypes
  <2> QED
    BY <2>4, <2>5
<1>7. CASE UNCHANGED vars
  BY <1>7, <1>t DEF vars, TypeInv, ListingTypeOK, Shape
<1> QED
  BY <1>1, <1>2, <1>3, <1>4, <1>5, <1>6, <1>7 DEF Next

(* Every variable of the listing keeps its type: the pages a caller holds  *)
(* are sequences of snapshots and the token is never negative, so that     *)
(* the cut of a page (ListSnapshots in snapshots.go) stays in the list.    *)
THEOREM ListingTypes == Spec => []ListingTypeOK
<1>1. TypeInv => ListingTypeOK
  BY DEF TypeInv
<1> QED
  BY <1>1, InitTypes, TypesKept, PTL DEF Spec

-----------------------------------------------------------------------------
(* Reported once.                                                          *)

Got == ToSet(walk.got)

Wanted == {s \in snaps : Asked(walk.q, s)}

\* What the call in progress has found and what it will find if nothing
\* changes.
Reach == found \cup {s \in Wanted : pc = "resolve" \/ s.vol \in todo}

\* The walk began with the oldest of the snapshots asked for.
Ordered ==
    /\ \A s, t \in snaps : s.ts = t.ts => s = t
    /\ since \subseteq Wanted
    /\ found \subseteq Wanted
    /\ \A s \in Wanted \ since, t \in since : t.ts < s.ts

\* As many of those as the token says have been reported, the oldest first.
CaseOld ==
    /\ Got \subseteq since
    /\ Cardinality(Got) = walk.token
    /\ \A g \in Got, s \in since \ Got : g.ts < s.ts

\* All of those have been reported, and the token is past them but not past
\* the list that is being made.
CaseAll ==
    /\ since \subseteq Got
    /\ Cardinality(since) <= walk.token
    /\ walk.token <= Cardinality(Reach)

NoneTwice ==
    \A s \in since : \A i, j \in DOMAIN walk.got :
        walk.got[i] = s /\ walk.got[j] = s => i = j

CleanWalk ==
    /\ Ordered
    /\ NoneTwice
    /\ walk.state = "on" => since \subseteq Reach /\ (CaseOld \/ CaseAll)
    /\ walk.state = "ended" => since \subseteq Got

ListingInv == TypeInv /\ (clean /\ walk.state # "none" => CleanWalk)

\* A step that leaves the walk alone and hides nothing from the call.
LEMMA QuietStep ==
    ASSUME TypeInv, TypeInv', CleanWalk, walk' = walk, since' = since, Ordered',
           walk.state = "on" => Reach \subseteq Reach'
    PROVE  CleanWalk'
<1>1. NoneTwice' /\ Got' = Got
  BY DEF CleanWalk, NoneTwice, Got
<1>2. CASE walk.state = "on"
  <2>1. Cardinality(Reach) <= Cardinality(Reach') /\ Cardinality(Reach) \in Nat
        /\ Cardinality(Reach') \in Nat
    <3>1. IsFiniteSet(found' \cup snaps')
      BY FS_Union DEF TypeInv, Shape
    <3>2. Reach' \subseteq found' \cup snaps'
      BY DEF Reach, Wanted
    <3>3. IsFiniteSet(Reach')
      BY <3>1, <3>2, FS_Subset
    <3> QED
      BY <1>2, <3>3, FS_Subset, FS_CardinalityType
  <2>2. walk.token \in Nat
    BY WalkTypes DEF TypeInv
  <2>3. CASE CaseOld
    BY <2>3, <1>1, <1>2 DEF CaseOld, CleanWalk
  <2>4. CASE CaseAll
    <3>1. CaseAll'
      BY <2>4, <2>1, <2>2, <1>1 DEF CaseAll
    <3> QED
      BY <3>1, <1>1, <1>2 DEF CleanWalk
  <2> QED
    BY <2>3, <2>4, <1>2 DEF CleanWalk
<1>3. CASE walk.state # "on"
  BY <1>1, <1>3 DEF CleanWalk
<1> QED
  BY <1>2, <1>3

\* A new snapshot is younger than all others.
LEMMA TakeKeeps ==
    ASSUME TypeInv, TypeInv', CleanWalk, clean', NEW v \in Volumes, Take(v)
    PROVE  CleanWalk'
<1> DEFINE new == [vol |-> v, ts |-> clock]
<1>1. /\ snaps' = snaps \cup {new}
      /\ walk' = walk /\ pc' = pc /\ todo' = todo /\ found' = found /\ since' = since
      /\ \A s \in snaps : s.ts # clock
  BY DEF Take
<1>2. \A s \in snaps : s.ts < clock
  BY <1>1 DEF TypeInv, Shape, ListingTypeOK, Snap
<1>3. Wanted \subseteq Wanted' /\ Wanted' \subseteq Wanted \cup {new}
  BY <1>1 DEF Wanted
<1>4. Reach \subseteq Reach'
  BY <1>1, <1>3 DEF Reach
<1>5. new.ts = clock /\ clock \in Nat /\ \A s \in snaps : s.ts \in Nat
  BY DEF TypeInv, ListingTypeOK, Snap
<1>6. Ordered
  BY DEF CleanWalk
<1>7. \A s, t \in snaps' : s.ts = t.ts => s = t
  BY <1>1, <1>2, <1>5, <1>6 DEF Ordered
<1>8. \A s \in Wanted' \ since', t \in since' : t.ts < s.ts
  <2>1. since \subseteq snaps
    BY <1>6 DEF Ordered, Wanted
  <2> QED
    BY <2>1, <1>1, <1>2, <1>3, <1>5, <1>6 DEF Ordered
<1>9. Ordered'
  BY <1>1, <1>3, <1>6, <1>7, <1>8 DEF Ordered
<1> QED
  BY <1>1, <1>4, <1>9, QuietStep

\* A clean deletion is of a snapshot that the walk began with and has not
\* come to, or of one that nobody asked for.
LEMMA DropKeeps ==
    ASSUME TypeInv, TypeInv', CleanWalk, clean', NEW s \in snaps, Drop(s)
    PROVE  CleanWalk'
<1>1. /\ snaps' = snaps \ {s} /\ since' = since \ {s}
      /\ walk' = walk /\ pc' = pc /\ todo' = todo /\ found' = found
      /\ Asked(walk.q, s) => s \in since /\ s \notin Got /\ s \notin found
  BY DEF Drop, Got
<1>2. Wanted' = Wanted \ {s}
  BY <1>1 DEF Wanted
<1>3. Ordered /\ s \notin found
  BY <1>1 DEF CleanWalk, Ordered, Wanted
<1>4. Ordered'
  <2>1. \A x \in Wanted' \ since', t \in since' : t.ts < x.ts
    BY <1>1, <1>2, <1>3 DEF Ordered
  <2> QED
    BY <1>1, <1>2, <1>3, <2>1 DEF Ordered
<1>5. NoneTwice' /\ Got' = Got
  BY <1>1 DEF CleanWalk, NoneTwice, Got
<1>6. CASE s \notin Wanted
  <2>1. since' = since
    BY <1>1, <1>3, <1>6 DEF Ordered
  <2>2. Reach' = Reach
    BY <1>1, <1>2, <1>6 DEF Reach
  <2> QED
    BY <1>1, <1>4, <2>1, <2>2, QuietStep
<1>7. CASE s \in Wanted
  <2>1. s \in since /\ s \notin Got
    BY <1>1, <1>7 DEF Wanted
  <2>2. walk.state # "ended"
    BY <2>1 DEF CleanWalk
  <2>3. CASE walk.state = "on"
    <3>1. CaseOld /\ since \subseteq Reach
      BY <2>1, <2>3 DEF CleanWalk, CaseAll
    <3>2. CaseOld'
      BY <3>1, <2>1, <1>1, <1>5 DEF CaseOld
    <3>3. since' \subseteq Reach'
      BY <3>1, <1>1, <1>2 DEF Reach
    <3> QED
      BY <3>2, <3>3, <1>1, <1>4, <1>5, <2>3 DEF CleanWalk
  <2> QED
    BY <2>2, <2>3, <1>1, <1>4, <1>5 DEF CleanWalk
<1> QED
  BY <1>6, <1>7

\* A walk begins with everything asked for and nothing reported.
LEMMA StartIsClean ==
    ASSUME TypeInv, TypeInv', clean', NEW q \in Queries, NEW max \in PageSizes, Start(q, max)
    PROVE  CleanWalk'
<1>1. /\ walk'.state = "on" /\ walk'.q = q /\ walk'.token = 0 /\ walk'.got = <<>>
      /\ snaps' = snaps /\ found' = found /\ pc' = "resolve"
      /\ since' = {s \in snaps : Asked(q, s)}
      /\ \A s, t \in snaps : s.ts = t.ts => s = t
  BY DEF Start
<1>2. found = {}
  <2>1. walk.state # "on" /\ pc \in {"idle", "resolve", "collect"}
    BY DEF Start, TypeInv, ListingTypeOK
  <2> QED
    BY <2>1 DEF TypeInv, Shape
<1>3. Wanted' = since'
  BY <1>1 DEF Wanted
<1>4. Ordered'
  BY <1>1, <1>2, <1>3 DEF Ordered
<1>5. Got' = {} /\ NoneTwice'
  BY <1>1 DEF Got, ToSet, NoneTwice
<1>6. CaseOld'
  BY <1>1, <1>5, FS_EmptySet DEF CaseOld
<1>7. since' \subseteq Reach'
  BY <1>1, <1>3 DEF Reach
<1> QED
  BY <1>1, <1>4, <1>5, <1>6, <1>7 DEF CleanWalk

\* An answer changes nothing but the walk and ends the collection.
LEMMA RespondOrdered ==
    ASSUME TypeInv, Ordered, NEW page, NEW next, Respond(page, next)
    PROVE  /\ Ordered'
           /\ Wanted' = Wanted
           /\ since' = since
           /\ found' = {}
           /\ walk'.got = walk.got \o page
           /\ walk'.token = next
           /\ walk'.state = IF next = 0 \/ page = <<>> THEN "ended" ELSE "on"
           /\ pc' = IF next = 0 \/ page = <<>> THEN "idle" ELSE "resolve"
<1>1. /\ walk'.q = walk.q
      /\ walk'.got = walk.got \o page
      /\ walk'.token = next
      /\ walk'.state = IF next = 0 \/ page = <<>> THEN "ended" ELSE "on"
  BY DEF TypeInv, ListingTypeOK, Walk, Respond
<1>2. /\ snaps' = snaps /\ since' = since /\ found' = {}
      /\ pc' = IF next = 0 \/ page = <<>> THEN "idle" ELSE "resolve"
  BY DEF Respond
<1>3. Wanted' = Wanted
  BY <1>1, <1>2 DEF Wanted
<1>4. Ordered'
  BY <1>2, <1>3 DEF Ordered
<1> QED
  BY <1>1, <1>2, <1>3, <1>4

\* An empty answer is right if there was nothing to report.
LEMMA EmptyAnswer ==
    ASSUME TypeInv, Ordered, since = {}, Respond(<<>>, 0)
    PROVE  CleanWalk'
<1>1. Ordered' /\ since' = {} /\ walk'.state = "ended"
  BY RespondOrdered
<1> QED
  BY <1>1 DEF CleanWalk, NoneTwice

LEMMA ResolveKeeps ==
    ASSUME TypeInv, TypeInv', CleanWalk, Resolve, clean', walk'.state # "none"
    PROVE  CleanWalk'
<1> DEFINE q == walk.q
           there == q.kind = "all" \/ q.vol \in Volumes
<1>q. q \in Queries /\ q.kind \in {"all", "vol", "id", "bad"}
  BY WalkTypes, QueryTypes DEF TypeInv
<1>o. Ordered /\ snaps \subseteq Snap
  BY DEF CleanWalk, TypeInv, ListingTypeOK
<1>r. ~Refuse
  BY DEF Refuse, TypeInv, ListingTypeOK, Walk
<1>1. CASE q.kind = "bad" /\ Respond(<<>>, 0)
  <2>1. Wanted = {}
    BY <1>1 DEF Wanted, Asked
  <2> QED
    BY <1>1, <1>o, <2>1, EmptyAnswer DEF Ordered
<1>2. CASE q.kind # "bad" /\ ~there /\ Respond(<<>>, 0)
  <2>1. \A s \in snaps : s.vol \in Volumes
    BY <1>o DEF Snap
  <2>2. Wanted = {}
    BY <1>2, <1>q, <2>1 DEF Wanted, Asked
  <2> QED
    BY <1>2, <1>o, <2>2, EmptyAnswer DEF Ordered
<1>3. CASE /\ q.kind # "bad" /\ there
           /\ todo' = IF q.kind = "all" THEN Volumes ELSE {q.vol}
           /\ pc' = "collect"
           /\ UNCHANGED <<snaps, clock, walk, found, since, clean, drops, faults>>
  <2>1. Wanted' = Wanted
    BY <1>3 DEF Wanted
  <2>2. Ordered'
    BY <1>3, <1>o, <2>1 DEF Ordered
  <2>3. \A s \in Wanted : s.vol \in todo'
    BY <1>3, <1>q, <1>o DEF Wanted, Asked, Snap
  <2>4. Reach \subseteq Reach'
    BY <1>3, <2>1, <2>3 DEF Reach
  <2> QED
    BY <1>3, <2>2, <2>4, QuietStep
<1> QED
  BY <1>1, <1>2, <1>3, <1>r DEF Resolve

\* A goroutine that succeeds finds what was in reach.
LEMMA CollectKeeps ==
    ASSUME TypeInv, TypeInv', CleanWalk, clean', NEW v \in Volumes, Collect(v)
    PROVE  CleanWalk'
<1>1. /\ found' = found \cup {s \in snaps : s.vol = v /\ Asked(walk.q, s)}
      /\ todo' = todo \ {v} /\ pc' = pc /\ pc = "collect"
      /\ snaps' = snaps /\ walk' = walk /\ since' = since
  BY DEF Collect
<1>2. Wanted' = Wanted
  BY <1>1 DEF Wanted
<1>3. found' = found \cup {s \in Wanted : s.vol = v}
  BY <1>1 DEF Wanted
<1>4. Ordered'
  BY <1>1, <1>2, <1>3 DEF Ordered, CleanWalk
<1>5. Reach \subseteq Reach'
  BY <1>1, <1>2, <1>3 DEF Reach
<1> QED
  BY <1>1, <1>4, <1>5, QuietStep

\* The pages held are now `all', with those of the list from k + 1 to end.
PageAdded(all, got, list, k, end) ==
    /\ \A i \in DOMAIN all :
          \/ i \in DOMAIN got /\ all[i] = got[i]
          \/ /\ i \notin DOMAIN got
             /\ k + i - Len(got) \in k + 1 .. end
             /\ all[i] = list[k + i - Len(got)]
    /\ ToSet(all) = ToSet(got) \cup {list[i] : i \in k + 1 .. end}

LEMMA AppendPage ==
    ASSUME NEW got \in Seq(Snap), NEW list \in Seq(Snap), NEW k \in Nat,
           NEW end \in k .. Len(list)
    PROVE  /\ PageAdded(got \o SubSeq(list, k + 1, end), got, list, k, end)
           /\ SubSeq(list, k + 1, end) = <<>> <=> end = k
<1> DEFINE page == SubSeq(list, k + 1, end)
           all == got \o page
           L == Len(got)
<1>1. L \in Nat /\ DOMAIN got = 1 .. L /\ Len(list) \in Nat
  OBVIOUS
<1>2. /\ page \in Seq(Snap)
      /\ Len(page) = end - k
      /\ \A i \in 1 .. (end - k) : page[i] = list[k + i]
  BY <1>1
<1> HIDE DEF page
<1>3. /\ all \in Seq(Snap)
      /\ Len(all) = L + (end - k)
      /\ DOMAIN all = 1 .. (L + (end - k))
      /\ \A i \in 1 .. (L + (end - k)) : all[i] = IF i <= L THEN got[i] ELSE page[i - L]
  <2>1. /\ all \in Seq(Snap)
        /\ Len(all) = L + Len(page)
        /\ \A i \in 1 .. (L + Len(page)) : all[i] = IF i <= L THEN got[i] ELSE page[i - L]
    BY <1>1, <1>2, ConcatProperties
  <2>2. DOMAIN all = 1 .. Len(all)
    BY <2>1
  <2> HIDE DEF all, L
  <2> QED
    BY <1>1, <1>2, <2>1, <2>2
<1> HIDE DEF all, L
<1>4. \A i \in DOMAIN all :
                \/ i \in DOMAIN got /\ all[i] = got[i]
                \/ /\ i \notin DOMAIN got
                   /\ k + i - L \in k + 1 .. end
                   /\ all[i] = list[k + i - L]
  <2> SUFFICES ASSUME NEW i \in DOMAIN all, i > L
               PROVE  k + i - L \in k + 1 .. end /\ all[i] = list[k + i - L]
    BY <1>1, <1>3
  <2>1. i - L \in 1 .. (end - k) /\ k + (i - L) = k + i - L
    BY <1>1, <1>3
  <2>2. all[i] = page[i - L]
    BY <1>1, <1>3
  <2>3. page[i - L] = list[k + (i - L)]
    BY <1>2, <2>1
  <2>4. k + i - L \in k + 1 .. end
    BY <1>1, <1>3, <2>1
  <2> QED
    BY <2>1, <2>2, <2>3, <2>4
<1>5. ToSet(got) \subseteq ToSet(all)
  BY <1>1, <1>3 DEF ToSet
<1>6. ASSUME NEW i \in k + 1 .. end PROVE list[i] \in ToSet(all)
  <2>1. L + (i - k) \in DOMAIN all /\ i - k \in 1 .. (end - k) /\ L + (i - k) > L
        /\ (L + (i - k)) - L = i - k /\ k + (i - k) = i
    BY <1>1, <1>3
  <2>2. all[L + (i - k)] = list[i]
    BY <2>1, <1>1, <1>2, <1>3
  <2> QED
    BY <2>1, <2>2 DEF ToSet
<1>7. ToSet(all) \subseteq ToSet(got) \cup {list[i] : i \in k + 1 .. end}
  BY <1>1, <1>4 DEF ToSet
<1>8. page = <<>> <=> end = k
  BY <1>2
<1> QED
  BY <1>4, <1>5, <1>6, <1>7, <1>8 DEF page, all, L, PageAdded

\* In a clean walk the list of a call begins with the snapshots of `since',
\* and what is past the token has not been reported if it is one of them.
LEMMA ListOfCleanWalk ==
    ASSUME TypeInv, CleanWalk, walk.state = "on", since \subseteq found,
           Cardinality(Reach) = Cardinality(found), NEW list \in Sorted(found)
    PROVE  LET n == Cardinality(found)
               m == Cardinality(since)
               k == walk.token IN
           /\ m \in 0 .. n
           /\ k \in 0 .. n
           /\ \A i \in 1 .. n : list[i] \in since <=> i <= m
           /\ \A i, j \in 1 .. n : i < j => list[i].ts < list[j].ts
           /\ \A i \in k + 1 .. n : list[i] \in since => list[i] \notin Got
           /\ \/ since \subseteq Got /\ m <= k
              \/ /\ \A i \in 1 .. n : list[i] \in Got <=> i <= k
                 /\ Got \subseteq since
<1> DEFINE n == Cardinality(found)
           m == Cardinality(since)
           k == walk.token
<1>f. /\ IsFiniteSet(found) /\ found \subseteq snaps /\ found \subseteq Wanted
      /\ \A s \in snaps : s.ts \in Nat
  BY DEF CleanWalk, Ordered, Wanted, TypeInv, Shape, ListingTypeOK, Snap
<1>1. /\ n \in Nat
      /\ list \in [1 .. n -> found]
      /\ \A i, j \in 1 .. n : list[i] = list[j] => i = j
      /\ \A s \in found : \E i \in 1 .. n : list[i] = s
      /\ \A i, j \in 1 .. n : i < j => list[i].ts <= list[j].ts
  BY <1>f, SortedIsEnumeration
<1> HIDE DEF n
<1>2. ASSUME NEW i \in 1 .. n, NEW j \in 1 .. n, i < j
      PROVE  list[i].ts < list[j].ts
  <2>1. list[i] \in snaps /\ list[j] \in snaps /\ list[i] # list[j]
    BY <1>1, <1>2, <1>f
  <2>2. list[i].ts # list[j].ts
    BY <2>1 DEF CleanWalk, Ordered
  <2> QED
    BY <2>1, <2>2, <1>1, <1>2, <1>f
<1>3. \A i, j \in 1 .. n : i < j /\ list[j] \in since => list[i] \in since
  <2> SUFFICES ASSUME NEW i \in 1 .. n, NEW j \in 1 .. n, i < j, list[j] \in since,
                      list[i] \notin since
               PROVE  FALSE
    OBVIOUS
  <2>1. list[i] \in Wanted \ since /\ list[i] \in snaps /\ list[j] \in snaps
    BY <1>1, <1>f
  <2>2. list[j].ts < list[i].ts
    BY <2>1 DEF CleanWalk, Ordered
  <2> QED
    BY <2>1, <2>2, <1>2, <1>f
<1>4. m \in 0 .. n /\ \A i \in 1 .. n : list[i] \in since <=> i <= m
  BY <1>1, <1>3, DownClosedIsPrefix
<1>5. k \in Nat
  BY WalkTypes DEF TypeInv
<1> HIDE DEF m, k
<1>6. CASE CaseOld
  <2>1. Got \subseteq since /\ Cardinality(Got) = k
    BY <1>6 DEF CaseOld, k
  <2>2. \A i, j \in 1 .. n : i < j /\ list[j] \in Got => list[i] \in Got
    <3> SUFFICES ASSUME NEW i \in 1 .. n, NEW j \in 1 .. n, i < j, list[j] \in Got,
                        list[i] \notin Got
                 PROVE  FALSE
      OBVIOUS
    <3>1. list[i] \in since \ Got /\ list[i] \in snaps /\ list[j] \in snaps
      BY <1>1, <1>3, <1>f, <2>1
    <3>2. list[j].ts < list[i].ts
      BY <3>1, <1>6 DEF CaseOld
    <3> QED
      BY <3>1, <3>2, <1>2, <1>f
  <2>3. Got \subseteq found
    BY <2>1
  <2>4. k \in 0 .. n /\ \A i \in 1 .. n : list[i] \in Got <=> i <= k
    BY <1>1, <2>1, <2>2, <2>3, DownClosedIsPrefix
  <2>5. \A i \in k + 1 .. n : list[i] \notin Got
    BY <2>4, <1>1
  <2> QED
    BY <1>1, <1>2, <1>4, <2>1, <2>4, <2>5 DEF n, m, k
<1>7. CASE CaseAll
  <2>1. since \subseteq Got /\ m <= k /\ k <= n
    BY <1>7 DEF CaseAll, m, k, n
  <2>2. k \in 0 .. n
    BY <2>1, <1>1, <1>5
  <2>3. \A i \in k + 1 .. n : list[i] \notin since
    BY <2>1, <2>2, <1>1, <1>4
  <2> QED
    BY <1>1, <1>2, <1>4, <2>1, <2>2, <2>3 DEF n, m, k
<1> QED
  BY <1>6, <1>7 DEF CleanWalk

\* The answer of a call in a clean walk: the page continues the prefix.
LEMMA AnswerKeeps ==
    ASSUME TypeInv, TypeInv', CleanWalk, Answer
    PROVE  CleanWalk'
<1>p. PICK list \in Sorted(found) :
        IF NothingLeft(list, walk.token)
        THEN Respond(list, 0)
        ELSE Respond(SubSeq(list, walk.token + 1, End(list, walk.token, walk.max)),
                     End(list, walk.token, walk.max))
  BY DEF Answer
<1> DEFINE n == Cardinality(found)
           m == Cardinality(since)
           k == walk.token
           end == End(list, k, walk.max)
           page == SubSeq(list, k + 1, end)
<1>o. Ordered /\ NoneTwice
  BY DEF CleanWalk
<1>t. /\ walk.state = "on" /\ IsFiniteSet(found) /\ IsFiniteSet(snaps)
      /\ found \subseteq snaps /\ snaps \subseteq Snap
      /\ k \in Nat /\ walk.max \in Nat /\ walk.got \in Seq(Snap)
  BY <1>o, WalkTypes DEF Answer, TypeInv, Shape, ListingTypeOK, Ordered, Wanted
<1>r. Reach = found
  BY DEF Answer, Reach
<1>s. since \subseteq found
  BY <1>t, <1>r DEF CleanWalk
<1>1. /\ n \in Nat
      /\ list \in [1 .. n -> found]
      /\ list \in Seq(found)
      /\ Len(list) = n
      /\ \A i, j \in 1 .. n : list[i] = list[j] => i = j
      /\ \A s \in found : \E i \in 1 .. n : list[i] = s
  <2>1. list \in Sorted(found) /\ IsFiniteSet(found)
    BY <1>p, <1>t
  <2> QED
    BY <2>1, SortedIsEnumeration
<1>2. /\ m \in 0 .. n
      /\ k \in 0 .. n
      /\ \A i \in 1 .. n : list[i] \in since <=> i <= m
      /\ \A i, j \in 1 .. n : i < j => list[i].ts < list[j].ts
      /\ \A i \in k + 1 .. n : list[i] \in since => list[i] \notin Got
      /\ \/ since \subseteq Got /\ m <= k
         \/ /\ \A i \in 1 .. n : list[i] \in Got <=> i <= k
            /\ Got \subseteq since
  BY <1>p, <1>t, <1>r, <1>s, ListOfCleanWalk
<1>3. list \in Seq(Snap)
  BY <1>1, <1>t
<1> HIDE DEF n, m, k
<1>4. CASE NothingLeft(list, k)
  <2>1. list = <<>>
    BY <1>4, <1>1, <1>2 DEF NothingLeft
  <2>2. n = 0
    BY <1>1, <2>1
  <2>3. since = {}
    BY <1>1, <1>s, <2>2
  <2>4. Respond(<<>>, 0)
    BY <1>p, <1>4, <2>1 DEF k
  <2> QED
    BY <1>o, <2>3, <2>4, EmptyAnswer
<1>5. CASE ~NothingLeft(list, k)
  <2>1. n # 0
    BY <1>1, <1>5 DEF NothingLeft
  <2>2. end \in k .. n /\ end # 0 /\ (end = k => k = n)
    <3>1. k \in Nat /\ Len(list) \in Nat /\ k <= Len(list) /\ Len(list) # 0
      BY <1>1, <1>2, <2>1
    <3>2. /\ end \in k .. Len(list)
          /\ end # 0
          /\ end = k => k = Len(list)
      BY <1>t, <3>1, EndInList
    <3> QED
      BY <3>2, <1>1
  <2>3. Respond(page, end)
    BY <1>p, <1>5 DEF k, end, page
  <2> HIDE DEF end, page
  <2>4. /\ Ordered' /\ Wanted' = Wanted /\ since' = since /\ found' = {}
        /\ walk'.got = walk.got \o page /\ walk'.token = end
        /\ walk'.state = IF end = 0 \/ page = <<>> THEN "ended" ELSE "on"
        /\ pc' = IF end = 0 \/ page = <<>> THEN "idle" ELSE "resolve"
    BY <1>o, <2>3, RespondOrdered
  <2>5. /\ \A i \in DOMAIN walk'.got :
               \/ i \in DOMAIN walk.got /\ walk'.got[i] = walk.got[i]
               \/ /\ i \notin DOMAIN walk.got
                  /\ k + i - Len(walk.got) \in k + 1 .. end
                  /\ walk'.got[i] = list[k + i - Len(walk.got)]
        /\ Got' = Got \cup {list[i] : i \in k + 1 .. end}
        /\ page = <<>> <=> end = k
    <3>1. k \in Nat /\ end \in k .. Len(list)
      BY <1>1, <1>2, <2>2
    <3>2. /\ PageAdded(walk.got \o SubSeq(list, k + 1, end), walk.got, list, k, end)
          /\ SubSeq(list, k + 1, end) = <<>> <=> end = k
      <4>1. walk.got \in Seq(Snap)
        BY <1>t
      <4> QED
        BY <4>1, <1>3, <3>1, AppendPage
    <3>3. /\ PageAdded(walk'.got, walk.got, list, k, end)
          /\ page = <<>> <=> end = k
      BY <3>2, <2>4 DEF page
    <3> QED
      BY <3>3 DEF PageAdded, Got
  <2>6. NoneTwice'
    <3> SUFFICES ASSUME NEW s \in since, NEW i \in DOMAIN walk'.got,
                        NEW j \in DOMAIN walk'.got,
                        walk'.got[i] = s, walk'.got[j] = s
                 PROVE  i = j
      BY <2>4 DEF NoneTwice
    <3> DEFINE L == Len(walk.got)
    <3>0. L \in Nat /\ DOMAIN walk.got = 1 .. L /\ i \in Nat /\ j \in Nat
      <4>1. walk'.got \in Seq(Snap)
        BY DEF TypeInv, ListingTypeOK, Walk
      <4> QED
        BY <1>t, <4>1
    <3>1. \A x \in DOMAIN walk.got : walk.got[x] \in Got
      BY DEF Got, ToSet
    <3>2. ASSUME NEW x \in k + 1 .. end
          PROVE  x \in 1 .. n /\ x \in k + 1 .. n
      BY <1>2, <2>2, <1>1
    <3> HIDE DEF L
    <3>3. CASE i \in DOMAIN walk.got /\ j \in DOMAIN walk.got
      BY <3>3, <2>5, <1>o DEF NoneTwice
    <3>4. CASE i \in DOMAIN walk.got /\ j \notin DOMAIN walk.got
      BY <3>4, <3>1, <3>2, <2>5, <1>2 DEF L
    <3>5. CASE i \notin DOMAIN walk.got /\ j \in DOMAIN walk.got
      BY <3>5, <3>1, <3>2, <2>5, <1>2 DEF L
    <3>6. CASE i \notin DOMAIN walk.got /\ j \notin DOMAIN walk.got
      <4>1. k + i - L \in k + 1 .. end /\ k + j - L \in k + 1 .. end
            /\ list[k + i - L] = list[k + j - L]
        BY <3>6, <2>5 DEF L
      <4>2. k + i - L = k + j - L
        BY <4>1, <3>2, <1>1
      <4> QED
        BY <4>2, <3>0, <1>2
    <3> QED
      BY <3>3, <3>4, <3>5, <3>6
  <2>7. CASE since \subseteq Got'  /\ m <= end
    <3>1. CASE walk'.state = "ended"
      BY <3>1, <2>4, <2>6, <2>7 DEF CleanWalk
    <3>2. CASE walk'.state # "ended"
      <4>1. Reach' = Wanted
        BY <3>2, <2>4 DEF Reach
      <4>2. IsFiniteSet(Wanted) /\ found \subseteq Wanted
        BY <1>t, <1>o, FS_Subset DEF Wanted, Ordered
      <4>3. n <= Cardinality(Wanted) /\ Cardinality(Wanted) \in Nat
        BY <4>2, FS_Subset, FS_CardinalityType DEF n
      <4>4. end <= Cardinality(Wanted)
        BY <4>3, <2>2, <1>1, <1>2
      <4>5. CaseAll'
        BY <4>1, <4>4, <2>4, <2>7 DEF CaseAll, m
      <4>6. since' \subseteq Reach'
        BY <4>1, <2>4, <1>o DEF Ordered
      <4> QED
        BY <4>5, <4>6, <3>2, <2>4, <2>6 DEF CleanWalk
    <3> QED
      BY <3>1, <3>2
  <2>8. CASE since \subseteq Got /\ m <= k
    <3>1. m <= end
      BY <2>8, <2>2, <1>2, <1>1
    <3> QED
      BY <2>8, <3>1, <2>5, <2>7
  <2>9. CASE (\A i \in 1 .. n : list[i] \in Got <=> i <= k) /\ Got \subseteq since
    <3>1. \A i \in 1 .. n : list[i] \in Got' <=> i <= end
      <4> SUFFICES ASSUME NEW i \in 1 .. n PROVE list[i] \in Got' <=> i <= end
        OBVIOUS
      <4>1. i <= end => i <= k \/ i \in k + 1 .. end
        BY <1>1, <1>2, <2>2
      <4>2. i <= k => i <= end
        BY <1>1, <1>2, <2>2
      <4>3. ASSUME NEW x \in k + 1 .. end, list[i] = list[x] PROVE i <= end
        <5>1. x \in 1 .. n
          BY <1>1, <1>2, <2>2
        <5> QED
          BY <5>1, <4>3, <1>1, <2>2
      <4> QED
        BY <4>1, <4>2, <4>3, <2>5, <2>9
    <3>2. CASE m <= end
      <4>1. since \subseteq Got'
        <5> SUFFICES ASSUME NEW s \in since PROVE s \in Got'
          OBVIOUS
        <5>1. PICK i \in 1 .. n : list[i] = s
          BY <1>1, <1>s
        <5>2. i <= end
          BY <5>1, <1>1, <1>2, <2>2, <3>2
        <5> QED
          BY <5>1, <5>2, <3>1
      <4> QED
        BY <4>1, <3>2, <2>7
    <3>3. CASE ~(m <= end)
      <4>1. end < m /\ end # n
        BY <3>3, <1>1, <1>2, <2>2
      <4>2. Got' \subseteq since
        <5>1. ASSUME NEW i \in k + 1 .. end PROVE list[i] \in since
          <6>1. i \in 1 .. n /\ i <= m
            BY <4>1, <1>1, <1>2, <2>2
          <6> QED
            BY <6>1, <1>2
        <5> QED
          BY <5>1, <2>5, <2>9
      <4>3. Cardinality(Got') = end
        <5> DEFINE D == Got'
        <5>1. D \subseteq found
          BY <4>2, <1>s
        <5>2. \A i, j \in 1 .. n : i < j /\ list[j] \in D => list[i] \in D
          BY <3>1, <2>2, <1>1, <1>2
        <5> HIDE DEF D
        <5>3. /\ Cardinality(D) \in 0 .. n
              /\ \A i \in 1 .. n : list[i] \in D <=> i <= Cardinality(D)
          <6>1. /\ n \in Nat /\ list \in [1 .. n -> found]
                /\ \A i, j \in 1 .. n : list[i] = list[j] => i = j
                /\ \A s \in found : \E i \in 1 .. n : list[i] = s
            BY <1>1
          <6> QED
            BY <6>1, <5>1, <5>2, DownClosedIsPrefix
        <5>4. \A i \in 1 .. n : i <= end <=> i <= Cardinality(D)
          BY <5>3, <3>1 DEF D
        <5>5. Cardinality(D) = end
          <6> DEFINE c == Cardinality(D)
          <6>1. c \in 0 .. n /\ \A i \in 1 .. n : i <= end <=> i <= c
            BY <5>3, <5>4
          <6>2. end \in 1 .. n
            BY <2>2, <1>1, <1>2
          <6> HIDE DEF c
          <6>3. end <= c
            BY <6>1, <6>2
          <6>4. c <= end
            <7>1. n \in Nat
              BY <1>1
            <7>2. c \in 1 .. n
              BY <6>1, <6>2, <6>3, <7>1
            <7> QED
              BY <7>1, <7>2, <6>1
          <6> QED
            BY <6>1, <6>2, <6>3, <6>4, <1>1 DEF c
        <5> QED
          BY <5>5 DEF D
      <4>4. \A g \in Got', s \in since \ Got' : g.ts < s.ts
        <5> SUFFICES ASSUME NEW g \in Got', NEW s \in since \ Got' PROVE g.ts < s.ts
          OBVIOUS
        <5>1. PICK i \in 1 .. n : list[i] = g
          BY <1>1, <1>s, <4>2
        <5>2. PICK j \in 1 .. n : list[j] = s
          BY <1>1, <1>s
        <5>3. i <= end /\ ~(j <= end)
          BY <5>1, <5>2, <3>1
        <5>4. i < j
          BY <5>3, <2>2, <1>1, <1>2
        <5> QED
          BY <5>1, <5>2, <5>4, <1>2
      <4>5. CaseOld'
        BY <4>2, <4>3, <4>4, <2>4 DEF CaseOld
      <4>6. page # <<>>
        BY <4>1, <2>2, <2>5
      <4>7. since' \subseteq Reach'
        BY <4>6, <2>2, <2>4, <1>o DEF Reach, Ordered
      <4> QED
        BY <4>5, <4>6, <4>7, <2>2, <2>4, <2>6 DEF CleanWalk
    <3> QED
      BY <3>2, <3>3
  <2> QED
    BY <1>2, <2>8, <2>9
<1> QED
  BY <1>4, <1>5

LEMMA ListingInvKept == ListingInv /\ [Next]_vars => ListingInv'
<1> SUFFICES ASSUME ListingInv, [Next]_vars PROVE ListingInv'
  OBVIOUS
<1>t. TypeInv /\ TypeInv'
  BY TypesKept DEF ListingInv
<1> SUFFICES ASSUME clean', walk'.state # "none" PROVE CleanWalk'
  BY <1>t DEF ListingInv
<1>1. ASSUME NEW q \in Queries, NEW max \in PageSizes, Start(q, max) PROVE CleanWalk'
  BY <1>1, <1>t, StartIsClean
<1>2. ASSUME NEW v \in Volumes, Take(v) PROVE CleanWalk'
  <2>1. clean /\ walk.state # "none"
    BY <1>2 DEF Take
  <2> QED
    BY <1>2, <1>t, <2>1, TakeKeeps DEF ListingInv
<1>3. ASSUME NEW s \in snaps, Drop(s) PROVE CleanWalk'
  <2>1. clean /\ walk.state # "none"
    BY <1>3 DEF Drop
  <2> QED
    BY <1>3, <1>t, <2>1, DropKeeps DEF ListingInv
<1>4. ASSUME Resolve PROVE CleanWalk'
  <2>1. walk.state = "on"
    BY <1>4, <1>t DEF Resolve, TypeInv, Shape
  <2>2. clean
    BY <1>4 DEF Resolve
  <2> QED
    BY <1>4, <1>t, <2>1, <2>2, ResolveKeeps DEF ListingInv
<1>5. ASSUME NEW v \in Volumes, Collect(v) PROVE CleanWalk'
  <2>1. clean /\ walk.state # "none"
    BY <1>5 DEF Collect
  <2> QED
    BY <1>5, <1>t, <2>1, CollectKeeps DEF ListingInv
<1>6. ASSUME Answer PROVE CleanWalk'
  <2>1. clean /\ walk.state = "on"
    BY <1>6, <1>t DEF Answer, TypeInv, Shape
  <2> QED
    BY <1>6, <1>t, <2>1, AnswerKeeps DEF ListingInv
<1>7. CASE UNCHANGED vars
  BY <1>7 DEF vars, ListingInv, CleanWalk, Ordered, NoneTwice, CaseOld, CaseAll, Reach, Wanted, Got
<1> QED
  BY <1>1, <1>2, <1>3, <1>4, <1>5, <1>6, <1>7 DEF Next

\* Reported at least once and not twice is reported once.
LEMMA ListingInvGivesOnce == ListingInv => ReportedOnce
<1> SUFFICES ASSUME ListingInv, walk.state = "ended", clean, NEW s \in since
             PROVE  Cardinality(Times(s)) = 1
  BY DEF ReportedOnce
<1>1. CleanWalk
  BY DEF ListingInv
<1>2. s \in Got
  BY <1>1 DEF CleanWalk
<1>3. PICK i \in DOMAIN walk.got : walk.got[i] = s
  BY <1>2 DEF Got, ToSet
<1>4. Times(s) = {i}
  BY <1>1, <1>3 DEF Times, CleanWalk, NoneTwice
<1> QED
  BY <1>4, FS_Singleton

(* Offsets are good enough tokens (snapshots.go): whatever the number of   *)
(* volumes, the size of the pages and the order of the goroutines, a       *)
(* snapshot that is there for the whole of a clean walk is on exactly one  *)
(* of its pages.                                                           *)
THEOREM SnapshotsReportedOnce == Spec => []ReportedOnce
<1>1. Init => ListingInv
  <2>1. Init => walk.state = "none"
    BY DEF Init
  <2> QED
    BY <2>1, InitTypes DEF ListingInv
<1> QED
  BY <1>1, ListingInvKept, ListingInvGivesOnce, PTL DEF Spec
=============================================================================
