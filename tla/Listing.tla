------------------------------- MODULE Listing -------------------------------
(***************************************************************************)
(* The paged listing of snapshots: Driver.ListSnapshots                    *)
(* (pkg/driver/controller.go) and DateraClient.ListSnapshots               *)
(* (pkg/client/snapshots.go), called by somebody who walks the pages while *)
(* snapshots are taken and deleted.                                        *)
(*                                                                         *)
(* A call finds its volumes, asks every volume for its snapshots in a      *)
(* goroutine of its own, sorts what came back by time stamp and cuts the   *)
(* page out of it.  A token is an offset into the list of the call that    *)
(* gave it out, and the next call makes a list of its own.                 *)
(*                                                                         *)
(* A volume that cannot be asked is logged and left out, and the call      *)
(* succeeds.  Snapshots with equal time stamps come in any order           *)
(* (sort.Slice is not stable and the goroutines append as they finish).    *)
(***************************************************************************)
EXTENDS Integers, FiniteSets, SequencesExt

CONSTANTS
    Volumes,    \* the volumes there are
    Missing,    \* names of no volume
    Queries,    \* what callers ask for
    PageSizes,  \* the MaxEntries of callers; 0 means no limit
    MaxTakes,   \* bound: snapshots taken
    MaxDrops,   \* bound: deletions of snapshots
    MaxFaults   \* bound: calls that fail

ASSUME ListingAssumption ==
    /\ Volumes \cap Missing = {}
    /\ PageSizes \subseteq Nat
    /\ PageSizes # {}
    /\ MaxTakes \in Nat
    /\ MaxDrops \in Nat
    /\ MaxFaults \in Nat

Snap == [vol : Volumes, ts : Nat]

\* What is asked for: every snapshot, those of a volume, one by its id or an
\* id not of the form "vol:ts".  `source': a SourceVolumeId was given.
Query ==
    [kind : {"all", "vol", "id", "bad"}, vol : Volumes \cup Missing, ts : Nat,
     source : BOOLEAN]

ASSUME QueryAssumption == Queries \subseteq Query /\ Queries # {}

VARIABLES
    snaps,   \* the snapshots there are
    clock,   \* the time stamp of the next one
    walk,    \* the caller: its query q, its page size max, the token it holds
             \* and the entries it got
    pc,      \* the call in progress: "idle", "resolve", "collect"
    todo,    \* volumes whose goroutine has not finished
    found,   \* what the others found
    since,   \* ghost: the snapshots asked for that have been there since the
             \* walk began
    clean,   \* ghost: in this walk no call failed, no two time stamps were equal
             \* and only old snapshots not yet reported were deleted
    drops, faults

vars == <<snaps, clock, walk, pc, todo, found, since, clean, drops, faults>>

Walk ==
    [state : {"none", "on", "ended"}, q : Queries, max : PageSizes, token : Nat,
     got : Seq(Snap)]

ListingTypeOK ==
    /\ snaps \subseteq Snap
    /\ clock \in Nat
    /\ pc \in {"idle", "resolve", "collect"}
    /\ todo \subseteq Volumes
    /\ found \subseteq Snap
    /\ since \subseteq snaps
    /\ clean \in BOOLEAN
    /\ walk \in Walk
    /\ drops \in 0 .. MaxDrops
    /\ faults \in 0 .. MaxFaults

Init ==
    /\ snaps = {}
    /\ clock = 1
    /\ walk = [state |-> "none", q |-> CHOOSE q \in Queries : TRUE,
               max |-> CHOOSE n \in PageSizes : TRUE, token |-> 0, got |-> <<>>]
    /\ pc = "idle"
    /\ todo = {}
    /\ found = {}
    /\ since = {}
    /\ clean = TRUE
    /\ drops = 0
    /\ faults = 0

Asked(q, s) ==
    CASE q.kind = "all" -> TRUE
      [] q.kind = "vol" -> s.vol = q.vol
      [] q.kind = "id"  -> s.vol = q.vol /\ s.ts = q.ts
      [] q.kind = "bad" -> FALSE

-----------------------------------------------------------------------------
(* The snapshots.                                                          *)

\* Volumes may get snapshots with the same time stamp, a volume may not.
Take(v) ==
    /\ Cardinality(snaps) + drops < MaxTakes
    /\ \A s \in snaps : s.vol = v => s.ts < clock
    /\ snaps' = snaps \cup {[vol |-> v, ts |-> clock]}
    /\ clock' \in {clock, clock + 1}
    /\ clean' = (clean /\ \A s \in snaps : s.ts # clock)
    /\ UNCHANGED <<walk, pc, todo, found, since, drops, faults>>

Drop(s) ==
    /\ drops < MaxDrops
    /\ drops' = drops + 1
    /\ snaps' = snaps \ {s}
    /\ since' = since \ {s}
    /\ clean' = (clean /\ (Asked(walk.q, s) => s \in since \ (ToSet(walk.got) \cup found)))
    /\ UNCHANGED <<clock, walk, pc, todo, found, faults>>

-----------------------------------------------------------------------------
(* The caller.                                                             *)

Start(q, max) ==
    /\ walk.state # "on"
    /\ walk' = [state |-> "on", q |-> q, max |-> max, token |-> 0, got |-> <<>>]
    /\ since' = {s \in snaps : Asked(q, s)}
    /\ clean' = \A s, t \in snaps : s.ts = t.ts => s = t
    /\ pc' = "resolve"
    /\ UNCHANGED <<snaps, clock, todo, found, drops, faults>>

\* The caller goes on with the token until it gets none or an empty page.
Respond(page, next) ==
    /\ walk' = [walk EXCEPT !.got = @ \o page,
                            !.token = next,
                            !.state = IF next = 0 \/ page = <<>> THEN "ended" ELSE "on"]
    /\ pc' = IF next = 0 \/ page = <<>> THEN "idle" ELSE "resolve"
    /\ todo' = {}
    /\ found' = {}
    /\ UNCHANGED <<snaps, clock, since, drops>>

-----------------------------------------------------------------------------
(* One call.                                                               *)

Errs == faults < MaxFaults /\ faults' = faults + 1

\* An error goes to the caller, who gives up.
Refuse ==
    /\ walk' = [walk EXCEPT !.state = "none"]
    /\ pc' = "idle"
    /\ UNCHANGED <<snaps, clock, todo, found, since, drops>>

\* Mutant: the error of GetVolume is overlooked.
ResolveUnchecked ==
    /\ pc = "resolve"
    /\ todo' = IF walk.q.kind = "all" THEN Volumes ELSE {walk.q.vol}
    /\ pc' = "collect"
    /\ UNCHANGED <<snaps, clock, walk, found, since, clean, drops, faults>>

\* Find the volumes: ListVolumes or GetVolume.  A bad id is an empty list,
\* and so is a volume that is not there if it was named as the source.
Resolve ==
    LET q == walk.q
        there == q.kind = "all" \/ q.vol \in Volumes IN
    /\ pc = "resolve"
    /\ \/ /\ q.kind = "bad"
          /\ Respond(<<>>, 0)
          /\ UNCHANGED <<faults, clean>>
       \/ /\ q.kind # "bad" /\ there
          /\ todo' = IF q.kind = "all" THEN Volumes ELSE {q.vol}
          /\ pc' = "collect"
          /\ UNCHANGED <<snaps, clock, walk, found, since, clean, drops, faults>>
       \/ /\ q.kind # "bad" /\ ~there
          /\ IF q.source THEN Respond(<<>>, 0) ELSE Refuse
          /\ UNCHANGED <<faults, clean>>
       \/ q.kind # "bad" /\ Errs /\ Refuse /\ clean' = FALSE

\* The goroutine of volume v: its snapshots, or an error that is swallowed.
Collect(v) ==
    /\ pc = "collect"
    /\ v \in todo
    /\ todo' = todo \ {v}
    /\ \/ /\ found' = found \cup {s \in snaps : s.vol = v /\ Asked(walk.q, s)}
          /\ UNCHANGED <<clean, faults>>
       \/ /\ Errs
          /\ clean' = FALSE
          /\ UNCHANGED found
    /\ UNCHANGED <<snaps, clock, walk, pc, since, drops>>

\* The orders in which sort.Slice can leave S.  The code compares the time
\* stamps as strings, which have the same number of digits.
Sorted(S) == {list \in SetToSeqs(S) : \A i, j \in DOMAIN list : i < j => list[i].ts <= list[j].ts}

\* Mutant: the last token counts as past the end.
NothingLeftTooEarly(list, st) == list = <<>> \/ st >= Len(list)

\* The list is empty or shorter than the token.
NothingLeft(list, st) == list = <<>> \/ st > Len(list)

\* The end of the page.
End(list, st, max) ==
    LET end == st + (IF max = 0 THEN Len(list) - st ELSE max) IN
    IF end = 0 \/ end > Len(list) THEN Len(list) ELSE end

\* All goroutines are done (wg.Wait): sort, cut, answer.
Answer ==
    /\ pc = "collect"
    /\ todo = {}
    /\ \E list \in Sorted(found) :
          LET st == walk.token
              end == End(list, st, walk.max) IN
          IF NothingLeft(list, st)
          THEN Respond(list, 0)
          ELSE Respond(SubSeq(list, st + 1, end), end)
    /\ UNCHANGED <<clean, faults>>

Next ==
    \/ \E v \in Volumes : Take(v)
    \/ \E s \in snaps : Drop(s)
    \/ \E q \in Queries, max \in PageSizes : Start(q, max)
    \/ Resolve
    \/ \E v \in Volumes : Collect(v)
    \/ Answer

Spec == Init /\ [][Next]_vars

-----------------------------------------------------------------------------

Times(s) == {i \in DOMAIN walk.got : walk.got[i] = s}

(* Offsets are good enough tokens for what does not move: a snapshot that  *)
(* is there from the beginning of a walk to its end is on exactly one of   *)
(* its pages, although every call makes its own list, volume by volume,    *)
(* and snapshots are taken and deleted meanwhile; unless a call failed, a  *)
(* snapshot was deleted that had been reported or is younger than the      *)
(* walk, or time stamps collide.                                           *)
ReportedOnce ==
    (walk.state = "ended" /\ clean) => \A s \in since : Cardinality(Times(s)) = 1
=============================================================================
