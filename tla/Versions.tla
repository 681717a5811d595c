------------------------------ MODULE Versions ------------------------------
(***************************************************************************)
(* DatVersionGte and versionToInt of pkg/common/util.go, by which          *)
(* Client.CreateVolume decides what it may ask of the storage system.      *)
(*                                                                         *)
(* A version is the sequence of the numbers between its dots; one that     *)
(* does not parse is an error in the code and is left out here.            *)
(***************************************************************************)
EXTENDS Integers, Sequences

Version == Seq(Nat)

\* The number at place i, which weighs nothing where there is none.
Place(v, i) == IF i \in DOMAIN v THEN v[i] ELSE 0

\* The factor starts at 10^8 and is divided by 100 at every dot: the fifth
\* place weighs 1, and from the sixth on a factor below 1 is cut to 0.
versionToInt(v) ==
    Place(v, 1) * 100000000 + Place(v, 2) * 1000000 + Place(v, 3) * 10000
      + Place(v, 4) * 100 + Place(v, 5)

DatVersionGte(v, w) == versionToInt(v) >= versionToInt(w)

-----------------------------------------------------------------------------
\* Reference: the first of the five places that differ decides.
LexicographicGte(v, w) ==
    \/ \A i \in 1 .. 5 : Place(v, i) = Place(w, i)
    \/ \E i \in 1 .. 5 :
         /\ Place(v, i) > Place(w, i)
         /\ \A j \in 1 .. (i - 1) : Place(v, j) = Place(w, j)

\* "up to 100 versions are supported" per place.
Supported(v) == v \in Version /\ \A i \in DOMAIN v : v[i] < 100
=============================================================================
