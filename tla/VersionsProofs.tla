--------------------------- MODULE VersionsProofs ---------------------------
(* DatVersionGte is the order of versions, for all that its comment says   *)
(* are supported.                                                          *)
EXTENDS Versions, TLAPS

LEMMA PlaceBound ==
    ASSUME NEW v, Supported(v), NEW i \in 1 .. 5
    PROVE  Place(v, i) \in 0 .. 99
<1>1. v \in Seq(Nat) /\ \A j \in DOMAIN v : v[j] < 100
  BY DEF Supported, Version
<1>2. CASE i \in DOMAIN v
  <2>1. v[i] \in Nat /\ v[i] < 100
    BY <1>1, <1>2
  <2> QED
    BY <1>2, <2>1 DEF Place
<1>3. CASE i \notin DOMAIN v
  BY <1>3 DEF Place
<1> QED
  BY <1>2, <1>3

(* What the reference says of the five places, one after the other.        *)
LEMMA ReferencePlaces ==
    ASSUME NEW v, Supported(v), NEW w, Supported(w)
    PROVE  LexicographicGte(v, w)
           <=>
           \/ Place(v, 1) > Place(w, 1)
           \/ Place(v, 1) = Place(w, 1) /\
                \/ Place(v, 2) > Place(w, 2)
                \/ Place(v, 2) = Place(w, 2) /\
                     \/ Place(v, 3) > Place(w, 3)
                     \/ Place(v, 3) = Place(w, 3) /\
                          \/ Place(v, 4) > Place(w, 4)
                          \/ Place(v, 4) = Place(w, 4) /\ Place(v, 5) >= Place(w, 5)
<1>1. /\ \A i \in 1 .. 5 : Place(v, i) \in 0 .. 99
      /\ \A i \in 1 .. 5 : Place(w, i) \in 0 .. 99
  BY PlaceBound
<1>2. (\A i \in 1 .. 5 : Place(v, i) = Place(w, i)) <=>
        /\ Place(v, 1) = Place(w, 1) /\ Place(v, 2) = Place(w, 2)
        /\ Place(v, 3) = Place(w, 3) /\ Place(v, 4) = Place(w, 4)
        /\ Place(v, 5) = Place(w, 5)
  <2>1. 1 .. 5 = {1, 2, 3, 4, 5}
    OBVIOUS
  <2> QED
    BY <2>1
<1> DEFINE E(k) == \A j \in 1 .. (k - 1) : Place(v, j) = Place(w, j)
<1>3. /\ E(1) <=> TRUE
      /\ E(2) <=> Place(v, 1) = Place(w, 1)
      /\ E(3) <=> Place(v, 1) = Place(w, 1) /\ Place(v, 2) = Place(w, 2)
      /\ E(4) <=> /\ Place(v, 1) = Place(w, 1) /\ Place(v, 2) = Place(w, 2)
                  /\ Place(v, 3) = Place(w, 3)
      /\ E(5) <=> /\ Place(v, 1) = Place(w, 1) /\ Place(v, 2) = Place(w, 2)
                  /\ Place(v, 3) = Place(w, 3) /\ Place(v, 4) = Place(w, 4)
  <2>1. /\ 1 .. (1 - 1) = {} /\ 1 .. (2 - 1) = {1} /\ 1 .. (3 - 1) = {1, 2}
        /\ 1 .. (4 - 1) = {1, 2, 3} /\ 1 .. (5 - 1) = {1, 2, 3, 4}
    OBVIOUS
  <2> QED
    BY <2>1
<1>4. (\E i \in 1 .. 5 : Place(v, i) > Place(w, i) /\ E(i)) <=>
        \/ Place(v, 1) > Place(w, 1) /\ E(1)
        \/ Place(v, 2) > Place(w, 2) /\ E(2)
        \/ Place(v, 3) > Place(w, 3) /\ E(3)
        \/ Place(v, 4) > Place(w, 4) /\ E(4)
        \/ Place(v, 5) > Place(w, 5) /\ E(5)
  <2>1. 1 .. 5 = {1, 2, 3, 4, 5}
    OBVIOUS
  <2> HIDE DEF E
  <2> QED
    BY <2>1
<1>5. LexicographicGte(v, w) <=>
        \/ \A i \in 1 .. 5 : Place(v, i) = Place(w, i)
        \/ \E i \in 1 .. 5 : Place(v, i) > Place(w, i) /\ E(i)
  BY DEF LexicographicGte
<1> HIDE DEF E
<1>6. /\ Place(v, 1) \in Int /\ Place(v, 2) \in Int /\ Place(v, 3) \in Int
      /\ Place(v, 4) \in Int /\ Place(v, 5) \in Int
      /\ Place(w, 1) \in Int /\ Place(w, 2) \in Int /\ Place(w, 3) \in Int
      /\ Place(w, 4) \in Int /\ Place(w, 5) \in Int
  BY <1>1
<1> QED
  BY <1>2, <1>3, <1>4, <1>5, <1>6

(* versionToInt weighs the places of a version by powers of 100.  As long  *)
(* as no place is above 99, comparing the sums is comparing the versions   *)
(* place by place, also when one has fewer places than the other.          *)
THEOREM VersionOrder ==
    \A v, w : Supported(v) /\ Supported(w)
                => (DatVersionGte(v, w) <=> LexicographicGte(v, w))
<1> SUFFICES ASSUME NEW v, NEW w, Supported(v), Supported(w)
             PROVE  DatVersionGte(v, w) <=> LexicographicGte(v, w)
  OBVIOUS
<1> DEFINE a1 == Place(v, 1)  a2 == Place(v, 2)  a3 == Place(v, 3)
           a4 == Place(v, 4)  a5 == Place(v, 5)
           b1 == Place(w, 1)  b2 == Place(w, 2)  b3 == Place(w, 3)
           b4 == Place(w, 4)  b5 == Place(w, 5)
<1>1. /\ \A i \in 1 .. 5 : Place(v, i) \in 0 .. 99
      /\ \A i \in 1 .. 5 : Place(w, i) \in 0 .. 99
  BY PlaceBound
<1>2. /\ a1 \in 0 .. 99 /\ a2 \in 0 .. 99 /\ a3 \in 0 .. 99 /\ a4 \in 0 .. 99 /\ a5 \in 0 .. 99
      /\ b1 \in 0 .. 99 /\ b2 \in 0 .. 99 /\ b3 \in 0 .. 99 /\ b4 \in 0 .. 99 /\ b5 \in 0 .. 99
  BY <1>1
<1>3. /\ versionToInt(v) = a1 * 100000000 + a2 * 1000000 + a3 * 10000 + a4 * 100 + a5
      /\ versionToInt(w) = b1 * 100000000 + b2 * 1000000 + b3 * 10000 + b4 * 100 + b5
  BY SMT DEF versionToInt
<1>4. LexicographicGte(v, w) <=>
        \/ a1 > b1
        \/ a1 = b1 /\ \/ a2 > b2
                      \/ a2 = b2 /\ \/ a3 > b3
                                    \/ a3 = b3 /\ \/ a4 > b4
                                                  \/ a4 = b4 /\ a5 >= b5
  BY ReferencePlaces
<1> HIDE DEF a1, a2, a3, a4, a5, b1, b2, b3, b4, b5
<1> QED
  BY <1>2, <1>3, <1>4, SMT DEF DatVersionGte
=============================================================================
