--------------------------- MODULE Vision_proofs ----------------------------
(***************************************************************************)
(* The safety properties of Vision.  The lists of sightings, of merged     *)
(* sightings and of tracks are built by loops, which Vision writes as      *)
(* recursive functions over the numbers of their rounds; what such a loop  *)
(* keeps is proved by induction over the set of the rounds it is true of.  *)
(***************************************************************************)
EXTENDS Vision, FiniteSetTheorems, TLAPS

-----------------------------------------------------------------------------
(* Induction, for sets of numbers.                                         *)

(* The order of the numbers, as a relation.                                *)
LessThan == {pair \in Nat \X Nat : pair[1] < pair[2]}

(* The numbers are well-founded. *)
LEMMA LessThanIsWellFounded == IsWellFoundedOn(LessThan, Nat)
  BY NatLessThanWellFounded DEF OpToRel, LessThan

(* A set of numbers that is not empty has a least one. *)
LEMMA LeastOfNat ==
    ASSUME NEW T, T \subseteq Nat, T # {}
    PROVE  \E x \in T : \A y \in T : x <= y
  <1>1. PICK x \in T : \A y \in T : <<y, x>> \notin LessThan
    BY LessThanIsWellFounded, WFMin
  <1>2. \A y \in T : ~(y < x)
    BY <1>1 DEF LessThan
  <1> QED
    BY <1>1, <1>2

(* A set that has 0 and with each number the next has them all. *)
LEMMA Induction ==
    ASSUME NEW S, 0 \in S, \A n \in Nat : n \in S => n + 1 \in S
    PROVE  \A n \in Nat : n \in S
  <1> DEFINE T == Nat \ S
  <1> SUFFICES ASSUME T # {}
               PROVE  FALSE
    OBVIOUS
  <1>1. PICK x \in T : \A y \in T : x <= y
    BY LeastOfNat
  <1>2. x \in Nat /\ x # 0
    OBVIOUS
  <1>3. x - 1 \in Nat /\ ~(x <= x - 1) /\ (x - 1) + 1 = x
    BY <1>2
  <1>4. x - 1 \in S
    BY <1>1, <1>3
  <1>5. x \in S
    BY <1>3, <1>4
  <1> QED
    BY <1>5

(* The runs of a loop of n rounds that starts with a value of V: round i   *)
(* makes step[i][x] of x.                                                  *)
Runs(V, base, n, step) ==
    {f \in [0..n -> V] : f[0] = base /\ \A i \in 1..n : f[i] = step[i][f[i - 1]]}

(* A loop of n rounds, each of which maps a value of V to one, has a run. *)
LEMMA LoopRuns ==
    ASSUME NEW V, NEW base \in V, NEW n \in Nat, NEW step \in [1..n -> [V -> V]]
    PROVE  Runs(V, base, n, step) # {}
  <1> DEFINE Upto(m) == {f \in [0..m -> V] : /\ f[0] = base
                                             /\ \A i \in 1..m : f[i] = step[i][f[i - 1]]}
             S == {m \in Nat : m <= n => Upto(m) # {}}
  <1>1. 0 \in S
    <2>1. [i \in 0..0 |-> base] \in Upto(0)
      OBVIOUS
    <2> QED
      BY <2>1
  <1>2. ASSUME NEW m \in Nat, m \in S
        PROVE  m + 1 \in S
    <2> SUFFICES ASSUME m + 1 <= n
                 PROVE  Upto(m + 1) # {}
      OBVIOUS
    <2>1. PICK f \in [0..m -> V] : f[0] = base /\ \A i \in 1..m : f[i] = step[i][f[i - 1]]
      BY <1>2
    <2> DEFINE x == step[m + 1][f[m]]
               g == [i \in 0..(m + 1) |-> IF i <= m THEN f[i] ELSE x]
    <2>2. x \in V
      <3>1. f[m] \in V /\ m + 1 \in 1..n
        BY <2>1
      <3> QED
        BY <3>1
    <2>3. g \in [0..(m + 1) -> V] /\ g[0] = base
      BY <2>1, <2>2
    <2>4. \A i \in 1..m : g[i] = step[i][g[i - 1]]
      <3> SUFFICES ASSUME NEW i \in 1..m
                   PROVE  g[i] = step[i][g[i - 1]]
        OBVIOUS
      <3>1. g[i] = f[i] /\ g[i - 1] = f[i - 1]
        OBVIOUS
      <3> QED
        BY <2>1, <3>1
    <2>5. g[m + 1] = step[m + 1][g[(m + 1) - 1]]
      <3>1. g[m + 1] = x /\ g[(m + 1) - 1] = f[m]
        OBVIOUS
      <3>2. x = step[m + 1][f[m]]
        OBVIOUS
      <3> HIDE DEF g, x
      <3> QED
        BY <3>1, <3>2
    <2>6. \A i \in 1..(m + 1) : i \in 1..m \/ i = m + 1
      OBVIOUS
    <2> HIDE DEF g
    <2>7. \A i \in 1..(m + 1) : g[i] = step[i][g[i - 1]]
      BY <2>4, <2>5, <2>6
    <2>8. g \in Upto(m + 1)
      BY <2>3, <2>7
    <2> QED
      BY <2>8
  <1>3. n \in S
    <2> HIDE DEF S
    <2> QED
      BY <1>1, <1>2, Induction
  <1> QED
    BY <1>3 DEF Runs

-----------------------------------------------------------------------------
(* Kept: the elements of a list at some of its places.                     *)

(* The elements of K up to i.                                              *)
UpTo(K, i) == {j \in K : j <= i}

(* Those up to a place, and up to the next. *)
LEMMA UpToNext ==
    ASSUME NEW K, \A j \in K : j \in Nat
    PROVE  /\ \A i \in Nat : i + 1 \in K =>
                  UpTo(K, i + 1) = UpTo(K, i) \cup {i + 1} /\ i + 1 \notin UpTo(K, i)
           /\ \A i \in Nat : i + 1 \notin K => UpTo(K, i + 1) = UpTo(K, i)
           /\ \A i, j \in Nat : i <= j => UpTo(K, i) \subseteq UpTo(K, j)
           /\ \A i \in Nat : UpTo(K, i) \subseteq K
           /\ \A i \in K : i \in Nat /\ i \in UpTo(K, i)
           /\ 0 \notin K => UpTo(K, 0) = {}
           /\ \A m \in Nat : (\A j \in K : j <= m) => UpTo(K, m) = K
  BY DEF UpTo

(* How many there are up to a place. *)
LEMMA CountUpTo ==
    ASSUME NEW K, IsFiniteSet(K), \A j \in K : j \in Nat
    PROVE  /\ Cardinality(K) \in Nat
           /\ \A i \in Nat :
                  /\ IsFiniteSet(UpTo(K, i)) /\ Cardinality(UpTo(K, i)) \in Nat
                  /\ Cardinality(UpTo(K, i + 1)) =
                         IF i + 1 \in K THEN Cardinality(UpTo(K, i)) + 1
                         ELSE Cardinality(UpTo(K, i))
  <1>1. \A i \in Nat : IsFiniteSet(UpTo(K, i))
    BY UpToNext, FS_Subset
  <1>2. ASSUME NEW i \in Nat
        PROVE  Cardinality(UpTo(K, i + 1)) =
                   IF i + 1 \in K THEN Cardinality(UpTo(K, i)) + 1
                   ELSE Cardinality(UpTo(K, i))
    <2>1. CASE i + 1 \in K
      <3>1. UpTo(K, i + 1) = UpTo(K, i) \cup {i + 1} /\ i + 1 \notin UpTo(K, i)
        BY <2>1, UpToNext
      <3>2. IsFiniteSet(UpTo(K, i))
        BY <1>1
      <3>3. Cardinality(UpTo(K, i) \cup {i + 1}) = Cardinality(UpTo(K, i)) + 1
        BY <3>1, <3>2, FS_AddElement
      <3> QED
        BY <2>1, <3>1, <3>3
    <2>2. CASE i + 1 \notin K
      BY <2>2, UpToNext
    <2> QED
      BY <2>1, <2>2
  <1> QED
    BY <1>1, <1>2, FS_CardinalityType

(* The count tells two places of K apart. *)
LEMMA CountGrows ==
    ASSUME NEW K, IsFiniteSet(K), \A j \in K : j \in Nat, NEW i \in K, NEW j \in K, i < j
    PROVE  Cardinality(UpTo(K, i)) < Cardinality(UpTo(K, j))
  <1>1. i \in Nat /\ j \in Nat
    OBVIOUS
  <1> DEFINE h == j - 1
  <1>2. h \in Nat /\ h + 1 = j /\ i <= h
    BY <1>1
  <1> HIDE DEF h
  <1>3. UpTo(K, i) \subseteq UpTo(K, h)
    BY <1>1, <1>2, UpToNext
  <1>4. Cardinality(UpTo(K, h + 1)) = Cardinality(UpTo(K, h)) + 1
    BY <1>2, CountUpTo
  <1>5. /\ IsFiniteSet(UpTo(K, h)) /\ Cardinality(UpTo(K, h)) \in Nat
        /\ Cardinality(UpTo(K, i)) \in Nat
    BY <1>1, <1>2, CountUpTo
  <1>6. Cardinality(UpTo(K, i)) <= Cardinality(UpTo(K, h))
    BY <1>3, <1>5, FS_Subset
  <1> QED
    BY <1>2, <1>4, <1>5, <1>6

(* And takes each of its values at a place of K. *)
LEMMA CountIsTaken ==
    ASSUME NEW K, IsFiniteSet(K), \A j \in K : j \in Nat, 0 \notin K,
           NEW m \in Nat, \A j \in K : j <= m, NEW n \in 1..Cardinality(K)
    PROVE  \E i \in K : Cardinality(UpTo(K, i)) = n
  <1> DEFINE c(i) == Cardinality(UpTo(K, i))
             T == {i \in Nat : c(i) >= n}
  <1>1. n \in Nat /\ n >= 1 /\ n <= Cardinality(K)
    BY CountUpTo
  <1>2. c(m) = Cardinality(K)
    BY UpToNext
  <1>3. c(0) = 0
    BY UpToNext, FS_EmptySet
  <1>4. \A i \in Nat : /\ c(i) \in Nat
                        /\ c(i + 1) = IF i + 1 \in K THEN c(i) + 1 ELSE c(i)
    BY CountUpTo
  <1> HIDE DEF c
  <1>5. m \in T
    BY <1>1, <1>2
  <1>6. PICK i \in T : \A j \in T : i <= j
    BY <1>5, LeastOfNat
  <1>7. i # 0
    BY <1>1, <1>3, <1>6
  <1>8. i - 1 \in Nat /\ (i - 1) + 1 = i /\ ~(i <= i - 1)
    BY <1>6, <1>7
  <1>9. ~(c(i - 1) >= n)
    BY <1>6, <1>8
  <1>10. c(i - 1) \in Nat /\ c(i) = (IF i \in K THEN c(i - 1) + 1 ELSE c(i - 1)) /\ c(i) >= n
    BY <1>4, <1>6, <1>8
  <1>11. i \in K /\ c(i) = n
    BY <1>1, <1>9, <1>10
  <1> QED
    BY <1>11 DEF c

(* What is kept are the elements at the places of K, each once. *)
LEMMA KeptIs ==
    ASSUME NEW S, NEW list \in Seq(S), NEW K, K \subseteq DOMAIN list
    PROVE  /\ Kept(list, K) \in Seq(S)
           /\ DOMAIN Kept(list, K) = 1..Cardinality(K) /\ Cardinality(K) \in Nat
           /\ \E at \in [1..Cardinality(K) -> K] :
                  /\ \A n \in 1..Cardinality(K) : Kept(list, K)[n] = list[at[n]]
                  /\ \A n, l \in 1..Cardinality(K) : at[n] = at[l] => n = l
                  /\ \A i \in K : \E n \in 1..Cardinality(K) : at[n] = i
  <1> DEFINE c == Cardinality(K)
             at == [n \in 1..c |-> CHOOSE i \in K : Cardinality({j \in K : j <= i}) = n]
  <1>d. DOMAIN list = 1..Len(list) /\ Len(list) \in Nat
    OBVIOUS
  <1>1. IsFiniteSet(K) /\ 0 \notin K /\ \A j \in K : j \in Nat /\ j <= Len(list)
    <2>1. IsFiniteSet(1..Len(list))
      BY <1>d, FS_Interval
    <2>2. IsFiniteSet(K)
      BY <1>d, <2>1, FS_Subset
    <2> QED
      BY <1>d, <2>2
  <1>2. c \in Nat
    BY <1>1, CountUpTo
  <1>3. ASSUME NEW n \in 1..c
        PROVE  at[n] \in K /\ Cardinality(UpTo(K, at[n])) = n
    <2>1. \E i \in K : Cardinality(UpTo(K, i)) = n
      BY <1>d, <1>1, CountIsTaken
    <2>2. at[n] = CHOOSE i \in K : Cardinality(UpTo(K, i)) = n
      BY DEF UpTo
    <2> HIDE DEF at
    <2> QED
      BY <2>1, <2>2
  <1>4. Kept(list, K) = [n \in 1..c |-> list[at[n]]]
    BY DEF Kept
  <1>5. \A i \in K : Cardinality(UpTo(K, i)) \in 1..c
    <2> SUFFICES ASSUME NEW i \in K
                 PROVE  Cardinality(UpTo(K, i)) \in 1..c
      OBVIOUS
    <2>1. i \in Nat /\ Cardinality(UpTo(K, i)) \in Nat /\ IsFiniteSet(UpTo(K, i))
      BY <1>1, CountUpTo
    <2>2. UpTo(K, i) \subseteq K /\ i \in UpTo(K, i)
      BY <1>1, <2>1, UpToNext
    <2>3. Cardinality(UpTo(K, i)) <= c
      BY <1>1, <2>2, FS_Subset
    <2>4. Cardinality(UpTo(K, i)) # 0
      BY <2>1, <2>2, FS_EmptySet
    <2> QED
      BY <1>2, <2>1, <2>3, <2>4
  <1>6. \A i, j \in K : Cardinality(UpTo(K, i)) = Cardinality(UpTo(K, j)) => i = j
    <2> SUFFICES ASSUME NEW i \in K, NEW j \in K,
                        Cardinality(UpTo(K, i)) = Cardinality(UpTo(K, j)), i # j
                 PROVE  FALSE
      OBVIOUS
    <2>1. i \in Nat /\ j \in Nat /\ (i < j \/ j < i)
      BY <1>1
    <2>2. Cardinality(UpTo(K, i)) \in Nat
      BY <1>2, <1>5
    <2>3. CASE i < j
      BY <1>1, <2>2, <2>3, CountGrows
    <2>4. CASE j < i
      BY <1>1, <2>2, <2>4, CountGrows
    <2> QED
      BY <2>1, <2>3, <2>4
  <1> HIDE DEF at
  <1>7. at \in [1..c -> K]
    BY <1>3 DEF at
  <1>8. \A n, l \in 1..c : at[n] = at[l] => n = l
    BY <1>3
  <1>9. \A i \in K : \E n \in 1..c : at[n] = i
    BY <1>3, <1>5, <1>6
  <1>10. Kept(list, K) \in Seq(S) /\ DOMAIN Kept(list, K) = 1..c
    <2>1. \A n \in 1..c : list[at[n]] \in S
      BY <1>1, <1>7
    <2> QED
      BY <1>2, <1>4, <2>1
  <1> QED
    BY <1>2, <1>4, <1>7, <1>8, <1>9, <1>10

(* A run of a loop stays where its rounds keep it. *)
LEMMA LoopStays ==
    ASSUME NEW V, NEW n \in Nat, NEW g, g[0] \in V,
           \A i \in 1..n : g[i - 1] \in V => g[i] \in V
    PROVE  \A i \in 0..n : g[i] \in V
  <1> DEFINE S == {m \in Nat : m <= n => g[m] \in V}
  <1>1. 0 \in S
    OBVIOUS
  <1>2. ASSUME NEW m \in Nat, m \in S
        PROVE  m + 1 \in S
    <2> SUFFICES ASSUME m + 1 <= n
                 PROVE  g[m + 1] \in V
      OBVIOUS
    <2>1. g[m] \in V
      BY <1>2
    <2>2. m + 1 \in 1..n /\ (m + 1) - 1 = m
      OBVIOUS
    <2> QED
      BY <2>1, <2>2
  <1> HIDE DEF S
  <1>3. \A m \in Nat : m \in S
    BY <1>1, <1>2, Induction
  <1> QED
    BY <1>3 DEF S

-----------------------------------------------------------------------------
(* Lists of things at places.                                              *)

(* no two elements are at one place *)
Unique(list) == \A i, j \in DOMAIN list : list[i].place = list[j].place => i = j

(* What is kept of a list without doubles has none. *)
LEMMA KeptIsUnique ==
    ASSUME NEW S, NEW list \in Seq(S), NEW K, K \subseteq DOMAIN list, Unique(list)
    PROVE  Unique(Kept(list, K))
  <1>1. PICK at \in [1..Cardinality(K) -> K] :
            /\ \A n \in 1..Cardinality(K) : Kept(list, K)[n] = list[at[n]]
            /\ \A n, l \in 1..Cardinality(K) : at[n] = at[l] => n = l
    BY KeptIs
  <1>2. DOMAIN Kept(list, K) = 1..Cardinality(K)
    BY KeptIs
  <1> QED
    BY <1>1, <1>2 DEF Unique

(* r has no second element at a place where list has one at most           *)
OneAsBefore(list, r) == \A p \in Places : OneTrack(list, p) => OneTrack(r, p)

(* What is kept of a list has no second element where it had none.         *)
LEMMA KeptIsOne ==
    ASSUME NEW S, NEW list \in Seq(S), NEW K, K \subseteq DOMAIN list
    PROVE  OneAsBefore(list, Kept(list, K))
  <1>1. PICK at \in [1..Cardinality(K) -> K] :
            /\ \A n \in 1..Cardinality(K) : Kept(list, K)[n] = list[at[n]]
            /\ \A n, l \in 1..Cardinality(K) : at[n] = at[l] => n = l
    BY KeptIs
  <1>2. DOMAIN Kept(list, K) = 1..Cardinality(K)
    BY KeptIs
  <1> QED
    BY <1>1, <1>2 DEF OneAsBefore, OneTrack

(* The loop that removes: all that is left was not bad or was passed over, *)
(* and of a single bad element nothing is left.                            *)
LEMMA LeftOfIs ==
    ASSUME NEW S, NEW list \in Seq(S), NEW bad, bad \subseteq DOMAIN list
    PROVE  \E K \in SUBSET DOMAIN list :
               /\ LeftOf(list, bad) = Kept(list, K)
               /\ (\A i, j \in bad : i = j) => K = DOMAIN list \ bad
  <1> DEFINE n == Len(list)
             F == CHOOSE g : g = [i \in 0..n |-> i \in bad /\ ~g[i - 1]]
             K == {i \in DOMAIN list : ~F[i]}
  <1>1. LeftOf(list, bad) = Kept(list, K)
    BY DEF LeftOf
  <1>2. n \in Nat /\ DOMAIN list = 1..n
    OBVIOUS
  <1>3. \A i \in bad : i \in 1..n
    BY <1>2
  <1>4. F = [i \in 0..n |-> i \in bad /\ ~F[i - 1]]
    <2> DEFINE V == BOOLEAN
               base == FALSE
               step == [i \in 1..n |-> [x \in V |-> i \in bad /\ ~x]]
    <2>1. step \in [1..n -> [V -> V]]
      OBVIOUS
    <2>2. base \in V
      OBVIOUS
    <2>n. n \in Nat
      BY <1>2
    <2> HIDE DEF step, n, V, base
    <2>r. Runs(V, base, n, step) # {}
      BY <2>n, <2>1, <2>2, LoopRuns, Zenon
    <2>3. PICK f \in [0..n -> V] : f[0] = base /\ \A i \in 1..n : f[i] = step[i][f[i - 1]]
      BY <2>r DEF Runs
    <2>4. \A i \in 1..n : i - 1 \in 0..n
      BY <1>2
    <2>5. \A i \in 1..n : f[i] = (i \in bad /\ ~f[i - 1])
      BY <2>3, <2>4 DEF step, V
    <2>6. \A i \in 0..n : i = 0 \/ i \in 1..n
      BY <1>2
    <2>7. \A i \in 0..n : f[i] = (i \in bad /\ ~f[i - 1])
      <3>1. 0 \notin bad
        BY <1>2, <1>3
      <3> QED
        BY <2>3, <2>5, <2>6, <3>1 DEF base
    <2>8. f = [i \in 0..n |-> i \in bad /\ ~f[i - 1]]
      BY <2>3, <2>7
    <2> QED
      BY <2>8
  <1> HIDE DEF F
  <1>5. \A i \in 1..n : F[i] <=> i \in bad /\ ~F[i - 1]
    BY <1>2, <1>4
  <1>6. ASSUME \A i, j \in bad : i = j
        PROVE  K = DOMAIN list \ bad
    <2>1. ASSUME NEW i \in bad
          PROVE  F[i]
      <3>1. i \in 1..n /\ i - 1 \in 0..n /\ i - 1 # i
        BY <1>2, <1>3
      <3>2. i - 1 \notin bad
        BY <1>6, <3>1
      <3>3. ~F[i - 1]
        BY <1>4, <3>1, <3>2
      <3> QED
        BY <1>5, <3>1, <3>3
    <2> QED
      BY <1>2, <1>5, <2>1
  <1>7. K \in SUBSET DOMAIN list
    OBVIOUS
  <1> HIDE DEF K
  <1> QED
    BY <1>1, <1>6, <1>7

-----------------------------------------------------------------------------
(* CVisionClient::parse                                                    *)

(* The lists of sightings that a camera keeps.                             *)
Lists(kind) == {x \in Seq(Sightings(kind)) : Unique(x)}
(* What may be seen of a kind.                                             *)
WhoFor(kind) == IF kind = "ball" THEN {"ball"} ELSE Colors

(* An element at a new place leaves a list without doubles. *)
LEMMA AppendIsUnique ==
    ASSUME NEW S, NEW list \in Seq(S), Unique(list), NEW e,
           \A i \in DOMAIN list : list[i].place # e.place
    PROVE  Unique(Append(list, e))
  <1> DEFINE a == Append(list, e)
             l == Len(list) + 1
  <1>1. Len(list) \in Nat /\ DOMAIN list = 1..Len(list) /\ DOMAIN a = 1..l
    OBVIOUS
  <1>2. \A i \in DOMAIN list : a[i] = list[i]
    OBVIOUS
  <1>3. a[l] = e
    OBVIOUS
  <1>4. \A i \in DOMAIN a : i = l \/ i \in DOMAIN list
    BY <1>1
  <1> HIDE DEF a, l
  <1>5. \A i, j \in DOMAIN a : a[i].place = a[j].place => i = j
    BY <1>2, <1>3, <1>4 DEF Unique
  <1> QED
    BY <1>5 DEF Unique, a

(* A sighting takes the place of one where it is. *)
LEMMA SightKeepsLists ==
    ASSUME NEW kind \in Kinds, NEW list \in Lists(kind), BallAge \in Nat, RobotAge \in Nat,
           NEW w \in WhoFor(kind), NEW place \in Places
    PROVE  Sight(list, kind, w, place) \in Lists(kind)
  <1> DEFINE bad == {i \in DOMAIN list : list[i].place = place}
             e == [place |-> place, who |-> w, age |-> 0]
             left == LeftOf(list, bad)
  <1>1. list \in Seq(Sightings(kind)) /\ Unique(list)
    BY DEF Lists
  <1>2. \A i, j \in bad : i = j
    BY <1>1 DEF Unique
  <1>3. PICK K \in SUBSET DOMAIN list : left = Kept(list, K) /\ K = DOMAIN list \ bad
    BY <1>1, <1>2, LeftOfIs
  <1>4. e \in Sightings(kind)
    BY DEF Sightings, WhoFor, Age
  <1>5. left \in Seq(Sightings(kind)) /\ Unique(left)
    BY <1>1, <1>3, KeptIs, KeptIsUnique
  <1>6. \A n \in DOMAIN left : left[n].place # place
    <2>1. PICK at \in [1..Cardinality(K) -> K] :
              \A n \in 1..Cardinality(K) : Kept(list, K)[n] = list[at[n]]
      BY <1>1, KeptIs
    <2>2. DOMAIN left = 1..Cardinality(K)
      BY <1>1, <1>3, KeptIs
    <2>3. \A i \in K : list[i].place # place
      BY <1>3
    <2> QED
      BY <1>3, <2>1, <2>2, <2>3
  <1>7. e.place = place
    OBVIOUS
  <1>8. Sight(list, kind, w, place) \in {list, Append(left, e)}
    BY DEF Sight
  <1> HIDE DEF left, e
  <1>9. Append(left, e) \in Seq(Sightings(kind))
    BY <1>4, <1>5
  <1>10. Unique(Append(left, e))
    BY <1>5, <1>6, <1>7, AppendIsUnique
  <1> QED
    BY <1>8, <1>9, <1>10 DEF Lists

(* And so does each of a packet's. *)
LEMMA SightAllKeepsLists ==
    ASSUME NEW kind \in Kinds, NEW list \in Lists(kind), BallAge \in Nat, RobotAge \in Nat,
           NEW w \in WhoFor(kind), NEW places \in Seq(Places)
    PROVE  SightAll(list, kind, w, places) \in Lists(kind)
  <1> DEFINE n == Len(places)
             V == Lists(kind)
             step == [i \in 1..n |-> [x \in V |-> Sight(x, kind, w, places[i])]]
             F == CHOOSE g : g = [i \in 0..n |-> IF i = 0 THEN list
                                                 ELSE Sight(g[i - 1], kind, w, places[i])]
  <1>1. n \in Nat /\ \A i \in 1..n : places[i] \in Places
    OBVIOUS
  <1>2. \A i \in 1..n, x \in V : Sight(x, kind, w, places[i]) \in V
    BY <1>1, SightKeepsLists
  <1>3. SightAll(list, kind, w, places) = F[n]
    BY DEF SightAll
  <1>n. n \in Nat
    BY <1>1
  <1> HIDE DEF n, V
  <1>4. step \in [1..n -> [V -> V]]
    BY <1>2
  <1>5. list \in V
    BY DEF V
  <1> HIDE DEF step
  <1>r. Runs(V, list, n, step) # {}
    BY <1>n, <1>4, <1>5, LoopRuns, Zenon
  <1>6. PICK f \in [0..n -> V] : f[0] = list /\ \A i \in 1..n : f[i] = step[i][f[i - 1]]
    BY <1>r DEF Runs
  <1>7. \A i \in 1..n : i - 1 \in 0..n /\ i # 0
    BY <1>1
  <1>8. \A i \in 1..n : f[i] = Sight(f[i - 1], kind, w, places[i])
    BY <1>6, <1>7 DEF step
  <1>9. \A i \in 0..n : i = 0 \/ i \in 1..n
    BY <1>1
  <1>10. f = [i \in 0..n |-> IF i = 0 THEN list ELSE Sight(f[i - 1], kind, w, places[i])]
    BY <1>6, <1>7, <1>8, <1>9
  <1>11. F = [i \in 0..n |-> IF i = 0 THEN list ELSE Sight(F[i - 1], kind, w, places[i])]
    BY <1>10
  <1> HIDE DEF F
  <1>12. F[0] \in V /\ \A i \in 1..n : F[i] = Sight(F[i - 1], kind, w, places[i])
    BY <1>1, <1>5, <1>7, <1>11
  <1>13. \A i \in 1..n : F[i - 1] \in V => F[i] \in V
    BY <1>2, <1>12
  <1>14. \A i \in 0..n : F[i] \in V
    BY <1>1, <1>12, <1>13, LoopStays, Zenon
  <1> QED
    BY <1>1, <1>3, <1>14 DEF V

(* A frame later the sightings are the same, and older. *)
LEMMA OlderKeepsLists ==
    ASSUME BallAge \in Nat, RobotAge \in Nat, NEW kind \in Kinds, NEW list \in Lists(kind)
    PROVE  Older(list, kind) \in Lists(kind)
  <1> DEFINE o == Older(list, kind)
             n == Len(list)
             a == Age(kind)
  <1>1. list \in Seq(Sightings(kind)) /\ Unique(list)
    BY DEF Lists
  <1>2. n \in Nat /\ DOMAIN list = 1..n /\ \A i \in 1..n : list[i] \in Sightings(kind)
    BY <1>1
  <1>3. a \in Nat
    BY DEF Age
  <1>4. \A i \in 1..n : list[i].age \in 0..(a + 1)
    BY <1>2 DEF Sightings
  <1>5. \A i \in 1..n :
            [list[i] EXCEPT !.age = IF @ > a THEN @ ELSE @ + 1]
                = [list[i] EXCEPT !.age = IF list[i].age > a THEN list[i].age ELSE list[i].age + 1]
    OBVIOUS
  <1>6. o = [i \in 1..n |-> [list[i] EXCEPT !.age = IF list[i].age > a THEN list[i].age
                                                    ELSE list[i].age + 1]]
    BY <1>2 DEF Older
  <1> HIDE DEF o, a
  <1>7. \A i \in 1..n : (IF list[i].age > a THEN list[i].age ELSE list[i].age + 1) \in 0..(a + 1)
    BY <1>3, <1>4
  <1>8. \A i \in 1..n : o[i] \in Sightings(kind) /\ o[i].place = list[i].place
    BY <1>2, <1>6, <1>7 DEF Sightings, a
  <1>9. DOMAIN o = 1..n /\ o \in Seq(Sightings(kind))
    BY <1>2, <1>6, <1>8
  <1>10. Unique(o)
    BY <1>1, <1>2, <1>8, <1>9 DEF Unique
  <1> QED
    BY <1>9, <1>10 DEF Lists, o

(* The old ones are removed, by the loop that passes over some. *)
LEMMA RecentKeepsLists ==
    ASSUME NEW kind \in Kinds, NEW list \in Lists(kind)
    PROVE  Recent(list, kind) \in Lists(kind)
  <1> DEFINE bad == {i \in DOMAIN list : list[i].age > Age(kind)}
  <1>1. list \in Seq(Sightings(kind)) /\ Unique(list)
    BY DEF Lists
  <1>2. PICK K \in SUBSET DOMAIN list : LeftOf(list, bad) = Kept(list, K)
    BY <1>1, LeftOfIs
  <1>3. Recent(list, kind) = Kept(list, K)
    BY <1>2 DEF Recent
  <1>4. Kept(list, K) \in Seq(Sightings(kind)) /\ Unique(Kept(list, K))
    BY <1>1, KeptIs, KeptIsUnique
  <1> QED
    BY <1>3, <1>4 DEF Lists

(* What a packet tells of each thing is a sequence of places. *)
LEMMA ReportsArePlaces ==
    ASSUME VisionAssumption, field \in [Things -> SUBSET Places], NEW saw \in Reports
    PROVE  \A w \in Things : saw[w] \in Seq(Places)
  <1> SUFFICES ASSUME NEW w \in Things
               PROVE  saw[w] \in Seq(Places)
    OBVIOUS
  <1>1. saw[w] \in Orders(field[w])
    BY DEF Reports
  <1>2. PICK n \in 0..Cardinality(field[w]) : saw[w] \in [1..n -> field[w]]
    BY <1>1 DEF Orders
  <1>3. IsFiniteSet(Places)
    BY FS_Union DEF VisionAssumption, Places
  <1>4. field[w] \subseteq Places
    OBVIOUS
  <1>5. Cardinality(field[w]) \in Nat
    BY <1>3, <1>4, FS_Subset, FS_CardinalityType
  <1>6. n \in Nat
    BY <1>5
  <1> QED
    BY <1>2, <1>4, <1>6

(* The sightings of the cameras, typed and without doubles. *)
Views ==
    [Cameras -> {lists \in [Kinds -> UNION {Seq(Sightings(k)) : k \in Kinds}] :
                    \A k \in Kinds : lists[k] \in Lists(k)}]

(* A packet leaves them so. *)
LEMMA ParseKeepsViews ==
    ASSUME VisionAssumption, field \in [Things -> SUBSET Places], v \in Views,
           NEW c \in Cameras, NEW saw \in Reports, NEW b \in Teams \cup {None}, Parse(c, saw, b)
    PROVE  v' \in Views
  <1> DEFINE U == UNION {Seq(Sightings(k)) : k \in Kinds}
             W == {lists \in [Kinds -> U] : \A k \in Kinds : lists[k] \in Lists(k)}
             aged == [d \in Cameras |-> [k \in Kinds |-> Older(v[d][k], k)]]
             kept == [k \in Kinds |-> Recent(aged[c][k], k)]
             withBall == [kept EXCEPT !["ball"] = SightAll(@, "ball", "ball", saw["ball"])]
             y == IF b = "our" THEN "opp" ELSE "our"
             all == [withBall EXCEPT ![b] = SightAll(@, b, "BLUE", saw["BLUE"]),
                                     ![y] = SightAll(@, y, "YELLOW", saw["YELLOW"])]
  <1>a. BallAge \in Nat /\ RobotAge \in Nat
    BY DEF VisionAssumption
  <1>b. Kinds = {"our", "opp", "ball"} /\ Teams = {"our", "opp"}
    BY DEF Kinds, Teams
  <1>c. \A w \in Things : saw[w] \in Seq(Places)
    BY ReportsArePlaces
  <1>d. Views = [Cameras -> W]
    BY DEF Views
  <1>e. \A k \in Kinds : \A x \in Lists(k) : x \in U
    BY DEF Lists
  <1>1. v' = [aged EXCEPT ![c] = IF b = None THEN withBall ELSE WithRobots(withBall, saw, b)]
    BY DEF Parse
  <1>2. WithRobots(withBall, saw, b) = all
    BY DEF WithRobots
  <1> HIDE DEF U
  <1>3. \A d \in Cameras, k \in Kinds : Older(v[d][k], k) \in Lists(k)
    <2>1. \A d \in Cameras, k \in Kinds : v[d][k] \in Lists(k)
      BY <1>d
    <2> QED
      BY <1>a, <2>1, OlderKeepsLists
  <1>4. aged \in [Cameras -> W]
    BY <1>3, <1>e
  <1>5. \A k \in Kinds : kept[k] \in Lists(k)
    <2>1. \A k \in Kinds : aged[c][k] \in Lists(k)
      BY <1>3
    <2> HIDE DEF aged
    <2> QED
      BY <2>1, RecentKeepsLists
  <1>6. kept \in W
    BY <1>5, <1>e
  <1> HIDE DEF aged, kept
  <1>7. withBall \in W
    <2> DEFINE x == SightAll(kept["ball"], "ball", "ball", saw["ball"])
    <2>1. kept["ball"] \in Lists("ball") /\ saw["ball"] \in Seq(Places)
      BY <1>5, <1>b, <1>c DEF Things
    <2>2. x \in Lists("ball")
      BY <1>a, <1>b, <2>1, SightAllKeepsLists DEF WhoFor
    <2>3. withBall = [kept EXCEPT !["ball"] = x]
      OBVIOUS
    <2> HIDE DEF x, withBall
    <2> QED
      BY <1>6, <1>b, <1>e, <2>2, <2>3
  <1> HIDE DEF withBall
  <1>8. ASSUME b \in Teams
        PROVE  all \in W
    <2> DEFINE p == SightAll(withBall[b], b, "BLUE", saw["BLUE"])
               q == SightAll(withBall[y], y, "YELLOW", saw["YELLOW"])
    <2>1. y \in Teams /\ y # b /\ b \in Kinds /\ y \in Kinds /\ b # "ball" /\ y # "ball"
      BY <1>8, <1>b
    <2>2. withBall[b] \in Lists(b) /\ withBall[y] \in Lists(y)
      BY <1>7, <2>1
    <2>3. saw["BLUE"] \in Seq(Places) /\ saw["YELLOW"] \in Seq(Places)
      BY <1>c DEF Things, Colors
    <2>4. "BLUE" \in WhoFor(b) /\ "YELLOW" \in WhoFor(y)
      BY <2>1 DEF WhoFor, Colors
    <2>5. p \in Lists(b)
      BY <1>a, <2>1, <2>2, <2>3, <2>4, SightAllKeepsLists
    <2>6. q \in Lists(y)
      BY <1>a, <2>1, <2>2, <2>3, <2>4, SightAllKeepsLists
    <2>7. all = [withBall EXCEPT ![b] = p, ![y] = q]
      BY <1>7, <2>1
    <2> HIDE DEF p, q, y, all
    <2> QED
      BY <1>7, <1>e, <2>1, <2>5, <2>6, <2>7
  <1>9. (IF b = None THEN withBall ELSE WithRobots(withBall, saw, b)) \in W
    BY <1>2, <1>7, <1>8
  <1> QED
    BY <1>1, <1>4, <1>9, <1>d

-----------------------------------------------------------------------------
(* CVisionClient::merge                                                    *)

(* An invariant of a run of a loop, one set of values for each round. *)
LEMMA LoopKeeps ==
    ASSUME NEW n \in Nat, NEW g, NEW J, g[0] \in J[0],
           \A i \in 1..n : g[i - 1] \in J[i - 1] => g[i] \in J[i]
    PROVE  g[n] \in J[n]
  <1> DEFINE S == {m \in Nat : m <= n => g[m] \in J[m]}
  <1>1. 0 \in S
    OBVIOUS
  <1>2. ASSUME NEW m \in Nat, m \in S
        PROVE  m + 1 \in S
    <2> SUFFICES ASSUME m + 1 <= n
                 PROVE  g[m + 1] \in J[m + 1]
      OBVIOUS
    <2>1. g[m] \in J[m]
      BY <1>2
    <2>2. m + 1 \in 1..n /\ (m + 1) - 1 = m
      OBVIOUS
    <2> QED
      BY <2>1, <2>2
  <1> HIDE DEF S
  <1>3. \A m \in Nat : m \in S
    BY <1>1, <1>2, Induction
  <1> QED
    BY <1>3 DEF S

(* The results of merging.                                                 *)
MergedSightings(kind) == [place : Places, who : WhoFor(kind), summed : BOOLEAN]

(* a round of merge's inner loop *)
JoinRound(list, e) ==
    LET agree == {i \in DOMAIN list : /\ list[i].place = e.place
                                      /\ ~list[i].summed}
    IN  IF agree = {}
        THEN Append(list, [place |-> e.place, who |-> e.who, summed |-> FALSE])
        ELSE [i \in DOMAIN list |-> [list[i] EXCEPT !.summed = @ \/ i \in agree]]

(* A round makes a list of merged sightings one. *)
LEMMA JoinRoundType ==
    ASSUME NEW kind \in Kinds, NEW list \in Seq(MergedSightings(kind)),
           NEW e \in Sightings(kind)
    PROVE  JoinRound(list, e) \in Seq(MergedSightings(kind))
  <1> DEFINE agree == {i \in DOMAIN list : list[i].place = e.place /\ ~list[i].summed}
             new == [place |-> e.place, who |-> e.who, summed |-> FALSE]
             same == [i \in DOMAIN list |-> [list[i] EXCEPT !.summed = @ \/ i \in agree]]
             M == MergedSightings(kind)
  <1>1. JoinRound(list, e) = IF agree = {} THEN Append(list, new) ELSE same
    BY DEF JoinRound
  <1>2. new \in M
    BY DEF MergedSightings, Sightings, WhoFor
  <1>3. Append(list, new) \in Seq(M)
    BY <1>2
  <1>4. same \in Seq(M)
    <2>1. \A i \in DOMAIN list : list[i] \in M
      OBVIOUS
    <2>2. ASSUME NEW i \in DOMAIN list
          PROVE  same[i] \in M
      <3>1. same[i] = [list[i] EXCEPT !.summed = list[i].summed \/ i \in agree]
        OBVIOUS
      <3>2. (list[i].summed \/ i \in agree) \in BOOLEAN
        OBVIOUS
      <3> HIDE DEF same, agree
      <3> QED
        BY <2>1, <3>1, <3>2 DEF MergedSightings
    <2>3. same = [i \in 1..Len(list) |-> same[i]] /\ Len(list) \in Nat /\ DOMAIN list = 1..Len(list)
      OBVIOUS
    <2> HIDE DEF same, M
    <2> QED
      BY <2>2, <2>3
  <1> QED
    BY <1>1, <1>3, <1>4

(* Joining the sightings of a camera is a run of these rounds. *)
LEMMA JoinedIs ==
    ASSUME NEW kind \in Kinds, NEW list \in Seq(MergedSightings(kind)),
           NEW more \in Seq(Sightings(kind))
    PROVE  \E F \in [0..Len(more) -> Seq(MergedSightings(kind))] :
               /\ Joined(list, more) = F[Len(more)]
               /\ F[0] = list
               /\ \A i \in 1..Len(more) : F[i] = JoinRound(F[i - 1], more[i])
  <1> DEFINE n == Len(more)
             V == Seq(MergedSightings(kind))
             step == [i \in 1..n |-> [x \in V |-> JoinRound(x, more[i])]]
             F == CHOOSE g : g = [i \in 0..n |-> IF i = 0 THEN list
                                                 ELSE JoinRound(g[i - 1], more[i])]
  <1>1. n \in Nat /\ \A i \in 1..n : more[i] \in Sightings(kind)
    OBVIOUS
  <1>2. \A i \in 1..n, x \in V : JoinRound(x, more[i]) \in V
    BY <1>1, JoinRoundType
  <1>3. Joined(list, more) = F[n]
    BY DEF Joined, JoinRound
  <1>n. n \in Nat
    BY <1>1
  <1>m. n = Len(more)
    OBVIOUS
  <1>5. list \in V
    OBVIOUS
  <1> HIDE DEF n, V
  <1>4. step \in [1..n -> [V -> V]]
    BY <1>2
  <1> HIDE DEF step
  <1>r. Runs(V, list, n, step) # {}
    BY <1>n, <1>4, <1>5, LoopRuns, Zenon
  <1>6. PICK f \in [0..n -> V] : f[0] = list /\ \A i \in 1..n : f[i] = step[i][f[i - 1]]
    BY <1>r DEF Runs
  <1>7. \A i \in 1..n : i - 1 \in 0..n /\ i # 0
    BY <1>1
  <1>8. \A i \in 1..n : f[i] = JoinRound(f[i - 1], more[i])
    BY <1>6, <1>7 DEF step
  <1>9. \A i \in 0..n : i = 0 \/ i \in 1..n
    BY <1>1
  <1>10. f = [i \in 0..n |-> IF i = 0 THEN list ELSE JoinRound(f[i - 1], more[i])]
    BY <1>6, <1>7, <1>8, <1>9
  <1>11. F = [i \in 0..n |-> IF i = 0 THEN list ELSE JoinRound(F[i - 1], more[i])]
    BY <1>10
  <1> HIDE DEF F
  <1>12. F[0] = list /\ \A i \in 1..n : F[i] = JoinRound(F[i - 1], more[i])
    BY <1>1, <1>5, <1>7, <1>11
  <1>13. \A i \in 1..n : F[i - 1] \in V => F[i] \in V
    BY <1>2, <1>12
  <1>14. \A i \in 0..n : F[i] \in V
    BY <1>n, <1>5, <1>12, <1>13, LoopStays, Zenon
  <1>15. F \in [0..n -> V]
    BY <1>11, <1>14
  <1> QED
    BY <1>3, <1>12, <1>15, <1>m DEF V

(* how a ball that k cameras have told of lies at p in merged sightings:   *)
(* nowhere, once and not summed, once; of more nothing is said             *)
ToldBy(x, p, k) ==
    /\ k = 0 => \A i \in DOMAIN x : x[i].place # p
    /\ k = 1 => OneTrack(x, p) /\ \A i \in DOMAIN x : x[i].place = p => ~x[i].summed
    /\ k = 2 => OneTrack(x, p)

(* A round that joins a sighting at p counts, any other does not.          *)
LEMMA JoinRoundCounts ==
    ASSUME NEW kind \in Kinds, NEW x \in Seq(MergedSightings(kind)), NEW e \in Sightings(kind),
           NEW p, NEW k \in Nat, ToldBy(x, p, k)
    PROVE  ToldBy(JoinRound(x, e), p, IF e.place = p THEN k + 1 ELSE k)
  <1> DEFINE r == JoinRound(x, e)
             agree == {i \in DOMAIN x : x[i].place = e.place /\ ~x[i].summed}
             new == [place |-> e.place, who |-> e.who, summed |-> FALSE]
             Once(y) == OneTrack(y, p) /\ \A i \in DOMAIN y : y[i].place = p => ~y[i].summed
  <1>d. DOMAIN x = 1..Len(x) /\ Len(x) \in Nat /\ \A i \in DOMAIN x : x[i] \in MergedSightings(kind)
    OBVIOUS
  <1>n. new.place = e.place /\ new.summed = FALSE
    OBVIOUS
  <1>k. ~(k + 1 = 0) /\ (k + 1 = 1 => k = 0) /\ (k + 1 = 2 => k = 1)
    OBVIOUS
  <1>q. /\ e.place = p /\ ToldBy(r, p, k + 1) => ToldBy(r, p, IF e.place = p THEN k + 1 ELSE k)
        /\ e.place # p /\ ToldBy(r, p, k) => ToldBy(r, p, IF e.place = p THEN k + 1 ELSE k)
    <2> HIDE DEF r
    <2> QED
      BY Zenon
  <1>1. CASE agree = {}
    <2>1. r = Append(x, new)
      BY <1>1 DEF JoinRound
    <2> HIDE DEF r, new
    <2>2. /\ DOMAIN r = 1..(Len(x) + 1) /\ r[Len(x) + 1] = new
          /\ \A i \in DOMAIN x : r[i] = x[i] /\ i # Len(x) + 1
          /\ \A i \in DOMAIN r : i \in DOMAIN x \/ i = Len(x) + 1
      BY <1>d, <2>1
    <2>3. CASE e.place = p
      <3>1. \A i \in DOMAIN x : x[i].place = p => x[i].summed
        BY <1>1, <2>3
      <3>2. k = 0 \/ k = 1 => \A i \in DOMAIN x : x[i].place # p
        BY <3>1 DEF ToldBy
      <3>3. k = 0 \/ k = 1 => Once(r)
        BY <1>n, <2>2, <3>2 DEF OneTrack
      <3>4. ToldBy(r, p, k + 1)
        BY <1>k, <3>3 DEF ToldBy
      <3> QED
        BY <1>q, <2>3, <3>4 DEF r
    <2>4. CASE e.place # p
      <3>1. new.place # p
        BY <1>n, <2>4
      <3>2. \A i \in DOMAIN r : r[i].place = p => i \in DOMAIN x /\ r[i] = x[i]
        BY <2>2, <3>1
      <3>3. OneTrack(x, p) => OneTrack(r, p)
        BY <3>2 DEF OneTrack
      <3>4. ToldBy(r, p, k)
        BY <3>2, <3>3 DEF ToldBy
      <3> QED
        BY <1>q, <2>4, <3>4 DEF r
    <2> QED
      BY <2>3, <2>4
  <1>2. CASE agree # {}
    <2>1. r = [i \in DOMAIN x |-> [x[i] EXCEPT !.summed = @ \/ i \in agree]]
      BY <1>2 DEF JoinRound
    <2>2. /\ DOMAIN r = DOMAIN x
          /\ \A i \in DOMAIN x : r[i].place = x[i].place /\ r[i].summed = (x[i].summed \/ i \in agree)
      BY <1>d, <2>1 DEF MergedSightings
    <2>3. \A i \in agree : i \in DOMAIN x /\ x[i].place = e.place
      OBVIOUS
    <2> HIDE DEF r, agree
    <2>4. OneTrack(x, p) => OneTrack(r, p)
      BY <2>2 DEF OneTrack
    <2>5. CASE e.place = p
      <3>1. k # 0
        BY <1>2, <2>3, <2>5 DEF ToldBy
      <3>2. k = 1 => OneTrack(r, p)
        BY <2>4 DEF ToldBy
      <3>3. ToldBy(r, p, k + 1)
        BY <1>k, <3>1, <3>2 DEF ToldBy
      <3> QED
        BY <1>q, <2>5, <3>3 DEF r
    <2>6. CASE e.place # p
      <3>1. \A i \in DOMAIN x : x[i].place = p => i \notin agree
        BY <2>3, <2>6
      <3>2. ToldBy(r, p, k)
        BY <2>2, <2>4, <3>1 DEF ToldBy
      <3> QED
        BY <1>q, <2>6, <3>2 DEF r
    <2> QED
      BY <2>5, <2>6
  <1> QED
    BY <1>1, <1>2

(* some element of the list is at p *)
HasAt(list, p) == \E i \in DOMAIN list : list[i].place = p

(* A camera that tells of p counts once, since its list has no doubles.    *)
LEMMA JoinedCounts ==
    ASSUME NEW kind \in Kinds, NEW list \in Seq(MergedSightings(kind)), NEW more \in Lists(kind),
           NEW p, NEW k \in Nat, ToldBy(list, p, k)
    PROVE  ToldBy(Joined(list, more), p, IF HasAt(more, p) THEN k + 1 ELSE k)
  <1> DEFINE n == Len(more)
             V == Seq(MergedSightings(kind))
             Told1(m) == \E l \in 1..m : more[l].place = p
             J == [m \in 0..n |-> {x \in V : ToldBy(x, p, IF Told1(m) THEN k + 1 ELSE k)}]
  <1>1. more \in Seq(Sightings(kind)) /\ Unique(more)
    BY DEF Lists
  <1>2. n \in Nat /\ DOMAIN more = 1..n /\ \A i \in 1..n : more[i] \in Sightings(kind)
    BY <1>1
  <1>3. PICK F \in [0..n -> V] :
            /\ Joined(list, more) = F[n]
            /\ F[0] = list
            /\ \A i \in 1..n : F[i] = JoinRound(F[i - 1], more[i])
    BY <1>1, JoinedIs
  <1>4. F[0] \in J[0]
    <2>1. ~Told1(0) /\ 0 \in 0..n
      BY <1>2
    <2> QED
      BY <1>3, <2>1
  <1>5. ASSUME NEW m \in 1..n, F[m - 1] \in J[m - 1]
        PROVE  F[m] \in J[m]
    <2>1. m - 1 \in 0..n /\ m \in 0..n /\ m \in 1..m
      BY <1>2
    <2>2. F[m - 1] \in V /\ ToldBy(F[m - 1], p, IF Told1(m - 1) THEN k + 1 ELSE k)
      BY <1>5, <2>1
    <2>3. F[m] = JoinRound(F[m - 1], more[m]) /\ F[m] \in V
      BY <1>3, <2>1
    <2>4. \A l \in 1..(m - 1) : l \in 1..n /\ l \in 1..m /\ l # m
      BY <1>2
    <2>5. \A l \in 1..m : l \in 1..(m - 1) \/ l = m
      OBVIOUS
    <2>6. Told1(m) <=> Told1(m - 1) \/ more[m].place = p
      BY <2>1, <2>4, <2>5
    <2>7. more[m].place = p => ~Told1(m - 1)
      BY <1>1, <1>2, <2>4 DEF Unique
    <2> DEFINE j == IF Told1(m - 1) THEN k + 1 ELSE k
    <2>8. j \in Nat /\ ToldBy(F[m - 1], p, j)
      BY <2>2
    <2>9. (IF more[m].place = p THEN j + 1 ELSE j) = (IF Told1(m) THEN k + 1 ELSE k)
      BY <2>6, <2>7
    <2>10. more[m] \in Sightings(kind)
      BY <1>2
    <2> HIDE DEF j, Told1
    <2>11. ToldBy(JoinRound(F[m - 1], more[m]), p, IF more[m].place = p THEN j + 1 ELSE j)
      BY <2>2, <2>8, <2>10, JoinRoundCounts
    <2>12. ToldBy(F[m], p, IF Told1(m) THEN k + 1 ELSE k)
      BY <2>3, <2>9, <2>11
    <2> QED
      BY <2>1, <2>3, <2>12
  <1> HIDE DEF J
  <1>6. F[n] \in J[n]
    BY <1>2, <1>4, <1>5, LoopKeeps, Zenon
  <1>7. n \in 0..n
    BY <1>2
  <1>8. HasAt(more, p) <=> Told1(n)
    BY <1>2 DEF HasAt
  <1> QED
    BY <1>3, <1>6, <1>7, <1>8 DEF J

(* The cameras are a few, at least one. *)
LEMMA SomeCameras ==
    ASSUME VisionAssumption
    PROVE  Cardinality(Cameras) \in Nat /\ Cardinality(Cameras) > 0
  <1>1. IsFiniteSet(Cameras) /\ Cameras # {}
    BY DEF VisionAssumption
  <1>2. Cardinality(Cameras) \in Nat /\ Cardinality(Cameras) # 0
    BY <1>1, FS_CardinalityType, FS_EmptySet
  <1> QED
    BY <1>2

(* Merging is a run of these joins, one for each camera. *)
LEMMA MergedRuns ==
    ASSUME VisionAssumption, v \in Views, NEW kind \in Kinds
    PROVE  \E F \in [0..Cardinality(Cameras) -> Seq(MergedSightings(kind))] :
               /\ Merged(kind) = F[Cardinality(Cameras)]
               /\ F[0] = <<>>
               /\ \A i \in 1..Cardinality(Cameras) : F[i] = Joined(F[i - 1], v[i - 1][kind])
  <1> DEFINE n == Cardinality(Cameras)
             V == Seq(MergedSightings(kind))
             more == [i \in 1..n |-> v[i - 1][kind]]
             step == [i \in 1..n |-> [x \in V |-> Joined(x, more[i])]]
             F == CHOOSE g : g = [i \in 0..n |-> IF i = 0 THEN <<>>
                                                 ELSE Joined(g[i - 1], v[i - 1][kind])]
  <1>1. n \in Nat /\ n # 0 /\ \A i \in 1..n : i - 1 \in Cameras
    <2>1. IsFiniteSet(Cameras) /\ Cameras = 0..(n - 1) /\ Cameras # {}
      BY DEF VisionAssumption
    <2>2. n \in Nat
      BY <2>1, FS_CardinalityType
    <2>3. n # 0
      BY <2>1, FS_EmptySet
    <2> HIDE DEF n
    <2> QED
      BY <2>1, <2>2, <2>3
  <1>2. \A i \in 1..n : more[i] \in Lists(kind)
    BY <1>1 DEF Views
  <1>3. Merged(kind) = F[n]
    BY DEF Merged
  <1>4. \A i \in 1..n, x \in V : Joined(x, more[i]) \in V
    <2> SUFFICES ASSUME NEW i \in 1..n, NEW x \in V
                 PROVE  Joined(x, more[i]) \in V
      OBVIOUS
    <2>1. more[i] \in Seq(Sightings(kind))
      BY <1>2 DEF Lists
    <2> HIDE DEF more
    <2> DEFINE e == more[i]
    <2>x. x \in Seq(MergedSightings(kind)) /\ e \in Seq(Sightings(kind))
      BY <2>1
    <2> HIDE DEF V, e
    <2>2. PICK f \in [0..Len(e) -> Seq(MergedSightings(kind))] : Joined(x, e) = f[Len(e)]
      BY <2>x, JoinedIs
    <2>3. Len(e) \in 0..Len(e)
      BY <2>x
    <2> QED
      BY <2>2, <2>3 DEF V, e
  <1>n. n \in Nat
    BY <1>1
  <1>5. <<>> \in V
    OBVIOUS
  <1>v. \A i \in 1..n : v[i - 1][kind] = more[i]
    OBVIOUS
  <1>c. n = Cardinality(Cameras)
    OBVIOUS
  <1> HIDE DEF n, V, more
  <1>s. step \in [1..n -> [V -> V]]
    BY <1>4
  <1> HIDE DEF step
  <1>r. Runs(V, <<>>, n, step) # {}
    BY <1>n, <1>5, <1>s, LoopRuns, Zenon
  <1>6. PICK f \in [0..n -> V] : f[0] = <<>> /\ \A i \in 1..n : f[i] = step[i][f[i - 1]]
    BY <1>r DEF Runs
  <1>7. \A i \in 1..n : i - 1 \in 0..n /\ i # 0
    BY <1>1
  <1>8. \A i \in 1..n : f[i] = Joined(f[i - 1], v[i - 1][kind])
    BY <1>6, <1>7, <1>v DEF step
  <1>9. \A i \in 0..n : i = 0 \/ i \in 1..n
    BY <1>1
  <1>10. f = [i \in 0..n |-> IF i = 0 THEN <<>> ELSE Joined(f[i - 1], v[i - 1][kind])]
    BY <1>6, <1>7, <1>8, <1>9
  <1>11. F = [i \in 0..n |-> IF i = 0 THEN <<>> ELSE Joined(F[i - 1], v[i - 1][kind])]
    BY <1>10
  <1> HIDE DEF F
  <1>12. F[0] = <<>> /\ \A i \in 1..n : F[i] = Joined(F[i - 1], more[i])
    BY <1>1, <1>v, <1>7, <1>11
  <1>13. \A i \in 1..n : F[i - 1] \in V => F[i] \in V
    BY <1>4, <1>12
  <1>14. \A i \in 0..n : F[i] \in V
    BY <1>n, <1>5, <1>12, <1>13, LoopStays, Zenon
  <1>15. F \in [0..n -> V]
    BY <1>11, <1>14
  <1> QED
    BY <1>3, <1>v, <1>12, <1>15, <1>c DEF V

(* What the cameras saw of a kind, merged, is a list of sightings.         *)
LEMMA MergedIs ==
    ASSUME VisionAssumption, v \in Views, NEW kind \in Kinds
    PROVE  Merged(kind) \in Seq(MergedSightings(kind))
  <1> DEFINE n == Cardinality(Cameras)
  <1>1. PICK F \in [0..n -> Seq(MergedSightings(kind))] : Merged(kind) = F[n]
    BY MergedRuns
  <1>2. n \in 0..n
    BY SomeCameras
  <1> QED
    BY <1>1, <1>2

(* The cameras whose numbers are below m that see a ball at p. *)
SeersBelow(p, m) == {c \in Seers(p) : c < m}

(* The next camera is one of them or is not. *)
LEMMA SeersCounted ==
    ASSUME VisionAssumption, NEW p
    PROVE  /\ SeersBelow(p, 0) = {} /\ SeersBelow(p, Cardinality(Cameras)) = Seers(p)
           /\ \A m \in Nat : /\ IsFiniteSet(SeersBelow(p, m)) /\ Cardinality(SeersBelow(p, m)) \in Nat
                             /\ Cardinality(SeersBelow(p, m + 1)) =
                                   IF m \in Seers(p) THEN Cardinality(SeersBelow(p, m)) + 1
                                   ELSE Cardinality(SeersBelow(p, m))
  <1>1. IsFiniteSet(Cameras) /\ Cameras = 0..(Cardinality(Cameras) - 1)
    BY DEF VisionAssumption
  <1>2. Cardinality(Cameras) \in Nat
    BY SomeCameras
  <1>3. \A c \in Seers(p) : c \in Cameras /\ c \in Nat /\ c < Cardinality(Cameras) /\ ~(c < 0)
    <2>1. Seers(p) \subseteq Cameras
      BY DEF Seers
    <2> QED
      BY <1>1, <1>2, <2>1
  <1>4. SeersBelow(p, 0) = {} /\ SeersBelow(p, Cardinality(Cameras)) = Seers(p)
    BY <1>3 DEF SeersBelow
  <1>5. ASSUME NEW m \in Nat
        PROVE  /\ IsFiniteSet(SeersBelow(p, m)) /\ Cardinality(SeersBelow(p, m)) \in Nat
               /\ Cardinality(SeersBelow(p, m + 1)) =
                     IF m \in Seers(p) THEN Cardinality(SeersBelow(p, m)) + 1
                     ELSE Cardinality(SeersBelow(p, m))
    <2>1. SeersBelow(p, m) \subseteq Cameras
      BY <1>3 DEF SeersBelow
    <2>2. IsFiniteSet(SeersBelow(p, m)) /\ Cardinality(SeersBelow(p, m)) \in Nat
      BY <1>1, <2>1, FS_Subset, FS_CardinalityType
    <2>3. CASE m \in Seers(p)
      <3>n. \A c \in Seers(p) : c \in Nat
        BY <1>3
      <3>1. SeersBelow(p, m + 1) = SeersBelow(p, m) \cup {m} /\ m \notin SeersBelow(p, m)
        <4>1. \A c \in Seers(p) : c < m + 1 <=> c < m \/ c = m
          BY <3>n
        <4>2. ~(m < m)
          OBVIOUS
        <4> QED
          BY <2>3, <4>1, <4>2 DEF SeersBelow
      <3>2. Cardinality(SeersBelow(p, m) \cup {m}) = Cardinality(SeersBelow(p, m)) + 1
        BY <2>2, <3>1, FS_AddElement
      <3> QED
        BY <2>2, <2>3, <3>1, <3>2
    <2>4. CASE m \notin Seers(p)
      <3>1. SeersBelow(p, m + 1) = SeersBelow(p, m)
        BY <1>3, <2>4 DEF SeersBelow
      <3> QED
        BY <2>2, <2>4, <3>1
    <2> QED
      BY <2>2, <2>3, <2>4
  <1> QED
    BY <1>4, <1>5

(* Of a ball that two cameras see at most there is one merged sighting. Of *)
(* one that a third sees too there may be two: the sum of the first two    *)
(* does not agree with it.                                                 *)
LEMMA MergedOnce ==
    ASSUME VisionAssumption, v \in Views, NEW p, Cardinality(Seers(p)) <= 2
    PROVE  OneTrack(Merged("ball"), p)
  <1> DEFINE n == Cardinality(Cameras)
             V == Seq(MergedSightings("ball"))
             count(m) == Cardinality(SeersBelow(p, m))
             J == [m \in 0..n |-> {x \in V : ToldBy(x, p, count(m))}]
  <1>k. "ball" \in Kinds
    BY DEF Kinds
  <1>1. n \in Nat /\ \A i \in 1..n : i - 1 \in Cameras /\ i - 1 \in Nat /\ (i - 1) + 1 = i
                                 /\ i - 1 \in 0..n /\ i \in 0..n
    <2>1. Cameras = 0..(n - 1)
      BY DEF VisionAssumption
    <2>2. n \in Nat
      BY SomeCameras
    <2> HIDE DEF n
    <2> QED
      BY <2>1, <2>2
  <1>2. PICK F \in [0..n -> V] :
            /\ Merged("ball") = F[n] /\ F[0] = <<>>
            /\ \A i \in 1..n : F[i] = Joined(F[i - 1], v[i - 1]["ball"])
    BY <1>k, MergedRuns
  <1>3. \A m \in Nat : count(m) \in Nat
    BY SeersCounted
  <1>4. count(0) = 0
    BY SeersCounted, FS_EmptySet
  <1>5. ASSUME NEW m \in Nat
        PROVE  count(m + 1) = IF m \in Seers(p) THEN count(m) + 1 ELSE count(m)
    BY SeersCounted
  <1>6. count(n) = Cardinality(Seers(p))
    BY SeersCounted
  <1> HIDE DEF count, n
  <1>7. F[0] \in J[0]
    <2>1. ToldBy(<<>>, p, 0)
      BY DEF ToldBy
    <2>2. <<>> \in V /\ 0 \in 0..n
      BY <1>1
    <2> QED
      BY <1>2, <1>4, <2>1, <2>2
  <1>8. ASSUME NEW m \in 1..n, F[m - 1] \in J[m - 1]
        PROVE  F[m] \in J[m]
    <2> DEFINE c == m - 1
               more == v[c]["ball"]
    <2>1. c \in Cameras /\ c \in Nat /\ c + 1 = m /\ c \in 0..n /\ m \in 0..n
      BY <1>1
    <2>2. F[c] \in V /\ ToldBy(F[c], p, count(c)) /\ count(c) \in Nat
      BY <1>3, <1>8, <2>1
    <2>3. more \in Lists("ball")
      BY <1>k, <2>1 DEF Views
    <2>4. F[m] = Joined(F[c], more) /\ F[m] \in V
      BY <1>2, <2>1
    <2>5. c \in Seers(p) <=> HasAt(more, p)
      BY <2>1 DEF Seers, HasAt
    <2> HIDE DEF c, more, V
    <2>6. ToldBy(Joined(F[c], more), p, IF HasAt(more, p) THEN count(c) + 1 ELSE count(c))
      BY <1>k, <2>2, <2>3, JoinedCounts DEF V
    <2>7. count(m) = IF HasAt(more, p) THEN count(c) + 1 ELSE count(c)
      BY <1>5, <2>1, <2>5
    <2> QED
      BY <2>1, <2>4, <2>6, <2>7
  <1> HIDE DEF J, V
  <1>9. F[n] \in J[n]
    BY <1>1, <1>7, <1>8, LoopKeeps, Zenon
  <1>10. ToldBy(F[n], p, count(n)) /\ F[n] \in V
    <2>1. n \in 0..n
      BY <1>1
    <2> QED
      BY <1>9, <2>1 DEF J
  <1>11. count(n) \in {0, 1, 2}
    <2>1. count(n) \in Nat
      BY <1>1, <1>3
    <2> QED
      BY <1>6, <2>1
  <1>12. OneTrack(F[n], p)
    BY <1>10, <1>11 DEF ToldBy, OneTrack
  <1> QED
    BY <1>2, <1>12

-----------------------------------------------------------------------------
(* CHalfWorld::update                                                      *)

(* a round of the loop that gives the sightings to the tracks *)
TellRound(t, place) ==
    LET tracks == TracksOf(t.list, t.told, place)
        k == IF tracks = {} THEN Len(t.list) + 1
             ELSE CHOOSE i \in tracks : \A j \in tracks : i <= j
    IN  [list |-> [i \in 1..(IF tracks = {} THEN k ELSE Len(t.list)) |->
                      IF i = k THEN SeenBall(place) ELSE t.list[i]],
         told |-> t.told \cup {k}]

(* The tracks, with those that were told of a sighting in this merge.      *)
Tellings == [list : Seq(Balls), told : SUBSET Nat]

(* r is t with the track k told of a sighting: one at its place that was   *)
(* not told before, or, if there is none, a new one                        *)
TellsOne(t, place, r, k) ==
    /\ r \in Tellings
    /\ r.told = t.told \cup {k} /\ k \in DOMAIN r.list
    /\ r.list[k] = SeenBall(place)
    /\ \A i \in DOMAIN t.list : i \in DOMAIN r.list /\ (i # k => r.list[i] = t.list[i])
    /\ DOMAIN r.list = DOMAIN t.list \cup {k}
    /\ \/ k \in DOMAIN t.list /\ k \notin t.told /\ t.list[k].place = place
       \/ /\ k \notin DOMAIN t.list
          /\ \A i \in DOMAIN t.list : i \in t.told \/ t.list[i].place # place

(* A round tells one track of the sighting.                                *)
LEMMA TellRoundIs ==
    ASSUME VisionAssumption, NEW t \in Tellings, NEW place \in Places
    PROVE  \E k \in Nat \ {0} : TellsOne(t, place, TellRound(t, place), k)
  <1> DEFINE tracks == TracksOf(t.list, t.told, place)
             l == Len(t.list)
             k == IF tracks = {} THEN l + 1
                  ELSE CHOOSE i \in tracks : \A j \in tracks : i <= j
             m == IF tracks = {} THEN k ELSE l
             list == [i \in 1..m |-> IF i = k THEN SeenBall(place) ELSE t.list[i]]
             r == TellRound(t, place)
  <1>1. r = [list |-> list, told |-> t.told \cup {k}]
    BY DEF TellRound
  <1>2. t.list \in Seq(Balls) /\ t.told \subseteq Nat
    BY DEF Tellings
  <1>3. l \in Nat /\ DOMAIN t.list = 1..l /\ \A i \in 1..l : t.list[i] \in Balls
    BY <1>2
  <1>4. tracks = {i \in 1..l : i \notin t.told /\ t.list[i].place = place}
    BY <1>3 DEF TracksOf
  <1>5. SeenBall(place) \in Balls
    BY DEF SeenBall, Balls, VisionAssumption
  <1> HIDE DEF l
  <1>6. k \in Nat \ {0} /\ k \in 1..m /\ m \in Nat /\ (\A i \in 1..m : i # k => i \in 1..l)
        /\ (\A i \in 1..l : i \in 1..m) /\ (tracks # {} => k \in tracks) /\ (tracks = {} => k = l + 1)
        /\ 1..m = (1..l) \cup {k}
    <2>1. CASE tracks = {}
      BY <1>3, <2>1
    <2>2. CASE tracks # {}
      <3> HIDE DEF tracks
      <3>1. \A i \in tracks : i \in Nat
        BY <1>4
      <3>2. tracks \subseteq Nat
        BY <3>1
      <3>3. \E i \in tracks : \A j \in tracks : i <= j
        BY <2>2, <3>2, LeastOfNat
      <3>4. k = CHOOSE i \in tracks : \A j \in tracks : i <= j
        BY <2>2
      <3> HIDE DEF k
      <3>5. k \in tracks
        BY <3>3, <3>4
      <3>6. k \in 1..l /\ m = l
        BY <1>4, <2>2, <3>5
      <3> QED
        BY <1>3, <2>2, <3>5, <3>6
    <2> QED
      BY <2>1, <2>2
  <1> HIDE DEF tracks, k, m
  <1>7. \A i \in 1..m : list[i] \in Balls
    BY <1>3, <1>5, <1>6
  <1>8. list \in Seq(Balls) /\ DOMAIN list = 1..m
    BY <1>6, <1>7
  <1>9. list[k] = SeenBall(place) /\ \A i \in 1..l : i # k => list[i] = t.list[i]
    BY <1>6
  <1> HIDE DEF list
  <1>10. r.list = list /\ r.told = t.told \cup {k} /\ r \in Tellings
    BY <1>1, <1>2, <1>6, <1>8 DEF Tellings
  <1> HIDE DEF r
  <1>11. \/ k \in DOMAIN t.list /\ k \notin t.told /\ t.list[k].place = place
         \/ /\ k \notin DOMAIN t.list
            /\ \A i \in DOMAIN t.list : i \in t.told \/ t.list[i].place # place
    <2>1. CASE tracks = {}
      BY <1>3, <1>4, <1>6, <2>1
    <2>2. CASE tracks # {}
      BY <1>3, <1>4, <1>6, <2>2
    <2> QED
      BY <2>1, <2>2
  <1>12. /\ k \in DOMAIN r.list /\ r.list[k] = SeenBall(place)
         /\ \A i \in DOMAIN t.list : i \in DOMAIN r.list /\ (i # k => r.list[i] = t.list[i])
         /\ DOMAIN r.list = DOMAIN t.list \cup {k}
    BY <1>3, <1>6, <1>8, <1>9, <1>10
  <1> QED
    BY <1>6, <1>10, <1>11, <1>12 DEF r, TellsOne

(* the tracks told of the first m sightings of res: those sightings, each  *)
(* at a track, and these tracks at no other place than a sighting's        *)
ToldOf(res, m) ==
    {t \in Tellings :
        /\ \A i \in t.told : /\ i \in DOMAIN t.list
                             /\ t.list[i].inSight = 2 /\ t.list[i].vanished = 0
                             /\ \E n \in 1..m : t.list[i].place = res[n].place
        /\ \A n \in 1..m : \E i \in t.told : t.list[i].place = res[n].place
        /\ \A p \in Places : OneTrack(res, p) /\ OneTrack(balls, p) => OneTrack(t.list, p)}

(* A round of the loop tells of one sighting more. *)
LEMMA TellRoundKeeps ==
    ASSUME VisionAssumption, NEW res \in Seq(MergedSightings("ball")), NEW m \in 1..Len(res),
           NEW t \in ToldOf(res, m - 1)
    PROVE  TellRound(t, res[m].place) \in ToldOf(res, m)
  <1> DEFINE place == res[m].place
             r == TellRound(t, place)
  <1>1. /\ t \in Tellings
        /\ \A i \in t.told : /\ i \in DOMAIN t.list
                             /\ t.list[i].inSight = 2 /\ t.list[i].vanished = 0
                             /\ \E n \in 1..(m - 1) : t.list[i].place = res[n].place
        /\ \A n \in 1..(m - 1) : \E i \in t.told : t.list[i].place = res[n].place
        /\ \A p \in Places : OneTrack(res, p) /\ OneTrack(balls, p) => OneTrack(t.list, p)
    BY DEF ToldOf
  <1>2. place \in Places /\ place = res[m].place
    <2>1. res[m] \in MergedSightings("ball")
      OBVIOUS
    <2> QED
      BY <2>1 DEF MergedSightings
  <1> HIDE DEF place
  <1>p. PICK k \in Nat \ {0} : TellsOne(t, place, r, k)
    BY <1>1, <1>2, TellRoundIs
  <1>3. /\ r \in Tellings
        /\ r.told = t.told \cup {k} /\ k \in DOMAIN r.list
        /\ r.list[k] = SeenBall(place)
        /\ \A i \in DOMAIN t.list : i \in DOMAIN r.list /\ (i # k => r.list[i] = t.list[i])
        /\ DOMAIN r.list = DOMAIN t.list \cup {k}
        /\ \/ k \in DOMAIN t.list /\ k \notin t.told /\ t.list[k].place = place
           \/ /\ k \notin DOMAIN t.list
              /\ \A i \in DOMAIN t.list : i \in t.told \/ t.list[i].place # place
    BY <1>p DEF TellsOne
  <1>4. \A n \in 1..(m - 1) : n \in 1..m /\ n \in DOMAIN res /\ m \in DOMAIN res /\ n # m
    OBVIOUS
  <1>5. \A n \in 1..m : n \in 1..(m - 1) \/ n = m
    OBVIOUS
  <1>6. m \in 1..m /\ place = res[m].place
    BY <1>2
  <1> HIDE DEF r
  <1>7. /\ r.list[k].place = place /\ r.list[k].inSight = 2 /\ r.list[k].vanished = 0
    BY <1>3 DEF SeenBall
  <1>8. k \notin t.told
    BY <1>1, <1>3
  <1>9. \A i \in t.told : r.list[i] = t.list[i] /\ i \in DOMAIN r.list
    BY <1>1, <1>3, <1>8
  <1>10. ASSUME NEW i \in r.told
         PROVE  /\ i \in DOMAIN r.list
                /\ r.list[i].inSight = 2 /\ r.list[i].vanished = 0
                /\ \E n \in 1..m : r.list[i].place = res[n].place
    <2>1. CASE i = k
      BY <1>3, <1>6, <1>7, <2>1
    <2>2. CASE i \in t.told
      <3>1. PICK n \in 1..(m - 1) : t.list[i].place = res[n].place
        BY <1>1, <2>2
      <3>2. r.list[i] = t.list[i] /\ i \in DOMAIN r.list /\ n \in 1..m
        BY <1>4, <1>9, <2>2
      <3>3. t.list[i].inSight = 2 /\ t.list[i].vanished = 0
        BY <1>1, <2>2
      <3> HIDE DEF r
      <3> QED
        BY <3>1, <3>2, <3>3, Zenon
    <2> QED
      BY <1>3, <2>1, <2>2
  <1>11. ASSUME NEW n \in 1..m
         PROVE  \E i \in r.told : r.list[i].place = res[n].place
    <2>1. CASE n = m
      BY <1>3, <1>6, <1>7, <2>1
    <2>2. CASE n \in 1..(m - 1)
      <3>1. PICK i \in t.told : t.list[i].place = res[n].place
        BY <1>1, <2>2
      <3>2. i \in r.told /\ r.list[i] = t.list[i]
        BY <1>3, <1>9
      <3> QED
        BY <3>1, <3>2
    <2> QED
      BY <1>5, <2>1, <2>2
  <1>12. ASSUME NEW p \in Places, OneTrack(res, p), OneTrack(balls, p)
         PROVE  OneTrack(r.list, p)
    <2>1. OneTrack(t.list, p)
      BY <1>1, <1>12
    <2>2. CASE k \in DOMAIN t.list
      <3>1. \A i \in DOMAIN t.list : r.list[i].place = t.list[i].place
        BY <1>3, <1>7, <2>2
      <3>2. DOMAIN r.list = DOMAIN t.list
        BY <1>3, <2>2
      <3> QED
        BY <2>1, <3>1, <3>2 DEF OneTrack
    <2>3. CASE k \notin DOMAIN t.list /\ place # p
      <3>1. \A i \in DOMAIN r.list : r.list[i].place = p => i \in DOMAIN t.list /\ r.list[i] = t.list[i]
        BY <1>3, <1>7, <2>3
      <3> QED
        BY <2>1, <3>1 DEF OneTrack
    <2>4. CASE k \notin DOMAIN t.list /\ place = p
      <3>1. \A n \in 1..(m - 1) : res[n].place # place
        BY <1>4, <1>6, <1>12, <2>4 DEF OneTrack
      <3>2. ASSUME NEW i \in t.told
            PROVE  t.list[i].place # place
        <4>1. PICK n \in 1..(m - 1) : t.list[i].place = res[n].place
          BY <1>1
        <4> QED
          BY <3>1, <4>1
      <3>3. \A i \in DOMAIN t.list : t.list[i].place # place /\ r.list[i] = t.list[i] /\ i # k
        BY <1>3, <2>4, <3>2
      <3> QED
        BY <1>3, <2>4, <3>3 DEF OneTrack
    <2> QED
      BY <2>2, <2>3, <2>4
  <1> QED
    BY <1>3, <1>10, <1>11, <1>12 DEF ToldOf, r, place

(* After the loop each sighting has a track that was told of it. *)
LEMMA ToldIs ==
    ASSUME VisionAssumption, balls \in Seq(Balls), NEW res \in Seq(MergedSightings("ball"))
    PROVE  Told(res) \in ToldOf(res, Len(res))
  <1> DEFINE n == Len(res)
             base == [list |-> balls, told |-> {}]
             step == [i \in 1..n |-> [t \in Tellings |-> TellRound(t, res[i].place)]]
             J == [m \in 0..n |-> ToldOf(res, m)]
             F == CHOOSE g : g = [i \in 0..n |-> IF i = 0 THEN base
                                                 ELSE TellRound(g[i - 1], res[i].place)]
  <1>1. n \in Nat /\ \A i \in 1..n : res[i].place \in Places
    <2>1. n \in Nat /\ \A i \in 1..n : res[i] \in MergedSightings("ball")
      OBVIOUS
    <2> QED
      BY <2>1 DEF MergedSightings
  <1>2. \A i \in 1..n, t \in Tellings : TellRound(t, res[i].place) \in Tellings
    BY <1>1, TellRoundIs DEF TellsOne
  <1>3. Told(res) = F[n]
    BY DEF Told, TellRound
  <1>4. base \in Tellings
    BY DEF Tellings
  <1>m. n = Len(res)
    OBVIOUS
  <1> HIDE DEF n
  <1>5. step \in [1..n -> [Tellings -> Tellings]]
    BY <1>2
  <1>b. base.told = {} /\ base.list = balls
    OBVIOUS
  <1> HIDE DEF step, base
  <1>n. n \in Nat
    BY <1>1
  <1>r. Runs(Tellings, base, n, step) # {}
    BY <1>n, <1>4, <1>5, LoopRuns, Zenon
  <1>6. PICK f \in [0..n -> Tellings] : f[0] = base /\ \A i \in 1..n : f[i] = step[i][f[i - 1]]
    BY <1>r DEF Runs
  <1>7. \A i \in 1..n : i - 1 \in 0..n /\ i # 0 /\ i \in 0..n
    BY <1>1
  <1>8. \A i \in 1..n : f[i] = TellRound(f[i - 1], res[i].place)
    BY <1>6, <1>7 DEF step
  <1>9. \A i \in 0..n : i = 0 \/ i \in 1..n
    BY <1>1
  <1>10. f = [i \in 0..n |-> IF i = 0 THEN base ELSE TellRound(f[i - 1], res[i].place)]
    BY <1>6, <1>7, <1>8, <1>9
  <1>11. F = [i \in 0..n |-> IF i = 0 THEN base ELSE TellRound(F[i - 1], res[i].place)]
    BY <1>10
  <1> HIDE DEF F
  <1>12. F[0] = base /\ \A i \in 1..n : F[i] = TellRound(F[i - 1], res[i].place)
    BY <1>1, <1>7, <1>11
  <1>13. F[0] \in J[0]
    <2>1. base \in ToldOf(res, 0)
      <3>1. \A l \in 1..0 : FALSE
        OBVIOUS
      <3> QED
        BY <1>4, <1>b, <3>1 DEF ToldOf
    <2> QED
      BY <1>n, <1>12, <2>1
  <1>14. ASSUME NEW i \in 1..n, F[i - 1] \in J[i - 1]
         PROVE  F[i] \in J[i]
    <2>1. F[i - 1] \in ToldOf(res, i - 1)
      BY <1>7, <1>14
    <2>2. TellRound(F[i - 1], res[i].place) \in ToldOf(res, i)
      BY <1>m, <2>1, TellRoundKeeps
    <2> QED
      BY <1>7, <1>12, <2>2
  <1> HIDE DEF J
  <1>15. F[n] \in J[n]
    BY <1>n, <1>13, <1>14, LoopKeeps, Zenon
  <1>16. n \in 0..n
    BY <1>n
  <1> QED
    BY <1>3, <1>15, <1>16, <1>m DEF J

(* Tracks that may be out of sight, as they are before those are removed.  *)
Tracks == [place : Places, inSight : 0..2, vanished : 0..BallBlindness]

(* tracks, in sight until they were unseen for too long *)
SomeTracks == {list \in Seq(Tracks) :
    \A i \in DOMAIN list : list[i].inSight > 0 <=> list[i].vanished < BallBlindness}

(* what a merge saw is in sight *)
SeesAll(list, res) ==
    \A n \in DOMAIN res : \E i \in DOMAIN list : list[i].place = res[n].place /\ list[i].inSight > 0

(* The tracks after the tracks that were not told are told of none. *)
LEMMA TrackedIs ==
    ASSUME VisionAssumption, balls \in Seq(Balls), NEW res \in Seq(MergedSightings("ball"))
    PROVE  /\ Tracked(res) \in SomeTracks
           /\ SeesAll(Tracked(res), res)
           /\ \A p \in Places : OneTrack(res, p) /\ OneTrack(balls, p) => OneTrack(Tracked(res), p)
  <1> DEFINE t == Told(res)
             r == Tracked(res)
             l == Len(t.list)
             b == BallBlindness
  <1>1. t \in ToldOf(res, Len(res))
    BY ToldIs
  <1> HIDE DEF t
  <1>2. /\ t.list \in Seq(Balls)
        /\ \A i \in t.told : /\ i \in DOMAIN t.list
                             /\ t.list[i].inSight = 2 /\ t.list[i].vanished = 0
        /\ \A n \in 1..Len(res) : \E i \in t.told : t.list[i].place = res[n].place
        /\ \A p \in Places : OneTrack(res, p) /\ OneTrack(balls, p) => OneTrack(t.list, p)
    BY <1>1 DEF ToldOf, Tellings
  <1>3. l \in Nat /\ DOMAIN t.list = 1..l /\ DOMAIN res = 1..Len(res)
        /\ \A i \in 1..l : t.list[i] \in Balls
    BY <1>2
  <1>4. b \in Nat /\ b > 0
    BY DEF VisionAssumption
  <1>5. r = [i \in 1..l |-> IF i \in t.told THEN t.list[i] ELSE Unseen(t.list[i], b)]
    BY <1>3 DEF Tracked, t
  <1> HIDE DEF r, l, b
  <1>6. ASSUME NEW i \in 1..l
        PROVE  /\ r[i] \in Tracks /\ r[i].place = t.list[i].place
               /\ r[i].inSight > 0 <=> r[i].vanished < b
    <2> DEFINE o == t.list[i]
               n == IF o.vanished < b THEN o.vanished + 1 ELSE b
    <2>1. o \in [place : Places, inSight : 1..2, vanished : 0..b]
      BY <1>3 DEF Balls, b
    <2>2. CASE i \in t.told
      <3>1. r[i] = o /\ o.inSight = 2 /\ o.vanished = 0
        BY <1>2, <1>5, <2>2
      <3> HIDE DEF o
      <3> QED
        BY <1>4, <2>1, <3>1 DEF Tracks, b, o
    <2>3. CASE i \notin t.told
      <3>1. Unseen(o, b) = [o EXCEPT !.vanished = n, !.inSight = IF n < b THEN 1 ELSE 0]
        BY DEF Unseen
      <3>2. r[i] = Unseen(o, b)
        BY <1>5, <2>3
      <3>o. o = t.list[i]
        OBVIOUS
      <3> HIDE DEF o
      <3>3. n \in 0..b
        BY <1>4, <2>1
      <3> HIDE DEF n
      <3>4. r[i] = [place |-> o.place, inSight |-> IF n < b THEN 1 ELSE 0, vanished |-> n]
        BY <2>1, <3>1, <3>2
      <3>5. r[i].place = o.place /\ r[i].inSight = (IF n < b THEN 1 ELSE 0) /\ r[i].vanished = n
        BY <3>4
      <3>6. r[i] \in [place : Places, inSight : 0..2, vanished : 0..b]
        BY <2>1, <3>3, <3>4
      <3> QED
        BY <1>4, <3>3, <3>5, <3>6, <3>o DEF Tracks, b
    <2> QED
      BY <2>2, <2>3
  <1>7. r \in Seq(Tracks) /\ DOMAIN r = 1..l
    <2>1. \A i \in 1..l : r[i] \in Tracks
      BY <1>6
    <2>2. r = [i \in 1..l |-> r[i]]
      BY <1>5
    <2> QED
      BY <1>3, <2>1, <2>2
  <1>8. r \in SomeTracks
    BY <1>6, <1>7 DEF SomeTracks, b
  <1>9. SeesAll(r, res)
    <2> SUFFICES ASSUME NEW n \in DOMAIN res
                 PROVE  \E i \in DOMAIN r : r[i].place = res[n].place /\ r[i].inSight > 0
      BY DEF SeesAll
    <2>1. PICK i \in t.told : t.list[i].place = res[n].place
      BY <1>2, <1>3
    <2>2. i \in 1..l /\ r[i] = t.list[i] /\ t.list[i].inSight = 2
      BY <1>2, <1>3, <1>5
    <2>3. i \in DOMAIN r /\ r[i].place = res[n].place /\ r[i].inSight > 0
      BY <1>7, <2>1, <2>2
    <2> QED
      BY <2>3
  <1>10. ASSUME NEW p, OneTrack(t.list, p)
         PROVE  OneTrack(r, p)
    BY <1>3, <1>6, <1>7, <1>10 DEF OneTrack
  <1> QED
    BY <1>2, <1>8, <1>9, <1>10 DEF r

(* r is a list of the same elements, and k of list is the first of them    *)
Reordered(list, k, r, S) ==
    /\ r \in Seq(S) /\ DOMAIN r = DOMAIN list
    /\ r[1] = list[k]
    /\ OneAsBefore(list, r)
    /\ \A n \in DOMAIN list : \E m \in DOMAIN list : r[m] = list[n]
    /\ \A m \in DOMAIN list : \E n \in DOMAIN list : r[m] = list[n]

(* A swap reorders a list. *)
LEMMA SwappedIs ==
    ASSUME NEW S, NEW list \in Seq(S), NEW k \in DOMAIN list
    PROVE  Reordered(list, k, Swapped(list, k), S)
  <1> DEFINE r == Swapped(list, k)
             l == Len(list)
  <1>1. l \in Nat /\ DOMAIN list = 1..l /\ 1 \in 1..l /\ k \in 1..l
        /\ \A n \in 1..l : list[n] \in S
    OBVIOUS
  <1> HIDE DEF l
  <1>2. r = [n \in 1..l |-> CASE n = 1 -> list[k] [] n = k /\ k # 1 -> list[1] [] OTHER -> list[n]]
    BY <1>1 DEF Swapped
  <1> HIDE DEF r
  <1>3. r[1] = list[k] /\ r[k] = list[1] /\ \A n \in 1..l : n # 1 /\ n # k => r[n] = list[n]
    BY <1>1, <1>2
  <1>4. \A n \in 1..l : r[n] \in S
    BY <1>1, <1>3
  <1>5. r \in Seq(S) /\ DOMAIN r = 1..l
    <2>1. r = [n \in 1..l |-> r[n]]
      BY <1>2
    <2> QED
      BY <1>1, <1>4, <2>1
  <1>6. OneAsBefore(list, r)
    <2>1. \A n \in 1..l : r[n] = list[IF n = 1 THEN k ELSE IF n = k THEN 1 ELSE n]
      BY <1>1, <1>3
    <2> QED
      BY <1>1, <1>5, <2>1 DEF OneAsBefore, OneTrack
  <1>7. \A n \in 1..l : \E m \in 1..l : r[m] = list[n]
    BY <1>1, <1>3
  <1>8. \A m \in 1..l : \E n \in 1..l : r[m] = list[n]
    BY <1>1, <1>3
  <1> QED
    BY <1>1, <1>3, <1>5, <1>6, <1>7, <1>8 DEF Reordered, r

(* The least of some places of a list is one of these. *)
LEMMA LeastIs ==
    ASSUME NEW S, \A i \in S : i \in Nat
    PROVE  IF S = {} THEN Least(S) = 1 ELSE Least(S) \in S
  <1>1. CASE S # {}
    <2>1. S \subseteq Nat
      OBVIOUS
    <2>2. \E i \in S : \A j \in S : i <= j
      BY <1>1, <2>1, LeastOfNat
    <2> QED
      BY <1>1, <2>2 DEF Least
  <1>2. CASE S = {}
    BY <1>2 DEF Least
  <1> QED
    BY <1>1, <1>2

(* What is kept begins with the first, if that is kept. *)
LEMMA KeptFirst ==
    ASSUME NEW S, NEW list \in Seq(S), NEW K, K \subseteq DOMAIN list, 1 \in K
    PROVE  Kept(list, K)[1] = list[1] /\ 1 \in DOMAIN Kept(list, K)
  <1> DEFINE c == Cardinality(K)
             first == CHOOSE i \in K : Cardinality({j \in K : j <= i}) = 1
  <1>1. \A i \in K : i \in Nat /\ i >= 1
    OBVIOUS
  <1>2. IsFiniteSet(K) /\ c \in Nat
    <2>1. DOMAIN list = 1..Len(list) /\ Len(list) \in Nat
      OBVIOUS
    <2>2. IsFiniteSet(1..Len(list))
      BY <2>1, FS_Interval
    <2>3. IsFiniteSet(K)
      BY <2>1, <2>2, FS_Subset
    <2> QED
      BY <2>3, FS_CardinalityType
  <1>3. UpTo(K, 1) = {1}
    BY <1>1 DEF UpTo
  <1>4. Cardinality(UpTo(K, 1)) = 1
    BY <1>3, FS_Singleton
  <1>5. \A i \in K : Cardinality(UpTo(K, i)) = 1 => i = 1
    <2> SUFFICES ASSUME NEW i \in K, Cardinality(UpTo(K, i)) = 1, i # 1
                 PROVE  FALSE
      OBVIOUS
    <2>1. 1 < i
      BY <1>1
    <2>2. \A j \in K : j \in Nat
      BY <1>1
    <2>3. Cardinality(UpTo(K, 1)) < Cardinality(UpTo(K, i))
      BY <1>2, <2>1, <2>2, CountGrows
    <2> QED
      BY <1>4, <2>3
  <1>6. first = CHOOSE i \in K : Cardinality(UpTo(K, i)) = 1
    BY DEF UpTo
  <1> HIDE DEF first
  <1>7. first = 1
    BY <1>4, <1>5, <1>6
  <1>8. c # 0
    BY <1>2, FS_EmptySet
  <1>9. 1 \in 1..c
    BY <1>2, <1>8
  <1>10. Kept(list, K)[1] = list[first] /\ DOMAIN Kept(list, K) = 1..c
    BY <1>9 DEF Kept, first
  <1> QED
    BY <1>7, <1>9, <1>10

(* The watch dog reorders the tracks. *)
LEMMA WatchedIs ==
    ASSUME NEW list \in SomeTracks, list # <<>>, NEW fast \in SUBSET DOMAIN list
    PROVE  /\ Watched(list, fast) \in SomeTracks /\ Watched(list, fast) # <<>>
           /\ OneAsBefore(list, Watched(list, fast))
           /\ \A n \in DOMAIN list :
                 \E m \in DOMAIN Watched(list, fast) : Watched(list, fast)[m] = list[n]
  <1> DEFINE k == IF 1 \in fast THEN 1 ELSE Least(fast)
             r == Swapped(list, k)
  <1>1. list \in Seq(Tracks)
        /\ \A i \in DOMAIN list : list[i].inSight > 0 <=> list[i].vanished < BallBlindness
    BY DEF SomeTracks
  <1>2. DOMAIN list = 1..Len(list) /\ Len(list) \in Nat /\ 1 \in DOMAIN list
    BY <1>1
  <1>3. k \in DOMAIN list
    <2>1. \A i \in fast : i \in Nat
      BY <1>2
    <2> QED
      BY <1>2, <2>1, LeastIs
  <1> HIDE DEF k
  <1>4. /\ r \in Seq(Tracks) /\ DOMAIN r = DOMAIN list
        /\ OneAsBefore(list, r)
        /\ \A n \in DOMAIN list : \E m \in DOMAIN list : r[m] = list[n]
        /\ \A m \in DOMAIN list : \E n \in DOMAIN list : r[m] = list[n]
    <2>1. Reordered(list, k, r, Tracks)
      BY <1>1, <1>3, SwappedIs
    <2> QED
      BY <2>1 DEF Reordered
  <1>5. Watched(list, fast) = r
    BY DEF Watched, k
  <1> HIDE DEF r
  <1>6. r \in SomeTracks
    <2>1. ASSUME NEW m \in DOMAIN r
          PROVE  r[m].inSight > 0 <=> r[m].vanished < BallBlindness
      <3>1. PICK n \in DOMAIN list : r[m] = list[n]
        BY <1>4
      <3> QED
        BY <1>1, <3>1
    <2> QED
      BY <1>4, <2>1 DEF SomeTracks
  <1>7. r # <<>>
    <2>1. 1 \in DOMAIN r
      BY <1>2, <1>4
    <2> QED
      BY <2>1
  <1> QED
    BY <1>4, <1>5, <1>6, <1>7

(* Of the tracks those in sight are kept, and one that is not only as the  *)
(* only one.                                                               *)
LEMMA VanishedIs ==
    ASSUME VisionAssumption, NEW list \in SomeTracks, list # <<>>
    PROVE  /\ Vanished(list) \in Seq(Balls)
           /\ OneAsBefore(list, Vanished(list))
           /\ \A n \in DOMAIN list : list[n].inSight > 0 =>
                 \E i \in DOMAIN Vanished(list) : Vanished(list)[i].place = list[n].place
           /\ Len(Vanished(list)) > 1 => Vanished(list)[1].vanished < BallBlindness
  <1> DEFINE first == FirstInSight(list)
             believed == [list EXCEPT ![1].inSight = IF @ = 0 THEN 1 ELSE @]
             swapped == Swapped(believed, first)
             K == {i \in DOMAIN swapped : swapped[i].inSight > 0}
             l == Len(list)
             others == {i \in DOMAIN list \ {1} : list[i].inSight > 0}
  <1>1. list \in Seq(Tracks)
        /\ \A i \in DOMAIN list : list[i].inSight > 0 <=> list[i].vanished < BallBlindness
    BY DEF SomeTracks
  <1>2. l \in Nat /\ DOMAIN list = 1..l /\ 1 \in 1..l /\ \A i \in 1..l : list[i] \in Tracks
    BY <1>1
  <1>3. Vanished(list) = Kept(swapped, K)
    BY DEF Vanished
  <1>4. \A i \in 1..l : list[i].inSight \in 0..2
    BY <1>2 DEF Tracks
  <1> DEFINE one == IF list[1].inSight = 0 THEN 1 ELSE list[1].inSight
  <1>5. one \in 1..2 /\ (list[1].inSight > 0 => one = list[1].inSight)
    BY <1>2, <1>4
  <1>6. believed = [list EXCEPT ![1] = [list[1] EXCEPT !.inSight = one]]
    BY <1>2
  <1>7. /\ DOMAIN believed = 1..l /\ believed[1] = [list[1] EXCEPT !.inSight = one]
        /\ \A i \in 1..l : i # 1 => believed[i] = list[i]
    BY <1>2, <1>6
  <1>f. first \in 1..l /\ (list[first].inSight > 0 \/ (first = 1 /\ others = {}))
    <2>1. \A i \in others : i \in Nat /\ i \in 1..l /\ list[i].inSight > 0
      BY <1>2
    <2>2. first = IF list[1].inSight > 0 THEN 1 ELSE Least(others)
      BY DEF FirstInSight
    <2> HIDE DEF others, first
    <2>3. IF others = {} THEN Least(others) = 1 ELSE Least(others) \in others
      BY <2>1, LeastIs
    <2> QED
      BY <1>2, <2>1, <2>2, <2>3
  <1> HIDE DEF believed, one, first
  <1>8. /\ \A i \in 1..l : believed[i] \in Tracks /\ believed[i].place = list[i].place
        /\ believed[1].inSight > 0 /\ believed[1].vanished = list[1].vanished
        /\ \A i \in 1..l : list[i].inSight > 0 => believed[i].inSight > 0
    <2>1. list[1] \in Tracks
      BY <1>2
    <2>2. believed[1] \in Tracks /\ believed[1].place = list[1].place
          /\ believed[1].inSight = one /\ believed[1].vanished = list[1].vanished
      BY <1>5, <1>7, <2>1 DEF Tracks
    <2>3. one > 0
      BY <1>5
    <2> QED
      BY <1>2, <1>7, <2>2, <2>3
  <1>9. believed \in Seq(Tracks) /\ OneAsBefore(list, believed)
    <2>1. believed = [i \in 1..l |-> believed[i]]
      BY <1>6, <1>7
    <2>2. believed \in Seq(Tracks)
      BY <1>2, <1>8, <2>1
    <2> QED
      BY <1>2, <1>7, <1>8, <2>2 DEF OneAsBefore, OneTrack
  <1>10. /\ swapped \in Seq(Tracks) /\ DOMAIN swapped = 1..l
         /\ swapped[1] = believed[first]
         /\ OneAsBefore(believed, swapped)
         /\ \A n \in 1..l : \E m \in 1..l : swapped[m] = believed[n]
         /\ \A m \in 1..l : \E n \in 1..l : swapped[m] = believed[n]
    <2>1. Reordered(believed, first, swapped, Tracks)
      BY <1>7, <1>9, <1>f, SwappedIs
    <2> HIDE DEF swapped
    <2> QED
      BY <1>7, <2>1 DEF Reordered
  <1> HIDE DEF swapped
  <1>11. K \subseteq DOMAIN swapped /\ 1 \in K
    <2>1. believed[first].inSight > 0
      BY <1>8, <1>f
    <2> QED
      BY <1>2, <1>10, <2>1
  <1>k. \A i \in K : i \in 1..l /\ swapped[i].inSight > 0
    BY <1>10
  <1>m. \A i \in 1..l : swapped[i].inSight > 0 => i \in K
    BY <1>10
  <1> DEFINE r == Kept(swapped, K)
             c == Cardinality(K)
  <1> HIDE DEF K
  <1>12. PICK at \in [1..c -> K] :
            /\ \A n \in 1..c : r[n] = swapped[at[n]]
            /\ \A n, m \in 1..c : at[n] = at[m] => n = m
            /\ \A i \in K : \E n \in 1..c : at[n] = i
    BY <1>10, <1>11, KeptIs
  <1>13. r \in Seq(Tracks) /\ DOMAIN r = 1..c /\ c \in Nat
    BY <1>10, <1>11, KeptIs
  <1>14. r[1] = swapped[1] /\ 1 \in DOMAIN r
    BY <1>10, <1>11, KeptFirst
  <1>15. OneAsBefore(list, r)
    <2>1. OneAsBefore(swapped, r)
      BY <1>10, <1>11, KeptIsOne
    <2> HIDE DEF r
    <2> QED
      BY <1>9, <1>10, <2>1 DEF OneAsBefore
  <1> HIDE DEF r, c
  <1>16. r \in Seq(Balls)
    <2>1. ASSUME NEW n \in 1..c
          PROVE  r[n] \in Balls
      <3>1. at[n] \in K /\ r[n] = swapped[at[n]]
        BY <1>12
      <3>2. swapped[at[n]].inSight > 0
        BY <1>k, <3>1
      <3>3. r[n] \in Tracks
        BY <1>13
      <3> QED
        BY <3>1, <3>2, <3>3 DEF Tracks, Balls
    <2>2. r = [n \in 1..c |-> r[n]]
      BY <1>13
    <2> QED
      BY <1>13, <2>1, <2>2
  <1>17. ASSUME NEW n \in 1..l, list[n].inSight > 0
         PROVE  \E i \in DOMAIN r : r[i].place = list[n].place
    <2>1. PICK m \in 1..l : swapped[m] = believed[n]
      BY <1>10
    <2>2. m \in K
      BY <1>8, <1>17, <1>m, <2>1
    <2>3. PICK i \in 1..c : at[i] = m
      BY <1>12, <2>2
    <2> QED
      BY <1>8, <1>12, <1>13, <2>1, <2>3
  <1>18. ASSUME Len(r) > 1
         PROVE  r[1].vanished < BallBlindness
    <2>1. CASE list[first].inSight > 0
      <3>1. believed[first].vanished = list[first].vanished
        BY <1>7, <1>8, <1>f
      <3>2. list[first].vanished < BallBlindness
        BY <1>1, <1>2, <1>f, <2>1
      <3> QED
        BY <1>10, <1>14, <3>1, <3>2
    <2>2. CASE first = 1 /\ others = {}
      <3>1. 1 \in 1..c /\ 2 \in 1..c
        BY <1>13, <1>18
      <3>2. at[1] # at[2] /\ at[1] \in K /\ at[2] \in K
        BY <1>12, <3>1
      <3>3. \A i \in 1..l : i # 1 => ~(list[i].inSight > 0)
        BY <1>2, <2>2
      <3>4. \A i \in 1..l : i # 1 => swapped[i] = list[i]
        BY <1>7, <1>9, <2>2, <1>2 DEF swapped, Swapped
      <3> QED
        BY <1>k, <3>2, <3>3, <3>4
    <2> QED
      BY <1>f, <2>1, <2>2
  <1> QED
    BY <1>2, <1>3, <1>15, <1>16, <1>17, <1>18 DEF r

(* A robot of the world model stays one. *)
LEMMA NextRobotType ==
    ASSUME VisionAssumption, NEW t \in Teams, NEW list, list = <<>> \/ list \in [{1} -> Robots],
           NEW res \in Seq(MergedSightings(t))
    PROVE  NextRobot(list, res) \in [{1} -> Robots]
  <1> DEFINE Singles == {<<o>> : o \in Robots}
             seen == [who |-> res[1].who, inSight |-> 2, vanished |-> 0]
             b == RobotBlindness
  <1>b. b \in Nat /\ b > 0
    BY DEF VisionAssumption
  <1>1. \A o \in Robots : <<o>> \in [{1} -> Robots]
    OBVIOUS
  <1>2. NoRobot \in Robots
    BY <1>b DEF NoRobot, Robots
  <1>3. ASSUME res # <<>>
        PROVE  seen \in Robots
    <2>1. res[1] \in MergedSightings(t)
      BY <1>3
    <2>2. t # "ball"
      BY DEF Teams
    <2>3. res[1].who \in Colors
      BY <2>1, <2>2 DEF MergedSightings, WhoFor
    <2> QED
      BY <1>b, <2>3 DEF Robots
  <1>4. ASSUME list \in [{1} -> Robots]
        PROVE  Unseen(list[1], b) \in Robots
    <2> DEFINE o == list[1]
               n == IF o.vanished < b THEN o.vanished + 1 ELSE b
    <2>1. o \in Robots
      BY <1>4
    <2>2. Unseen(o, b) = [o EXCEPT !.vanished = n, !.inSight = IF n < b THEN 1 ELSE 0]
      BY DEF Unseen
    <2> HIDE DEF o
    <2>3. n \in 0..b
      BY <1>b, <2>1 DEF Robots
    <2> HIDE DEF n
    <2>4. Unseen(o, b) = [who |-> o.who, inSight |-> IF n < b THEN 1 ELSE 0, vanished |-> n]
      BY <2>1, <2>2 DEF Robots
    <2>5. Unseen(o, b) \in Robots
      BY <2>1, <2>3, <2>4 DEF Robots
    <2> QED
      BY <2>5 DEF o
  <1> HIDE DEF seen, b
  <1>5. CASE list = <<>>
    BY <1>1, <1>2, <1>5 DEF NextRobot
  <1>6. CASE list # <<>> /\ res # <<>>
    <2>1. NextRobot(list, res) = <<seen>>
      BY <1>6 DEF NextRobot, seen
    <2> QED
      BY <1>1, <1>3, <1>6, <2>1
  <1>7. CASE list # <<>> /\ res = <<>>
    <2>1. NextRobot(list, res) \in {<<Unseen(list[1], b)>>, list}
      BY <1>7 DEF NextRobot, b
    <2> QED
      BY <1>1, <1>4, <1>7, <2>1
  <1> QED
    BY <1>5, <1>6, <1>7

-----------------------------------------------------------------------------
(* The thread and the main loop                                            *)

(***************************************************************************)
(* The types, with the sightings of each camera free of doubles; the       *)
(* packets counted between two merges; the address asked for.              *)
(***************************************************************************)
Flags == /\ {reconnect, closeVision, visionClosed} \subseteq BOOLEAN
         /\ address \in {"asked", "joined", "refused"}
RobotsOK == \A t \in Teams : robot[t] = <<>> \/ robot[t] \in [{1} -> Robots]
Counted == packs \in 0..Cardinality(Cameras) /\ (pc # "merge" => packs < Cardinality(Cameras))
Addressed == (pc = "connected" => address # "asked") /\ AddressIsTried

VisionInv ==
    /\ field \in [Things -> SUBSET Places]
    /\ v \in Views
    /\ lastCamera \in Cameras \cup {-1} /\ ourColor \in Colors
    /\ pc \in {"start", "check", "connected", "merge", "ended"}
    /\ Counted
    /\ Flags
    /\ RobotsOK
    /\ balls \in Seq(Balls)
    /\ main \in {"run", "wait", "ended"}
    /\ Addressed

(* The invariant types the state. *)
LEMMA InvIsTyped == VisionInv => VisionTypeOK
  <1> SUFFICES ASSUME VisionInv
               PROVE  VisionTypeOK
    OBVIOUS
  <1> DEFINE U == UNION {Seq(Sightings(k)) : k \in Kinds}
  <1>1. v \in [Cameras -> [Kinds -> U]] /\ \A c \in Cameras, k \in Kinds : v[c][k] \in Seq(Sightings(k))
    <2>1. v \in [Cameras -> {lists \in [Kinds -> U] : \A k \in Kinds : lists[k] \in Lists(k)}]
      BY DEF VisionInv, Views
    <2> HIDE DEF U
    <2>2. \A c \in Cameras : v[c] \in [Kinds -> U] /\ \A k \in Kinds : v[c][k] \in Lists(k)
      BY <2>1
    <2>3. v \in [Cameras -> [Kinds -> U]]
      BY <2>1, <2>2
    <2> QED
      BY <2>2, <2>3 DEF Lists
  <1> QED
    BY <1>1 DEF VisionInv, VisionTypeOK, Counted, Flags, RobotsOK

(* It holds before the thread starts. *)
LEMMA InvInit == VisionAssumption /\ VisionInit => VisionInv
  <1> SUFFICES ASSUME VisionAssumption, VisionInit
               PROVE  VisionInv
    OBVIOUS
  <1>1. PICK scene \in Scenes : field = [w \in Things |->
           CASE w \notin scene -> {}
             [] w \in scene /\ w = "ball" -> BallPlaces
             [] w \in scene /\ w # "ball" -> RobotPlaces]
    BY DEF VisionInit
  <1>2. field \in [Things -> SUBSET Places]
    BY <1>1 DEF Places
  <1>3. v \in Views
    <2>1. \A k \in Kinds : <<>> \in Seq(Sightings(k)) /\ <<>> \in Lists(k)
      <3>1. \A i \in DOMAIN <<>> : FALSE
        OBVIOUS
      <3>2. Unique(<<>>)
        BY <3>1, Zenon DEF Unique
      <3>3. \A k \in Kinds : <<>> \in Seq(Sightings(k))
        OBVIOUS
      <3> QED
        BY <3>2, <3>3 DEF Lists
    <2>2. v = [c \in Cameras |-> [k \in Kinds |-> <<>>]]
      BY DEF VisionInit
    <2> QED
      BY <2>1, <2>2 DEF Views
  <1>4. Counted
    BY SomeCameras DEF Counted, VisionInit
  <1>5. Flags /\ Addressed
    BY DEF Flags, Addressed, AddressIsTried, VisionInit
  <1>6. RobotsOK
    BY DEF RobotsOK, VisionInit
  <1> QED
    BY <1>2, <1>3, <1>4, <1>5, <1>6 DEF VisionInv, VisionInit, Colors

(* A packet counts, and the one that completes them starts a merge. *)
LEMMA CountKeeps ==
    ASSUME VisionAssumption, Counted, pc = "check", CountPacket
    PROVE  Counted' /\ pc' \in {"check", "merge"}
  <1> DEFINE n == Cardinality(Cameras)
  <1>1. n \in Nat
    BY SomeCameras
  <1>2. packs \in 0..n /\ packs < n
    BY DEF Counted
  <1>3. packs' = packs + 1 /\ pc' = IF packs' >= n THEN "merge" ELSE "check"
    BY DEF CountPacket
  <1> HIDE DEF n
  <1>4. packs' \in 0..n /\ (pc' # "merge" => packs' < n) /\ pc' \in {"check", "merge"}
    BY <1>1, <1>2, <1>3
  <1> QED
    BY <1>4 DEF Counted, n

(* the tracks after a merge *)
NextBalls(list) ==
    IF list = <<>> THEN balls' = <<>>
    ELSE \E fast \in SUBSET DOMAIN list : balls' = Vanished(Watched(list, fast))

(* A merge keeps the tracks typed and makes no second one of a ball that   *)
(* two cameras see at most; it keeps the balls it saw, and no ball out of  *)
(* sight before another.                                                   *)
LEMMA MergeKeepsBalls ==
    ASSUME VisionAssumption, VisionInv, NextBalls(Tracked(Merged("ball")))
    PROVE  /\ balls' \in Seq(Balls)
           /\ \A p \in Places : Cardinality(Seers(p)) <= 2 /\ OneTrack(balls, p) => OneTrack(balls', p)
           /\ \A n \in DOMAIN Merged("ball") :
                 \E i \in DOMAIN balls' : balls'[i].place = Merged("ball")[n].place
           /\ Len(balls') > 1 => balls'[1].vanished < BallBlindness
  <1> DEFINE res == Merged("ball")
             list == Tracked(res)
  <1>1. v \in Views /\ balls \in Seq(Balls) /\ "ball" \in Kinds
    BY DEF VisionInv, Kinds
  <1>2. res \in Seq(MergedSightings("ball")) /\ \A p \in Places : Cardinality(Seers(p)) <= 2 => OneTrack(res, p)
    BY <1>1, MergedIs, MergedOnce
  <1> HIDE DEF res
  <1>3. /\ list \in SomeTracks /\ SeesAll(list, res)
        /\ \A p \in Places : OneTrack(res, p) /\ OneTrack(balls, p) => OneTrack(list, p)
    BY <1>1, <1>2, TrackedIs
  <1>4. IF list = <<>> THEN balls' = <<>>
        ELSE \E fast \in SUBSET DOMAIN list : balls' = Vanished(Watched(list, fast))
    BY DEF NextBalls, res
  <1> HIDE DEF list
  <1>5. CASE list = <<>>
    <2>1. balls' = <<>>
      BY <1>4, <1>5
    <2>2. DOMAIN list = {} /\ DOMAIN <<>> = {}
      BY <1>5
    <2>3. DOMAIN res = {}
      BY <1>3, <2>2 DEF SeesAll
    <2>4. \A p \in Places : OneTrack(balls', p)
      BY <2>1, <2>2 DEF OneTrack
    <2>5. balls' \in Seq(Balls) /\ Len(balls') = 0
      BY <2>1
    <2> QED
      BY <2>3, <2>4, <2>5 DEF res
  <1>6. CASE list # <<>>
    <2>1. PICK fast \in SUBSET DOMAIN list : balls' = Vanished(Watched(list, fast))
      BY <1>4, <1>6
    <2> DEFINE x == Watched(list, fast)
    <2>2. /\ x \in SomeTracks /\ x # <<>>
          /\ OneAsBefore(list, x)
          /\ \A n \in DOMAIN list : \E m \in DOMAIN x : x[m] = list[n]
      BY <1>3, <1>6, WatchedIs
    <2>3. balls' = Vanished(x)
      BY <2>1
    <2> HIDE DEF x
    <2>4. /\ Vanished(x) \in Seq(Balls)
          /\ OneAsBefore(x, Vanished(x))
          /\ \A n \in DOMAIN x : x[n].inSight > 0 =>
                \E i \in DOMAIN Vanished(x) : Vanished(x)[i].place = x[n].place
          /\ Len(Vanished(x)) > 1 => Vanished(x)[1].vanished < BallBlindness
      BY <2>2, VanishedIs
    <2>5. ASSUME NEW n \in DOMAIN res
          PROVE  \E i \in DOMAIN balls' : balls'[i].place = res[n].place
      <3>1. PICK i \in DOMAIN list : list[i].place = res[n].place /\ list[i].inSight > 0
        BY <1>3 DEF SeesAll
      <3>2. PICK m \in DOMAIN x : x[m] = list[i]
        BY <2>2
      <3> QED
        BY <2>3, <2>4, <3>1, <3>2
    <2>6. \A p \in Places : Cardinality(Seers(p)) <= 2 /\ OneTrack(balls, p) => OneTrack(balls', p)
      BY <1>2, <1>3, <2>2, <2>3, <2>4 DEF OneAsBefore
    <2> QED
      BY <2>3, <2>4, <2>5, <2>6 DEF res
  <1> QED
    BY <1>5, <1>6

(* It holds after each step. *)
LEMMA InvNext == VisionAssumption /\ VisionInv /\ [VisionNext]_visionVars => VisionInv'
  <1> SUFFICES ASSUME VisionAssumption, VisionInv, [VisionNext]_visionVars
               PROVE  VisionInv'
    OBVIOUS
  <1> USE DEF client, thread, config, closing, halfWorld
  <1>0. /\ field \in [Things -> SUBSET Places]
        /\ v \in Views
        /\ lastCamera \in Cameras \cup {-1} /\ ourColor \in Colors
        /\ pc \in {"start", "check", "connected", "merge", "ended"}
        /\ Counted
        /\ Flags
        /\ RobotsOK
        /\ balls \in Seq(Balls)
        /\ main \in {"run", "wait", "ended"}
        /\ Addressed
    BY DEF VisionInv
  <1>e. RobotsOK /\ (robot' = [t \in Teams |-> <<>>] => RobotsOK')
    BY <1>0 DEF RobotsOK
  <1>s. <<>> \in Seq(Balls)
    OBVIOUS
  <1>1. CASE Settle
    <2>1. field' \in [Things -> SUBSET Places]
      BY <1>0, <1>1 DEF Settle
    <2>2. UNCHANGED <<client, thread, config, closing, halfWorld, main>>
      BY <1>1 DEF Settle
    <2> QED
      BY <1>0, <2>1, <2>2 DEF VisionInv, Counted, Flags, RobotsOK, Addressed, AddressIsTried
  <1>2. ASSUME NEW c \in Cameras, NEW saw \in Reports, ReceivePacket(c, saw)
        PROVE  VisionInv'
    <2>1. Awaits /\ Parse(c, saw, IF ourColor = "BLUE" THEN "our" ELSE "opp")
          /\ UNCHANGED <<field, ourColor, config, closing, halfWorld, main>>
      BY <1>2 DEF ReceivePacket
    <2>2. (IF ourColor = "BLUE" THEN "our" ELSE "opp") \in Teams \cup {None}
      BY DEF Teams
    <2>3. v' \in Views
      BY <1>0, <2>1, <2>2, ParseKeepsViews
    <2>4. lastCamera' = c /\ CountPacket
      BY <2>1 DEF Parse
    <2>5. Counted' /\ pc' \in {"check", "merge"} /\ pc = "check"
      BY <1>0, <2>1, <2>4, CountKeeps DEF Awaits
    <2> QED
      BY <1>0, <2>1, <2>3, <2>4, <2>5 DEF VisionInv, Flags, RobotsOK, Addressed, AddressIsTried
  <1>3. ASSUME NEW c \in Cameras, NEW saw \in Reports, ReceiveAcrossChange(c, saw)
        PROVE  VisionInv'
    <2>1. Awaits /\ Parse(c, saw, None) /\ ourColor' = "BLUE"
          /\ UNCHANGED <<field, config, closing, halfWorld, main>>
      BY <1>3 DEF ReceiveAcrossChange
    <2>3. v' \in Views
      BY <1>0, <2>1, ParseKeepsViews
    <2>4. lastCamera' = c /\ CountPacket
      BY <2>1 DEF Parse
    <2>5. Counted' /\ pc' \in {"check", "merge"} /\ pc = "check"
      BY <1>0, <2>1, <2>4, CountKeeps DEF Awaits
    <2> QED
      BY <1>0, <2>1, <2>3, <2>4, <2>5 DEF VisionInv, Flags, RobotsOK, Addressed, AddressIsTried, Colors
  <1>4. CASE SkipPacket
    <2>1. Awaits /\ CountPacket /\ UNCHANGED <<field, client, config, closing, halfWorld, main>>
      BY <1>4 DEF SkipPacket
    <2>2. Counted' /\ pc' \in {"check", "merge"} /\ pc = "check"
      BY <1>0, <2>1, CountKeeps DEF Awaits
    <2> QED
      BY <1>0, <2>1, <2>2 DEF VisionInv, Flags, RobotsOK, Addressed, AddressIsTried
  <1>5. CASE Merge
    <2>1. pc = "merge" /\ pc' = "check" /\ packs' = 0
          /\ UNCHANGED <<field, client, config, closing, main>>
      BY <1>5 DEF Merge
    <2>2. balls' \in Seq(Balls)
      <3>1. CASE lastCamera # -1
        <4>1. NextBalls(Tracked(Merged("ball")))
          BY <1>5, <3>1 DEF Merge, NextBalls
        <4> QED
          BY <4>1, MergeKeepsBalls
      <3>2. CASE lastCamera = -1
        BY <1>0, <1>5, <3>2 DEF Merge
      <3> QED
        BY <3>1, <3>2
    <2>3. RobotsOK'
      <3>1. CASE lastCamera # -1
        <4>1. robot' = [t \in Teams |-> NextRobot(robot[t], Merged(t))]
          BY <1>5, <3>1 DEF Merge
        <4>2. \A t \in Teams : Merged(t) \in Seq(MergedSightings(t))
          BY <1>0, MergedIs DEF Kinds
        <4>3. \A t \in Teams : NextRobot(robot[t], Merged(t)) \in [{1} -> Robots]
          BY <1>0, <4>2, NextRobotType DEF RobotsOK
        <4> QED
          BY <4>1, <4>3 DEF RobotsOK
      <3>2. CASE lastCamera = -1
        BY <1>0, <1>5, <3>2 DEF Merge, RobotsOK
      <3> QED
        BY <3>1, <3>2
    <2>4. Counted'
      BY <2>1, SomeCameras DEF Counted
    <2> QED
      BY <1>0, <2>1, <2>2, <2>3, <2>4 DEF VisionInv, Flags, Addressed, AddressIsTried
  <1>6. CASE Start
    <2>1. pc = "start" /\ pc' = "check" /\ address' \in {"joined", "refused"} /\ robot' = [t \in Teams |-> <<>>]
          /\ balls' = <<>> /\ UNCHANGED <<field, client, packs, reconnect, closing, main>>
      BY <1>6 DEF Start, Connect
    <2> QED
      BY <1>0, <1>e, <1>s, <2>1 DEF VisionInv, Counted, Flags, Addressed, AddressIsTried
  <1>7. CASE Reconnect
    <2>1. pc = "check" /\ pc' = "connected" /\ address' \in {"joined", "refused"} /\ robot' = [t \in Teams |-> <<>>]
          /\ balls' = <<>> /\ UNCHANGED <<field, client, packs, reconnect, closing, main>>
      BY <1>7 DEF Reconnect, Connect
    <2> QED
      BY <1>0, <1>e, <1>s, <2>1 DEF VisionInv, Counted, Flags, Addressed, AddressIsTried
  <1>8. CASE ReconnectDone
    BY <1>0, <1>8 DEF ReconnectDone, VisionInv, Counted, Flags, RobotsOK, Addressed, AddressIsTried
  <1>9. CASE Close
    BY <1>0, <1>9 DEF Close, VisionInv, Counted, Flags, RobotsOK, Addressed, AddressIsTried
  <1>10. CASE MainLoopEnds
    BY <1>0, <1>10 DEF MainLoopEnds, VisionInv, Counted, Flags, RobotsOK, Addressed, AddressIsTried
  <1>11. CASE MainEnds
    BY <1>0, <1>11 DEF MainEnds, VisionInv, Counted, Flags, RobotsOK, Addressed, AddressIsTried
  <1>12. ASSUME NEW color \in Colors, setTeamColor(color)
         PROVE  VisionInv'
    BY <1>0, <1>12 DEF setTeamColor, VisionInv, Counted, Flags, RobotsOK, Addressed, AddressIsTried
  <1>13. CASE connectVision
    BY <1>0, <1>13
    DEF connectVision, SocketFree, VisionInv, Counted, Flags, RobotsOK, Addressed, AddressIsTried
  <1>14. ASSUME NEW i \in DOMAIN balls, selectBall(i)
         PROVE  VisionInv'
    <2>1. balls' = Swapped(balls, i)
          /\ UNCHANGED <<field, client, thread, config, closing, robot, main>>
      BY <1>14 DEF selectBall
    <2>2. Reordered(balls, i, Swapped(balls, i), Balls)
      BY <1>0, SwappedIs
    <2>3. balls' \in Seq(Balls)
      BY <2>1, <2>2 DEF Reordered
    <2> QED
      BY <1>0, <2>1, <2>3 DEF VisionInv, Counted, Flags, RobotsOK, Addressed, AddressIsTried
  <1>15. CASE UNCHANGED visionVars
    BY <1>0, <1>15 DEF visionVars, VisionInv, Counted, Flags, RobotsOK, Addressed, AddressIsTried
  <1> QED
    BY <1>1, <1>2, <1>3, <1>4, <1>5, <1>6, <1>7, <1>8, <1>9, <1>10, <1>11, <1>12, <1>13, <1>14, <1>15
    DEF VisionNext, run

(* The invariant holds from the start. *)
LEMMA InvHolds == VisionSpec => []VisionInv
  <1>1. VisionInit => VisionInv
    BY InvInit, VisionAssumption
  <1>2. VisionInv /\ [VisionNext]_visionVars => VisionInv'
    BY InvNext, VisionAssumption
  <1> QED
    BY <1>1, <1>2, PTL DEF VisionSpec

(***************************************************************************)
(* The types: what the cameras saw, the robots and the tracks of the       *)
(* world model are typed, no track is kept that is not believed in, and no *)
(* more packets are counted than there are cameras.                        *)
(***************************************************************************)
THEOREM VisionTypeCorrect == VisionSpec => []VisionTypeOK
  BY InvHolds, InvIsTyped, PTL

(***************************************************************************)
(* The address last asked for has been tried, or is still to be: one that  *)
(* is set while the thread reconnects is not lost, since the handler waits *)
(* for the mutex (soccer.cpp:1444).  That trying it succeeds is not said:  *)
(* open() may fail, and is not called again (soccer.cpp:1306).             *)
(***************************************************************************)
THEOREM AddressIsNotLost == VisionSpec => []AddressIsTried
  <1>1. VisionInv => AddressIsTried
    BY DEF VisionInv, Addressed
  <1> QED
    BY <1>1, InvHolds, PTL

(***************************************************************************)
(* With any number of cameras, no step makes a second track of a ball that *)
(* two of them see at most, whatever they and the others report in which   *)
(* order, and whatever the watch dog, the operator or the removal of lost  *)
(* tracks does to the order of the tracks (worldmodel.cpp:711).            *)
(***************************************************************************)
THEOREM OneTrackForABall == VisionSpec => NoDoubleTrack
  <1> DEFINE Keeps ==
        \A place \in BallPlaces :
            Cardinality(Seers(place)) <= 2 /\ OneTrack(balls, place) => OneTrack(balls', place)
  <1>1. VisionInv /\ [VisionNext]_visionVars => [Keeps]_visionVars
    <2> SUFFICES ASSUME VisionInv, VisionNext,
                        NEW place \in BallPlaces, Cardinality(Seers(place)) <= 2, OneTrack(balls, place)
                 PROVE  OneTrack(balls', place)
      BY DEF VisionNext
    <2>1. place \in Places
      BY DEF Places
    <2>2. CASE balls' = balls
      BY <2>2
    <2>3. CASE balls' = <<>>
      <3>1. DOMAIN <<>> = {}
        OBVIOUS
      <3> QED
        BY <2>3, <3>1 DEF OneTrack
    <2>4. CASE NextBalls(Tracked(Merged("ball")))
      BY <2>1, <2>4, MergeKeepsBalls, VisionAssumption
    <2>5. ASSUME NEW i \in DOMAIN balls, balls' = Swapped(balls, i)
          PROVE  OneTrack(balls', place)
      <3>1. Reordered(balls, i, Swapped(balls, i), Balls)
        BY SwappedIs DEF VisionInv
      <3> QED
        BY <2>1, <2>5, <3>1 DEF Reordered, OneAsBefore
    <2>6. \/ balls' = balls \/ balls' = <<>>
          \/ NextBalls(Tracked(Merged("ball")))
          \/ \E i \in DOMAIN balls : balls' = Swapped(balls, i)
      BY DEF VisionNext, run, Settle, ReceivePacket, ReceiveAcrossChange, SkipPacket, Merge, Start,
             Reconnect, Connect, ReconnectDone, Close, MainLoopEnds, MainEnds, setTeamColor,
             connectVision, selectBall, halfWorld, NextBalls
    <2> QED
      BY <2>2, <2>3, <2>4, <2>5, <2>6
  <1> QED
    BY <1>1, InvHolds, PTL DEF VisionSpec, NoDoubleTrack

(***************************************************************************)
(* A merge forgets no ball that it has seen, and leaves one that has been  *)
(* unseen for too long in the first place only if it is the only one, with *)
(* any number of cameras (worldmodel.cpp:579).                             *)
(***************************************************************************)
THEOREM MergeForgetsNoBall == VisionSpec => SeenBallsAreKept
  <1> DEFINE Keeps ==
        pc = "merge" /\ pc' # "merge" /\ lastCamera # -1 =>
            /\ \A n \in DOMAIN Merged("ball") :
                  \E i \in DOMAIN balls' : balls'[i].place = Merged("ball")[n].place
            /\ Len(balls') > 1 => balls'[1].vanished < BallBlindness
  <1>1. VisionInv /\ [VisionNext]_visionVars => [Keeps]_visionVars
    <2> SUFFICES ASSUME VisionInv, VisionNext, pc = "merge", pc' # "merge", lastCamera # -1
                 PROVE  /\ \A n \in DOMAIN Merged("ball") :
                              \E i \in DOMAIN balls' : balls'[i].place = Merged("ball")[n].place
                        /\ Len(balls') > 1 => balls'[1].vanished < BallBlindness
      BY DEF VisionNext
    <2>1. Merge
      BY DEF VisionNext, run, Settle, ReceivePacket, ReceiveAcrossChange, SkipPacket, Awaits, Start,
             Reconnect, ReconnectDone, Close, MainLoopEnds, MainEnds, setTeamColor,
             connectVision, selectBall, thread
    <2>2. NextBalls(Tracked(Merged("ball")))
      BY <2>1 DEF Merge, NextBalls
    <2> QED
      BY <2>2, MergeKeepsBalls, VisionAssumption
  <1> QED
    BY <1>1, InvHolds, PTL DEF VisionSpec, SeenBallsAreKept
=============================================================================
