------------------------ MODULE CourtSelectionProofs ------------------------
(***************************************************************************)
(* Proofs that the decisions of CourtSelection agree with the reference    *)
(* definitions of CourtSelectionMC for lists of any length, any court      *)
(* numbers and any number of courts and players.                           *)
(***************************************************************************)
EXTENDS CourtSelectionMC, CourtSelectionLemmas

(* What the walk builds.                                                   *)
WalkInv == reserved \in Seq(Nat) /\ listed \in Seq(Nat) /\ n \in Nat

LEMMA WalkIsTyped == Spec => []WalkInv
<1>1. Init => WalkInv
  BY DEF Init, WalkInv
<1>2. WalkInv /\ [Next]_vars => WalkInv'
  <2> SUFFICES ASSUME WalkInv, [Next]_vars PROVE WalkInv'
    OBVIOUS
  <2>1. CASE Count
    BY <2>1 DEF WalkInv, Count
  <2>2. ASSUME NEW c \in 1..MaxNum, Reserve(c) PROVE WalkInv'
    <3>1. c \in Nat
      BY WalkAssumption DEF WalkAssumption
    <3> QED BY <2>2, <3>1 DEF WalkInv, Reserve
  <2>3. ASSUME NEW c \in 0..MaxNum, List(c) PROVE WalkInv'
    <3>1. c \in Nat
      BY WalkAssumption DEF WalkAssumption
    <3> QED BY <2>3, <3>1 DEF WalkInv, List
  <2>4. CASE UNCHANGED vars
    BY <2>4 DEF WalkInv, vars
  <2> QED BY <2>1, <2>2, <2>3, <2>4 DEF Next
<1> QED BY <1>1, <1>2, PTL DEF Spec

-----------------------------------------------------------------------------
(* The order in which runs are drained.                                    *)

(* The size of the run position i is in at the start.                      *)
RunSize(s, i) == Cardinality(Run(s, DOMAIN s, RunStart(s, i)))

LEMMA RunsAreNumbers ==
    ASSUME NEW T, NEW s \in Seq(T), NEW i \in DOMAIN s
    PROVE  RunStart(s, i) \in Nat /\ RunSize(s, i) \in Nat /\ i \in Nat
<1>1. Len(s) \in Nat /\ DOMAIN s = 1..Len(s)
  OBVIOUS
<1>2. i \in Nat \ {0}
  BY <1>1
<1>3. RunStart(s, i) \in 1..i
  BY <1>2, RunStartIsPosition
<1>4. Run(s, DOMAIN s, RunStart(s, i)) \in SUBSET (1..Len(s))
  BY <1>1 DEF Run
<1>5. RunSize(s, i) \in Nat
  BY <1>1, <1>4, PositionsAreFinite DEF RunSize
<1> QED BY <1>2, <1>3, <1>5

LEMMA BeforeIsOrder ==
    ASSUME NEW T, NEW s \in Seq(T), NEW i \in DOMAIN s, NEW j \in DOMAIN s
    PROVE  /\ i # j => Before(s, i, j) \/ Before(s, j, i)
           /\ Before(s, i, j) => ~Before(s, j, i) /\ i # j
<1>1. /\ RunStart(s, i) \in Nat /\ RunSize(s, i) \in Nat /\ i \in Nat
      /\ RunStart(s, j) \in Nat /\ RunSize(s, j) \in Nat /\ j \in Nat
  BY RunsAreNumbers
<1>2. RunStart(s, i) = RunStart(s, j) => RunSize(s, i) = RunSize(s, j)
  BY DEF RunSize
<1>3. /\ Before(s, i, j) <=>
            \/ RunSize(s, i) < RunSize(s, j)
            \/ RunSize(s, i) = RunSize(s, j) /\ RunStart(s, i) < RunStart(s, j)
            \/ RunStart(s, i) = RunStart(s, j) /\ i > j
      /\ Before(s, j, i) <=>
            \/ RunSize(s, j) < RunSize(s, i)
            \/ RunSize(s, j) = RunSize(s, i) /\ RunStart(s, j) < RunStart(s, i)
            \/ RunStart(s, j) = RunStart(s, i) /\ j > i
  BY DEF Before, RunSize
<1> QED BY <1>1, <1>2, <1>3

(* What is left holds with a position all that come after it.              *)
AllAfter(s, left) == \A i \in left, j \in DOMAIN s : Before(s, i, j) => j \in left

(* Of such positions the next to be taken comes before all others: a run   *)
(* that is not the one being drained is still whole.                       *)
LEMMA NextIsFirst ==
    ASSUME NEW T, NEW s \in Seq(T), NEW left \in SUBSET DOMAIN s, left # {},
           AllAfter(s, left)
    PROVE  \A j \in left : j # NextToCancel(s, left) => Before(s, NextToCancel(s, left), j)
<1> DEFINE next == NextToCancel(s, left)
           Start(i) == RunStart(s, i)
           Size(a) == Cardinality(Run(s, left, a))
<1>1. Len(s) \in Nat /\ DOMAIN s = 1..Len(s) /\ left \in SUBSET (1..Len(s))
  OBVIOUS
<1>2. /\ next \in left
      /\ \A i \in left : Start(i) = Start(next) => i <= next
      /\ \A i \in left : \/ Size(Start(next)) < Size(Start(i))
                         \/ Size(Start(next)) = Size(Start(i)) /\ Start(next) <= Start(i)
  BY <1>1, NextIsLast
<1> HIDE DEF next, Size
<1>3. \A a : /\ Run(s, left, a) \in SUBSET Run(s, DOMAIN s, a)
             /\ Run(s, DOMAIN s, a) \in SUBSET (1..Len(s))
  BY <1>1 DEF Run
<1>4. ASSUME NEW i \in left PROVE Size(Start(i)) <= RunSize(s, i) /\ Size(Start(i)) \in Nat
  <2> DEFINE L == Run(s, left, Start(i))
             D == Run(s, DOMAIN s, Start(i))
  <2>1. L \in SUBSET D /\ D \in SUBSET (1..Len(s)) /\ L \in SUBSET (1..Len(s))
    BY <1>3
  <2>2. Size(Start(i)) = Cardinality(L) /\ RunSize(s, i) = Cardinality(D)
    BY DEF Size, RunSize
  <2> HIDE DEF L, D
  <2>3. IsFiniteSet(D) /\ Cardinality(L) \in Nat
    BY <1>1, <2>1, PositionsAreFinite
  <2>4. Cardinality(L) <= Cardinality(D)
    BY <2>1, <2>3, FS_Subset
  <2> QED BY <2>2, <2>3, <2>4
<1>5. ASSUME NEW j \in left, j # next, ~Before(s, next, j) PROVE FALSE
  <2>1. /\ j \in DOMAIN s /\ next \in DOMAIN s
        /\ Start(j) \in Nat /\ RunSize(s, j) \in Nat /\ j \in Nat
        /\ Start(next) \in Nat /\ RunSize(s, next) \in Nat /\ next \in Nat
    BY <1>2, RunsAreNumbers
  <2>2. /\ ~(RunSize(s, next) < RunSize(s, j))
        /\ ~(RunSize(s, next) = RunSize(s, j) /\ Start(next) < Start(j))
        /\ ~(Start(next) = Start(j) /\ next > j)
    BY <1>5 DEF Before, RunSize
  <2>3. Start(next) # Start(j)
    BY <1>2, <1>5, <2>1, <2>2
  <2>4. Run(s, left, Start(next)) = Run(s, DOMAIN s, Start(next))
    <3> SUFFICES ASSUME NEW i \in DOMAIN s, Start(i) = Start(next) PROVE i \in left
      BY <1>1, <1>3 DEF Run
    <3>1. RunSize(s, i) = RunSize(s, next)
      BY DEF RunSize
    <3>2. Before(s, j, i)
      <4>1. \/ RunSize(s, j) < RunSize(s, i)
            \/ RunSize(s, j) = RunSize(s, i) /\ Start(j) < Start(i)
        BY <2>1, <2>2, <2>3, <3>1
      <4> QED BY <4>1 DEF Before, RunSize
    <3> QED BY <3>2 DEF AllAfter
  <2>5. Size(Start(next)) = RunSize(s, next)
    BY <2>4 DEF Size, RunSize
  <2>6. Size(Start(j)) <= RunSize(s, j) /\ Size(Start(j)) \in Nat
    BY <1>4
  <2>7. \/ Size(Start(next)) < Size(Start(j))
        \/ Size(Start(next)) = Size(Start(j)) /\ Start(next) <= Start(j)
    BY <1>2
  <2> HIDE DEF Start
  <2> QED BY <2>1, <2>2, <2>3, <2>5, <2>6, <2>7
<1> QED BY <1>5 DEF next

(* So it is with every round: what it takes comes before all it leaves.    *)
LEMMA RoundsTakeFirst ==
    ASSUME NEW T, NEW s \in Seq(T)
    PROVE  \A k \in 1..Len(s) :
              LET left == LeftAfterRounds(s)
                  next == NextToCancel(s, left[k - 1])
              IN  /\ next \in left[k - 1]
                  /\ \A j \in left[k - 1] : j # next => Before(s, next, j)
                  /\ AllAfter(s, left[k - 1])
<1> DEFINE left == LeftAfterRounds(s)
           len == Len(s)
           At(k) == NextToCancel(s, left[k - 1])
           Bad == {k \in 0..len : ~AllAfter(s, left[k])}
<1>1. len \in Nat /\ DOMAIN s = 1..len
  OBVIOUS
<1>2. /\ \A k \in 0..len : left[k] \in SUBSET DOMAIN s
      /\ \A k \in 1..len : At(k) \in left[k - 1] /\ left[k] = left[k - 1] \ {At(k)}
  BY RoundsTakeOne
<1>3. left[0] = DOMAIN s
  BY <1>1, RoundsFollow
<1> HIDE DEF left
<1>4. ASSUME NEW k \in 1..len, AllAfter(s, left[k - 1])
      PROVE  /\ \A j \in left[k - 1] : j # At(k) => Before(s, At(k), j)
             /\ AllAfter(s, left[k])
  <2>1. k - 1 \in 0..len
    BY <1>1
  <2>2. left[k - 1] \in SUBSET DOMAIN s /\ left[k - 1] # {} /\ At(k) \in left[k - 1]
    BY <1>2, <2>1
  <2>3. \A j \in left[k - 1] : j # At(k) => Before(s, At(k), j)
    BY <1>4, <2>2, NextIsFirst
  <2> HIDE DEF At
  <2>4. ASSUME NEW i \in left[k], NEW j \in DOMAIN s, Before(s, i, j) PROVE j \in left[k]
    <3>1. i \in left[k - 1] /\ i # At(k) /\ i \in DOMAIN s
      BY <1>2, <2>2, <2>4
    <3>2. j \in left[k - 1]
      BY <1>4, <2>4, <3>1 DEF AllAfter
    <3>3. ~Before(s, i, At(k))
      BY <2>2, <2>3, <3>1, BeforeIsOrder
    <3> QED BY <1>2, <2>4, <3>2, <3>3
  <2> QED BY <2>3, <2>4 DEF AllAfter
<1>5. AllAfter(s, left[0])
  BY <1>3 DEF AllAfter
<1>6. Bad = {}
  <2> SUFFICES ASSUME Bad # {} PROVE FALSE
    OBVIOUS
  <2> HIDE DEF len
  <2>1. \E m \in Bad : \A r \in Bad : m <= r
    <3>1. Bad \in SUBSET Nat
      BY <1>1
    <3> HIDE DEF Bad
    <3> QED BY <3>1, LeastNumber
  <2>2. PICK m \in 0..len : /\ ~AllAfter(s, left[m])
                            /\ \A r \in 0..len : ~AllAfter(s, left[r]) => m <= r
    BY <2>1
  <2>3. m # 0
    BY <1>5, <2>2
  <2>4. m \in 1..len /\ m - 1 \in 0..len /\ ~(m <= m - 1)
    BY <1>1, <2>3
  <2> QED BY <1>4, <2>2, <2>4
<1>7. \A k \in 0..len : AllAfter(s, left[k])
  BY <1>6
<1>8. ASSUME NEW k \in 1..len
      PROVE  /\ At(k) \in left[k - 1] /\ AllAfter(s, left[k - 1])
             /\ \A j \in left[k - 1] : j # At(k) => Before(s, At(k), j)
  <2>1. k - 1 \in 0..len
    BY <1>1
  <2>2. AllAfter(s, left[k - 1])
    BY <1>7, <2>1
  <2> QED BY <1>2, <1>4, <2>2
<1> QED BY <1>8 DEF left

Rank(s, i) == Cardinality({j \in DOMAIN s : Before(s, j, i)}) + 1

(* Round k takes the position of rank k, and no other has that rank.       *)
LEMMA RoundTakesRank ==
    ASSUME NEW T, NEW s \in Seq(T), NEW k \in 1..Len(s)
    PROVE  LET next == NextToCancel(s, LeftAfterRounds(s)[k - 1])
           IN  /\ next \in DOMAIN s
               /\ Rank(s, next) = k
               /\ \A i \in DOMAIN s : Rank(s, i) = k => i = next
<1> DEFINE left == LeftAfterRounds(s)[k - 1]
           next == NextToCancel(s, left)
           Lower(i) == {j \in DOMAIN s : Before(s, j, i)}
<1>1. Len(s) \in Nat /\ DOMAIN s = 1..Len(s) /\ k - 1 \in 0..Len(s) /\ k \in Int
  OBVIOUS
<1>2. left \in SUBSET DOMAIN s /\ Cardinality(left) = Len(s) - (k - 1)
  BY <1>1, RoundsTakeOne
<1>3. /\ next \in left /\ \A j \in left : j # next => Before(s, next, j)
      /\ AllAfter(s, left)
  BY RoundsTakeFirst
<1> HIDE DEF left, next
<1>4. IsFiniteSet(DOMAIN s) /\ Cardinality(DOMAIN s) = Len(s)
  BY <1>1, FS_Interval
<1>5. Lower(next) = DOMAIN s \ left
  <2>1. ASSUME NEW j \in DOMAIN s, j \notin left PROVE Before(s, j, next)
    <3>1. j # next /\ ~Before(s, next, j) /\ next \in DOMAIN s
      BY <1>2, <1>3, <2>1 DEF AllAfter
    <3> QED BY <3>1, BeforeIsOrder
  <2>2. ASSUME NEW j \in left PROVE ~Before(s, j, next)
    BY <1>2, <1>3, BeforeIsOrder
  <2> QED BY <2>1, <2>2
<1>6. Cardinality(Lower(next)) = k - 1
  <2> DEFINE D == DOMAIN s
  <2>1. IsFiniteSet(D) /\ D \cap left = left /\ Cardinality(D) = Len(s)
    BY <1>2, <1>4
  <2>2. Cardinality(D \ left) = Cardinality(D) - Cardinality(D \cap left)
    <3> HIDE DEF D
    <3> QED BY <2>1, FS_Difference
  <2>3. Cardinality(D \ left) = Len(s) - (Len(s) - (k - 1))
    BY <1>2, <2>1, <2>2
  <2>4. Len(s) - (Len(s) - (k - 1)) = k - 1
    BY <1>1
  <2> HIDE DEF Lower
  <2> QED BY <1>5, <2>3, <2>4
<1>7. ASSUME NEW i \in DOMAIN s, Rank(s, i) = k, i # next PROVE FALSE
  <2>1. Cardinality(Lower(i)) + 1 = k
    BY <1>7 DEF Rank
  <2>2. \A x \in DOMAIN s : IsFiniteSet(Lower(x)) /\ Cardinality(Lower(x)) \in Nat
    <3>1. \A x \in DOMAIN s : Lower(x) \in SUBSET DOMAIN s
      OBVIOUS
    <3> HIDE DEF Lower
    <3> QED BY <1>4, <3>1, FS_Subset, FS_CardinalityType
  <2>3. next \in DOMAIN s /\ next \notin Lower(next) /\ i \notin Lower(i)
    BY <1>2, <1>3, BeforeIsOrder
  <2>4. CASE i \in left
    <3>1. next \in Lower(i) /\ Before(s, next, i)
      BY <1>3, <1>7, <2>3, <2>4
    <3>2. Lower(next) \in SUBSET Lower(i)
      <4> SUFFICES ASSUME NEW j \in DOMAIN s, j \notin left PROVE Before(s, j, i)
        BY <1>5
      <4>1. ~Before(s, i, j) /\ i # j
        BY <1>3, <2>4 DEF AllAfter
      <4> QED BY <4>1, BeforeIsOrder
    <3>3. Lower(next) # Lower(i)
      BY <2>3, <3>1
    <3> HIDE DEF Lower
    <3>4. Cardinality(Lower(next)) <= Cardinality(Lower(i))
          /\ Cardinality(Lower(next)) # Cardinality(Lower(i))
      BY <2>2, <3>2, <3>3, FS_Subset
    <3> QED BY <1>1, <1>6, <2>1, <2>2, <2>3, <3>4
  <2>5. CASE i \notin left
    <3>1. i \in Lower(next)
      BY <1>5, <2>5
    <3>2. Lower(i) \in SUBSET Lower(next)
      <4> SUFFICES ASSUME NEW j \in left PROVE ~Before(s, j, i)
        BY <1>5
      <4> QED BY <1>3, <2>5 DEF AllAfter
    <3>3. Lower(next) # Lower(i)
      BY <2>3, <3>1
    <3> HIDE DEF Lower
    <3>4. Cardinality(Lower(i)) <= Cardinality(Lower(next))
          /\ Cardinality(Lower(next)) # Cardinality(Lower(i))
      BY <2>2, <2>3, <3>2, <3>3, FS_Subset
    <3> QED BY <1>1, <1>6, <2>1, <2>2, <2>3, <3>4
  <2> QED BY <2>4, <2>5
<1>8. Rank(s, next) = k
  BY <1>1, <1>6 DEF Rank
<1> QED BY <1>2, <1>3, <1>7, <1>8 DEF next, left

(* The loop and the order agree on every list.                             *)
LEMMA DrainedInOrder ==
    ASSUME NEW T, NEW s \in Seq(T), NEW c \in Nat
    PROVE  selectCourtsToCancel(s, c)
              = SubSeq(ReleaseOrder(s), 1, IF c < Len(s) THEN c ELSE Len(s))
<1> DEFINE At(k) == NextToCancel(s, LeftAfterRounds(s)[k - 1])
           total == IF c < Len(s) THEN c ELSE Len(s)
           taken == selectCourtsToCancel(s, c)
           order == ReleaseOrder(s)
<1>1. Len(s) \in Nat /\ DOMAIN s = 1..Len(s) /\ total \in 0..Len(s)
      /\ \A i \in DOMAIN s : s[i] \in T
  OBVIOUS
<1>2. /\ taken \in Seq(T) /\ Len(taken) = total
      /\ \A k \in 1..total : taken[k] = s[At(k)]
  BY TakenAreDistinct
<1>3. order = [r \in DOMAIN s |-> s[CHOOSE i \in DOMAIN s : Rank(s, i) = r]]
  BY DEF ReleaseOrder, Rank
<1> HIDE DEF total, taken, order
<1>4. ASSUME NEW r \in DOMAIN s
      PROVE  (CHOOSE i \in DOMAIN s : Rank(s, i) = r) = At(r) /\ At(r) \in DOMAIN s
  <2>1. r \in 1..Len(s)
    BY <1>1
  <2>2. /\ At(r) \in DOMAIN s /\ Rank(s, At(r)) = r
        /\ \A i \in DOMAIN s : Rank(s, i) = r => i = At(r)
    BY <2>1, RoundTakesRank
  <2> HIDE DEF At
  <2> QED BY <2>2
<1> HIDE DEF At
<1>5. ASSUME NEW r \in 1..Len(s) PROVE order[r] = s[At(r)] /\ order[r] \in T
  <2>1. r \in DOMAIN s
    BY <1>1
  <2>2. order[r] = s[CHOOSE i \in DOMAIN s : Rank(s, i) = r]
    BY <1>3, <2>1
  <2>3. order[r] = s[At(r)] /\ At(r) \in DOMAIN s
    BY <1>4, <2>1, <2>2
  <2> QED BY <1>1, <2>3
<1>6. order \in [1..Len(s) -> T]
  <2>1. order = [r \in 1..Len(s) |-> order[r]]
    BY <1>1, <1>3
  <2> QED BY <1>5, <2>1
<1>7. order \in Seq(T) /\ Len(order) = Len(s)
  BY <1>1, <1>6
<1> DEFINE q == SubSeq(order, 1, total)
<1>8. q \in Seq(T) /\ Len(q) = total /\ \A k \in 1..total : q[k] = order[k]
  BY <1>1, <1>7
<1> HIDE DEF q
<1>9. \A k \in 1..total : q[k] = taken[k]
  <2>1. \A k \in 1..total : k \in 1..Len(s)
    BY <1>1
  <2> QED BY <1>2, <1>5, <1>8, <2>1
<1>10. taken = q
  BY <1>2, <1>8, <1>9
<1> QED BY <1>10 DEF q, taken, order, total

(* The greedy loop that groups again after every pick drains whole runs    *)
(* (selectCourtsToCancel), whatever courts are reserved and however many   *)
(* are given back.                                                         *)
THEOREM WholeRunsGoFirst == Spec => []RunsAreDrainedInOrder
<1>1. WalkInv => RunsAreDrainedInOrder
  BY DrainedInOrder DEF WalkInv, RunsAreDrainedInOrder
<1> QED BY <1>1, WalkIsTyped, PTL

-----------------------------------------------------------------------------
(* Preferences.                                                            *)

LEMMA ReversedPreference == ASSUME WalkInv PROVE PreferenceIsReversed
<1> DEFINE preferred == Preference
           gone == ToSet(CourtsToCancel(reserved, preferred, n))
           kept == ToSet(reserved) \ gone
           Place(c) == CHOOSE i \in DOMAIN preferred : preferred[i] = c
<1>1. preferred \in Seq(Nat) /\ reserved \in Seq(Nat) /\ n \in Nat
  <2> DEFINE keep == {i \in DOMAIN listed : listed[i] # 0}
  <2>1. keep \in SUBSET DOMAIN listed /\ listed \in Seq(Nat)
    BY DEF WalkInv
  <2> HIDE DEF keep
  <2>2. Kept(listed, keep) \in Seq(Nat)
    BY <2>1, KeptIs
  <2> QED BY <2>2 DEF WalkInv, Preference, keep
<1> SUFFICES ASSUME IsInjective(preferred)
             PROVE  /\ gone \subseteq ToSet(reserved)
                    /\ \A c \in gone, d \in kept :
                          d \in ToSet(preferred) =>
                              c \in ToSet(preferred) /\ Place(d) < Place(c)
                    /\ IsInjective(reserved) => Cardinality(gone) = Min({n, Len(reserved)})
  BY DEF PreferenceIsReversed
<1> HIDE DEF preferred
<1>2. /\ gone \subseteq ToSet(reserved)
      /\ \A c \in gone, j \in DOMAIN preferred :
            preferred[j] \in ToSet(reserved) \ gone =>
               \E i \in DOMAIN preferred : j < i /\ preferred[i] = c
      /\ IsInjective(reserved) =>
            Cardinality(gone) = IF n < Len(reserved) THEN n ELSE Len(reserved)
  BY <1>1, ReleaseIsExact
<1> HIDE DEF gone
<1>3. \A i \in DOMAIN preferred : Place(preferred[i]) = i
  BY DEF IsInjective
<1>4. ASSUME NEW c \in gone, NEW d \in kept, d \in ToSet(preferred)
      PROVE  c \in ToSet(preferred) /\ Place(d) < Place(c)
  <2>1. PICK j \in DOMAIN preferred : preferred[j] = d
    BY <1>4 DEF ToSet
  <2>2. PICK i \in DOMAIN preferred : j < i /\ preferred[i] = c
    BY <1>2, <2>1
  <2>3. Place(d) = j /\ Place(c) = i
    BY <1>3, <2>1, <2>2
  <2> QED BY <2>2, <2>3 DEF ToSet
<1>5. Min({n, Len(reserved)}) = IF n < Len(reserved) THEN n ELSE Len(reserved)
  <2>1. n \in Int /\ Len(reserved) \in Int
    BY <1>1
  <2> QED BY <2>1 DEF Min
<1> QED BY <1>2, <1>4, <1>5

-----------------------------------------------------------------------------
(* Free courts.                                                            *)

(* The court numbers a facility of these numbers has free, and of them the *)
(* ones a session may be held on.                                          *)
FreePlaces(nums, occupied) == {i \in DOMAIN nums : i \notin occupied /\ nums[i] > 0}
Eligible(nums, occupied, venue) ==
    LET free == {nums[i] : i \in FreePlaces(nums, occupied)}
    IN  IF free \cap venue = {} THEN free ELSE free \cap venue

(* What is offered of them, in terms of court numbers.                     *)
OfferIs(offered, nums, occupied, ours, preferred) ==
    LET liked == ours \cap ToSet(preferred)
        Place(c) == CHOOSE i \in DOMAIN preferred : preferred[i] = c
    IN  /\ ToSet(offered) \subseteq FreePlaces(nums, occupied)
        /\ {nums[i] : i \in ToSet(offered)} = (IF liked = {} THEN ours ELSE liked)
        /\ \A j, k \in DOMAIN offered : j < k =>
              /\ nums[offered[j]] # nums[offered[k]]
              /\ liked # {} => Place(nums[offered[j]]) < Place(nums[offered[k]])

(* A list c of len numbers that names what is to be offered of ours, each  *)
(* number once and preferred numbers in their order; Id gives free courts  *)
(* of these numbers.                                                       *)
Names(c, len, Id, nums, occupied, ours, preferred) ==
    LET liked == ours \cap ToSet(preferred)
        Place(d) == CHOOSE i \in DOMAIN preferred : preferred[i] = d
    IN  /\ \A d \in ours : Id[d] \in FreePlaces(nums, occupied) /\ nums[Id[d]] = d
        /\ {c[k] : k \in 1..len} = IF liked = {} THEN ours ELSE liked
        /\ \A j, k \in 1..len : j < k =>
              c[j] # c[k] /\ (liked # {} => Place(c[j]) < Place(c[k]))

LEMMA OfferOfNumbers ==
    ASSUME NEW nums \in Seq(Nat), NEW occupied, NEW ours, NEW preferred,
           NEW Id, NEW len \in Nat, NEW c,
           Names(c, len, Id, nums, occupied, ours, preferred)
    PROVE  OfferIs([k \in 1..len |-> Id[c[k]]], nums, occupied, ours, preferred)
<1> DEFINE offered == [k \in 1..len |-> Id[c[k]]]
           liked == ours \cap ToSet(preferred)
           Place(d) == CHOOSE i \in DOMAIN preferred : preferred[i] = d
<1>0. /\ \A d \in ours : Id[d] \in FreePlaces(nums, occupied) /\ nums[Id[d]] = d
      /\ {c[k] : k \in 1..len} = IF liked = {} THEN ours ELSE liked
      /\ \A j, k \in 1..len : j < k =>
            c[j] # c[k] /\ (liked # {} => Place(c[j]) < Place(c[k]))
  BY DEF Names
<1>1. \A k \in 1..len : c[k] \in ours
  BY <1>0
<1>2. \A k \in 1..len : offered[k] \in FreePlaces(nums, occupied) /\ nums[offered[k]] = c[k]
  BY <1>0, <1>1
<1>3. ToSet(offered) = {offered[k] : k \in 1..len} /\ DOMAIN offered = 1..len
  BY DEF ToSet
<1> HIDE DEF offered
<1>4. ToSet(offered) \subseteq FreePlaces(nums, occupied)
  BY <1>2, <1>3
<1>5. {nums[i] : i \in ToSet(offered)} = {c[k] : k \in 1..len}
  BY <1>2, <1>3
<1>6. ASSUME NEW j \in DOMAIN offered, NEW k \in DOMAIN offered, j < k
      PROVE  /\ nums[offered[j]] # nums[offered[k]]
             /\ liked # {} => Place(nums[offered[j]]) < Place(nums[offered[k]])
  <2>1. j \in 1..len /\ k \in 1..len
    BY <1>3
  <2>2. nums[offered[j]] = c[j] /\ nums[offered[k]] = c[k]
    BY <1>2, <2>1
  <2>3. c[j] # c[k] /\ (liked # {} => Place(c[j]) < Place(c[k]))
    BY <1>0, <1>6, <2>1
  <2> QED BY <2>2, <2>3
<1>7. {nums[i] : i \in ToSet(offered)} = (IF liked = {} THEN ours ELSE liked)
  BY <1>0, <1>5
<1> QED BY <1>4, <1>6, <1>7 DEF OfferIs, offered

(* filterFreeCourts offers free courts of the right numbers, each number   *)
(* once, preferred numbers in their order.                                 *)
LEMMA OfferIsRight ==
    ASSUME NEW nums \in Seq(Nat), NEW occupied, NEW venue,
           NEW preferred \in Seq(Nat), IsInjective(preferred)
    PROVE  OfferIs(filterFreeCourts([i \in DOMAIN nums |-> [id |-> i, num |-> nums[i]]],
                                    occupied, venue, preferred),
                   nums, occupied, Eligible(nums, occupied, venue), preferred)
<1> DEFINE Court == [id : Nat, num : Nat]
           all == [i \in DOMAIN nums |-> [id |-> i, num |-> nums[i]]]
           open == {i \in DOMAIN all : all[i].id \notin occupied}
           free == Kept(all, open)
           len == Cardinality(open)
           numbered == {i \in DOMAIN free : free[i].num > 0}
           frees == {free[i].num : i \in numbered}
           ours == Eligible(nums, occupied, venue)
           Of(d) == {i \in numbered : free[i].num = d}
           Id == [d \in ours |-> free[Max(Of(d))].id]
           offered == filterFreeCourts(all, occupied, venue, preferred)
<1>1. /\ DOMAIN nums = 1..Len(nums) /\ Len(nums) \in Nat
      /\ \A i \in DOMAIN nums : nums[i] \in Nat /\ i \in Nat
  OBVIOUS
<1>2. all \in Seq(Court) /\ DOMAIN all = DOMAIN nums
      /\ \A i \in DOMAIN nums : all[i].id = i /\ all[i].num = nums[i]
  <2>1. \A i \in DOMAIN nums : all[i] \in Court /\ all[i].id = i /\ all[i].num = nums[i]
    BY <1>1
  <2>2. DOMAIN all = DOMAIN nums /\ all = [i \in DOMAIN nums |-> all[i]]
    OBVIOUS
  <2> HIDE DEF all, Court
  <2>3. all \in [1..Len(nums) -> Court]
    BY <1>1, <2>1, <2>2
  <2>4. all \in Seq(Court)
    <3>1. Len(nums) \in Nat
      OBVIOUS
    <3>2. \A k \in Nat : \A f \in [1..k -> Court] : f \in Seq(Court)
      OBVIOUS
    <3> QED BY <2>3, <3>1, <3>2
  <2> QED BY <2>1, <2>2, <2>4
<1> HIDE DEF all, Court
<1>3. open = {i \in DOMAIN nums : i \notin occupied} /\ open \in SUBSET DOMAIN all
  BY <1>2
<1>4. /\ free \in Seq(Court) /\ len \in Nat /\ DOMAIN free = 1..len
      /\ \A k \in 1..len : free[k] = all[Position(open, k)] /\ Position(open, k) \in open
      /\ \A i \in open : /\ Cardinality(UpTo(open, i)) \in 1..len
                         /\ free[Cardinality(UpTo(open, i))] = all[i]
  <2> HIDE DEF open
  <2>1. all \in Seq(Court) /\ open \in SUBSET DOMAIN all
    BY <1>2, <1>3
  <2>2. free \in Seq(Court) /\ len \in Nat /\ DOMAIN free = 1..len
    BY <2>1, KeptIs
  <2>3. \A k \in 1..len : free[k] = all[Position(open, k)] /\ Position(open, k) \in open
    BY <2>1, KeptIs
  <2>4. \A i \in open : /\ Cardinality(UpTo(open, i)) \in 1..len
                        /\ free[Cardinality(UpTo(open, i))] = all[i]
    BY <2>1, KeptIs
  <2> HIDE DEF free, len
  <2> QED BY <2>2, <2>3, <2>4
<1> HIDE DEF open, free, len
<1>5. \A k \in 1..len : /\ free[k].id \in DOMAIN nums /\ free[k].id \notin occupied
                        /\ free[k].num = nums[free[k].id] /\ free[k].num \in Nat
  <2> SUFFICES ASSUME NEW k \in 1..len
               PROVE  /\ free[k].id \in DOMAIN nums /\ free[k].id \notin occupied
                      /\ free[k].num = nums[free[k].id] /\ free[k].num \in Nat
    OBVIOUS
  <2>1. free[k] = all[Position(open, k)] /\ Position(open, k) \in open
    BY <1>4
  <2>2. Position(open, k) \in DOMAIN nums /\ Position(open, k) \notin occupied
    BY <1>3, <2>1
  <2>3. free[k].id = Position(open, k) /\ free[k].num = nums[Position(open, k)]
    BY <1>2, <2>1, <2>2
  <2> QED BY <1>1, <2>2, <2>3
<1>6. frees = {nums[i] : i \in FreePlaces(nums, occupied)}
  <2>1. ASSUME NEW k \in numbered PROVE free[k].num \in {nums[i] : i \in FreePlaces(nums, occupied)}
    <3>1. k \in 1..len /\ free[k].num > 0
      BY <1>4
    <3>2. free[k].id \in FreePlaces(nums, occupied) /\ free[k].num = nums[free[k].id]
      BY <1>5, <3>1 DEF FreePlaces
    <3> QED BY <3>2
  <2>2. ASSUME NEW i \in FreePlaces(nums, occupied) PROVE nums[i] \in frees
    <3>1. i \in open /\ nums[i] > 0 /\ i \in DOMAIN nums
      BY <1>3 DEF FreePlaces
    <3>2. PICK k \in 1..len : free[k] = all[i]
      BY <1>4, <3>1
    <3>3. k \in numbered /\ free[k].num = nums[i]
      BY <1>2, <1>4, <3>1, <3>2
    <3> QED BY <3>3
  <2> QED BY <2>1, <2>2
<1>7. ours = IF frees \cap venue = {} THEN frees ELSE frees \cap venue
  BY <1>6 DEF Eligible
<1>8. \A d \in ours : Id[d] \in FreePlaces(nums, occupied) /\ nums[Id[d]] = d
  <2> SUFFICES ASSUME NEW d \in ours PROVE Id[d] \in FreePlaces(nums, occupied) /\ nums[Id[d]] = d
    OBVIOUS
  <2>1. d \in frees
    BY <1>7
  <2>2. Of(d) \in SUBSET (1..len) /\ Of(d) # {}
    BY <1>4, <2>1
  <2>3. Max(Of(d)) \in Of(d)
    <3> HIDE DEF Of
    <3> QED BY <1>4, <2>2, GreatestPosition
  <2>4. Max(Of(d)) \in 1..len /\ free[Max(Of(d))].num = d /\ free[Max(Of(d))].num > 0
    BY <2>2, <2>3
  <2>5. Id[d] = free[Max(Of(d))].id
    OBVIOUS
  <2> HIDE DEF Id, Of
  <2> QED BY <1>5, <2>4, <2>5 DEF FreePlaces
<1> DEFINE chosen == {i \in DOMAIN preferred : preferred[i] \in ours}
           wanted == Kept(preferred, chosen)
           first == {i \in DOMAIN free :
                        /\ free[i].num \in ours
                        /\ \A j \in 1..(i - 1) : free[j].num # free[i].num}
           firsts == Kept(free, first)
<1>9. offered = IF wanted # <<>>
                THEN [k \in DOMAIN wanted |-> free[Max(Of(wanted[k]))].id]
                ELSE [k \in DOMAIN firsts |-> free[Max(Of(firsts[k].num))].id]
  BY <1>7 DEF filterFreeCourts, free, open
<1> HIDE DEF offered, numbered, frees, ours, Of
<1>10. /\ wanted \in Seq(Nat) /\ Cardinality(chosen) \in Nat
       /\ Len(wanted) = Cardinality(chosen) /\ DOMAIN wanted = 1..Cardinality(chosen)
       /\ ToSet(wanted) = {preferred[i] : i \in chosen}
       /\ \A k \in 1..Cardinality(chosen) :
             wanted[k] = preferred[Position(chosen, k)] /\ Position(chosen, k) \in chosen
  <2>1. chosen \in SUBSET DOMAIN preferred
    OBVIOUS
  <2> HIDE DEF chosen
  <2> QED BY <2>1, KeptIs
<1>11. ToSet(wanted) = ours \cap ToSet(preferred)
  BY <1>10 DEF ToSet
<1>12. \A j, k \in 1..Cardinality(chosen) : j < k => Position(chosen, j) < Position(chosen, k)
  <2>1. chosen \in SUBSET (1..Len(preferred)) /\ Len(preferred) \in Nat
    OBVIOUS
  <2> HIDE DEF chosen
  <2> QED BY <2>1, PositionsAscend
<1>13. /\ firsts \in Seq(Court) /\ Cardinality(first) \in Nat
       /\ DOMAIN firsts = 1..Cardinality(first)
       /\ ToSet(firsts) = {free[i] : i \in first}
       /\ \A k \in 1..Cardinality(first) :
             firsts[k] = free[Position(first, k)] /\ Position(first, k) \in first
  <2>1. first \in SUBSET DOMAIN free
    OBVIOUS
  <2>2. free \in Seq(Court)
    BY <1>4
  <2> HIDE DEF first, free
  <2> QED BY <2>1, <2>2, KeptIs
<1>14. \A j, k \in 1..Cardinality(first) : j < k => Position(first, j) < Position(first, k)
  <2>1. first \in SUBSET (1..len)
    BY <1>4
  <2> HIDE DEF first
  <2> QED BY <1>4, <2>1, PositionsAscend
<1>15. CASE wanted # <<>>
  <2> DEFINE m == Cardinality(chosen)
  <2>1. ours \cap ToSet(preferred) # {}
    <3> HIDE DEF wanted
    <3>1. 1 \in DOMAIN wanted
      BY <1>10, <1>15
    <3>2. wanted[1] \in ToSet(wanted)
      BY <3>1 DEF ToSet
    <3> QED BY <1>11, <3>2
  <2>2. {wanted[k] : k \in 1..m} = ours \cap ToSet(preferred)
    BY <1>10, <1>11 DEF ToSet
  <2>3. \A i \in DOMAIN preferred : (CHOOSE h \in DOMAIN preferred : preferred[h] = preferred[i]) = i
    BY DEF IsInjective
  <2>4. \A k \in 1..m : (CHOOSE h \in DOMAIN preferred : preferred[h] = wanted[k]) = Position(chosen, k)
    BY <1>10, <2>3
  <2>5. ASSUME NEW j \in 1..m, NEW k \in 1..m, j < k
        PROVE  /\ wanted[j] # wanted[k]
               /\ (CHOOSE h \in DOMAIN preferred : preferred[h] = wanted[j])
                     < (CHOOSE h \in DOMAIN preferred : preferred[h] = wanted[k])
    <3>1. Position(chosen, j) < Position(chosen, k) /\ Position(chosen, j) \in Nat
      <4>1. Position(chosen, j) < Position(chosen, k) /\ Position(chosen, j) \in chosen
        BY <1>10, <1>12, <2>5
      <4>2. chosen \in SUBSET Nat
        OBVIOUS
      <4> HIDE DEF chosen
      <4> QED BY <4>1, <4>2
    <3>2. Position(chosen, j) # Position(chosen, k)
      BY <3>1
    <3> HIDE DEF chosen, wanted
    <3> QED BY <2>4, <3>1, <3>2
  <2>6. offered = [k \in 1..m |-> Id[wanted[k]]]
    <3>1. \A k \in 1..m : wanted[k] \in ours
      BY <2>2
    <3>2. \A k \in 1..m : Id[wanted[k]] = free[Max(Of(wanted[k]))].id
      BY <3>1
    <3> HIDE DEF wanted, Id, chosen
    <3> QED BY <1>9, <1>10, <1>15, <3>2
  <2>7. m \in Nat
    BY <1>10
  <2> HIDE DEF wanted, m, Id, chosen
  <2>8. OfferIs([k \in 1..m |-> Id[wanted[k]]], nums, occupied, ours, preferred)
    <3>1. Names(wanted, m, Id, nums, occupied, ours, preferred)
      BY <1>8, <2>1, <2>2, <2>5 DEF Names
    <3> QED BY <2>7, <3>1, OfferOfNumbers
  <2> QED BY <2>6, <2>8 DEF offered, all, ours
<1>16. CASE wanted = <<>>
  <2> DEFINE m == Cardinality(first)
             c == [k \in 1..m |-> firsts[k].num]
  <2>1. ours \cap ToSet(preferred) = {}
    <3> HIDE DEF wanted
    <3>1. DOMAIN wanted = {}
      BY <1>16
    <3> QED BY <1>11, <3>1 DEF ToSet
  <2>2. \A k \in 1..m : c[k] = free[Position(first, k)].num /\ Position(first, k) \in first
    BY <1>13
  <2>3. \A k \in 1..m : c[k] \in ours
    BY <2>2
  <2>4. ASSUME NEW d \in ours PROVE \E k \in 1..m : c[k] = d
    <3> DEFINE P == {i \in DOMAIN free : free[i].num = d}
    <3>1. P \in SUBSET Nat /\ P # {}
      BY <1>4, <1>7 DEF frees, numbered
    <3>2. \E i \in P : \A j \in P : i <= j
      <4> HIDE DEF P
      <4> QED BY <3>1, LeastNumber
    <3>3. PICK i \in DOMAIN free : free[i].num = d /\ \A j \in DOMAIN free : free[j].num = d => i <= j
      BY <3>2
    <3>4. ASSUME NEW j \in 1..(i - 1) PROVE free[j].num # d
      <4>1. j \in DOMAIN free /\ ~(i <= j)
        BY <1>4
      <4> QED BY <3>3, <4>1
    <3>5. i \in first
      BY <3>3, <3>4
    <3> HIDE DEF first
    <3>6. free[i] \in ToSet(firsts)
      BY <1>13, <3>5
    <3> HIDE DEF firsts
    <3>7. PICK k \in 1..m : firsts[k] = free[i]
      BY <1>13, <3>6 DEF ToSet
    <3> QED BY <3>3, <3>7
  <2>5. {c[k] : k \in 1..m} = ours
    <3> HIDE DEF c, m
    <3> QED BY <2>3, <2>4
  <2>6. ASSUME NEW j \in 1..m, NEW k \in 1..m, j < k PROVE c[j] # c[k]
    <3>1. Position(first, j) < Position(first, k)
      BY <1>14, <2>6
    <3>2. /\ c[j] = free[Position(first, j)].num /\ Position(first, j) \in DOMAIN free
          /\ c[k] = free[Position(first, k)].num /\ Position(first, k) \in DOMAIN free
          /\ \A h \in 1..(Position(first, k) - 1) : free[h].num # free[Position(first, k)].num
      BY <2>2
    <3>3. Position(first, j) \in 1..(Position(first, k) - 1)
      <4>1. DOMAIN free = 1..len /\ len \in Nat
        BY <1>4
      <4> HIDE DEF c, first, free, len
      <4> QED BY <3>1, <3>2, <4>1
    <3> HIDE DEF c
    <3> QED BY <3>2, <3>3
  <2>7. offered = [k \in 1..m |-> Id[c[k]]]
    <3>1. \A k \in 1..m : Id[c[k]] = free[Max(Of(c[k]))].id
      BY <2>3
    <3>2. offered = [k \in 1..m |-> free[Max(Of(firsts[k].num))].id]
      <4> HIDE DEF wanted, firsts, Id, first
      <4>1. offered = [k \in DOMAIN firsts |-> free[Max(Of(firsts[k].num))].id]
        BY <1>9, <1>16
      <4>2. DOMAIN firsts = 1..m
        BY <1>13
      <4> QED BY <4>1, <4>2
    <3> HIDE DEF firsts, Id, first, m
    <3> QED BY <3>1, <3>2
  <2>8. m \in Nat
    BY <1>13
  <2> HIDE DEF c, m, Id
  <2>9. OfferIs([k \in 1..m |-> Id[c[k]]], nums, occupied, ours, preferred)
    <3>1. Names(c, m, Id, nums, occupied, ours, preferred)
      BY <1>8, <2>1, <2>5, <2>6 DEF Names
    <3> QED BY <2>8, <3>1, OfferOfNumbers
  <2> QED BY <2>7, <2>9 DEF offered, all, ours
<1> QED BY <1>15, <1>16

LEMMA OfferedCourts == ASSUME WalkInv PROVE FreeCourtsAreOffered
<1> SUFFICES ASSUME NEW venue \in VenueSets, NEW preferred \in PreferenceLists
             PROVE  OfferIs(filterFreeCourts(Facility, ToSet(reserved), venue, preferred), listed,
                            ToSet(reserved), Eligible(listed, ToSet(reserved), venue), preferred)
  BY DEF FreeCourtsAreOffered, OfferIs, Eligible, FreePlaces
<1>1. preferred \in Seq(Nat) /\ IsInjective(preferred)
  <2>1. ASSUME NEW a \in Nat \ {1}, preferred = <<a, 1>>
        PROVE  preferred \in Seq(Nat) /\ IsInjective(preferred)
    <3>1. preferred \in Seq(Nat) /\ DOMAIN preferred = 1..2 /\ preferred[1] = a /\ preferred[2] = 1
      BY <2>1
    <3>2. 1..2 = {1, 2}
      OBVIOUS
    <3> QED BY <3>1, <3>2 DEF IsInjective
  <2>2. CASE preferred = <<>>
    BY <2>2 DEF IsInjective
  <2>3. 2 \in Nat \ {1} /\ MaxNum \in Nat \ {1}
    BY WalkAssumption DEF WalkAssumption
  <2> QED BY <2>1, <2>2, <2>3 DEF PreferenceLists
<1>2. listed \in Seq(Nat)
  BY DEF WalkInv
<1> QED BY <1>1, <1>2, OfferIsRight DEF Facility

(* Whatever a venue prefers, courts are given up against its order and     *)
(* booked along it (cancelUsingBookingEntries, filterFreeCourts).          *)
THEOREM PreferencesAreKept == Spec => []PreferenceIsFollowed
<1>1. WalkInv => PreferenceIsFollowed
  BY ReversedPreference, OfferedCourts DEF PreferenceIsFollowed
<1> QED BY <1>1, WalkIsTyped, PTL

-----------------------------------------------------------------------------
(* How many courts, and what is said of it.                                *)

LEMMA GreatestOfTwo == ASSUME NEW a \in Int, NEW b \in Int
                       PROVE  Max({a, b}) = IF a <= b THEN b ELSE a
BY DEF Max

(* A court seats p players, a stored 0 standing for two of them.           *)
Seats(per, p) == p = IF per = 0 THEN 2 ELSE per

LEMMA UnneededIs ==
    ASSUME NEW players \in Nat, NEW courts \in Nat \ {0}, NEW per, NEW p \in {1, 2, 3, 4},
           Seats(per, p)
    PROVE  /\ Capacity(courts, per) = courts * p
           /\ Unneeded(players, courts, per)
                = IF players < courts * p THEN (courts * p - players) \div p ELSE 0
           /\ Unneeded(players, courts, per) \in 0..courts
<1>1. Capacity(courts, per) = courts * p
  BY DEF Capacity, Seats
<1>2. PerCourt(courts, per) = p
  <2>1. (courts * p) \div courts = p
    <3>1. CASE p = 1
      BY <3>1
    <3>2. CASE p = 2
      BY <3>2
    <3>3. CASE p = 3
      BY <3>3
    <3>4. CASE p = 4
      BY <3>4
    <3> QED BY <3>1, <3>2, <3>3, <3>4
  <2> QED BY <1>1, <2>1 DEF PerCourt
<1>3. Unneeded(players, courts, per)
        = IF players < courts * p THEN (courts * p - players) \div p ELSE 0
  BY <1>1, <1>2 DEF Unneeded
<1>4. Unneeded(players, courts, per) \in 0..courts
  <2>1. CASE p = 1
    BY <1>3, <2>1
  <2>2. CASE p = 2
    BY <1>3, <2>2
  <2>3. CASE p = 3
    BY <1>3, <2>3
  <2>4. CASE p = 4
    BY <1>3, <2>4
  <2> QED BY <2>1, <2>2, <2>3, <2>4
<1> QED BY <1>1, <1>3, <1>4

LEMMA ExactRelease ==
    ASSUME NEW players \in Nat, NEW courts \in Nat \ {0}, NEW per, NEW p \in {1, 2, 3, 4},
           Seats(per, p)
    PROVE  LET seats(k) == Capacity(courts - k, per)
               all == Unneeded(players, courts, per)
               half == HalfUnneeded(players, courts, per)
           IN  /\ all = Max({0} \cup {k \in 0..courts : players <= seats(k)})
               /\ half < courts
               /\ Unneeded(players, courts - half, per) = all - half
<1> DEFINE all == Unneeded(players, courts, per)
           half == HalfUnneeded(players, courts, per)
           enough == {0} \cup {k \in 0..courts : players <= Capacity(courts - k, per)}
<1>1. /\ all = IF players < courts * p THEN (courts * p - players) \div p ELSE 0
      /\ all \in 0..courts
  BY UnneededIs
<1>2. half = all \div 2
  BY DEF HalfUnneeded
<1>3. enough = {0} \cup {k \in 0..courts : players <= (courts - k) * p}
  BY DEF Capacity, Seats
<1> HIDE DEF all, half, enough
<1>4. half \in Nat /\ half < courts
  BY <1>1, <1>2
<1>5. all \in enough
  <2>1. CASE p = 1
    BY <1>1, <1>3, <2>1
  <2>2. CASE p = 2
    BY <1>1, <1>3, <2>2
  <2>3. CASE p = 3
    BY <1>1, <1>3, <2>3
  <2>4. CASE p = 4
    BY <1>1, <1>3, <2>4
  <2> QED BY <2>1, <2>2, <2>3, <2>4
<1>6. ASSUME NEW k \in enough PROVE k <= all
  <2>1. k = 0 \/ (k \in 0..courts /\ players <= (courts - k) * p)
    BY <1>3
  <2>2. CASE p = 1
    BY <1>1, <2>1, <2>2
  <2>3. CASE p = 2
    BY <1>1, <2>1, <2>3
  <2>4. CASE p = 3
    BY <1>1, <2>1, <2>4
  <2>5. CASE p = 4
    BY <1>1, <2>1, <2>5
  <2> QED BY <2>2, <2>3, <2>4, <2>5
<1>7. all = Max(enough)
  <2>1. enough \in SUBSET (0..courts)
    BY <1>3
  <2>2. \A x \in enough : (\A y \in enough : x >= y) => x = all
    BY <1>1, <1>5, <1>6, <2>1
  <2>3. \E x \in enough : \A y \in enough : x >= y
    BY <1>1, <1>5, <1>6, <2>1
  <2> QED BY <2>2, <2>3 DEF Max
<1>8. Unneeded(players, courts - half, per) = all - half
  <2>1. courts - half \in Nat \ {0}
    BY <1>4
  <2>2. Unneeded(players, courts - half, per)
          = IF players < (courts - half) * p THEN ((courts - half) * p - players) \div p ELSE 0
    BY <2>1, UnneededIs
  <2>3. CASE p = 1
    BY <1>1, <1>2, <1>4, <2>2, <2>3
  <2>4. CASE p = 2
    BY <1>1, <1>2, <1>4, <2>2, <2>4
  <2>5. CASE p = 3
    BY <1>1, <1>2, <1>4, <2>2, <2>5
  <2>6. CASE p = 4
    BY <1>1, <1>2, <1>4, <2>2, <2>6
  <2> QED BY <2>3, <2>4, <2>5, <2>6
<1> QED BY <1>4, <1>7, <1>8 DEF all, half, enough

LEMMA ExactlyUnneeded == ASSUME WalkInv PROVE UnneededIsExact
<1> SUFFICES ASSUME NEW courts \in 1..MaxN, NEW per \in 0..4
             PROVE  LET seats(k) == Capacity(courts - k, per)
                        all == Unneeded(n, courts, per)
                        half == HalfUnneeded(n, courts, per)
                    IN  /\ all = Max({0} \cup {k \in 0..courts : n <= seats(k)})
                        /\ half < courts
                        /\ Unneeded(n, courts - half, per) = all - half
  BY DEF UnneededIsExact
<1> DEFINE p == IF per = 0 THEN 2 ELSE per
<1>1. p \in {1, 2, 3, 4} /\ Seats(per, p)
  BY DEF Seats
<1>2. courts \in Nat \ {0} /\ n \in Nat
  BY WalkAssumption DEF WalkAssumption, WalkInv
<1> HIDE DEF p
<1> QED BY <1>1, <1>2, ExactRelease

(* What is said of courts freed when so many of the unneeded ones failed.  *)
SaidRightly(players, courts, per, freed) ==
    LET all == Unneeded(players, courts, per)
        said == determineScenario(players, courts - freed, freed > 0, per)
    IN  /\ freed = all /\ all > 0 =>
              said = IF players = 0 THEN "all_canceled"
                     ELSE IF players % per = 0 THEN "canceled_balanced"
                     ELSE "odd_canceled"
        /\ freed < all => said \notin {"all_good", "canceled_balanced", "all_canceled"}

LEMMA SaidOfRelease ==
    ASSUME NEW players \in Nat, NEW courts \in Nat \ {0}, NEW per \in {1, 2, 3, 4},
           NEW all, all = Unneeded(players, courts, per), NEW freed \in 0..all
    PROVE  SaidRightly(players, courts, per, freed)
<1> DEFINE said == determineScenario(players, courts - freed, freed > 0, per)
           rest == courts - freed
<1>1. /\ all = IF players < courts * per THEN (courts * per - players) \div per ELSE 0
      /\ all \in 0..courts
  <2>1. Seats(per, per)
    BY DEF Seats
  <2> QED BY <2>1, UnneededIs
<1>2. rest \in Nat /\ freed \in Nat
  BY <1>1
<1>3. ASSUME freed = all, all > 0
      PROVE  /\ rest = 0 <=> players = 0
             /\ players % per = 0 => players = rest * per
             /\ players % per # 0 => players < rest * per
  <2>1. CASE per = 1
    BY <1>1, <1>3, <2>1
  <2>2. CASE per = 2
    BY <1>1, <1>3, <2>2
  <2>3. CASE per = 3
    BY <1>1, <1>3, <2>3
  <2>4. CASE per = 4
    BY <1>1, <1>3, <2>4
  <2> QED BY <2>1, <2>2, <2>3, <2>4
<1>4. ASSUME freed < all PROVE rest # 0 /\ players < rest * per
  <2>1. CASE per = 1
    BY <1>1, <1>4, <2>1
  <2>2. CASE per = 2
    BY <1>1, <1>4, <2>2
  <2>3. CASE per = 3
    BY <1>1, <1>4, <2>3
  <2>4. CASE per = 4
    BY <1>1, <1>4, <2>4
  <2> QED BY <2>1, <2>2, <2>3, <2>4
<1> QED BY <1>2, <1>3, <1>4 DEF determineScenario, SaidRightly

LEMMA SaidAsDone == ASSUME WalkInv PROVE ScenarioFollowsRelease
<1> SUFFICES ASSUME NEW courts \in 1..MaxN, NEW per \in 1..4, NEW failed \in 0..2
             PROVE  LET all == Unneeded(n, courts, per)
                        freed == Max({0, all - failed})
                        said == determineScenario(n, courts - freed, freed > 0, per)
                    IN  /\ freed = all /\ all > 0 =>
                              said = IF n = 0 THEN "all_canceled"
                                     ELSE IF n % per = 0 THEN "canceled_balanced"
                                     ELSE "odd_canceled"
                        /\ freed < all =>
                              said \notin {"all_good", "canceled_balanced", "all_canceled"}
  BY DEF ScenarioFollowsRelease
<1> DEFINE all == Unneeded(n, courts, per)
           freed == Max({0, all - failed})
<1>1. courts \in Nat \ {0} /\ n \in Nat /\ per \in {1, 2, 3, 4} /\ Seats(per, per)
  BY WalkAssumption DEF WalkAssumption, WalkInv, Seats
<1>2. all \in 0..courts
  BY <1>1, UnneededIs
<1> HIDE DEF all
<1>3. freed \in 0..all
  <2>1. 0 \in Int /\ all - failed \in Int
    BY <1>2
  <2>2. freed = IF 0 <= all - failed THEN all - failed ELSE 0
    BY <2>1, GreatestOfTwo
  <2> HIDE DEF freed
  <2> QED BY <1>2, <2>2
<1> HIDE DEF freed
<1>4. SaidRightly(n, courts, per, freed)
  <2>1. all = Unneeded(n, courts, per)
    BY DEF all
  <2> QED BY <1>1, <1>3, <2>1, SaidOfRelease
<1> QED BY <1>4 DEF all, freed, SaidRightly

-----------------------------------------------------------------------------
(* What an edit takes out of a list.                                       *)

Places(q, c) == {k \in DOMAIN q : q[k] = c}

LEMMA SameSize ==
    ASSUME NEW S, NEW T, IsFiniteSet(S), NEW f \in Bijection(S, T)
    PROVE  IsFiniteSet(T) /\ Cardinality(T) = Cardinality(S)
<1>1. ExistsBijection(S, T)
  BY DEF ExistsBijection
<1> QED BY <1>1, FS_Bijection

(* Of the positions in P so many as m leaves of them have a rank beyond m. *)
LEMMA BeyondRank ==
    ASSUME NEW b \in Nat, NEW P \in SUBSET (1..b), NEW m \in Nat
    PROVE  Cardinality({i \in P : Cardinality(UpTo(P, i)) > m}) = Max({0, Cardinality(P) - m})
<1> DEFINE size == Cardinality(P)
           high == {i \in P : Cardinality(UpTo(P, i)) > m}
           f == [k \in (m + 1)..size |-> Position(P, k)]
<1>1. size \in Nat
  BY PositionsAreFinite
<1>2. /\ \A k \in 1..size : Position(P, k) \in P /\ Cardinality(UpTo(P, Position(P, k))) = k
      /\ \A i \in P : Position(P, Cardinality(UpTo(P, i))) = i
      /\ \A i \in P : Cardinality(UpTo(P, i)) \in 1..size
  BY PositionsAscend, RanksAscend
<1> HIDE DEF size
<1>3. \A k \in (m + 1)..size : k \in 1..size /\ k > m
  BY <1>1
<1>4. \A k \in (m + 1)..size : f[k] \in high /\ Cardinality(UpTo(P, f[k])) = k
  BY <1>2, <1>3
<1>5. \A i \in high : Cardinality(UpTo(P, i)) \in (m + 1)..size /\ f[Cardinality(UpTo(P, i))] = i
  BY <1>1, <1>2
<1>6. DOMAIN f = (m + 1)..size /\ f = [k \in (m + 1)..size |-> f[k]]
  OBVIOUS
<1> HIDE DEF f, high
<1>7. f \in Bijection((m + 1)..size, high)
  <2> DEFINE D == (m + 1)..size
  <2>1. DOMAIN f = D /\ f = [k \in D |-> f[k]] /\ \A k \in D : f[k] \in high
    BY <1>4, <1>6
  <2>2. \A j, k \in D : f[j] = f[k] => j = k
    BY <1>4
  <2>3. \A i \in high : \E k \in D : f[k] = i
    BY <1>5
  <2> HIDE DEF D
  <2>4. f \in Bijection(D, high)
    BY <2>1, <2>2, <2>3 DEF Bijection, Injection, Surjection, IsInjective
  <2> QED BY <2>4 DEF D
<1>8. /\ IsFiniteSet((m + 1)..size)
      /\ Cardinality((m + 1)..size) = IF m + 1 > size THEN 0 ELSE size - (m + 1) + 1
  BY <1>1, FS_Interval
<1>9. Cardinality(high) = IF m + 1 > size THEN 0 ELSE size - (m + 1) + 1
  BY <1>7, <1>8, SameSize
<1>10. Max({0, size - m}) = IF 0 <= size - m THEN size - m ELSE 0
  BY <1>1, GreatestOfTwo
<1> QED BY <1>1, <1>9, <1>10 DEF high, size

(* A list that keeps the positions in keep has every member as often as    *)
(* they do.                                                                *)
LEMMA KeptPlaces ==
    ASSUME NEW T, NEW s \in Seq(T), NEW keep \in SUBSET DOMAIN s, NEW c
    PROVE  Cardinality(Places(Kept(s, keep), c)) = Cardinality({i \in keep : s[i] = c})
<1> DEFINE size == Cardinality(keep)
           A == Places(Kept(s, keep), c)
           B == {i \in keep : s[i] = c}
           f == [k \in A |-> Position(keep, k)]
<1>1. Len(s) \in Nat /\ keep \in SUBSET (1..Len(s))
  OBVIOUS
<1>2. /\ size \in Nat /\ DOMAIN Kept(s, keep) = 1..size
      /\ \A k \in 1..size : Kept(s, keep)[k] = s[Position(keep, k)] /\ Position(keep, k) \in keep
      /\ \A i \in keep : /\ Cardinality(UpTo(keep, i)) \in 1..size
                         /\ Kept(s, keep)[Cardinality(UpTo(keep, i))] = s[i]
  BY KeptIs
<1>3. /\ \A k \in 1..size : Cardinality(UpTo(keep, Position(keep, k))) = k
      /\ \A i \in keep : Position(keep, Cardinality(UpTo(keep, i))) = i
  BY <1>1, PositionsAscend
<1> HIDE DEF size
<1>4. A \in SUBSET (1..size) /\ \A k \in 1..size : k \in A <=> Kept(s, keep)[k] = c
  BY <1>2 DEF Places
<1>5. IsFiniteSet(A)
  BY <1>2, <1>4, PositionsAreFinite
<1>6. \A k \in A : f[k] \in B /\ Cardinality(UpTo(keep, f[k])) = k
  BY <1>2, <1>3, <1>4
<1>7. \A i \in B : Cardinality(UpTo(keep, i)) \in A /\ f[Cardinality(UpTo(keep, i))] = i
  BY <1>2, <1>3, <1>4
<1>8. DOMAIN f = A /\ f = [k \in A |-> f[k]]
  OBVIOUS
<1> HIDE DEF f, A, B
<1>9. f \in Bijection(A, B)
  BY <1>6, <1>7, <1>8 DEF Bijection, Injection, Surjection, IsInjective
<1>10. Cardinality(B) = Cardinality(A)
  BY <1>5, <1>9, SameSize
<1> QED BY <1>10 DEF A, B

(* left is s without one copy of every member of t, in the order of s.     *)
Removes(left, s, t) ==
    /\ \A c : Cardinality(Places(left, c))
                = Max({0, Cardinality(Places(s, c)) - Cardinality(Places(t, c))})
    /\ \E at \in [DOMAIN left -> DOMAIN s] :
          /\ \A j, k \in DOMAIN left : j < k => at[j] < at[k]
          /\ \A k \in DOMAIN left : left[k] = s[at[k]]

LEMMA ExactRemoval ==
    ASSUME NEW s \in Seq(Nat), NEW t \in Seq(Nat), NEW left, left = MultisetMinus(s, t)
    PROVE  Removes(left, s, t)
<1> DEFINE keep == {i \in DOMAIN s : Cardinality(Places(SubSeq(s, 1, i), s[i]))
                                        > Cardinality(Places(t, s[i]))}
<1>1. left = Kept(s, keep)
  BY DEF MultisetMinus, Places
<1>2. /\ Len(s) \in Nat /\ DOMAIN s = 1..Len(s) /\ keep \in SUBSET DOMAIN s
      /\ Len(t) \in Nat /\ DOMAIN t = 1..Len(t)
  OBVIOUS
<1>3. ASSUME NEW c PROVE Places(s, c) \in SUBSET (1..Len(s)) /\ Cardinality(Places(t, c)) \in Nat
  <2>1. Places(s, c) \in SUBSET (1..Len(s)) /\ Places(t, c) \in SUBSET (1..Len(t))
    BY <1>2 DEF Places
  <2> QED BY <1>2, <2>1, PositionsAreFinite
<1>4. ASSUME NEW i \in DOMAIN s PROVE Places(SubSeq(s, 1, i), s[i]) = UpTo(Places(s, s[i]), i)
  <2> DEFINE q == SubSeq(s, 1, i)
  <2>1. /\ DOMAIN q = 1..i /\ \A k \in 1..i : q[k] = s[k] /\ k \in DOMAIN s
        /\ \A k \in DOMAIN s : k <= i <=> k \in 1..i
    BY <1>2
  <2> HIDE DEF q
  <2>2. Places(q, s[i]) = UpTo(Places(s, s[i]), i)
    BY <2>1 DEF Places, UpTo
  <2> QED BY <2>2 DEF q
<1>5. ASSUME NEW c
      PROVE  Cardinality(Places(left, c))
                = Max({0, Cardinality(Places(s, c)) - Cardinality(Places(t, c))})
  <2> DEFINE P == Places(s, c)
             m == Cardinality(Places(t, c))
  <2>1. {i \in keep : s[i] = c} = {i \in P : Cardinality(UpTo(P, i)) > m}
    BY <1>4 DEF Places
  <2>2. P \in SUBSET (1..Len(s)) /\ m \in Nat
    BY <1>3
  <2> HIDE DEF P, m
  <2>3. Cardinality({i \in P : Cardinality(UpTo(P, i)) > m}) = Max({0, Cardinality(P) - m})
    BY <1>2, <2>2, BeyondRank
  <2> HIDE DEF keep
  <2>4. Cardinality(Places(left, c)) = Cardinality({i \in keep : s[i] = c})
    BY <1>1, <1>2, KeptPlaces
  <2> QED BY <2>1, <2>3, <2>4 DEF P, m
<1> DEFINE at == [k \in DOMAIN left |-> Position(keep, k)]
<1> HIDE DEF keep
<1>6. /\ DOMAIN left = 1..Cardinality(keep)
      /\ \A k \in 1..Cardinality(keep) : left[k] = s[Position(keep, k)]
                                         /\ Position(keep, k) \in keep
  BY <1>1, <1>2, KeptIs
<1>7. \A j, k \in 1..Cardinality(keep) : j < k => Position(keep, j) < Position(keep, k)
  BY <1>2, PositionsAscend
<1>8. /\ at \in [DOMAIN left -> DOMAIN s]
      /\ \A j, k \in DOMAIN left : j < k => at[j] < at[k]
      /\ \A k \in DOMAIN left : left[k] = s[at[k]]
  BY <1>2, <1>6, <1>7
<1> QED BY <1>5, <1>8 DEF Removes

LEMMA RemovedExactly == ASSUME WalkInv PROVE RemovalIsBagDifference
<1> DEFINE left == MultisetMinus(listed, reserved)
<1>1. Removes(left, listed, reserved)
  <2>1. listed \in Seq(Nat) /\ reserved \in Seq(Nat)
    BY DEF WalkInv
  <2>2. left = MultisetMinus(listed, reserved)
    OBVIOUS
  <2> HIDE DEF left
  <2> QED BY <2>1, <2>2, ExactRemoval
<1> QED BY <1>1 DEF RemovalIsBagDifference, Places, Removes

(* The jobs free exactly the courts no player needs, half of them first    *)
(* leaves the rest, what is announced agrees with what was freed, and an   *)
(* edit takes out exactly what the new list lacks (runCancellation,        *)
(* processHalfwayCheck, determineScenario, multisetDiff).                  *)
THEOREM ReleasesAreExactAndSaid == Spec => []ReleaseIsExactAndSaid
<1>1. WalkInv => ReleaseIsExactAndSaid
  BY ExactlyUnneeded, SaidAsDone, RemovedExactly DEF ReleaseIsExactAndSaid
<1> QED BY <1>1, WalkIsTyped, PTL
=============================================================================
