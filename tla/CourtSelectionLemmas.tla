------------------------ MODULE CourtSelectionLemmas ------------------------
(***************************************************************************)
(* What the operators of CourtSelection compute, for lists of any length.  *)
(*                                                                         *)
(* Kept lists the chosen positions in ascending order (PositionsAscend), a *)
(* round of selectCourtsToCancel takes one of the positions left           *)
(* (RoundsTakeOne), so that as many courts are taken as asked for or as    *)
(* there are (TakenAreDistinct), and with those of the first phase as well *)
(* (ReleaseIsExact).                                                       *)
(***************************************************************************)
EXTENDS CourtSelection, FiniteSetTheorems, TLAPS

-----------------------------------------------------------------------------
(* Least and greatest numbers.                                             *)

(* A set of numbers has a least one.                                       *)
LEMMA LeastNumber ==
    ASSUME NEW T \in SUBSET Nat, T # {}
    PROVE  \E n \in T : \A m \in T : n <= m
<1> DEFINE R == OpToRel(<, Nat)
<1>1. IsWellFoundedOn(R, Nat)
  BY NatLessThanWellFounded
<1>2. \A m \in T, n \in T : m < n => <<m, n>> \in R
  BY DEF OpToRel
<1> HIDE DEF R
<1>3. PICK n \in T : \A m \in T : ~ (<<m, n>> \in R)
  BY <1>1, WFMin
<1>4. \A m \in T : ~ (m < n) /\ m \in Nat /\ n \in Nat
  BY <1>2, <1>3
<1> QED
  BY <1>4

(* A set of positions of a list has a greatest one, and Max names it.      *)
LEMMA GreatestPosition ==
    ASSUME NEW b \in Nat, NEW T \in SUBSET (1..b), T # {}
    PROVE  Max(T) \in T /\ \A m \in T : m <= Max(T)
<1> DEFINE U == {b - n : n \in T}
<1>1. U \in SUBSET Nat /\ U # {}
  <2>1. \A n \in T : n \in 1..b
    OBVIOUS
  <2>2. \A n \in T : b - n \in Nat
    BY <2>1
  <2> QED BY <2>2
<1>2. \E u \in U : \A v \in U : u <= v
  <2> HIDE DEF U
  <2> QED BY <1>1, LeastNumber
<1>3. PICK n \in T : \A m \in T : b - n <= b - m
  BY <1>2
<1>4. \A m \in T : n >= m
  BY <1>3
<1>5. Max(T) \in T /\ \A m \in T : Max(T) >= m
  BY <1>4 DEF Max
<1> QED BY <1>5

-----------------------------------------------------------------------------
(* Positions in ascending order.                                           *)

UpTo(keep, i) == {j \in keep : j <= i}

(* The k-th position of keep.                                              *)
Position(keep, k) == CHOOSE i \in keep : Cardinality(UpTo(keep, i)) = k

LEMMA PositionsAreFinite ==
    ASSUME NEW b \in Nat, NEW keep \in SUBSET (1..b)
    PROVE  IsFiniteSet(keep) /\ Cardinality(keep) \in Nat /\ Cardinality(keep) <= b
<1>1. IsFiniteSet(1..b) /\ Cardinality(1..b) = b
  BY FS_Interval
<1> QED BY <1>1, FS_Subset, FS_CardinalityType

(* The rank of a position grows with it, up to the number of them.         *)
LEMMA RanksAscend ==
    ASSUME NEW b \in Nat, NEW keep \in SUBSET (1..b)
    PROVE  /\ \A i \in keep : Cardinality(UpTo(keep, i)) \in 1..Cardinality(keep)
           /\ \A i, j \in keep :
                 i < j => Cardinality(UpTo(keep, i)) < Cardinality(UpTo(keep, j))
<1>1. IsFiniteSet(keep) /\ Cardinality(keep) \in Nat
  BY PositionsAreFinite
<1>2. ASSUME NEW i \in keep
      PROVE  /\ UpTo(keep, i) \in SUBSET keep /\ i \in UpTo(keep, i)
             /\ IsFiniteSet(UpTo(keep, i))
             /\ Cardinality(UpTo(keep, i)) \in 1..Cardinality(keep)
  <2>1. UpTo(keep, i) \in SUBSET keep /\ i \in UpTo(keep, i)
    BY DEF UpTo
  <2>2. IsFiniteSet(UpTo(keep, i)) /\ Cardinality(UpTo(keep, i)) <= Cardinality(keep)
    BY <1>1, <2>1, FS_Subset
  <2>3. Cardinality(UpTo(keep, i)) \in Nat /\ Cardinality(UpTo(keep, i)) # 0
    BY <2>1, <2>2, FS_CardinalityType, FS_EmptySet
  <2> QED BY <1>1, <2>1, <2>2, <2>3
<1>3. ASSUME NEW i \in keep, NEW j \in keep, i < j
      PROVE  Cardinality(UpTo(keep, i)) < Cardinality(UpTo(keep, j))
  <2>1. UpTo(keep, i) \in SUBSET UpTo(keep, j) /\ j \notin UpTo(keep, i)
    <3>1. \A k \in keep : k \in Int
      OBVIOUS
    <3>2. ~(j <= i) /\ \A k \in keep : k <= i => k <= j
      BY <1>3, <3>1
    <3> QED BY <3>2 DEF UpTo
  <2>2. j \in UpTo(keep, j) /\ UpTo(keep, i) # UpTo(keep, j)
    BY <1>2, <2>1
  <2>3. /\ Cardinality(UpTo(keep, i)) <= Cardinality(UpTo(keep, j))
        /\ Cardinality(UpTo(keep, i)) # Cardinality(UpTo(keep, j))
    BY <1>2, <2>1, <2>2, FS_Subset
  <2>4. Cardinality(UpTo(keep, i)) \in Nat /\ Cardinality(UpTo(keep, j)) \in Nat
    BY <1>2, FS_CardinalityType
  <2> QED BY <2>3, <2>4
<1> QED BY <1>2, <1>3

(* Every number up to Cardinality(keep) is the rank of one position.       *)
LEMMA PositionsAscend ==
    ASSUME NEW b \in Nat, NEW keep \in SUBSET (1..b)
    PROVE  /\ \A k \in 1..Cardinality(keep) :
                 /\ Position(keep, k) \in keep
                 /\ Cardinality(UpTo(keep, Position(keep, k))) = k
           /\ \A j, k \in 1..Cardinality(keep) :
                 j < k => Position(keep, j) < Position(keep, k)
           /\ \A i \in keep : Position(keep, Cardinality(UpTo(keep, i))) = i
<1> DEFINE n == Cardinality(keep)
           f == [i \in keep |-> Cardinality(UpTo(keep, i))]
<1>1. IsFiniteSet(keep) /\ n \in Nat
  BY PositionsAreFinite
<1>2. /\ \A i \in keep : Cardinality(UpTo(keep, i)) \in 1..n
      /\ \A i, j \in keep : i < j => Cardinality(UpTo(keep, i)) < Cardinality(UpTo(keep, j))
  BY RanksAscend
<1>3. \A i, j \in keep : Cardinality(UpTo(keep, i)) = Cardinality(UpTo(keep, j)) => i = j
  <2> SUFFICES ASSUME NEW i \in keep, NEW j \in keep, i # j
               PROVE  Cardinality(UpTo(keep, i)) # Cardinality(UpTo(keep, j))
    OBVIOUS
  <2>1. i < j \/ j < i
    OBVIOUS
  <2>2. Cardinality(UpTo(keep, i)) \in Int /\ Cardinality(UpTo(keep, j)) \in Int
    BY <1>2
  <2> QED BY <1>2, <2>1, <2>2
<1>4. f \in Injection(keep, 1..n)
  BY <1>2, <1>3 DEF Injection, IsInjective
<1>5. IsFiniteSet(1..n) /\ Cardinality(1..n) = n
  <2> HIDE DEF n
  <2> QED BY <1>1, FS_Interval
<1>6. f \in Surjection(keep, 1..n)
  <2> HIDE DEF f
  <2> QED BY <1>4, <1>5, FS_Injection
<1>7. \A k \in 1..n : \E i \in keep : Cardinality(UpTo(keep, i)) = k
  BY <1>6 DEF Surjection
<1> HIDE DEF n, f
<1>8. \A k \in 1..n : Position(keep, k) \in keep /\ Cardinality(UpTo(keep, Position(keep, k))) = k
  BY <1>7 DEF Position
<1>9. \A i \in keep : Position(keep, Cardinality(UpTo(keep, i))) = i
  BY <1>2, <1>3, <1>8
<1>10. ASSUME NEW j \in 1..n, NEW k \in 1..n, j < k
       PROVE  Position(keep, j) < Position(keep, k)
  <2>1. Position(keep, j) \in 1..b /\ Position(keep, k) \in 1..b
    BY <1>8
  <2>2. Position(keep, j) # Position(keep, k)
    BY <1>8, <1>10
  <2>3. ~(Position(keep, k) < Position(keep, j))
    <3> DEFINE p == Position(keep, k)
               q == Position(keep, j)
    <3>1. p \in keep /\ q \in keep /\ Cardinality(UpTo(keep, p)) = k
          /\ Cardinality(UpTo(keep, q)) = j
      BY <1>8
    <3>2. ~(k < j)
      BY <1>1, <1>10
    <3> HIDE DEF p, q
    <3>3. ~(p < q)
      BY <1>2, <3>1, <3>2
    <3> QED BY <3>3 DEF p, q
  <2> QED BY <2>1, <2>2, <2>3
<1> QED BY <1>8, <1>9, <1>10 DEF n

(* What Kept lists.                                                        *)
LEMMA KeptIs ==
    ASSUME NEW T, NEW s \in Seq(T), NEW keep \in SUBSET DOMAIN s
    PROVE  /\ Kept(s, keep) \in Seq(T)
           /\ Len(Kept(s, keep)) = Cardinality(keep)
           /\ DOMAIN Kept(s, keep) = 1..Cardinality(keep)
           /\ Cardinality(keep) \in Nat
           /\ \A k \in 1..Cardinality(keep) :
                 /\ Kept(s, keep)[k] = s[Position(keep, k)]
                 /\ Position(keep, k) \in keep
           /\ \A i \in keep : /\ Cardinality(UpTo(keep, i)) \in 1..Cardinality(keep)
                              /\ Kept(s, keep)[Cardinality(UpTo(keep, i))] = s[i]
           /\ ToSet(Kept(s, keep)) = {s[i] : i \in keep}
<1> DEFINE n == Cardinality(keep)
<1>1. Len(s) \in Nat /\ keep \in SUBSET (1..Len(s)) /\ \A i \in keep : s[i] \in T
  OBVIOUS
<1>2. n \in Nat
  BY <1>1, PositionsAreFinite
<1>3. Kept(s, keep) = [k \in 1..n |-> s[Position(keep, k)]]
  <2> DEFINE at == [ps \in SUBSET DOMAIN s |->
                      [k \in 1..Cardinality(ps) |->
                         s[CHOOSE i \in ps : Cardinality({j \in ps : j <= i}) = k]]]
  <2>1. Kept(s, keep) = at[keep]
    BY DEF Kept
  <2> QED BY <2>1 DEF Position, UpTo
<1>4. /\ \A k \in 1..n : Position(keep, k) \in keep
      /\ \A i \in keep : Position(keep, Cardinality(UpTo(keep, i))) = i
      /\ \A i \in keep : Cardinality(UpTo(keep, i)) \in 1..n
  BY <1>1, PositionsAscend, RanksAscend
<1> HIDE DEF n
<1>5. Kept(s, keep) \in [1..n -> T]
  BY <1>1, <1>3, <1>4
<1>6. Kept(s, keep) \in Seq(T) /\ Len(Kept(s, keep)) = n /\ DOMAIN Kept(s, keep) = 1..n
  <2> DEFINE q == Kept(s, keep)
  <2> HIDE DEF q
  <2>1. q \in [1..n -> T]
    BY <1>5 DEF q
  <2>2. q \in Seq(T) /\ Len(q) = n /\ DOMAIN q = 1..n
    BY <1>2, <2>1
  <2> QED BY <2>2 DEF q
<1>7. /\ \A k \in 1..n : Kept(s, keep)[k] = s[Position(keep, k)]
      /\ \A i \in keep : Kept(s, keep)[Cardinality(UpTo(keep, i))] = s[i]
  BY <1>3, <1>4
<1>8. ToSet(Kept(s, keep)) = {s[i] : i \in keep}
  BY <1>4, <1>6, <1>7 DEF ToSet
<1> QED BY <1>2, <1>4, <1>6, <1>7, <1>8 DEF n

-----------------------------------------------------------------------------
(* The rounds of selectCourtsToCancel.                                     *)

(* A recursive function that a set shrinks along is defined.               *)
LEMMA RoundsFollow ==
    ASSUME NEW sorted, Len(sorted) \in Nat
    PROVE  /\ LeftAfterRounds(sorted)[0] = DOMAIN sorted
           /\ \A k \in 1..Len(sorted) :
                 LeftAfterRounds(sorted)[k] =
                    LeftAfterRounds(sorted)[k - 1]
                        \ {NextToCancel(sorted, LeftAfterRounds(sorted)[k - 1])}
<1> DEFINE Body(f, k) == IF k = 0 THEN DOMAIN sorted
                         ELSE f[k - 1] \ {NextToCancel(sorted, f[k - 1])}
           Defined(m) == \E f : f = [k \in 0..m |-> Body(f, k)]
           Bad == {m \in Nat : ~Defined(m)}
<1>1. Defined(0)
  <2> DEFINE f == [k \in 0..0 |-> DOMAIN sorted]
  <2>1. f = [k \in 0..0 |-> Body(f, k)]
    OBVIOUS
  <2> QED BY <2>1
<1>2. ASSUME NEW m \in Nat \ {0}, Defined(m - 1) PROVE Defined(m)
  <2>1. PICK f : f = [k \in 0..(m - 1) |-> Body(f, k)]
    BY <1>2
  <2> DEFINE g == [k \in 0..m |-> IF k = m THEN f[m - 1] \ {NextToCancel(sorted, f[m - 1])}
                                  ELSE f[k]]
  <2>2. \A k \in 0..(m - 1) : f[k] = Body(f, k)
    BY <2>1
  <2>3. ASSUME NEW k \in 0..m PROVE g[k] = Body(g, k)
    <3>1. CASE k = m
      <4>1. m # 0 /\ m - 1 \in 0..m /\ m - 1 # m
        OBVIOUS
      <4>2. g[m] = f[m - 1] \ {NextToCancel(sorted, f[m - 1])} /\ g[m - 1] = f[m - 1]
        BY <4>1
      <4> QED BY <3>1, <4>1, <4>2
    <3>2. CASE k = 0
      <4>1. 0 \in 0..(m - 1) /\ 0 # m /\ 0 \in 0..m
        OBVIOUS
      <4>2. g[0] = f[0] /\ f[0] = DOMAIN sorted
        BY <2>2, <4>1
      <4> QED BY <3>2, <4>2
    <3>3. CASE k # m /\ k # 0
      <4>1. /\ k \in 0..(m - 1) /\ k - 1 \in 0..(m - 1) /\ k - 1 \in 0..m
            /\ k - 1 # m /\ k \in 0..m
        BY <3>3
      <4>2. g[k] = f[k] /\ g[k - 1] = f[k - 1]
        BY <3>3, <4>1
      <4>3. f[k] = f[k - 1] \ {NextToCancel(sorted, f[k - 1])}
        BY <2>2, <3>3, <4>1
      <4> QED BY <3>3, <4>2, <4>3
    <3> QED BY <3>1, <3>2, <3>3
  <2>4. g = [k \in 0..m |-> g[k]]
    OBVIOUS
  <2> HIDE DEF g
  <2>5. g = [k \in 0..m |-> Body(g, k)]
    BY <2>3, <2>4
  <2> QED BY <2>5
<1>3. Bad = {}
  <2> SUFFICES ASSUME Bad # {} PROVE FALSE
    OBVIOUS
  <2>1. \E m \in Bad : \A n \in Bad : m <= n
    <3>1. Bad \in SUBSET Nat
      OBVIOUS
    <3> HIDE DEF Bad
    <3> QED BY <3>1, LeastNumber
  <2>2. PICK m \in Nat : ~Defined(m) /\ \A n \in Nat : ~Defined(n) => m <= n
    <3> HIDE DEF Defined
    <3> QED BY <2>1
  <2> HIDE DEF Defined
  <2>3. m # 0
    BY <1>1, <2>2
  <2>4. m - 1 \in Nat /\ ~(m <= m - 1)
    BY <2>3
  <2> QED BY <1>2, <2>2, <2>3, <2>4
<1>4. Defined(Len(sorted))
  <2> HIDE DEF Defined
  <2> QED BY <1>3
<1> DEFINE left == LeftAfterRounds(sorted)
<1>5. left = [k \in 0..Len(sorted) |-> Body(left, k)]
  BY <1>4 DEF LeftAfterRounds
<1> HIDE DEF left
<1>6. \A k \in 0..Len(sorted) : left[k] = Body(left, k)
  BY <1>5
<1>7. left[0] = DOMAIN sorted
  <2>1. 0 \in 0..Len(sorted)
    OBVIOUS
  <2>2. left[0] = Body(left, 0)
    BY <1>6, <2>1
  <2> QED BY <2>2
<1>8. ASSUME NEW k \in 1..Len(sorted)
      PROVE  left[k] = left[k - 1] \ {NextToCancel(sorted, left[k - 1])}
  <2>1. k \in 0..Len(sorted) /\ k # 0
    OBVIOUS
  <2>2. left[k] = Body(left, k)
    BY <1>6, <2>1
  <2> QED BY <2>1, <2>2
<1> QED BY <1>7, <1>8 DEF left

LEMMA RunStartIsPosition ==
    ASSUME NEW sorted, NEW i \in Nat \ {0}
    PROVE  RunStart(sorted, i) \in 1..i
<1> DEFINE J == {j \in 1..i : j = 1 \/ sorted[j] # sorted[j - 1] + 1}
<1>1. J \in SUBSET (1..i) /\ 1 \in J
  OBVIOUS
<1>2. J # {}
  BY <1>1
<1>3. RunStart(sorted, i) = Max(J)
  BY DEF RunStart
<1> HIDE DEF J
<1>4. Max(J) \in J
  BY <1>1, <1>2, GreatestPosition
<1> QED BY <1>1, <1>3, <1>4

(* The position taken next is the last of its run, and no run is shorter,  *)
(* or as short and before it.                                              *)
LEMMA NextIsLast ==
    ASSUME NEW b \in Nat, NEW sorted, NEW left \in SUBSET (1..b), left # {}
    PROVE  LET next == NextToCancel(sorted, left)
               Start(i) == RunStart(sorted, i)
               Size(a) == Cardinality(Run(sorted, left, a))
           IN  /\ next \in left
               /\ \A i \in left : Start(i) = Start(next) => i <= next
               /\ \A i \in left : \/ Size(Start(next)) < Size(Start(i))
                                  \/ /\ Size(Start(next)) = Size(Start(i))
                                     /\ Start(next) <= Start(i)
<1> DEFINE Start(i) == RunStart(sorted, i)
           Size(a) == Cardinality(Run(sorted, left, a))
           starts == {Start(i) : i \in left}
           Best(a) == \A c \in starts : Size(a) < Size(c) \/ (Size(a) = Size(c) /\ a <= c)
           best == CHOOSE a \in starts : Best(a)
           next == NextToCancel(sorted, left)
<1>1. starts \in SUBSET Nat /\ starts # {}
  <2>1. \A i \in left : i \in Nat \ {0}
    OBVIOUS
  <2>2. \A i \in left : Start(i) \in Nat
    <3> SUFFICES ASSUME NEW i \in left PROVE Start(i) \in Nat
      OBVIOUS
    <3>1. Start(i) \in 1..i
      BY <2>1, RunStartIsPosition
    <3> QED BY <2>1, <3>1
  <2> HIDE DEF Start
  <2> QED BY <2>2
<1>2. \A a : Run(sorted, left, a) \in SUBSET (1..b) /\ Size(a) \in Nat
  <2>1. \A a : Run(sorted, left, a) \in SUBSET (1..b)
    BY DEF Run
  <2> QED BY <2>1, PositionsAreFinite
<1>3. \E a \in starts : Best(a)
  <2> DEFINE sizes == {Size(a) : a \in starts}
  <2>1. sizes \in SUBSET Nat /\ sizes # {}
    <3> HIDE DEF starts, Size
    <3> QED BY <1>1, <1>2
  <2>2. \E n \in sizes : \A m \in sizes : n <= m
    <3> HIDE DEF sizes
    <3> QED BY <2>1, LeastNumber
  <2>3. PICK d \in starts : \A c \in starts : Size(d) <= Size(c)
    <3> HIDE DEF starts, Size
    <3> QED BY <2>2
  <2> DEFINE ties == {a \in starts : Size(a) = Size(d)}
  <2>4. ties \in SUBSET Nat /\ ties # {}
    <3> HIDE DEF starts, Size
    <3> QED BY <1>1, <2>3
  <2>5. \E n \in ties : \A m \in ties : n <= m
    <3> HIDE DEF ties
    <3> QED BY <2>4, LeastNumber
  <2>6. PICK a \in starts : Size(a) = Size(d) /\ \A c \in starts : Size(c) = Size(d) => a <= c
    <3> HIDE DEF starts, Size
    <3> QED BY <2>5
  <2>7. ASSUME NEW c \in starts PROVE Size(a) < Size(c) \/ (Size(a) = Size(c) /\ a <= c)
    <3>1. Size(a) <= Size(c) /\ Size(a) \in Nat /\ Size(c) \in Nat
      BY <1>2, <2>3, <2>6
    <3> HIDE DEF starts, Size
    <3> QED BY <2>6, <3>1
  <2> QED BY <2>7
<1>4. best \in starts /\ Best(best)
  <2> HIDE DEF Best, starts
  <2> QED BY <1>3
<1>5. next = Max(Run(sorted, left, best))
  BY DEF NextToCancel
<1> HIDE DEF best, next
<1>6. Run(sorted, left, best) # {}
  BY <1>4 DEF Run
<1>7. /\ next \in Run(sorted, left, best)
      /\ \A i \in Run(sorted, left, best) : i <= next
  BY <1>2, <1>5, <1>6, GreatestPosition
<1>8. next \in left /\ Start(next) = best
  BY <1>7 DEF Run
<1>9. \A i \in left : Start(i) = Start(next) => i <= next
  BY <1>7, <1>8 DEF Run
<1>10. \A i \in left : \/ Size(Start(next)) < Size(Start(i))
                       \/ Size(Start(next)) = Size(Start(i)) /\ Start(next) <= Start(i)
  BY <1>4, <1>8
<1> QED BY <1>8, <1>9, <1>10 DEF next

(* Each round takes one of the positions left.                             *)
LEMMA RoundsTakeOne ==
    ASSUME NEW T, NEW sorted \in Seq(T)
    PROVE  LET left == LeftAfterRounds(sorted)
           IN  /\ \A k \in 0..Len(sorted) :
                     /\ left[k] \in SUBSET DOMAIN sorted
                     /\ Cardinality(left[k]) = Len(sorted) - k
               /\ \A k \in 1..Len(sorted) :
                     /\ NextToCancel(sorted, left[k - 1]) \in left[k - 1]
                     /\ left[k] = left[k - 1] \ {NextToCancel(sorted, left[k - 1])}
<1> DEFINE left == LeftAfterRounds(sorted)
           len == Len(sorted)
           Right(k) == left[k] \in SUBSET (1..len) /\ Cardinality(left[k]) = len - k
           Bad == {k \in 0..len : ~Right(k)}
<1>1. len \in Nat /\ DOMAIN sorted = 1..len
  OBVIOUS
<1>2. /\ left[0] = 1..len
      /\ \A k \in 1..len : left[k] = left[k - 1] \ {NextToCancel(sorted, left[k - 1])}
  BY <1>1, RoundsFollow
<1> HIDE DEF left, len
<1>3. ASSUME NEW k \in 1..len, Right(k - 1)
      PROVE  NextToCancel(sorted, left[k - 1]) \in left[k - 1] /\ Right(k)
  <2>1. /\ left[k - 1] \in SUBSET (1..len) /\ IsFiniteSet(left[k - 1])
        /\ Cardinality(left[k - 1]) = len - (k - 1)
    BY <1>1, <1>3, PositionsAreFinite
  <2>2. left[k - 1] # {}
    <3>1. len - (k - 1) # 0
      BY <1>1
    <3> QED BY <2>1, <3>1, FS_EmptySet
  <2>3. NextToCancel(sorted, left[k - 1]) \in left[k - 1]
    BY <1>1, <2>1, <2>2, NextIsLast
  <2>4. /\ left[k] \in SUBSET (1..len)
        /\ Cardinality(left[k]) = Cardinality(left[k - 1]) - 1
    <3> DEFINE x == NextToCancel(sorted, left[k - 1])
    <3>1. left[k] = left[k - 1] \ {x} /\ x \in left[k - 1]
      BY <1>2, <2>3
    <3> HIDE DEF x
    <3>2. Cardinality(left[k - 1] \ {x}) = Cardinality(left[k - 1]) - 1
      BY <2>1, <3>1, FS_RemoveElement
    <3> QED BY <2>1, <3>1, <3>2
  <2>5. Cardinality(left[k]) = len - k
    BY <1>1, <2>1, <2>4
  <2> QED BY <2>3, <2>4, <2>5
<1>4. Right(0)
  <2>1. Cardinality(1..len) = len
    BY <1>1, FS_Interval
  <2>2. len = len - 0
    BY <1>1
  <2> QED BY <1>2, <2>1, <2>2
<1>5. Bad = {}
  <2> SUFFICES ASSUME Bad # {} PROVE FALSE
    OBVIOUS
  <2> HIDE DEF Right
  <2>1. \E m \in Bad : \A n \in Bad : m <= n
    <3>1. Bad \in SUBSET Nat
      BY <1>1
    <3> HIDE DEF Bad
    <3> QED BY <3>1, LeastNumber
  <2>2. PICK m \in 0..len : ~Right(m) /\ \A n \in 0..len : ~Right(n) => m <= n
    BY <2>1
  <2>3. m # 0
    BY <1>4, <2>2
  <2>4. m \in 1..len /\ m - 1 \in 0..len /\ ~(m <= m - 1)
    BY <1>1, <2>3
  <2> QED BY <1>3, <2>2, <2>4
<1>6. \A k \in 0..len : Right(k)
  <2> HIDE DEF Right
  <2> QED BY <1>5
<1>7. \A k \in 1..len : NextToCancel(sorted, left[k - 1]) \in left[k - 1]
  <2>1. \A k \in 1..len : k - 1 \in 0..len
    BY <1>1
  <2> HIDE DEF Right
  <2> QED BY <1>3, <1>6, <2>1
<1> QED BY <1>1, <1>2, <1>6, <1>7 DEF left, len

(* What is left after a round was left after the rounds before it.         *)
LEMMA RoundsShrink ==
    ASSUME NEW T, NEW sorted \in Seq(T), NEW j \in 0..Len(sorted)
    PROVE  \A k \in j..Len(sorted) :
              LeftAfterRounds(sorted)[k] \subseteq LeftAfterRounds(sorted)[j]
<1> DEFINE left == LeftAfterRounds(sorted)
           len == Len(sorted)
           Bad == {k \in j..len : ~(left[k] \subseteq left[j])}
<1>1. len \in Nat /\ j \in Nat
  OBVIOUS
<1>2. \A k \in 1..len : left[k] \subseteq left[k - 1]
  BY RoundsTakeOne
<1> HIDE DEF left, len
<1>3. Bad = {}
  <2> SUFFICES ASSUME Bad # {} PROVE FALSE
    OBVIOUS
  <2>1. \E m \in Bad : \A n \in Bad : m <= n
    <3>1. Bad \in SUBSET Nat
      BY <1>1
    <3> HIDE DEF Bad
    <3> QED BY <3>1, LeastNumber
  <2>2. PICK m \in j..len : /\ ~(left[m] \subseteq left[j])
                            /\ \A n \in j..len : ~(left[n] \subseteq left[j]) => m <= n
    BY <2>1
  <2>3. m # j
    BY <2>2
  <2>4. m \in 1..len /\ m - 1 \in j..len /\ ~(m <= m - 1)
    BY <1>1, <2>3
  <2>5. left[m - 1] \subseteq left[j] /\ left[m] \subseteq left[m - 1]
    BY <1>2, <2>2, <2>4
  <2> QED BY <2>2, <2>5
<1> QED BY <1>3 DEF left, len

(* Of so many rounds each takes another position.                          *)
LEMMA TakenAreDistinct ==
    ASSUME NEW T, NEW sorted \in Seq(T), NEW n \in Nat
    PROVE  LET left == LeftAfterRounds(sorted)
               total == IF n < Len(sorted) THEN n ELSE Len(sorted)
               taken == selectCourtsToCancel(sorted, n)
               At(k) == NextToCancel(sorted, left[k - 1])
           IN  /\ total \in 0..Len(sorted)
               /\ taken \in Seq(T) /\ Len(taken) = total
               /\ \A k \in 1..total : At(k) \in DOMAIN sorted /\ taken[k] = sorted[At(k)]
               /\ \A j, k \in 1..total : At(j) = At(k) => j = k
<1> DEFINE left == LeftAfterRounds(sorted)
           len == Len(sorted)
           total == IF n < Len(sorted) THEN n ELSE Len(sorted)
           taken == selectCourtsToCancel(sorted, n)
           At(k) == NextToCancel(sorted, left[k - 1])
<1>1. len \in Nat /\ total \in 0..len /\ DOMAIN sorted = 1..len
      /\ \A i \in 1..len : sorted[i] \in T
  OBVIOUS
<1>2. /\ \A k \in 0..len : left[k] \in SUBSET DOMAIN sorted
      /\ \A k \in 1..len : At(k) \in left[k - 1] /\ left[k] = left[k - 1] \ {At(k)}
  BY RoundsTakeOne
<1>3. taken = [k \in 1..total |-> sorted[At(k)]]
  BY DEF selectCourtsToCancel
<1>4. \A j \in 0..len : \A k \in j..len : left[k] \subseteq left[j]
  BY RoundsShrink
<1> HIDE DEF left, len, total, taken, At
<1>5. \A k \in 1..len : At(k) \in DOMAIN sorted
  <2>1. \A k \in 1..len : k - 1 \in 0..len
    BY <1>1
  <2> QED BY <1>2, <2>1
<1>6. \A k \in 1..total : k \in 1..len
  BY <1>1
<1>7. taken \in [1..total -> T]
  BY <1>1, <1>3, <1>5, <1>6
<1>8. taken \in Seq(T) /\ Len(taken) = total
  BY <1>1, <1>7
<1>9. ASSUME NEW j \in 1..len, NEW k \in 1..len, j < k PROVE At(j) # At(k)
  <2>1. j \in 0..len /\ k - 1 \in j..len
    BY <1>1, <1>9
  <2>2. At(k) \in left[j] /\ At(j) \notin left[j]
    BY <1>2, <1>4, <2>1
  <2> QED BY <2>2
<1>10. ASSUME NEW j \in 1..total, NEW k \in 1..total, At(j) = At(k) PROVE j = k
  <2>1. j \in 1..len /\ k \in 1..len /\ (j < k \/ k < j \/ j = k)
    BY <1>1
  <2> QED BY <1>9, <1>10, <2>1
<1>11. \A k \in 1..total : At(k) \in DOMAIN sorted /\ taken[k] = sorted[At(k)]
  BY <1>3, <1>5, <1>6
<1> QED BY <1>1, <1>8, <1>10, <1>11 DEF left, len, total, taken, At

-----------------------------------------------------------------------------
(* The two phases of a release.                                            *)

(* A list without repetitions has as many members as places.               *)
LEMMA InjectiveCounts ==
    ASSUME NEW T, NEW q \in Seq(T), IsInjective(q)
    PROVE  IsFiniteSet(ToSet(q)) /\ Cardinality(ToSet(q)) = Len(q)
<1> DEFINE f == [i \in 1..Len(q) |-> q[i]]
<1>1. Len(q) \in Nat /\ DOMAIN q = 1..Len(q)
  OBVIOUS
<1>2. ToSet(q) = {q[i] : i \in 1..Len(q)}
  BY <1>1 DEF ToSet
<1>3. \A i, j \in 1..Len(q) : q[i] = q[j] => i = j
  BY <1>1 DEF IsInjective
<1>4. f \in Bijection(1..Len(q), ToSet(q))
  BY <1>2, <1>3 DEF Bijection, Injection, Surjection, IsInjective
<1>5. ExistsBijection(1..Len(q), ToSet(q))
  BY <1>4 DEF ExistsBijection
<1>6. IsFiniteSet(1..Len(q)) /\ Cardinality(1..Len(q)) = Len(q)
  BY <1>1, FS_Interval
<1> QED BY <1>5, <1>6, FS_Bijection

(* What is kept of a list without repetitions repeats nothing.             *)
LEMMA KeptIsInjective ==
    ASSUME NEW T, NEW s \in Seq(T), IsInjective(s), NEW keep \in SUBSET DOMAIN s
    PROVE  IsInjective(Kept(s, keep))
<1> DEFINE n == Cardinality(keep)
<1>1. /\ n \in Nat /\ DOMAIN Kept(s, keep) = 1..n
      /\ \A k \in 1..n : Kept(s, keep)[k] = s[Position(keep, k)] /\ Position(keep, k) \in keep
  BY KeptIs
<1>2. \A j, k \in 1..n : j < k => Position(keep, j) < Position(keep, k)
  <2>1. Len(s) \in Nat /\ keep \in SUBSET (1..Len(s))
    OBVIOUS
  <2> QED BY <2>1, PositionsAscend
<1> HIDE DEF n
<1>3. ASSUME NEW j \in 1..n, NEW k \in 1..n, Kept(s, keep)[j] = Kept(s, keep)[k]
      PROVE  j = k
  <2>1. Position(keep, j) = Position(keep, k)
    BY <1>1, <1>3 DEF IsInjective
  <2>2. Position(keep, j) \in Int /\ (j < k \/ k < j \/ j = k)
    BY <1>1
  <2> QED BY <1>2, <2>1, <2>2
<1> QED BY <1>1, <1>3 DEF IsInjective

(* A reserved court that the first phase leaves is ranked after all it     *)
(* took, which are as many as asked for.                                   *)
TakenFirst(phase1, ranked, sorted, n) ==
    \A j \in DOMAIN ranked :
        ranked[j] \in ToSet(sorted) \ ToSet(phase1) =>
            /\ Len(phase1) = n
            /\ \A c \in ToSet(phase1) : \E i \in DOMAIN ranked : i < j /\ ranked[i] = c

(* The first phase takes reserved courts, and passes over none of them     *)
(* that is ranked before one it takes.                                     *)
LEMMA FirstReservedIs ==
    ASSUME NEW T, NEW ranked \in Seq(T), NEW sorted \in Seq(T), NEW n \in Nat,
           NEW phase1, phase1 = FirstReserved(ranked, sorted, n)
    PROVE  /\ phase1 \in Seq(T) /\ Len(phase1) <= n
           /\ ToSet(phase1) \subseteq ToSet(sorted)
           /\ ToSet(phase1) \subseteq ToSet(ranked)
           /\ IsInjective(ranked) => IsInjective(phase1)
           /\ TakenFirst(phase1, ranked, sorted, n)
<1> DEFINE keep == {i \in DOMAIN ranked : ranked[i] \in ToSet(sorted)}
           r == Kept(ranked, keep)
           e == IF n < Len(r) THEN n ELSE Len(r)
<1>1. /\ r \in Seq(T) /\ Len(r) = Cardinality(keep) /\ DOMAIN r = 1..Cardinality(keep)
      /\ Cardinality(keep) \in Nat
      /\ \A k \in 1..Cardinality(keep) :
            r[k] = ranked[Position(keep, k)] /\ Position(keep, k) \in keep
      /\ \A i \in keep : /\ Cardinality(UpTo(keep, i)) \in 1..Cardinality(keep)
                         /\ r[Cardinality(UpTo(keep, i))] = ranked[i]
  <2>1. keep \in SUBSET DOMAIN ranked
    OBVIOUS
  <2> HIDE DEF keep
  <2> QED BY <2>1, KeptIs
<1>2. phase1 = SubSeq(r, 1, e)
  BY DEF FirstReserved
<1>3. IsInjective(ranked) => IsInjective(r)
  <2>1. keep \in SUBSET DOMAIN ranked
    OBVIOUS
  <2> HIDE DEF keep
  <2> QED BY <2>1, KeptIsInjective
<1>4. /\ \A i \in keep :
            i \in DOMAIN ranked /\ ranked[i] \in ToSet(sorted) /\ ranked[i] \in ToSet(ranked)
      /\ DOMAIN ranked = 1..Len(ranked) /\ Len(ranked) \in Nat
  BY DEF ToSet
<1>5. /\ \A i \in keep : Position(keep, Cardinality(UpTo(keep, i))) = i
      /\ \A j, k \in 1..Cardinality(keep) : j < k => Position(keep, j) < Position(keep, k)
  <2>1. keep \in SUBSET (1..Len(ranked)) /\ Len(ranked) \in Nat
    OBVIOUS
  <2> HIDE DEF keep
  <2> QED BY <2>1, PositionsAscend
<1>6. \A j \in DOMAIN ranked : ranked[j] \in ToSet(sorted) => j \in keep
  OBVIOUS
<1> HIDE DEF keep, r
<1>7. e \in 0..Len(r) /\ e <= n /\ (e = n \/ e = Len(r)) /\ Len(r) \in Nat
  BY <1>1
<1> HIDE DEF e
<1>8. phase1 \in Seq(T) /\ Len(phase1) = e /\ DOMAIN phase1 = 1..e
      /\ \A k \in 1..e : phase1[k] = r[k]
  BY <1>1, <1>2, <1>7
<1>9. ToSet(phase1) = {r[k] : k \in 1..e} /\ \A k \in 1..e : k \in 1..Cardinality(keep)
  <2>1. ToSet(phase1) = {r[k] : k \in 1..e}
    BY <1>8 DEF ToSet
  <2>2. \A k \in 1..e : k \in 1..Cardinality(keep)
    BY <1>1, <1>7
  <2> QED BY <2>1, <2>2
<1>10. ToSet(phase1) \subseteq ToSet(sorted) /\ ToSet(phase1) \subseteq ToSet(ranked)
  BY <1>1, <1>4, <1>9
<1>11. IsInjective(ranked) => IsInjective(phase1)
  BY <1>1, <1>3, <1>8, <1>9 DEF IsInjective
<1>12. ASSUME NEW j \in DOMAIN ranked, ranked[j] \in ToSet(sorted) \ ToSet(phase1)
       PROVE  /\ Len(phase1) = n
              /\ \A c \in ToSet(phase1) : \E i \in DOMAIN ranked : i < j /\ ranked[i] = c
  <2>1. j \in keep
    BY <1>6, <1>12
  <2> DEFINE k == Cardinality(UpTo(keep, j))
  <2>2. k \in 1..Cardinality(keep) /\ r[k] = ranked[j] /\ Position(keep, k) = j
    BY <1>1, <1>5, <2>1
  <2> HIDE DEF k
  <2>3. k > e
    <3>1. k \notin 1..e
      BY <1>9, <1>12, <2>2
    <3> QED BY <1>1, <1>7, <2>2, <3>1
  <2>4. e = n
    BY <1>1, <1>7, <2>2, <2>3
  <2>5. ASSUME NEW c \in ToSet(phase1)
        PROVE  \E i \in DOMAIN ranked : i < j /\ ranked[i] = c
    <3>1. PICK m \in 1..e : c = r[m]
      BY <1>9
    <3>2. m \in 1..Cardinality(keep) /\ m < k
      BY <1>7, <1>9, <2>2, <2>3
    <3>3. Position(keep, m) < j /\ ranked[Position(keep, m)] = c
          /\ Position(keep, m) \in DOMAIN ranked
      BY <1>1, <1>4, <1>5, <2>2, <3>1, <3>2
    <3> QED BY <3>3
  <2> QED BY <1>8, <2>4, <2>5
<1> QED BY <1>7, <1>8, <1>10, <1>11, <1>12 DEF TakenFirst

LEMMA SeqOfMembers ==
    ASSUME NEW T, NEW q \in Seq(T), NEW S, ToSet(q) \subseteq S
    PROVE  q \in Seq(S)
<1>1. Len(q) \in Nat /\ DOMAIN q = 1..Len(q) /\ q = [i \in 1..Len(q) |-> q[i]]
  OBVIOUS
<1>2. \A i \in 1..Len(q) : q[i] \in S
  BY <1>1 DEF ToSet
<1> QED BY <1>1, <1>2

(* The courts a release selects: reserved ones; against the preference     *)
(* order, the ones preferred before all others; and as many as asked for   *)
(* or reserved, where no court is named twice.                             *)
LEMMA ReleaseIsExact ==
    ASSUME NEW T, NEW sorted \in Seq(T), NEW preferred \in Seq(T), IsInjective(preferred),
           NEW n \in Nat
    PROVE  LET chosen == ToSet(CourtsToCancel(sorted, preferred, n))
           IN  /\ chosen \subseteq ToSet(sorted)
               /\ \A c \in chosen, j \in DOMAIN preferred :
                     preferred[j] \in ToSet(sorted) \ chosen =>
                        \E i \in DOMAIN preferred : j < i /\ preferred[i] = c
               /\ IsInjective(sorted) =>
                     /\ IsFiniteSet(chosen)
                     /\ Cardinality(chosen) = IF n < Len(sorted) THEN n ELSE Len(sorted)
<1> DEFINE ranked == Reverse(preferred)
           len == Len(sorted)
           phase1 == FirstReserved(ranked, sorted, n)
           e == Len(phase1)
           keep == {i \in DOMAIN sorted : sorted[i] \notin ToSet(phase1)}
           rest == Without(sorted, ToSet(phase1))
           phase2 == selectCourtsToCancel(rest, n - e)
           chosen == ToSet(CourtsToCancel(sorted, preferred, n))
           total == IF n - e < Len(rest) THEN n - e ELSE Len(rest)
<1>1. /\ ranked \in Seq(T) /\ Len(ranked) = Len(preferred)
      /\ \A i \in DOMAIN preferred : /\ Len(preferred) - i + 1 \in DOMAIN ranked
                                     /\ ranked[Len(preferred) - i + 1] = preferred[i]
      /\ \A i \in DOMAIN ranked : /\ Len(preferred) - i + 1 \in DOMAIN preferred
                                  /\ ranked[i] = preferred[Len(preferred) - i + 1]
  BY DEF Reverse
<1>2. IsInjective(ranked)
  <2>1. \A i \in DOMAIN ranked : i \in Int /\ Len(preferred) \in Int
    BY <1>1
  <2> SUFFICES ASSUME NEW i \in DOMAIN ranked, NEW j \in DOMAIN ranked, ranked[i] = ranked[j]
               PROVE  i = j
    BY DEF IsInjective
  <2> HIDE DEF ranked
  <2>2. Len(preferred) - i + 1 = Len(preferred) - j + 1
    BY <1>1 DEF IsInjective
  <2> QED BY <2>1, <2>2
<1> HIDE DEF ranked
<1>3. /\ phase1 \in Seq(T) /\ e <= n /\ e \in Nat /\ IsInjective(phase1)
      /\ ToSet(phase1) \subseteq ToSet(sorted)
      /\ \A j \in DOMAIN ranked :
            ranked[j] \in ToSet(sorted) \ ToSet(phase1) =>
               /\ e = n
               /\ \A c \in ToSet(phase1) : \E i \in DOMAIN ranked : i < j /\ ranked[i] = c
  <2>1. /\ phase1 \in Seq(T) /\ Len(phase1) <= n
        /\ ToSet(phase1) \subseteq ToSet(sorted)
        /\ IsInjective(ranked) => IsInjective(phase1)
        /\ \A j \in DOMAIN ranked :
              ranked[j] \in ToSet(sorted) \ ToSet(phase1) =>
                 /\ Len(phase1) = n
                 /\ \A c \in ToSet(phase1) : \E i \in DOMAIN ranked : i < j /\ ranked[i] = c
    <3>1. ranked \in Seq(T) /\ phase1 = FirstReserved(ranked, sorted, n)
      BY <1>1
    <3> HIDE DEF phase1
    <3>2. /\ phase1 \in Seq(T) /\ Len(phase1) <= n
          /\ ToSet(phase1) \subseteq ToSet(sorted)
          /\ IsInjective(ranked) => IsInjective(phase1)
          /\ TakenFirst(phase1, ranked, sorted, n)
      BY <3>1, FirstReservedIs
    <3> QED BY <3>2 DEF TakenFirst
  <2> HIDE DEF phase1
  <2>2. e \in Nat
    BY <2>1
  <2> QED BY <1>2, <2>1, <2>2
<1> HIDE DEF phase1, e
<1>4. /\ rest \in Seq(T) /\ Len(rest) = Cardinality(keep) /\ Cardinality(keep) \in Nat
      /\ ToSet(rest) = {sorted[i] : i \in keep}
      /\ IsInjective(sorted) => IsInjective(rest)
  <2>1. keep \in SUBSET DOMAIN sorted /\ rest = Kept(sorted, keep)
    BY DEF Without
  <2> HIDE DEF keep, rest
  <2> QED BY <2>1, KeptIs, KeptIsInjective
<1> HIDE DEF rest
<1>5. ToSet(rest) = ToSet(sorted) \ ToSet(phase1)
  BY <1>4 DEF ToSet
<1>6. n - e \in Nat
  BY <1>3
<1>7. /\ total \in 0..Len(rest) /\ phase2 \in Seq(T) /\ Len(phase2) = total
      /\ \A k \in 1..total : phase2[k] \in ToSet(rest)
      /\ IsInjective(rest) => IsInjective(phase2)
  <2> DEFINE At(k) == NextToCancel(rest, LeftAfterRounds(rest)[k - 1])
  <2>1. /\ total \in 0..Len(rest) /\ phase2 \in Seq(T) /\ Len(phase2) = total
        /\ \A k \in 1..total : At(k) \in DOMAIN rest /\ phase2[k] = rest[At(k)]
        /\ \A j, k \in 1..total : At(j) = At(k) => j = k
    BY <1>4, <1>6, TakenAreDistinct
  <2> HIDE DEF At, phase2, total
  <2>2. \A k \in 1..total : phase2[k] \in ToSet(rest)
    BY <2>1 DEF ToSet
  <2>3. DOMAIN phase2 = 1..total
    BY <2>1
  <2>4. IsInjective(rest) => IsInjective(phase2)
    BY <2>1, <2>3 DEF IsInjective
  <2> QED BY <2>1, <2>2, <2>4
<1> HIDE DEF total
<1>8. chosen = ToSet(phase1) \cup ToSet(phase2)
  <2>1. CourtsToCancel(sorted, preferred, n) = phase1 \o phase2
    <3> DEFINE both == [first \in Seq(ToSet(sorted)) |->
                          first \o selectCourtsToCancel(Without(sorted, ToSet(first)),
                                                         n - Len(first))]
    <3>1. CourtsToCancel(sorted, preferred, n) = both[phase1]
      BY DEF CourtsToCancel, phase1, ranked
    <3>2. phase1 \in Seq(ToSet(sorted))
      BY <1>3, SeqOfMembers
    <3>3. both[phase1] = phase1 \o phase2
      BY <3>2 DEF e, rest
    <3> QED BY <3>1, <3>3
  <2> HIDE DEF phase2
  <2>2. ToSet(phase1 \o phase2) = ToSet(phase1) \cup ToSet(phase2)
    <3> DEFINE q == phase1 \o phase2
    <3>1. /\ DOMAIN q = 1..(Len(phase1) + Len(phase2))
          /\ DOMAIN phase1 = 1..Len(phase1) /\ DOMAIN phase2 = 1..Len(phase2)
          /\ Len(phase1) \in Nat /\ Len(phase2) \in Nat
          /\ \A i \in 1..Len(phase1) : q[i] = phase1[i]
          /\ \A i \in 1..Len(phase2) : q[Len(phase1) + i] = phase2[i]
      <4>1. phase1 \in Seq(T) /\ phase2 \in Seq(T)
        BY <1>3, <1>7
      <4> HIDE DEF phase2
      <4> QED BY <4>1
    <3>2. ASSUME NEW c \in ToSet(q) PROVE c \in ToSet(phase1) \cup ToSet(phase2)
      <4> HIDE DEF q
      <4>1. PICK i \in 1..(Len(phase1) + Len(phase2)) : c = q[i]
        BY <3>1, <3>2 DEF ToSet
      <4>2. CASE i <= Len(phase1)
        <5>1. i \in 1..Len(phase1)
          BY <3>1, <4>2
        <5> QED BY <3>1, <4>1, <5>1 DEF ToSet
      <4>3. CASE i > Len(phase1)
        <5>1. i - Len(phase1) \in 1..Len(phase2) /\ Len(phase1) + (i - Len(phase1)) = i
          BY <3>1, <4>3
        <5> QED BY <3>1, <4>1, <5>1 DEF ToSet
      <4> QED BY <3>1, <4>2, <4>3
    <3>3. ASSUME NEW c \in ToSet(phase1) \cup ToSet(phase2) PROVE c \in ToSet(q)
      <4> HIDE DEF q
      <4>1. CASE c \in ToSet(phase1)
        <5>1. PICK i \in 1..Len(phase1) : c = phase1[i]
          BY <3>1, <4>1 DEF ToSet
        <5>2. i \in DOMAIN q
          BY <3>1
        <5> QED BY <3>1, <5>1, <5>2 DEF ToSet
      <4>2. CASE c \in ToSet(phase2)
        <5>1. PICK i \in 1..Len(phase2) : c = phase2[i]
          BY <3>1, <4>2 DEF ToSet
        <5>2. Len(phase1) + i \in DOMAIN q
          BY <3>1
        <5> QED BY <3>1, <5>1, <5>2 DEF ToSet
      <4> QED BY <3>3, <4>1, <4>2
    <3> QED BY <3>2, <3>3
  <2> QED BY <2>1, <2>2
<1> HIDE DEF phase2, chosen, keep
<1>9. ToSet(phase2) \subseteq ToSet(rest)
  <2>1. DOMAIN phase2 = 1..total
    BY <1>7
  <2> QED BY <1>7, <2>1 DEF ToSet
<1>10. chosen \subseteq ToSet(sorted)
  BY <1>3, <1>5, <1>8, <1>9
<1>11. ASSUME NEW c \in chosen, NEW j \in DOMAIN preferred,
              preferred[j] \in ToSet(sorted) \ chosen
       PROVE  \E i \in DOMAIN preferred : j < i /\ preferred[i] = c
  <2> DEFINE J == Len(preferred) - j + 1
  <2>1. /\ J \in DOMAIN ranked /\ ranked[J] = preferred[j]
        /\ j \in Int /\ Len(preferred) \in Int /\ \A i \in DOMAIN ranked : i \in Int
    BY <1>1
  <2> HIDE DEF J
  <2>2. e = n /\ \A d \in ToSet(phase1) : \E i \in DOMAIN ranked : i < J /\ ranked[i] = d
    BY <1>3, <1>8, <1>11, <2>1
  <2>3. ToSet(phase2) = {}
    <3>1. total = 0
      BY <1>4, <1>7, <2>2, <1>3 DEF total
    <3>2. DOMAIN phase2 = 1..0 /\ 1..0 = {}
      BY <1>7, <3>1
    <3> QED BY <3>2 DEF ToSet
  <2>4. PICK i \in DOMAIN ranked : i < J /\ ranked[i] = c
    BY <1>8, <1>11, <2>2, <2>3
  <2>5. /\ Len(preferred) - i + 1 \in DOMAIN preferred
        /\ preferred[Len(preferred) - i + 1] = c
    BY <1>1, <2>4
  <2>6. j < Len(preferred) - i + 1
    BY <2>1, <2>4 DEF J
  <2> QED BY <2>5, <2>6
<1>12. ASSUME IsInjective(sorted)
       PROVE  /\ IsFiniteSet(chosen)
              /\ Cardinality(chosen) = IF n < len THEN n ELSE len
  <2>1. /\ IsFiniteSet(ToSet(phase1)) /\ Cardinality(ToSet(phase1)) = e
        /\ IsFiniteSet(ToSet(phase2)) /\ Cardinality(ToSet(phase2)) = total
        /\ IsFiniteSet(ToSet(rest)) /\ Cardinality(ToSet(rest)) = Len(rest)
        /\ IsFiniteSet(ToSet(sorted)) /\ Cardinality(ToSet(sorted)) = len
    BY <1>3, <1>4, <1>7, <1>12, InjectiveCounts DEF e
  <2>2. ToSet(phase1) \cap ToSet(phase2) = {} /\ ToSet(sorted) \cap ToSet(phase1) = ToSet(phase1)
    BY <1>3, <1>5, <1>9
  <2>3. Cardinality(chosen) = e + total - Cardinality({}) /\ IsFiniteSet(chosen)
    <3>1. /\ IsFiniteSet(ToSet(phase1) \cup ToSet(phase2))
          /\ Cardinality(ToSet(phase1) \cup ToSet(phase2))
               = Cardinality(ToSet(phase1)) + Cardinality(ToSet(phase2))
                   - Cardinality(ToSet(phase1) \cap ToSet(phase2))
      <4>1. IsFiniteSet(ToSet(phase1)) /\ IsFiniteSet(ToSet(phase2))
        BY <2>1
      <4> QED BY <4>1, FS_Union
    <3> QED BY <1>8, <2>1, <2>2, <3>1
  <2>4. Len(rest) = len - e
    <3>1. Cardinality(ToSet(sorted) \ ToSet(phase1))
            = Cardinality(ToSet(sorted)) - Cardinality(ToSet(sorted) \cap ToSet(phase1))
      <4>1. IsFiniteSet(ToSet(sorted))
        BY <2>1
      <4> QED BY <4>1, FS_Difference
    <3> QED BY <1>5, <2>1, <2>2, <3>1
  <2>5. Cardinality({}) = 0 /\ len \in Nat
    BY FS_EmptySet
  <2> HIDE DEF len
  <2>6. Cardinality(chosen) = IF n < len THEN n ELSE len
    BY <1>3, <1>4, <2>3, <2>4, <2>5 DEF total
  <2> QED BY <2>3, <2>6
<1> QED BY <1>10, <1>11, <1>12 DEF chosen
=============================================================================
