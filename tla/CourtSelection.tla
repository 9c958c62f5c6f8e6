--------------------------- MODULE CourtSelection ---------------------------
(***************************************************************************)
(* The pure decisions of the court workflows: how many courts a head count *)
(* leaves unneeded, which reserved courts are given back first, which free *)
(* courts are reserved first, how a court list changes, and which message  *)
(* a release is reported with.  A court is known by the number in its name *)
(* ("Court 7" is 7); the empty number of an unnumbered court is 0.         *)
(*                                                                         *)
(* Recursion is written as recursive functions, and part of a sequence is  *)
(* taken with Kept instead of SelectSeq, so that the modules built on this *)
(* one can be proved about.  TLC evaluates an operator's argument wherever *)
(* it stands and a function's argument once: what is costly is passed to a *)
(* function of a LET.                                                      *)
(***************************************************************************)
EXTENDS Integers, Sequences, FiniteSets, SequencesExt

(* What of s stands at the positions in keep, in the order of s.           *)
Kept(s, keep) ==
    LET at[ps \in SUBSET DOMAIN s] ==
            [k \in 1..Cardinality(ps) |->
                s[CHOOSE i \in ps : Cardinality({j \in ps : j <= i}) = k]]
    IN  at[keep]

-----------------------------------------------------------------------------
(* How many courts.                                                        *)

(* models.Game.Capacity: a stored 0 stands for two players per court.      *)
Capacity(courtsCount, playersPerCourt) ==
    courtsCount * (IF playersPerCourt = 0 THEN 2 ELSE playersPerCourt)

(* capacity / game.CourtsCount, the quotient all three jobs divide by; the *)
(* jobs reach it only with courtsCount # 0 or die on the division.         *)
PerCourt(courtsCount, playersPerCourt) ==
    Capacity(courtsCount, playersPerCourt) \div courtsCount

(* Mutant: a court is freed although one player more would not fit.        *)
UnneededRoundedUp(count, courtsCount, playersPerCourt) ==
    LET capacity == Capacity(courtsCount, playersPerCourt)
        per == PerCourt(courtsCount, playersPerCourt)
    IN  IF count < capacity THEN (capacity - count + per - 1) \div per ELSE 0

(* Mutant: the last court that could be freed is kept.                     *)
UnneededOneShort(count, courtsCount, playersPerCourt) ==
    LET capacity == Capacity(courtsCount, playersPerCourt)
    IN  IF count < capacity
        THEN (capacity - count - 1) \div PerCourt(courtsCount, playersPerCourt)
        ELSE 0

(* Courts that can be fully freed for count players.                       *)
Unneeded(count, courtsCount, playersPerCourt) ==
    LET capacity == Capacity(courtsCount, playersPerCourt)
    IN  IF count < capacity
        THEN (capacity - count) \div PerCourt(courtsCount, playersPerCourt)
        ELSE 0

(* Mutant: half of an odd number, rounded up.                              *)
HalfRoundedUp(count, courtsCount, playersPerCourt) ==
    (Unneeded(count, courtsCount, playersPerCourt) + 1) \div 2

(* processHalfwayCheck gives back half of them, rounded down.              *)
HalfUnneeded(count, courtsCount, playersPerCourt) ==
    Unneeded(count, courtsCount, playersPerCourt) \div 2

-----------------------------------------------------------------------------
(* Which reserved courts are given back.  sorted is an ascending sequence  *)
(* of court numbers; a number repeats when two sessions hold that court.   *)

(* First position of the run of consecutive numbers position i is in.      *)
RunStart(sorted, i) ==
    Max({j \in 1..i : j = 1 \/ sorted[j] # sorted[j - 1] + 1})

(* The positions of left that belong to the run starting at start.         *)
Run(sorted, left, start) == {i \in left : RunStart(sorted, i) = start}

(* Mutant: a run is drained from its low end.                              *)
LowEndFirst(sorted, left) ==
    LET starts == {RunStart(sorted, i) : i \in left}
        Size(s) == Cardinality(Run(sorted, left, s))
        best == CHOOSE a \in starts : \A b \in starts :
                    Size(a) < Size(b) \/ (Size(a) = Size(b) /\ a <= b)
    IN  Min(Run(sorted, left, best))

(* The last position of the shortest run, the lowest run on a tie.         *)
NextToCancel(sorted, left) ==
    LET starts == {RunStart(sorted, i) : i \in left}
        Size(s) == Cardinality(Run(sorted, left, s))
        best == CHOOSE a \in starts : \A b \in starts :
                    Size(a) < Size(b) \/ (Size(a) = Size(b) /\ a <= b)
    IN  Max(Run(sorted, left, best))

(* The positions left after k rounds of the loop.                          *)
LeftAfterRounds(sorted) ==
    LET left[k \in 0..Len(sorted)] ==
            IF k = 0 THEN DOMAIN sorted
            ELSE left[k - 1] \ {NextToCancel(sorted, left[k - 1])}
    IN  left

selectCourtsToCancel(sorted, n) ==
    LET left == LeftAfterRounds(sorted)
    IN  [k \in 1..(IF n < Len(sorted) THEN n ELSE Len(sorted)) |->
            sorted[NextToCancel(sorted, left[k - 1])]]

(* What the two phases of a release leave for the consecutive-run rule.    *)
Without(sorted, courts) == Kept(sorted, {i \in DOMAIN sorted : sorted[i] \notin courts})

(* The first n courts of the list ranked that are reserved.                *)
FirstReserved(ranked, sorted, n) ==
    LET reserved == Kept(ranked, {i \in DOMAIN ranked : ranked[i] \in ToSet(sorted)})
    IN  SubSeq(reserved, 1, IF n < Len(reserved) THEN n ELSE Len(reserved))

(* Mutant: the preference order is not reversed.                           *)
BestCourtsFirst(sorted, preferred, n) ==
    LET both[phase1 \in Seq(ToSet(sorted))] ==
            phase1 \o selectCourtsToCancel(Without(sorted, ToSet(phase1)), n - Len(phase1))
    IN  both[FirstReserved(preferred, sorted, n)]

(* Reverse preference first, then the consecutive-run rule for the rest.   *)
CourtsToCancel(sorted, preferred, n) ==
    LET both[phase1 \in Seq(ToSet(sorted))] ==
            phase1 \o selectCourtsToCancel(Without(sorted, ToSet(phase1)), n - Len(phase1))
    IN  both[FirstReserved(Reverse(preferred), sorted, n)]

-----------------------------------------------------------------------------
(* Court lists: what is left of s when the members of t are taken out,     *)
(* one for one, keeping the order.                                         *)
MultisetMinus(s, t) ==
    LET Copies(q, c) == Cardinality({k \in DOMAIN q : q[k] = c})
    IN  Kept(s, {i \in DOMAIN s : Copies(SubSeq(s, 1, i), s[i]) > Copies(t, s[i])})

-----------------------------------------------------------------------------
(* Which free courts are reserved.  all is the facility's list in the order *)
(* the booking service returned it, a sequence of [id, num]; occupied holds *)
(* ids, venueCourts numbers, preferred is a sequence of numbers.            *)
filterFreeCourts(all, occupied, venueCourts, preferred) ==
    LET free == Kept(all, {i \in DOMAIN all : all[i].id \notin occupied})
        numbered == {i \in DOMAIN free : free[i].num > 0}
        nums == {free[i].num : i \in numbered}
        scoped == nums \cap venueCourts
        eligible == IF scoped = {} THEN nums ELSE scoped
        IdOf(n) == free[Max({i \in numbered : free[i].num = n})].id
        wanted == Kept(preferred, {i \in DOMAIN preferred : preferred[i] \in eligible})
        firsts == Kept(free, {i \in DOMAIN free :
                      /\ free[i].num \in eligible
                      /\ \A j \in 1..i - 1 : free[j].num # free[i].num})
    IN  IF wanted # <<>>
        THEN [k \in DOMAIN wanted |-> IdOf(wanted[k])]
        ELSE [k \in DOMAIN firsts |-> IdOf(firsts[k].num)]

-----------------------------------------------------------------------------
(* Mutant: the odd player out is overlooked.                               *)
ScenarioWithoutOdd(count, newCourtsCount, canceled, playersPerCourt) ==
    CASE newCourtsCount = 0 -> "all_canceled"
      [] newCourtsCount # 0 /\ canceled -> "canceled_balanced"
      [] newCourtsCount # 0 /\ ~canceled /\ count < newCourtsCount * playersPerCourt
            -> "even_no_cancel"
      [] OTHER -> "all_good"

(* How the outcome is announced.                                           *)
determineScenario(count, newCourtsCount, canceled, playersPerCourt) ==
    LET newCapacity == newCourtsCount * playersPerCourt
        odd == count % playersPerCourt # 0
    IN  CASE newCourtsCount = 0 -> "all_canceled"
          [] newCourtsCount # 0 /\ canceled /\ count = newCapacity -> "canceled_balanced"
          [] newCourtsCount # 0 /\ count < newCapacity /\ odd /\ canceled -> "odd_canceled"
          [] newCourtsCount # 0 /\ count < newCapacity /\ odd /\ ~canceled -> "odd_no_cancel"
          [] newCourtsCount # 0 /\ count < newCapacity /\ ~odd -> "even_no_cancel"
          [] OTHER -> "all_good"
=============================================================================
