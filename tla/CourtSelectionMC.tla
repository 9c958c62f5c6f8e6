-------------------------- MODULE CourtSelectionMC --------------------------
(***************************************************************************)
(* Checks the decisions of CourtSelection against reference definitions,   *)
(* on every input a short walk can build: an ascending sequence of         *)
(* reserved courts, an arbitrary list of court numbers, and a number.      *)
(***************************************************************************)
EXTENDS CourtSelection

CONSTANTS MaxNum,      \* court numbers are 1..MaxNum
          MaxReserved, \* length of the longest reserved sequence
          MaxListed,   \* length of the longest court list
          MaxN         \* largest number of courts or players

ASSUME WalkAssumption == MaxNum \in Nat \ {0, 1} /\ MaxN \in Nat

VARIABLES reserved, \* courts the sessions hold, ascending, repeats allowed
          listed,   \* numbers in a list or a facility, 0 for an unnumbered one
          n         \* a number of courts to free, of courts, or of players

vars == <<reserved, listed, n>>

Init == reserved = <<>> /\ listed = <<>> /\ n = 0

Reserve(c) ==
    /\ Len(reserved) < MaxReserved
    /\ reserved # <<>> => Last(reserved) <= c
    /\ reserved' = Append(reserved, c)
    /\ UNCHANGED <<listed, n>>

List(c) ==
    /\ Len(listed) < MaxListed
    /\ listed' = Append(listed, c)
    /\ UNCHANGED <<reserved, n>>

Count == n < MaxN /\ n' = n + 1 /\ UNCHANGED <<reserved, listed>>

Next == Count \/ (\E c \in 1..MaxNum : Reserve(c)) \/ (\E c \in 0..MaxNum : List(c))

Spec == Init /\ [][Next]_vars

-----------------------------------------------------------------------------
(* The order in which selectCourtsToCancel frees courts, said at once: by  *)
(* size of the run a court belonged to at the start, then by the run's     *)
(* place, then from its high end down.                                     *)
Before(s, i, j) ==
    LET Size(k) == Cardinality(Run(s, DOMAIN s, RunStart(s, k)))
        a == RunStart(s, i)
        b == RunStart(s, j)
    IN  \/ Size(i) < Size(j)
        \/ Size(i) = Size(j) /\ a < b
        \/ a = b /\ i > j

ReleaseOrder(s) ==
    LET Rank(i) == Cardinality({j \in DOMAIN s : Before(s, j, i)}) + 1
    IN  [r \in DOMAIN s |-> s[CHOOSE i \in DOMAIN s : Rank(i) = r]]

(* The greedy loop of selectCourtsToCancel, which re-reads the groups after *)
(* every pick, drains whole runs: a longer run of adjacent courts is never *)
(* broken while a shorter one is left.                                     *)
RunsAreDrainedInOrder ==
    selectCourtsToCancel(reserved, n) =
        SubSeq(ReleaseOrder(reserved), 1, IF n < Len(reserved) THEN n
                                                               ELSE Len(reserved))

Preference == Kept(listed, {i \in DOMAIN listed : listed[i] # 0})

PreferenceIsReversed ==
    LET preferred == Preference
        gone == ToSet(CourtsToCancel(reserved, preferred, n))
        kept == ToSet(reserved) \ gone
        Place(c) == CHOOSE i \in DOMAIN preferred : preferred[i] = c
    IN  IsInjective(preferred) =>
            /\ gone \subseteq ToSet(reserved)
            /\ \A c \in gone, d \in kept :
                  d \in ToSet(preferred) =>
                      c \in ToSet(preferred) /\ Place(d) < Place(c)
            /\ IsInjective(reserved) =>
                  Cardinality(gone) = Min({n, Len(reserved)})

UnneededIsExact ==
    \A courts \in 1..MaxN, per \in 0..4 :
        LET seats(k) == Capacity(courts - k, per)
            all == Unneeded(n, courts, per)
            half == HalfUnneeded(n, courts, per)
        IN  /\ all = Max({0} \cup {k \in 0..courts : n <= seats(k)})
            /\ half < courts
            /\ Unneeded(n, courts - half, per) = all - half

ScenarioFollowsRelease ==
    \A courts \in 1..MaxN, per \in 1..4, failed \in 0..2 :
        LET all == Unneeded(n, courts, per)
            freed == Max({0, all - failed})
            said == determineScenario(n, courts - freed, freed > 0, per)
        IN  /\ freed = all /\ all > 0 =>
                  said = IF n = 0 THEN "all_canceled"
                         ELSE IF n % per = 0 THEN "canceled_balanced"
                         ELSE "odd_canceled"
            /\ freed < all => said \notin {"all_good", "canceled_balanced", "all_canceled"}

(* An admin's edit gives back what the old list holds beyond the new one,  *)
(* copies counted, in the order of the old.                                *)
RemovalIsBagDifference ==
    LET left == MultisetMinus(listed, reserved)
        Copies(q, c) == Cardinality({k \in DOMAIN q : q[k] = c})
    IN  /\ \A c \in 0..MaxNum :
              Copies(left, c) = Max({0, Copies(listed, c) - Copies(reserved, c)})
        /\ \E at \in [DOMAIN left -> DOMAIN listed] :
              /\ \A j, k \in DOMAIN left : j < k => at[j] < at[k]
              /\ \A k \in DOMAIN left : left[k] = listed[at[k]]

(* The number of courts a job frees is the largest that still seats the    *)
(* players it counted, and freeing half of them at the halfway point       *)
(* leaves the later checks exactly the rest.  What is announced follows    *)
(* from what was done: when every unneeded court was given back the final  *)
(* check reports one of its three texts, and a court that could still be   *)
(* freed never goes by as "all good".  An edit gives back exactly the      *)
(* copies of courts it takes out of the list.                              *)
ReleaseIsExactAndSaid ==
    UnneededIsExact /\ ScenarioFollowsRelease /\ RemovalIsBagDifference

(* A facility: listed gives the numbers in the courts' names, positions    *)
(* the booking service's ids, reserved the ids it reports as taken.        *)
Facility == [i \in DOMAIN listed |-> [id |-> i, num |-> listed[i]]]

VenueSets == {{}, {1, 2}, {MaxNum}}
PreferenceLists == {<<>>, <<2, 1>>, <<MaxNum, 1>>}

FreeCourtsAreOffered ==
    \A venue \in VenueSets, preferred \in PreferenceLists :
        LET offered == filterFreeCourts(Facility, ToSet(reserved), venue, preferred)
            free == {i \in DOMAIN listed : i \notin ToSet(reserved) /\ listed[i] > 0}
            nums == {listed[i] : i \in free}
            ours == IF nums \cap venue = {} THEN nums ELSE nums \cap venue
            liked == ours \cap ToSet(preferred)
            Place(c) == CHOOSE i \in DOMAIN preferred : preferred[i] = c
        IN  /\ ToSet(offered) \subseteq free
            /\ {listed[i] : i \in ToSet(offered)} = (IF liked = {} THEN ours ELSE liked)
            /\ \A j, k \in DOMAIN offered : j < k =>
                  /\ listed[offered[j]] # listed[offered[k]]
                  /\ liked # {} => Place(listed[offered[j]]) < Place(listed[offered[k]])

(* cancelUsingBookingEntries gives up courts against the venue's preference *)
(* order: no reserved court the venue lists survives one it ranks higher,  *)
(* and courts it does not list are given up only after all it lists.       *)
(* filterFreeCourts offers courts along the same order: only free, numbered *)
(* ones, one per number, the venue's own while any is free, preferred ones  *)
(* first, and something whenever anything is free.                         *)
PreferenceIsFollowed == PreferenceIsReversed /\ FreeCourtsAreOffered
=============================================================================
