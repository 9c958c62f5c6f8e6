------------------------- MODULE GameResultsProofs -------------------------
(***************************************************************************)
(* Proofs about results, ratings, messages and leaderboards, for every     *)
(* number of results, players, decisions, polls and faults: ratings count  *)
(* exactly the approved results, each once, their history is a chain, and  *)
(* results and ratings implement ResultLedger; transactions on ratings     *)
(* never wait for one another in a circle; and what players are told of a  *)
(* result is true.                                                         *)
(*                                                                         *)
(* The invariant is RatingInv.  Steps that leave the tables alone are the  *)
(* subject of PcMoves; every statement that changes a table has a lemma of *)
(* its own.                                                                *)
(***************************************************************************)
EXTENDS LeaderboardPost, FiniteSetTheorems, TLAPS

(* What RatingInv says beyond the types.                                   *)
CoreInv ==
    /\ JobsAreResults /\ RowsAreOfPlayers /\ RowLockHeld
    /\ RatingLockHeld /\ BothAreLocked /\ RatedExactlyOnce /\ ChangesFormChain

tables == <<status, row, hasRating, folded, changes>>
core == <<tables, rowLock, ratingLock, seen>>

-----------------------------------------------------------------------------
(* Rows and players.                                                       *)

(* Of a result's two players that remain, one has the least id.            *)
LEMMA LeastIsOne ==
    ASSUME NEW a \in Nat, NEW b \in Nat, NEW S \in SUBSET {a, b}, S # {}
    PROVE  Least(S) \in S
<1>1. \E p \in S : \A q \in S : p <= q
  <2>1. CASE a \in S /\ (b \notin S \/ a <= b)
    BY <2>1
  <2>2. CASE b \in S /\ (a \notin S \/ b <= a)
    BY <2>2
  <2>3. a \in S \/ b \in S
    OBVIOUS
  <2>4. a <= b \/ b <= a
    OBVIOUS
  <2> QED
    BY <2>1, <2>2, <2>3, <2>4
<1> QED
  BY <1>1 DEF Least

(* The players of a result that is in a transaction.                       *)
LEMMA BothArePlayers ==
    ASSUME RatingTypeOK, RowsAreOfPlayers, NEW r \in Results, status[r] # "none"
    PROVE  Both(r) \subseteq Players /\ \A p \in Both(r) : p \in Nat \ {0}
  BY ResultsAssumption DEF ResultsAssumption, RowsAreOfPlayers, Both

(* The next row a transaction asks for is of a player it has not locked.   *)
LEMMA NextIsLeft ==
    ASSUME RatingTypeOK, RowsAreOfPlayers, RowLockHeld, BothAreLocked, JobsAreResults,
           NEW w \in Workers, pc[w] \in {"select", "insert", "reselect"}
    PROVE  NextPlayer(w) \in Left(w) /\ Left(w) \subseteq Players
<1>1. job[w] \in Results /\ status[job[w]] # "none"
  BY DEF JobsAreResults, RowLockHeld, Decided, InTx
<1>2. Both(job[w]) \subseteq Players /\ \A p \in Both(job[w]) : p \in Nat
  BY <1>1, BothArePlayers
<1>3. Left(w) # {} /\ Left(w) \subseteq Both(job[w])
  BY DEF BothAreLocked, Left
<1>4. Left(w) \in SUBSET {row[job[w]].author, row[job[w]].opponent}
  BY <1>3 DEF Both
<1>5. row[job[w]].author \in Nat /\ row[job[w]].opponent \in Nat
  BY <1>2 DEF Both
<1>6. PICK a \in Nat, b \in Nat : Left(w) \in SUBSET {a, b}
  BY <1>4, <1>5
<1>7. Least(Left(w)) \in Left(w)
  <2> DEFINE S == Left(w)
  <2>1. S \in SUBSET {a, b} /\ S # {}
    BY <1>3, <1>6
  <2> HIDE DEF S
  <2>2. Least(S) \in S
    BY <2>1, LeastIsOne
  <2> QED
    BY <2>2 DEF S
<1> QED
  BY <1>2, <1>3, <1>7 DEF NextPlayer

-----------------------------------------------------------------------------
(* A worker goes on without touching a table or a lock.                    *)
LEMMA PcMoves ==
    ASSUME RatingTypeOK, CoreInv, NEW w \in Workers, NEW l, NEW j, NEW t,
           pc' = [pc EXCEPT ![w] = l],
           job' = [job EXCEPT ![w] = j], to' = [to EXCEPT ![w] = t],
           UNCHANGED core,
           l \in InTx \cup {"decide", "answer", "refused", "tell"} => j \in Results,
           l \in InTx => t \in Rated, l = "decide" => t # "none",
           pc[w] \in Decided <=> l \in Decided,
           l \in Decided => j = job[w],
           l \in {"audit", "commit"} => Left(w) = {},
           l \in {"select", "insert", "reselect"} => Left(w) # {}
    PROVE  CoreInv'
<1> USE DEF CoreInv, core, tables, RatingTypeOK
<1>1. /\ \A v \in Workers : v # w => pc'[v] = pc[v] /\ job'[v] = job[v] /\ to'[v] = to[v]
      /\ pc'[w] = l /\ job'[w] = j /\ to'[w] = t
  OBVIOUS
<1>2. \A r : Both(r)' = Both(r)
  BY DEF Both
<1>3. \A v \in Workers : Held(v)' = Held(v)
  BY DEF Held
<1>4. \A v \in Workers : v # w \/ l \in Decided => Left(v)' = Left(v)
  BY <1>1, <1>2, <1>3 DEF Left
<1>5. JobsAreResults'
  BY <1>1 DEF JobsAreResults
<1>6. RowsAreOfPlayers'
  BY DEF RowsAreOfPlayers
<1>7. RowLockHeld'
  BY <1>1, ResultsAssumption DEF RowLockHeld, ResultsAssumption
<1>8. RatingLockHeld'
  BY <1>1, <1>2, <1>3 DEF RatingLockHeld
<1>9. BothAreLocked'
  BY <1>1, <1>4 DEF BothAreLocked, Decided, InTx
<1>10. RatedExactlyOnce'
  BY <1>2 DEF RatedExactlyOnce
<1>11. ChangesFormChain'
  BY DEF ChangesFormChain
<1> QED
  BY <1>5, <1>6, <1>7, <1>8, <1>9, <1>10, <1>11

(* Nothing at all happens to decisions and ratings.                        *)
LEMMA CoreStays ==
    ASSUME CoreInv, UNCHANGED <<core, pc, job, to>>
    PROVE  CoreInv'
  BY DEF CoreInv, core, tables, JobsAreResults, RowsAreOfPlayers, RowLockHeld, RatingLockHeld,
         BothAreLocked, RatedExactlyOnce, ChangesFormChain, Both, Held, Left

-----------------------------------------------------------------------------
(* The statements that change a table or a lock.                           *)

(* A result is submitted.                                                  *)
LEMMA SubmitKeeps ==
    ASSUME RatingTypeOK, CoreInv, NEW r \in Results, NEW a \in Players, NEW b \in Players,
           NEW d \in GameDays, Submit(r, a, b, d), now \in Nat
    PROVE  RatingTypeOK' /\ CoreInv'
<1> USE DEF CoreInv, Submit, ratingVars, lockVars
<1>1. RatingTypeOK'
  <2>1. row' \in [Results -> [author : Nat, opponent : Nat, day : Nat, at : Nat]]
    BY ResultsAssumption DEF RatingTypeOK, ResultsAssumption
  <2>2. status' \in [Results -> {"none", "pending"} \cup Decisions \cup Rated]
    BY DEF RatingTypeOK
  <2> QED
    BY <2>1, <2>2 DEF RatingTypeOK
<1>2. /\ status[r] = "none" /\ status'[r] = "pending"
      /\ \A q \in Results : q # r => status'[q] = status[q] /\ row'[q] = row[q]
      /\ row'[r].author = a /\ row'[r].opponent = b /\ a # b
  BY DEF RatingTypeOK
<1>3. \A q \in Results : q # r => Both(q)' = Both(q)
  BY <1>2 DEF Both
<1>4. \A w \in Workers : Held(w)' = Held(w)
  BY DEF Held
<1>5. \A w \in Workers : pc[w] \in Decided => job[w] \in Results /\ job[w] # r
  BY <1>2 DEF RowLockHeld, JobsAreResults, Decided
<1>6. \A w \in Workers : pc[w] \in Decided => Left(w)' = Left(w)
  BY <1>3, <1>4, <1>5 DEF Left
<1>7. JobsAreResults' /\ ChangesFormChain'
  BY DEF JobsAreResults, ChangesFormChain
<1>8. RowsAreOfPlayers'
  BY <1>2 DEF RowsAreOfPlayers
<1>9. RowLockHeld'
  BY <1>2, <1>5 DEF RowLockHeld
<1>10. RatingLockHeld'
  BY <1>3, <1>4, <1>5 DEF RatingLockHeld
<1>11. BothAreLocked'
  BY <1>6 DEF BothAreLocked, Decided, InTx
<1>12. RatedExactlyOnce'
  BY <1>2, <1>3 DEF RatedExactlyOnce, Rated
<1> QED
  BY <1>1, <1>7, <1>8, <1>9, <1>10, <1>11, <1>12

(* A pending result that no transaction has changed is dropped; whoever    *)
(* moves on is outside of a transaction.                                   *)
LEMMA DropKeeps ==
    ASSUME RatingTypeOK, CoreInv, NEW r \in Results, NEW s \in {"rejected", "canceled"},
           status[r] = "pending", rowLock[r] = NoOne,
           status' = [status EXCEPT ![r] = s],
           UNCHANGED <<row, hasRating, folded, changes, rowLock, ratingLock, seen, job, to>>,
           \A v \in Workers :
               \/ pc'[v] = pc[v]
               \/ /\ pc[v] \notin InTx /\ job[v] \in Results
                  /\ pc'[v] \notin InTx \cup {"decide"}
    PROVE  CoreInv'
<1> USE DEF CoreInv
<1>1. /\ status'[r] = s /\ \A q \in Results : q # r => status'[q] = status[q]
  BY DEF RatingTypeOK
<1>2. \A q : Both(q)' = Both(q)
  BY DEF Both
<1>3. \A w \in Workers : Held(w)' = Held(w) /\ Left(w)' = Left(w)
  BY <1>2 DEF Held, Left
<1>4. \A w \in Workers : pc[w] \in Decided => job[w] # r
  BY ResultsAssumption DEF RowLockHeld, ResultsAssumption
<1>5. \A w \in Workers : pc[w] \in InTx \/ pc'[w] \in InTx => pc'[w] = pc[w]
  OBVIOUS
<1>6. JobsAreResults' /\ ChangesFormChain'
  BY <1>5 DEF JobsAreResults, ChangesFormChain
<1>7. RowsAreOfPlayers'
  BY <1>1 DEF RowsAreOfPlayers
<1>8. RowLockHeld'
  <2>1. \A w \in Workers : pc'[w] \in Decided => rowLock'[job'[w]] = w /\ status'[job'[w]] = "pending"
    BY <1>1, <1>4, <1>5 DEF RowLockHeld, JobsAreResults, Decided
  <2>2. \A q \in Results : rowLock'[q] # NoOne => pc'[rowLock'[q]] \in Decided /\ job'[rowLock'[q]] = q
    BY <1>5 DEF RowLockHeld, RatingTypeOK, Decided
  <2> QED
    BY <2>1, <2>2 DEF RowLockHeld
<1>9. RatingLockHeld' /\ BothAreLocked'
  BY <1>2, <1>3, <1>5 DEF RatingLockHeld, BothAreLocked, Decided, InTx
<1>10. RatedExactlyOnce'
  BY <1>1, <1>2 DEF RatedExactlyOnce, Rated
<1> QED
  BY <1>6, <1>7, <1>8, <1>9, <1>10

(* The transaction changes the result's row and holds it from then on.     *)
LEMMA FlipKeeps ==
    ASSUME RatingTypeOK, CoreInv, NEW w \in Workers, FlipStatus(w)
    PROVE  CoreInv'
<1> USE DEF CoreInv, FlipStatus, DecisionUnchanged, ratingVars
<1>1. job[w] \in Results /\ to[w] \in Rated /\ pc[w] = "flip"
  BY DEF JobsAreResults, InTx
<1>2. CASE status[job[w]] = "pending"
  <2>1. /\ rowLock' = [rowLock EXCEPT ![job[w]] = w]
        /\ pc' = [pc EXCEPT ![w] = "select"] /\ UNCHANGED <<job, to>>
        /\ UNCHANGED <<tables, ratingLock, seen>>
    BY <1>2 DEF Stays, Goto, tables
  <2>2. /\ pc'[w] = "select" /\ \A v \in Workers : v # w => pc'[v] = pc[v]
        /\ rowLock'[job[w]] = w
        /\ \A r \in Results : r # job[w] => rowLock'[r] = rowLock[r]
    BY <1>1, <2>1 DEF RatingTypeOK
  <2>3. \A r : Both(r)' = Both(r)
    BY <2>1 DEF Both, tables
  <2>4. \A v \in Workers : Held(v)' = Held(v) /\ Left(v)' = Left(v)
    BY <2>1, <2>3 DEF Held, Left
  <2>5. \A v \in Workers : pc[v] \in Decided => job[v] # job[w]
    BY ResultsAssumption DEF RowLockHeld, ResultsAssumption
  <2>6. Held(w) = {} /\ Left(w) = Both(job[w]) /\ Both(job[w]) # {}
    BY <1>1 DEF RatingLockHeld, Left, Decided, Both, InTx
  <2>7. JobsAreResults' /\ RowsAreOfPlayers' /\ ChangesFormChain'
    BY <1>1, <2>1, <2>2 DEF JobsAreResults, RowsAreOfPlayers, ChangesFormChain, tables
  <2>8. RowLockHeld'
    BY <1>1, <1>2, <2>1, <2>2, <2>5 DEF RowLockHeld, tables, Decided, InTx
  <2>9. RatingLockHeld'
    BY <2>1, <2>2, <2>3, <2>4, <2>6 DEF RatingLockHeld, tables
  <2>10. BothAreLocked'
    BY <2>2, <2>4, <2>6 DEF BothAreLocked
  <2>11. RatedExactlyOnce'
    BY <2>1, <2>3 DEF RatedExactlyOnce, tables
  <2> QED
    BY <2>7, <2>8, <2>9, <2>10, <2>11
<1>3. CASE status[job[w]] # "pending" /\ w \in Polls
  BY <1>1, <1>3, PcMoves DEF Leaves, Goto, core, tables, Decided, InTx
<1>4. CASE status[job[w]] # "pending" /\ w \notin Polls
  <2>1. /\ pc' = [pc EXCEPT ![w] = "refused"] /\ UNCHANGED core
        /\ job' = [job EXCEPT ![w] = job[w]] /\ to' = [to EXCEPT ![w] = to[w]]
    BY <1>4 DEF Stays, Goto, core, tables, RatingTypeOK
  <2> QED
    BY <1>1, <2>1, PcMoves DEF Decided, InTx
<1> QED
  BY <1>2, <1>3, <1>4

(* One rating row more is locked and read.                                 *)
LEMMA TakeKeeps ==
    ASSUME RatingTypeOK, CoreInv, NEW w \in Workers,
           pc[w] \in {"select", "insert", "reselect"}, NEW p \in Left(w), p \in Players,
           TakeRating(w, p), ApplyUnchanged
    PROVE  RatingTypeOK' /\ CoreInv'
<1> USE DEF CoreInv, ApplyUnchanged, DecisionUnchanged, ratingVars
<1>1. /\ job[w] \in Results /\ to[w] \in Rated /\ pc[w] \in Decided
      /\ rowLock[job[w]] = w /\ status[job[w]] = "pending"
  BY DEF JobsAreResults, RowLockHeld, InTx, Decided
<1>2. /\ ratingLock[p] = NoOne /\ ratingLock' = [ratingLock EXCEPT ![p] = w]
      /\ seen' = [seen EXCEPT ![w][p] = folded[p]]
      /\ pc' = [pc EXCEPT ![w] = IF Left(w) = {p} THEN "audit" ELSE "select"]
      /\ UNCHANGED <<job, to, rowLock, tables>>
  BY DEF TakeRating, Stays, Goto, tables
<1>3. RatingTypeOK'
  BY <1>2 DEF RatingTypeOK, InTx, tables
<1>4. /\ pc'[w] \in {"audit", "select"} /\ (pc'[w] = "audit" <=> Left(w) = {p})
      /\ \A v \in Workers : v # w => pc'[v] = pc[v] /\ seen'[v] = seen[v]
      /\ seen'[w][p] = folded[p] /\ \A q \in Players : q # p => seen'[w][q] = seen[w][q]
      /\ ratingLock'[p] = w /\ \A q \in Players : q # p => ratingLock'[q] = ratingLock[q]
  BY <1>2 DEF RatingTypeOK
<1>5. \A r : Both(r)' = Both(r)
  BY <1>2 DEF Both, tables
<1>6. Held(w)' = Held(w) \cup {p} /\ \A v \in Workers : v # w => Held(v)' = Held(v)
  BY <1>2, <1>4, ResultsAssumption DEF Held, ResultsAssumption
<1>7. Left(w)' = Left(w) \ {p} /\ \A v \in Workers : v # w => Left(v)' = Left(v)
  BY <1>2, <1>5, <1>6 DEF Left
<1>8. p \in Both(job[w])
  BY DEF Left
<1>9. JobsAreResults' /\ RowsAreOfPlayers' /\ ChangesFormChain'
  BY <1>1, <1>2, <1>4 DEF JobsAreResults, RowsAreOfPlayers, ChangesFormChain, tables
<1>10. RowLockHeld'
  BY <1>1, <1>2, <1>4, ResultsAssumption
     DEF RowLockHeld, tables, Decided, InTx, ResultsAssumption, RatingTypeOK
<1>11. RatingLockHeld'
  <2>1. \A v \in Workers : v # w => \A q \in Held(v)' :
          pc'[v] \in Decided /\ q \in Both(job[v])' /\ seen'[v][q] = folded'[q]
    BY <1>2, <1>4, <1>5, <1>6 DEF RatingLockHeld, tables
  <2>2. \A q \in Held(w)' : q \in Players
    BY DEF Held
  <2>3. \A q \in Held(w)' :
          pc'[w] \in Decided /\ q \in Both(job[w])' /\ seen'[w][q] = folded'[q]
    BY <1>2, <1>4, <1>5, <1>6, <1>8, <2>2 DEF RatingLockHeld, tables, Decided, InTx
  <2> QED
    BY <1>2, <2>1, <2>3 DEF RatingLockHeld
<1>12. BothAreLocked'
  BY <1>4, <1>7 DEF BothAreLocked
<1>13. RatedExactlyOnce'
  BY <1>2, <1>5 DEF RatedExactlyOnce, tables
<1> QED
  BY <1>3, <1>9, <1>10, <1>11, <1>12, <1>13

(* A transaction ends and gives up its locks; its worker goes on outside.  *)
LEMMA UnlockedLocks ==
    ASSUME RatingTypeOK, CoreInv, NEW w \in Workers, pc[w] \in InTx, EndTx(w),
           NEW l, pc' = [pc EXCEPT ![w] = l], l \notin InTx, l # "decide",
           NEW j, NEW t, job' = [job EXCEPT ![w] = j], to' = [to EXCEPT ![w] = t],
           l \in {"decide", "answer", "refused", "tell"} => j \in Results,
           \A r \in Results : rowLock[r] # w => status'[r] = status[r],
           \A p \in Players : p \notin Held(w) => folded'[p] = folded[p],
           UNCHANGED row
    PROVE  JobsAreResults' /\ RowLockHeld' /\ RatingLockHeld' /\ BothAreLocked'
<1> USE DEF CoreInv, EndTx
<1>1. /\ pc'[w] = l /\ job'[w] = j
      /\ \A v \in Workers : v # w => pc'[v] = pc[v] /\ job'[v] = job[v] /\ to'[v] = to[v]
                                      /\ seen'[v] = seen[v]
  BY DEF RatingTypeOK
<1>2. w # NoOne
  BY ResultsAssumption DEF ResultsAssumption
<1>3. \A r : Both(r)' = Both(r)
  BY DEF Both
<1>4. Held(w)' = {} /\ \A v \in Workers : v # w => Held(v)' = Held(v)
  BY <1>2, ResultsAssumption DEF Held, RatingTypeOK, ResultsAssumption
<1>5. \A v \in Workers : v # w => Left(v)' = Left(v)
  BY <1>1, <1>3, <1>4 DEF Left
<1>6. \A v \in Workers : pc[v] \in Decided => job[v] \in Results /\ rowLock[job[v]] = v
  BY DEF RowLockHeld, JobsAreResults, Decided
<1>7. JobsAreResults'
  BY <1>1 DEF JobsAreResults
<1>8. RowLockHeld'
  BY <1>1, <1>2, <1>6, ResultsAssumption DEF RowLockHeld, RatingTypeOK, Decided, ResultsAssumption
<1>9. RatingLockHeld'
  <2>1. \A v \in Workers : v # w => \A p \in Held(v) : p \in Players /\ p \notin Held(w)
    BY DEF Held
  <2>2. \A v \in Workers : v # w => \A p \in Held(v)' :
          pc'[v] \in Decided /\ p \in Both(job[v])' /\ seen'[v][p] = folded'[p]
    BY <1>1, <1>3, <1>4, <2>1 DEF RatingLockHeld
  <2> QED
    BY <1>1, <1>3, <1>4, <2>2 DEF RatingLockHeld
<1>10. BothAreLocked'
  BY <1>1, <1>5 DEF BothAreLocked, InTx
<1> QED
  BY <1>7, <1>8, <1>9, <1>10

(* An approval and its two ratings become visible.                         *)
LEMMA CommitKeeps ==
    ASSUME RatingTypeOK, CoreInv, NEW w \in Workers, CommitTx(w)
    PROVE  /\ RatingTypeOK' /\ CoreInv'
           /\ status[job[w]] = "pending" /\ to[w] \in Rated
           /\ folded' = [p \in Players |-> IF p \in Both(job[w]) THEN folded[p] \cup {job[w]}
                                           ELSE folded[p]]
<1> USE DEF CoreInv, CommitTx, DecisionUnchanged
<1> DEFINE r == job[w]
<1>1. /\ r \in Results /\ to[w] \in Rated /\ pc[w] = "commit" /\ status[r] = "pending"
      /\ Both(r) \subseteq Players
  BY BothArePlayers DEF JobsAreResults, RowLockHeld, InTx, Decided
<1>2. Both(r) \subseteq Held(w) /\ \A p \in Both(r) : seen[w][p] = folded[p]
  BY <1>1 DEF BothAreLocked, Left, RatingLockHeld
<1>3. folded' = [p \in Players |-> IF p \in Both(r) THEN folded[p] \cup {r} ELSE folded[p]]
  BY <1>2
<1>4. \A p \in Both(r) : r \notin folded[p]
  BY <1>1 DEF RatedExactlyOnce, Rated
<1>5. status'[r] = to[w] /\ \A q \in Results : q # r => status'[q] = status[q]
  BY <1>1 DEF RatingTypeOK
<1>6. \A q : Both(q)' = Both(q)
  BY DEF Both
<1>7. \E l \in {"tell", "answer", "next", "idle"} : \E j \in {r, NoResult} :
        \E t \in {to[w], "none"} :
          /\ pc' = [pc EXCEPT ![w] = l] /\ job' = [job EXCEPT ![w] = j]
          /\ to' = [to EXCEPT ![w] = t]
          /\ l \in {"tell", "answer"} => j \in Results
  <2>1. job = [job EXCEPT ![w] = r] /\ to = [to EXCEPT ![w] = to[w]]
    BY DEF RatingTypeOK
  <2>2. CASE Stays(w, IF w \in Polls THEN "tell" ELSE "answer")
    BY <1>1, <2>1, <2>2 DEF Stays, Goto
  <2>3. CASE Leaves(w, AfterRollback(w))
    BY <2>3 DEF Leaves, Goto, AfterRollback
  <2> QED
    BY <2>2, <2>3
<1>8. changes' = changes \cup {[result |-> r, player |-> p, old |-> folded[p],
                               new |-> folded[p] \cup {r}] : p \in Both(r)}
  BY <1>2 DEF Change
<1>9. RatingTypeOK'
  <2>1. status' \in [Results -> {"none", "pending"} \cup Decisions \cup Rated]
    BY <1>1 DEF RatingTypeOK
  <2>2. hasRating' \subseteq Players /\ folded' \in [Players -> SUBSET Results]
    BY <1>1, <1>3 DEF RatingTypeOK
  <2>3. changes' \subseteq [result : Results, player : Players,
                            old : SUBSET Results, new : SUBSET Results]
    BY <1>1, <1>8 DEF RatingTypeOK
  <2>4. /\ rowLock' \in [Results -> Workers \cup {NoOne}]
        /\ ratingLock' \in [Players -> Workers \cup {NoOne}]
        /\ seen' \in [Workers -> [Players -> SUBSET Results]]
    BY DEF RatingTypeOK, EndTx
  <2>5. /\ pc' \in [Workers -> InTx \cup DayPcs \cup {"idle", "decide", "answer", "refused",
                                                     "tell", "next"}]
        /\ job' \in [Workers -> Results \cup {NoResult}]
        /\ to' \in [Workers -> Decisions \cup Rated \cup {"none"}]
    BY <1>1, <1>7 DEF RatingTypeOK
  <2> QED
    BY <2>1, <2>2, <2>3, <2>4, <2>5 DEF RatingTypeOK
<1>10. JobsAreResults' /\ RowLockHeld' /\ RatingLockHeld' /\ BothAreLocked'
  <2>1. PICK l \in {"tell", "answer", "next", "idle"}, j \in {r, NoResult}, t \in {to[w], "none"} :
          /\ pc' = [pc EXCEPT ![w] = l] /\ job' = [job EXCEPT ![w] = j]
          /\ to' = [to EXCEPT ![w] = t]
          /\ l \in {"tell", "answer"} => j \in Results
    BY <1>7
  <2>2. \A p \in Players : p \notin Held(w) => folded'[p] = folded[p]
    BY <1>2, <1>3
  <2>3. \A q \in Results : rowLock[q] # w => status'[q] = status[q]
    BY <1>1, <1>5 DEF RowLockHeld, Decided, InTx
  <2> QED
    BY <1>1, <2>1, <2>2, <2>3, UnlockedLocks DEF InTx
<1>11. RowsAreOfPlayers'
  BY <1>1, <1>5 DEF RowsAreOfPlayers
<1>12. RatedExactlyOnce'
  BY <1>1, <1>3, <1>5, <1>6 DEF RatedExactlyOnce, Rated
<1>13. ChangesFormChain'
  <2> SUFFICES ASSUME NEW c \in changes'
               PROVE  /\ c.new = c.old \cup {c.result} /\ c.result \notin c.old
                      /\ c.new \subseteq folded'[c.player]
                      /\ \A e \in changes' \ {c} :
                           e.player = c.player => c.new \subseteq e.old \/ e.new \subseteq c.old
    BY DEF ChangesFormChain
  <2>1. \A e \in changes : /\ e.player \in Players /\ e.new \subseteq folded[e.player]
                           /\ folded[e.player] \subseteq folded'[e.player]
    BY <1>3 DEF ChangesFormChain, RatingTypeOK
  <2>2. \A e \in changes' : e \notin changes =>
          /\ e.player \in Both(r) /\ e.result = r /\ e.old = folded[e.player]
          /\ e.new = folded[e.player] \cup {r}
          /\ e = [result |-> r, player |-> e.player, old |-> folded[e.player],
                  new |-> folded[e.player] \cup {r}]
    BY <1>8
  <2>3. CASE c \in changes
    <3>1. \A e \in changes' \ {c} :
            e.player = c.player => c.new \subseteq e.old \/ e.new \subseteq c.old
      BY <2>1, <2>2, <2>3 DEF ChangesFormChain
    <3> QED
      BY <2>1, <2>3, <3>1 DEF ChangesFormChain
  <2>4. CASE c \notin changes
    <3>1. \A e \in changes' \ {c} :
            e.player = c.player => c.new \subseteq e.old \/ e.new \subseteq c.old
      <4> SUFFICES ASSUME NEW e \in changes' \ {c}, e.player = c.player
                   PROVE  e.new \subseteq c.old
        OBVIOUS
      <4>1. e \in changes
        BY <2>2, <2>4
      <4> QED
        BY <2>1, <2>2, <2>4, <4>1
    <3>2. c.new \subseteq folded'[c.player]
      BY <1>1, <1>3, <2>2, <2>4
    <3> QED
      BY <1>4, <2>2, <2>4, <3>1, <3>2
  <2> QED
    BY <2>3, <2>4
<1> QED
  BY <1>1, <1>3, <1>9, <1>10, <1>11, <1>12, <1>13

(* A transaction rolls back.                                               *)
LEMMA AbortKeeps ==
    ASSUME RatingTypeOK, CoreInv, NEW w \in Workers, AbortTx(w)
    PROVE  RatingTypeOK' /\ CoreInv'
<1> USE DEF CoreInv, AbortTx, DecisionUnchanged, ratingVars, Leaves, Goto
<1>1. pc[w] \in InTx /\ AfterRollback(w) \in {"next", "idle"}
  BY DEF AfterRollback
<1>2. RatingTypeOK'
  BY <1>1 DEF RatingTypeOK, EndTx, DayPcs
<1>3. JobsAreResults' /\ RowLockHeld' /\ RatingLockHeld' /\ BothAreLocked'
  BY <1>1, UnlockedLocks DEF InTx
<1>4. \A r : Both(r)' = Both(r)
  BY DEF Both
<1>5. RowsAreOfPlayers' /\ ChangesFormChain' /\ RatedExactlyOnce'
  BY <1>4 DEF RowsAreOfPlayers, ChangesFormChain, RatedExactlyOnce
<1> QED
  BY <1>2, <1>3, <1>5

(* The service restarts: nobody holds a lock.                              *)
LEMMA RestartKeeps ==
    ASSUME RatingTypeOK, CoreInv, ServiceRestart
    PROVE  RatingTypeOK' /\ CoreInv'
<1> USE DEF CoreInv, ServiceRestart, ratingVars
<1>1. RatingTypeOK'
  BY DEF RatingTypeOK
<1>2. \A w \in Workers : pc'[w] = "idle" /\ Held(w)' = {}
  BY ResultsAssumption DEF Held, ResultsAssumption
<1>3. JobsAreResults' /\ RowLockHeld' /\ RatingLockHeld' /\ BothAreLocked'
  BY <1>2 DEF JobsAreResults, RowLockHeld, RatingLockHeld, BothAreLocked, Decided, InTx
<1>4. \A r : Both(r)' = Both(r)
  BY DEF Both
<1>5. RowsAreOfPlayers' /\ ChangesFormChain' /\ RatedExactlyOnce'
  BY <1>4 DEF RowsAreOfPlayers, ChangesFormChain, RatedExactlyOnce
<1> QED
  BY <1>1, <1>3, <1>5

-----------------------------------------------------------------------------
(* The other variables keep their types.                                   *)
LEMMA OthersKeep ==
    ASSUME RatingInv, [Next]_vars
    PROVE  OtherTypeOK'
<1> USE DEF RatingInv, TypeOK, OtherTypeOK
<1>1. CASE UNCHANGED vars
  BY <1>1 DEF vars, postVars, botVars, optVars
<1>2. ASSUME NEW r \in Results, NEW a \in Players, NEW b \in Players, NEW d \in GameDays,
             SubmitResult(r, a, b, d)
      PROVE  OtherTypeOK'
  BY <1>2 DEF SubmitResult, Submit, Works, Fails, optVars
<1>3. CASE ByPlayers /\ UNCHANGED postVars
  BY <1>3 DEF ByPlayers, Press, ToggleOptOut, postVars, botVars, optVars
<1>4. ASSUME NEW r \in Results, Bot(r), UNCHANGED postVars
      PROVE  OtherTypeOK'
  BY <1>4 DEF Bot, SendCard, CancelUndelivered, StoreCard, BotUnchanged, Works, Fails,
              postVars, optVars
<1>5. ASSUME NEW w \in Workers, Tx(w) \/ AbortTx(w), UNCHANGED postVars
      PROVE  OtherTypeOK'
  BY <1>5 DEF Tx, AbortTx, BeginTx, FlipStatus, SelectRating, InsertRating, ReselectRating,
              RecordRating, CommitTx, ApplyUnchanged, DecisionUnchanged, Works, Fails,
              postVars, botVars, optVars
<1>6. ASSUME NEW w \in Workers, Respond(w), UNCHANGED postVars
      PROVE  OtherTypeOK'
  <2>1. pc[w] \in {"answer", "refused", "tell"} => job[w] \in Results
    BY DEF JobsAreResults
  <2>2. CASE Decide(w)
    BY <1>6, <2>2 DEF Decide, DecisionUnchanged, Works, Fails, postVars, botVars, optVars
  <2>3. CASE Answer(w)
    <3>1. Says(w) \in {"approved", "rejected", "withdrawn"} /\ job[w] \in Results
      BY <2>1, <2>3 DEF Says, Answer
    <3>2. card' = card \/ card' = [card EXCEPT ![job[w]] = Says(w)]
      BY <2>3 DEF Answer
    <3>3. \E l \in {"closed", flow[job[w]]} : flow' = [flow EXCEPT ![job[w]] = l]
      BY <2>3 DEF Answer
    <3>4. card' \in [Results -> {"none", "buttons", "approved", "rejected", "withdrawn",
                                "decided", "auto"}]
      BY <3>1, <3>2
    <3>5. flow' \in [Results -> {"none", "lost", "ask", "cancel", "closed", "store", "open"}]
      BY <3>1, <3>3
    <3>6. faults' \in Nat
      BY <2>3 DEF Answer, Works, Fails
    <3> QED
      BY <1>6, <2>3, <3>4, <3>5, <3>6 DEF Answer, TellUnchanged, postVars, optVars
  <2>4. CASE Refused(w)
    BY <1>6, <2>1, <2>4 DEF Refused, TellUnchanged, Works, Fails, postVars, optVars
  <2>5. CASE TellAutoApproved(w)
    BY <1>6, <2>1, <2>5 DEF TellAutoApproved, TellUnchanged, Works, Fails, postVars, optVars
  <2> QED
    BY <1>6, <2>2, <2>3, <2>4, <2>5 DEF Respond
<1>7. ASSUME NEW w \in Polls, ListOverdue(w) \/ NextOverdue(w) \/ ListDone(w), UNCHANGED postVars
      PROVE  OtherTypeOK'
  BY <1>7 DEF ListOverdue, NextOverdue, ListDone, ListUnchanged, Works, Fails, postVars,
              botVars, optVars
<1>8. CASE (BotRestart \/ ServiceRestart \/ Tick) /\ UNCHANGED postVars
  BY <1>8 DEF BotRestart, ServiceRestart, Tick, BotUnchanged, Fails, postVars, botVars, optVars
<1>9. ASSUME NEW w \in Polls, Post(w)
      PROVE  OtherTypeOK'
  <2> USE DEF OthersUnchanged, Works, Fails, botVars, optVars
  <2>1. CASE StartDays(w)
    <3>1. Today \in Int /\ StartDay \in Nat
      BY DEF Today, StartDay, Later, MarkerDay, LookbackDays
    <3> QED
      BY <1>9, <2>1, <3>1 DEF StartDays
  <2>2. CASE ReadDay(w)
    BY <2>2 DEF ReadDay
  <2>3. CASE SendPost(w)
    BY <2>3 DEF SendPost
  <2>4. CASE MarkDay(w)
    BY <2>4 DEF MarkDay, NextDay
  <2> QED
    BY <1>9, <2>1, <2>2, <2>3, <2>4 DEF Post
<1> QED
  BY <1>1, <1>2, <1>3, <1>4, <1>5, <1>6, <1>7, <1>8, <1>9 DEF Next, Handlers, Workers

-----------------------------------------------------------------------------
(* Every step of a worker inside a transaction keeps the invariant.        *)
LEMMA TxKeeps ==
    ASSUME RatingTypeOK, CoreInv, NEW w \in Workers, Tx(w)
    PROVE  RatingTypeOK' /\ CoreInv'
<1>0. job = [job EXCEPT ![w] = job[w]] /\ to = [to EXCEPT ![w] = to[w]]
  BY DEF RatingTypeOK
<1>1. CASE BeginTx(w)
  <2>1. /\ pc' = [pc EXCEPT ![w] = "flip"] /\ UNCHANGED <<core, job, to>>
        /\ job[w] \in Results /\ to[w] \in Rated /\ pc[w] = "decide"
    BY <1>1 DEF BeginTx, Stays, Goto, DecisionUnchanged, ratingVars, lockVars, core, tables,
                CoreInv, JobsAreResults
  <2>2. RatingTypeOK'
    BY <2>1 DEF RatingTypeOK, core, tables, InTx
  <2> QED
    BY <1>0, <2>1, <2>2, PcMoves DEF Decided, InTx
<1>2. CASE FlipStatus(w)
  <2>1. RatingTypeOK'
    <3>1. job[w] \in Results /\ w \in Workers
      BY <1>2 DEF FlipStatus, CoreInv, JobsAreResults, InTx
    <3>2. UNCHANGED <<status, row, ratingVars, ratingLock, seen>>
      BY <1>2 DEF FlipStatus, DecisionUnchanged
    <3>3. rowLock' = [rowLock EXCEPT ![job[w]] = w] \/ rowLock' = rowLock
      BY <1>2 DEF FlipStatus
    <3>4. \E l \in {"select", "next", "refused"} : pc' = [pc EXCEPT ![w] = l]
      BY <1>2 DEF FlipStatus, Stays, Leaves, Goto
    <3>5. \/ UNCHANGED <<job, to>>
          \/ job' = [job EXCEPT ![w] = NoResult] /\ to' = [to EXCEPT ![w] = "none"]
      BY <1>2 DEF FlipStatus, Stays, Leaves
    <3>6. rowLock' \in [Results -> Workers \cup {NoOne}]
      BY <3>1, <3>3 DEF RatingTypeOK
    <3>7. /\ pc' \in [Workers -> InTx \cup DayPcs \cup {"idle", "decide", "answer", "refused",
                                                        "tell", "next"}]
          /\ job' \in [Workers -> Results \cup {NoResult}]
          /\ to' \in [Workers -> Decisions \cup Rated \cup {"none"}]
      BY <3>4, <3>5 DEF RatingTypeOK, InTx
    <3> QED
      BY <3>2, <3>6, <3>7 DEF RatingTypeOK, ratingVars
  <2> QED
    BY <1>2, <2>1, FlipKeeps
<1>3. CASE SelectRating(w)
  <2>1. NextPlayer(w) \in Left(w) /\ Left(w) \subseteq Players /\ pc[w] = "select"
    BY <1>3, NextIsLeft DEF CoreInv, SelectRating
  <2>2. CASE NextPlayer(w) \in hasRating
    BY <1>3, <2>1, <2>2, TakeKeeps DEF SelectRating
  <2>3. CASE NextPlayer(w) \notin hasRating
    <3>1. /\ pc' = [pc EXCEPT ![w] = "insert"] /\ UNCHANGED <<core, job, to>>
          /\ job[w] \in Results /\ to[w] \in Rated
      BY <1>3, <2>1, <2>3 DEF SelectRating, Stays, Goto, ApplyUnchanged, DecisionUnchanged,
                ratingVars, core, tables, CoreInv, JobsAreResults, InTx
    <3>2. RatingTypeOK'
      BY <3>1 DEF RatingTypeOK, core, tables, InTx
    <3> QED
      BY <1>0, <2>1, <3>1, <3>2, PcMoves DEF Decided, InTx
  <2> QED
    BY <2>2, <2>3
<1>4. CASE InsertRating(w)
  <2>1. NextPlayer(w) \in Left(w) /\ Left(w) \subseteq Players /\ pc[w] = "insert"
    BY <1>4, NextIsLeft DEF CoreInv, InsertRating
  <2>2. CASE NextPlayer(w) \notin hasRating
    BY <1>4, <2>1, <2>2, TakeKeeps DEF InsertRating
  <2>3. CASE NextPlayer(w) \in hasRating
    <3>1. /\ pc' = [pc EXCEPT ![w] = "reselect"] /\ UNCHANGED <<core, job, to>>
          /\ job[w] \in Results /\ to[w] \in Rated
      BY <1>4, <2>1, <2>3 DEF InsertRating, Stays, Goto, ApplyUnchanged, DecisionUnchanged,
                ratingVars, core, tables, CoreInv, JobsAreResults, InTx
    <3>2. RatingTypeOK'
      BY <3>1 DEF RatingTypeOK, core, tables, InTx
    <3> QED
      BY <1>0, <2>1, <3>1, <3>2, PcMoves DEF Decided, InTx
  <2> QED
    BY <2>2, <2>3
<1>5. CASE ReselectRating(w)
  <2>1. NextPlayer(w) \in Left(w) /\ Left(w) \subseteq Players /\ pc[w] = "reselect"
    BY <1>5, NextIsLeft DEF CoreInv, ReselectRating
  <2> QED
    BY <1>5, <2>1, TakeKeeps DEF ReselectRating
<1>6. CASE RecordRating(w)
  <2>1. /\ pc' = [pc EXCEPT ![w] = "commit"] /\ UNCHANGED <<core, job, to>>
        /\ job[w] \in Results /\ to[w] \in Rated /\ pc[w] = "audit" /\ Left(w) = {}
    BY <1>6 DEF RecordRating, Stays, Goto, ApplyUnchanged, DecisionUnchanged, ratingVars,
                core, tables, CoreInv, JobsAreResults, BothAreLocked, InTx
  <2>2. RatingTypeOK'
    BY <2>1 DEF RatingTypeOK, core, tables, InTx
  <2> QED
    BY <1>0, <2>1, <2>2, PcMoves DEF Decided, InTx
<1>7. CASE CommitTx(w)
  BY <1>7, CommitKeeps
<1> QED
  BY <1>1, <1>2, <1>3, <1>4, <1>5, <1>6, <1>7 DEF Tx

(* A worker outside of a transaction goes on outside of it, nothing else   *)
(* happens.                                                                *)
LEMMA OutsideMoves ==
    ASSUME RatingTypeOK, CoreInv, NEW w \in Workers, pc[w] \notin InTx,
           NEW l \in DayPcs \cup {"idle", "decide", "answer", "refused", "tell", "next"},
           NEW j \in Results \cup {NoResult}, NEW t \in Decisions \cup Rated \cup {"none"},
           pc' = [pc EXCEPT ![w] = l],
           job' = [job EXCEPT ![w] = j], to' = [to EXCEPT ![w] = t],
           UNCHANGED core, l = "decide" => t # "none",
           l \in {"decide", "answer", "refused", "tell"} => j \in Results
    PROVE  RatingTypeOK' /\ CoreInv'
<1>1. RatingTypeOK'
  BY DEF RatingTypeOK, core, tables
<1>2. l \notin InTx
  BY DEF InTx, DayPcs
<1> QED
  BY <1>1, <1>2, PcMoves DEF Decided, InTx

(* Every step keeps what is said of decisions and ratings.                 *)
LEMMA CoreKeeps ==
    ASSUME RatingInv, [Next]_vars
    PROVE  RatingTypeOK' /\ CoreInv'
<1>0. RatingTypeOK /\ CoreInv /\ OtherTypeOK
  BY DEF RatingInv, TypeOK, CoreInv
<1>1. ASSUME UNCHANGED <<core, pc, job, to>> PROVE RatingTypeOK' /\ CoreInv'
  BY <1>0, <1>1, CoreStays DEF RatingTypeOK, core, tables
<1>2. ASSUME NEW w \in Workers, UNCHANGED <<core, job, to>>, pc[w] \notin InTx,
             NEW l \in {"idle", "answer", "refused", "next"} \cup DayPcs,
             Goto(w, l), l \in {"answer", "refused"} => job[w] \in Results
      PROVE  RatingTypeOK' /\ CoreInv'
  <2>1. /\ job' = [job EXCEPT ![w] = job[w]] /\ to' = [to EXCEPT ![w] = to[w]]
        /\ job[w] \in Results \cup {NoResult} /\ to[w] \in Decisions \cup Rated \cup {"none"}
    BY <1>0, <1>2 DEF RatingTypeOK
  <2>2. /\ l \in DayPcs \cup {"idle", "decide", "answer", "refused", "tell", "next"}
        /\ l # "decide" /\ l # "tell"
    BY <1>2 DEF DayPcs
  <2>3. l \in {"decide", "answer", "refused", "tell"} => job[w] \in Results
    BY <1>2, <2>2
  <2>4. pc' = [pc EXCEPT ![w] = l] /\ UNCHANGED core
    BY <1>2 DEF Goto
  <2> QED
    BY <1>0, <1>2, <2>1, <2>2, <2>3, <2>4, OutsideMoves
<1>3. CASE UNCHANGED vars
  BY <1>1, <1>3 DEF vars, ratingVars, lockVars, core, tables
<1>4. ASSUME NEW r \in Results, NEW a \in Players, NEW b \in Players, NEW d \in GameDays,
             SubmitResult(r, a, b, d)
      PROVE  RatingTypeOK' /\ CoreInv'
  BY <1>0, <1>4, SubmitKeeps DEF SubmitResult, OtherTypeOK
<1>5. ASSUME NEW w \in Deciders, NEW r \in Results, NEW decision \in Decisions,
             Press(w, r, decision)
      PROVE  RatingTypeOK' /\ CoreInv'
  <2>1. /\ w \in Workers /\ pc[w] \notin InTx /\ pc' = [pc EXCEPT ![w] = "decide"]
        /\ job' = [job EXCEPT ![w] = r] /\ to' = [to EXCEPT ![w] = decision]
        /\ UNCHANGED core /\ decision # "none"
    BY <1>5 DEF Press, Goto, Workers, InTx, ratingVars, lockVars, core, tables, Decisions
  <2> QED
    BY <1>0, <2>1, OutsideMoves
<1>6. ASSUME NEW p \in Players, ToggleOptOut(p) PROVE RatingTypeOK' /\ CoreInv'
  BY <1>1, <1>6 DEF ToggleOptOut, ratingVars, lockVars, core, tables
<1>7. ASSUME NEW r \in Results, Bot(r) PROVE RatingTypeOK' /\ CoreInv'
  <2> USE DEF BotUnchanged, ratingVars, lockVars
  <2>1. CASE SendCard(r) \/ StoreCard(r)
    BY <1>1, <2>1 DEF SendCard, StoreCard, core, tables
  <2>2. CASE CancelUndelivered(r) /\ status' = status
    BY <1>1, <2>2 DEF CancelUndelivered, core, tables
  <2>3. CASE CancelUndelivered(r) /\ status' # status
    <3>1. status[r] = "pending" /\ rowLock[r] = NoOne /\ status' = [status EXCEPT ![r] = "canceled"]
      BY <1>0, <2>3 DEF CancelUndelivered, RatingTypeOK
    <3>2. RatingTypeOK'
      BY <1>0, <2>3, <3>1 DEF CancelUndelivered, RatingTypeOK, Decisions
    <3> QED
      BY <1>0, <2>3, <3>1, <3>2, DropKeeps DEF CancelUndelivered
  <2> QED
    BY <1>7, <2>1, <2>2, <2>3 DEF Bot
<1>8. ASSUME NEW w \in Workers, Tx(w) PROVE RatingTypeOK' /\ CoreInv'
  BY <1>0, <1>8, TxKeeps
<1>9. ASSUME NEW w \in Workers, AbortTx(w) PROVE RatingTypeOK' /\ CoreInv'
  BY <1>0, <1>9, AbortKeeps
<1>10. ASSUME NEW w \in Workers, Decide(w) PROVE RatingTypeOK' /\ CoreInv'
  <2> USE DEF DecisionUnchanged, ratingVars, lockVars
  <2>1. pc[w] = "decide" /\ job[w] \in Results /\ to[w] \in {"rejected", "canceled"}
    BY <1>0, <1>10 DEF Decide, CoreInv, JobsAreResults, RatingTypeOK, Decisions, Rated
  <2>2. CASE status' = status
    <3>1. Leaves(w, "idle") \/ Stays(w, "answer") \/ Stays(w, "refused")
      BY <1>10 DEF Decide
    <3>2. UNCHANGED core /\ pc[w] \notin InTx
      BY <1>10, <2>1, <2>2 DEF Decide, core, tables, InTx
    <3>3. CASE Leaves(w, "idle")
      BY <1>0, <3>2, <3>3, OutsideMoves DEF Leaves, Goto
    <3>4. CASE Stays(w, "answer") \/ Stays(w, "refused")
      BY <1>2, <2>1, <3>2, <3>4 DEF Stays
    <3> QED
      BY <3>1, <3>3, <3>4
  <2>3. CASE status' # status
    <3>1. /\ status[job[w]] = "pending" /\ rowLock[job[w]] = NoOne
          /\ status' = [status EXCEPT ![job[w]] = to[w]]
          /\ Stays(w, "answer")
          /\ UNCHANGED <<row, hasRating, folded, changes, rowLock, ratingLock, seen, job, to>>
      BY <1>10, <2>3 DEF Decide, Stays
    <3>2. pc' = [pc EXCEPT ![w] = "answer"]
      BY <3>1 DEF Stays, Goto
    <3>3. \A v \in Workers : pc'[v] = pc[v] \/ (pc[v] \notin InTx /\ job[v] \in Results
                                             /\ pc'[v] \notin InTx \cup {"decide"})
      BY <1>0, <2>1, <3>2 DEF InTx, RatingTypeOK
    <3>4. RatingTypeOK'
      BY <1>0, <2>1, <3>1, <3>2 DEF RatingTypeOK, Decisions
    <3> QED
      BY <1>0, <2>1, <3>1, <3>3, <3>4, DropKeeps
  <2> QED
    BY <2>2, <2>3
<1>11. ASSUME NEW w \in Workers, Answer(w) \/ Refused(w) \/ TellAutoApproved(w)
       PROVE  RatingTypeOK' /\ CoreInv'
  <2>1. /\ Leaves(w, "idle") \/ Leaves(w, "next")
        /\ UNCHANGED core /\ pc[w] \notin InTx
    BY <1>11 DEF Answer, Refused, TellAutoApproved, TellUnchanged, ratingVars, lockVars,
                 core, tables, InTx
  <2> QED
    BY <1>0, <2>1, OutsideMoves DEF Leaves, Goto
<1>12. ASSUME NEW w \in Polls, ListOverdue(w) \/ ListDone(w)
       PROVE  RatingTypeOK' /\ CoreInv'
  <2>1. /\ Goto(w, "next") \/ Goto(w, "days")
        /\ UNCHANGED <<core, job, to>> /\ pc[w] \notin InTx
    BY <1>12 DEF ListOverdue, ListDone, ListUnchanged, ratingVars, lockVars, core, tables, InTx
  <2> QED
    BY <1>2, <2>1 DEF Workers, DayPcs
<1>13. ASSUME NEW w \in Polls, NextOverdue(w) PROVE RatingTypeOK' /\ CoreInv'
  <2>1. PICK r \in due[w] : /\ job' = [job EXCEPT ![w] = r]
                            /\ to' = [to EXCEPT ![w] = "auto_approved"]
    BY <1>13 DEF NextOverdue
  <2>2. /\ r \in Results /\ Goto(w, "decide") /\ UNCHANGED core /\ pc[w] \notin InTx
        /\ w \in Workers
    BY <1>0, <1>13, <2>1 DEF NextOverdue, ListUnchanged, ratingVars, lockVars, core, tables,
                             InTx, OtherTypeOK, Workers
  <2> QED
    BY <1>0, <2>1, <2>2, OutsideMoves DEF Goto, Rated
<1>14. CASE BotRestart \/ Tick
  BY <1>1, <1>14 DEF BotRestart, Tick, BotUnchanged, ratingVars, lockVars, core, tables
<1>15. CASE ServiceRestart
  BY <1>0, <1>15, RestartKeeps
<1>16. ASSUME NEW w \in Polls, Post(w) PROVE RatingTypeOK' /\ CoreInv'
  <2>1. /\ \E l \in DayPcs \cup {"idle"} : Goto(w, l)
        /\ UNCHANGED <<core, job, to>> /\ pc[w] \notin InTx
    <3> USE DEF OthersUnchanged, ratingVars, lockVars, core, tables, InTx, DayPcs
    <3>1. CASE StartDays(w)
      BY <3>1 DEF StartDays
    <3>2. CASE ReadDay(w)
      BY <3>2 DEF ReadDay
    <3>3. CASE SendPost(w)
      BY <3>3 DEF SendPost
    <3>4. CASE MarkDay(w)
      BY <3>4 DEF MarkDay, NextDay
    <3> QED
      BY <1>16, <3>1, <3>2, <3>3, <3>4 DEF Post
  <2>2. PICK l \in DayPcs \cup {"idle"} : Goto(w, l)
    BY <2>1
  <2> QED
    BY <1>2, <2>1, <2>2 DEF Workers, DayPcs
<1> QED
  BY <1>3, <1>4, <1>5, <1>6, <1>7, <1>8, <1>9, <1>10, <1>11, <1>12, <1>13, <1>14, <1>15, <1>16
     DEF Next, ByPlayers, Handlers, Respond

(* The first state satisfies the invariant.                                *)
LEMMA InitRating == Init => RatingInv
<1> SUFFICES ASSUME Init PROVE RatingInv
  OBVIOUS
<1> USE ResultsAssumption DEF Init, ResultsInit, ResultsAssumption
<1>1. RatingTypeOK
  BY DEF RatingTypeOK, NoRow
<1>2. OtherTypeOK
  <2>1. marker \in Int /\ cursor \in [Polls -> Nat] /\ posts \in [GameDays -> Nat]
    BY DEF NoDay
  <2> QED
    BY <2>1 DEF OtherTypeOK
<1>3. \A w \in Workers : Held(w) = {} /\ pc[w] = "idle"
  BY DEF Held
<1>4. CoreInv
  BY <1>3 DEF CoreInv, JobsAreResults, RowsAreOfPlayers, RowLockHeld, RatingLockHeld,
              BothAreLocked, RatedExactlyOnce, ChangesFormChain, InTx, Decided, Rated
<1> QED
  BY <1>1, <1>2, <1>4 DEF RatingInv, TypeOK, CoreInv

-----------------------------------------------------------------------------
(* The inductive invariant holds always (game_result_service.go:318-342,   *)
(* rating_service.go:82-194).                                              *)
THEOREM RatingInvariant == Spec => []RatingInv
<1>1. RatingInv /\ [Next]_vars => RatingInv'
  BY CoreKeeps, OthersKeep DEF RatingInv, TypeOK, CoreInv
<1> QED
  BY InitRating, <1>1, PTL DEF Spec

(* Every variable keeps its type.                                          *)
THEOREM ResultsAreTyped == Spec => []TypeOK
<1>1. RatingInv => TypeOK
  BY DEF RatingInv
<1> QED
  BY <1>1, RatingInvariant, PTL

(* A rating counts exactly its player's approved results, each once: no    *)
(* race of opponent, author, polls, failures and restarts rates a result   *)
(* twice or approves it unrated (game_result_service.go:318,               *)
(* auto_approve_results.go:90).                                            *)
THEOREM EveryResultRatedOnce == Spec => []RatedExactlyOnce
<1>1. RatingInv => RatedExactlyOnce
  BY DEF RatingInv
<1> QED
  BY <1>1, RatingInvariant, PTL

(* No update of a rating is lost: the history of each player is a chain    *)
(* (rating_service.go:249-292).                                            *)
THEOREM NoRatingUpdateLost == Spec => []ChangesFormChain
<1>1. RatingInv => ChangesFormChain
  BY DEF RatingInv
<1> QED
  BY <1>1, RatingInvariant, PTL

-----------------------------------------------------------------------------
(* The refinement.                                                         *)
between == [r \in Results |-> IF status[r] = "none" THEN {} ELSE Both(r)]

(* A step that leaves results and ratings alone is none of the ledger.     *)
LEMMA LedgerStutters ==
    ASSUME UNCHANGED <<status, row, folded>>
    PROVE  UNCHANGED <<status, between, folded>>
  BY DEF between, Both

(* A submission is one of the ledger.                                      *)
LEMMA LedgerSubmits ==
    ASSUME RatingInv, NEW r \in Results, NEW a \in Players, NEW b \in Players,
           NEW d \in GameDays, Submit(r, a, b, d)
    PROVE  Ledger!Submit(r)
<1>1. /\ status[r] = "none" /\ status' = [status EXCEPT ![r] = "pending"] /\ a # b
      /\ row' = [row EXCEPT ![r] = [author |-> a, opponent |-> b, day |-> d, at |-> now]]
      /\ folded' = folded
  BY DEF Submit, ratingVars
<1>2. /\ \A q \in Results : q # r => status'[q] = status[q] /\ row'[q] = row[q]
      /\ status'[r] = "pending" /\ row'[r].author = a /\ row'[r].opponent = b
  BY <1>1 DEF RatingInv, TypeOK, RatingTypeOK
<1>3. between' = [between EXCEPT ![r] = {a, b}]
  BY <1>2 DEF between, Both
<1> QED
  BY <1>1, <1>3 DEF Ledger!Submit, between

(* A result dropped is dropped in the ledger.                              *)
LEMMA LedgerDrops ==
    ASSUME RatingInv, NEW r \in Results, status[r] = "pending",
           NEW s \in {"rejected", "canceled"}, status' = [status EXCEPT ![r] = s],
           UNCHANGED <<row, folded>>
    PROVE  Ledger!Drop(r)
<1>1. /\ \A q \in Results : q # r => status'[q] = status[q]
      /\ status'[r] # "none"
  BY DEF RatingInv, TypeOK, RatingTypeOK
<1>2. between' = between
  BY <1>1 DEF between, Both
<1> QED
  BY <1>2 DEF Ledger!Drop, between

(* A commit is an approval of the ledger.                                  *)
LEMMA LedgerApproves ==
    ASSUME RatingInv, NEW w \in Workers, CommitTx(w)
    PROVE  job[w] \in Results /\ Ledger!Approve(job[w])
<1> DEFINE r == job[w]
<1>1. /\ status[r] = "pending" /\ to[w] \in Rated /\ r \in Results
      /\ folded' = [p \in Players |-> IF p \in Both(r) THEN folded[p] \cup {r} ELSE folded[p]]
      /\ status' = [status EXCEPT ![r] = to[w]] /\ row' = row
  BY CommitKeeps DEF RatingInv, TypeOK, CoreInv, CommitTx, DecisionUnchanged, JobsAreResults, InTx
<1>2. /\ \A q \in Results : q # r => status'[q] = status[q]
      /\ status'[r] # "none"
  BY <1>1 DEF RatingInv, TypeOK, RatingTypeOK, Rated
<1>3. between' = between /\ between[r] = Both(r)
  BY <1>1, <1>2 DEF between, Both
<1> QED
  BY <1>1, <1>3 DEF Ledger!Approve, between, Rated

(* Every step is one of the ledger or none.                                *)
LEMMA LedgerStep ==
    ASSUME RatingInv, [Next]_vars
    PROVE  Ledger!Next \/ UNCHANGED <<status, between, folded>>
<1> USE DEF ratingVars
<1>1. CASE UNCHANGED vars
  BY <1>1, LedgerStutters DEF vars
<1>2. ASSUME NEW r \in Results, NEW a \in Players, NEW b \in Players, NEW d \in GameDays,
             SubmitResult(r, a, b, d)
      PROVE  Ledger!Next
  BY <1>2, LedgerSubmits DEF SubmitResult, Ledger!Next
<1>3. CASE ByPlayers
  BY <1>3, LedgerStutters DEF ByPlayers, Press, ToggleOptOut
<1>4. ASSUME NEW r \in Results, Bot(r)
      PROVE  Ledger!Next \/ UNCHANGED <<status, between, folded>>
  <2>1. CASE status' = status
    BY <1>4, <2>1, LedgerStutters DEF Bot, SendCard, StoreCard, CancelUndelivered, BotUnchanged
  <2>2. CASE status' # status
    <3>1. /\ status[r] = "pending" /\ status' = [status EXCEPT ![r] = "canceled"]
          /\ UNCHANGED <<row, folded>>
      BY <1>4, <2>2 DEF Bot, SendCard, StoreCard, CancelUndelivered, BotUnchanged, RatingInv,
                        TypeOK, RatingTypeOK
    <3> QED
      BY <3>1, LedgerDrops DEF Ledger!Next
  <2> QED
    BY <2>1, <2>2
<1>5. ASSUME NEW w \in Workers, CommitTx(w)
      PROVE  Ledger!Next
  BY <1>5, LedgerApproves DEF Ledger!Next
<1>6. ASSUME NEW w \in Workers, Tx(w) \/ AbortTx(w), ~CommitTx(w)
      PROVE  UNCHANGED <<status, between, folded>>
  <2>1. UNCHANGED <<status, row, folded>>
    BY <1>6 DEF Tx, AbortTx, BeginTx, FlipStatus, SelectRating, InsertRating, ReselectRating,
                RecordRating, ApplyUnchanged, DecisionUnchanged
  <2> QED
    BY <2>1, LedgerStutters
<1>7. ASSUME NEW w \in Workers, Decide(w)
      PROVE  Ledger!Next \/ UNCHANGED <<status, between, folded>>
  <2>1. job[w] \in Results /\ to[w] \in {"rejected", "canceled"}
    BY <1>7 DEF Decide, RatingInv, TypeOK, RatingTypeOK, JobsAreResults, Decisions, Rated
  <2>2. CASE status' = status
    BY <1>7, <2>2, LedgerStutters DEF Decide, DecisionUnchanged
  <2>3. CASE status' # status
    <3>1. /\ status[job[w]] = "pending" /\ status' = [status EXCEPT ![job[w]] = to[w]]
          /\ UNCHANGED <<row, folded>>
      BY <1>7, <2>3 DEF Decide, DecisionUnchanged
    <3> QED
      BY <2>1, <3>1, LedgerDrops DEF Ledger!Next
  <2> QED
    BY <2>2, <2>3
<1>8. ASSUME NEW w \in Workers, Answer(w) \/ Refused(w) \/ TellAutoApproved(w)
      PROVE  UNCHANGED <<status, between, folded>>
  BY <1>8, LedgerStutters DEF Answer, Refused, TellAutoApproved, TellUnchanged
<1>9. ASSUME NEW w \in Polls, ListOverdue(w) \/ NextOverdue(w) \/ ListDone(w)
      PROVE  UNCHANGED <<status, between, folded>>
  BY <1>9, LedgerStutters DEF ListOverdue, NextOverdue, ListDone, ListUnchanged
<1>10. CASE BotRestart \/ ServiceRestart \/ Tick
  BY <1>10, LedgerStutters DEF BotRestart, ServiceRestart, Tick, BotUnchanged
<1>11. ASSUME NEW w \in Polls, Post(w)
       PROVE  UNCHANGED <<status, between, folded>>
  BY <1>11, LedgerStutters DEF Post, StartDays, ReadDay, SendPost, MarkDay, NextDay,
                               OthersUnchanged
<1> QED
  BY <1>1, <1>2, <1>3, <1>4, <1>5, <1>6, <1>7, <1>8, <1>9, <1>10, <1>11
     DEF Next, Handlers, Respond

(* Results and ratings implement ResultLedger: a result is decided at most *)
(* once, and counts in its two players' ratings from the moment of its     *)
(* approval (game_result_service.go:318-342, auto_approve_results.go:90-109). *)
THEOREM ResultsImplementLedger == Spec => ImplementsLedger
<1>1. Init => Ledger!Init
  BY DEF Init, ResultsInit, Ledger!Init
<1>2. RatingInv /\ [Next]_vars => [Ledger!Next]_(Ledger!vars)
  BY LedgerStep DEF Ledger!vars, between
<1> QED
  BY <1>1, <1>2, RatingInvariant, PTL DEF Spec, ImplementsLedger, Ledger!Spec

-----------------------------------------------------------------------------
(* Waiting.                                                                *)
(*                                                                         *)
(* Rating rows are locked in the order of their player ids (LocksAscend),  *)
(* so that of the transactions in a circle the one that asks for the       *)
(* greatest id would wait for one that asks for a greater.                 *)

Locking == {"select", "insert", "reselect"}

(* Whoever locks rating rows has those of lesser ids than it still asks    *)
(* for.                                                                    *)
LocksAscend ==
    \A w \in Workers : pc[w] \in Locking => \A p \in Held(w), q \in Left(w) : p < q

-----------------------------------------------------------------------------
(* Least numbers and greatest players.                                     *)

(* A set of numbers has a least one.                                       *)
LEMMA LeastNumber ==
    ASSUME NEW T \in SUBSET Nat, T # {}
    PROVE  \E n \in T : \A m \in T : n <= m
<1> DEFINE R == OpToRel(<, Nat)
<1>1. IsWellFoundedOn(R, Nat)
  BY NatLessThanWellFounded
<1>2. \A m \in T, n \in T : m < n => <<m, n>> \in R
  BY DEF OpToRel
<1> HIDE DEF R
<1>3. PICK n \in T : \A m \in T : ~ (<<m, n>> \in R)
  BY <1>1, WFMin
<1>4. \A m \in T : ~ (m < n) /\ m \in Nat /\ n \in Nat
  BY <1>2, <1>3
<1> QED
  BY <1>4

(* Of the players of a group one has the greatest id.                      *)
LEMMA GreatestPlayer ==
    ASSUME NEW T \in SUBSET Players, T # {}
    PROVE  \E p \in T : \A q \in T : q <= p
<1> DEFINE Above(p) == {q \in Players : p < q}
           C == {Cardinality(Above(p)) : p \in T}
<1>0. Players \subseteq Nat
  BY ResultsAssumption DEF ResultsAssumption
<1>1. \A p \in T : IsFiniteSet(Above(p)) /\ Cardinality(Above(p)) \in Nat
  BY PlayersAreFinite, FS_Subset, FS_CardinalityType DEF PlayersAreFinite
<1>2. PICK p \in T : \A q \in T : Cardinality(Above(p)) <= Cardinality(Above(q))
  <2>1. C \in SUBSET Nat /\ C # {}
    BY <1>1
  <2>2. \E n \in C : \A m \in C : n <= m
    <3> HIDE DEF C
    <3> QED
      BY <2>1, LeastNumber
  <2> QED
    BY <2>2
<1>3. ASSUME NEW q \in T, ~ (q <= p) PROVE FALSE
  <2>1. p < q
    BY <1>0, <1>3
  <2>2. Above(q) \in SUBSET Above(p) /\ q \in Above(p) /\ q \notin Above(q)
    <3>1. \A e \in Players : e \in Nat
      BY <1>0
    <3>2. \A e \in Players : q < e => p < e
      BY <2>1, <3>1
    <3>3. p \in Players /\ q \in Players /\ ~ (q < q)
      BY <3>1
    <3> QED
      BY <2>1, <3>2, <3>3
  <2>3. Cardinality(Above(q)) <= Cardinality(Above(p)) /\ Cardinality(Above(p)) # Cardinality(Above(q))
    <3> HIDE DEF Above
    <3> QED
      BY <1>1, <2>2, FS_Subset
  <2>4. Cardinality(Above(p)) <= Cardinality(Above(q))
    BY <1>2
  <2> HIDE DEF Above
  <2> QED
    BY <1>1, <2>3, <2>4
<1> QED
  BY <1>3

(* The row a transaction asks for next is the least of those it needs.     *)
LEMMA NextIsLeast ==
    ASSUME RatingInv, NEW w \in Workers, pc[w] \in Locking
    PROVE  /\ NextPlayer(w) \in Left(w) /\ Left(w) \in SUBSET Players
           /\ \A q \in Left(w) : NextPlayer(w) <= q
<1> DEFINE S == Left(w)
<1>1. NextPlayer(w) \in S /\ S \in SUBSET Players /\ NextPlayer(w) = Least(S)
  BY NextIsLeft DEF RatingInv, TypeOK, Locking, NextPlayer
<1>2. S \in SUBSET Nat /\ S # {}
  BY <1>1, ResultsAssumption DEF ResultsAssumption
<1> HIDE DEF S
<1>3. \E p \in S : \A q \in S : p <= q
  BY <1>2, LeastNumber
<1>4. \A q \in S : Least(S) <= q
  BY <1>3 DEF Least
<1> QED
  BY <1>1, <1>4 DEF S

-----------------------------------------------------------------------------
(* LocksAscend is preserved.                                               *)

(* A worker goes on, the locks stay as they are.                           *)
LEMMA AscendMoves ==
    ASSUME RatingTypeOK, LocksAscend, NEW w \in Workers, NEW l, NEW j,
           pc' = [pc EXCEPT ![w] = l], job' = [job EXCEPT ![w] = j],
           UNCHANGED <<row, ratingLock>>,
           l \in Locking => pc[w] \in Locking /\ j = job[w]
    PROVE  LocksAscend'
<1>1. \A v \in Workers : pc'[v] \in Locking => pc[v] \in Locking /\ job'[v] = job[v]
  BY DEF RatingTypeOK
<1>2. \A v \in Workers : pc'[v] \in Locking => Held(v)' = Held(v) /\ Left(v)' = Left(v)
  BY <1>1 DEF Held, Left, Both
<1> QED
  BY <1>1, <1>2 DEF LocksAscend

(* Nothing happens to workers, players and locks.                          *)
LEMMA AscendStays ==
    ASSUME LocksAscend, UNCHANGED <<pc, job, row, ratingLock>>
    PROVE  LocksAscend'
  BY DEF LocksAscend, Held, Left, Both

(* A transaction ends.                                                     *)
LEMMA AscendEnds ==
    ASSUME RatingTypeOK, LocksAscend, NEW w \in Workers, NEW l, NEW j, EndTx(w),
           pc' = [pc EXCEPT ![w] = l], job' = [job EXCEPT ![w] = j],
           UNCHANGED row, l \notin Locking
    PROVE  LocksAscend'
<1>1. \A v \in Workers : pc'[v] \in Locking => v # w /\ pc[v] \in Locking /\ job'[v] = job[v]
  BY DEF RatingTypeOK
<1>2. \A v \in Workers : v # w => Held(v)' = Held(v)
  BY ResultsAssumption DEF Held, EndTx, ResultsAssumption
<1>3. \A v \in Workers : pc'[v] \in Locking => Held(v)' = Held(v) /\ Left(v)' = Left(v)
  BY <1>1, <1>2 DEF Left, Both
<1> QED
  BY <1>1, <1>3 DEF LocksAscend

(* The result's row is changed: no rating row is locked yet.               *)
LEMMA AscendFlips ==
    ASSUME RatingInv, LocksAscend, NEW w \in Workers, FlipStatus(w)
    PROVE  LocksAscend'
<1>1. UNCHANGED <<row, ratingLock>> /\ pc[w] = "flip"
  BY DEF FlipStatus, DecisionUnchanged
<1>2. CASE Leaves(w, "next") \/ Stays(w, "refused")
  <2>1. \E l \in {"next", "refused"}, j \in {NoResult, job[w]} :
          pc' = [pc EXCEPT ![w] = l] /\ job' = [job EXCEPT ![w] = j]
    BY <1>2 DEF Leaves, Stays, Goto, RatingInv, TypeOK, RatingTypeOK
  <2> QED
    BY <1>1, <2>1, AscendMoves DEF Locking, RatingInv, TypeOK
<1>3. CASE Stays(w, "select")
  <2>1. Held(w) = {}
    BY <1>1 DEF RatingInv, RatingLockHeld, Decided
  <2>2. \A v \in Workers : v # w => pc'[v] = pc[v]
    BY <1>3 DEF Stays, Goto, RatingInv, TypeOK, RatingTypeOK
  <2>3. \A v \in Workers : Held(v)' = Held(v) /\ Left(v)' = Left(v)
    BY <1>1, <1>3 DEF Held, Left, Both, Stays
  <2> QED
    BY <2>1, <2>2, <2>3 DEF LocksAscend
<1> QED
  BY <1>2, <1>3 DEF FlipStatus

(* The next rating row is locked: all that are left have greater ids.      *)
LEMMA AscendTakes ==
    ASSUME RatingInv, LocksAscend, NEW w \in Workers, pc[w] \in Locking,
           TakeRating(w, NextPlayer(w)), ApplyUnchanged
    PROVE  LocksAscend'
<1> DEFINE p == NextPlayer(w)
<1>1. /\ p \in Left(w) /\ Left(w) \in SUBSET Players /\ \A q \in Left(w) : p <= q
      /\ \A q \in Players : q \in Nat
  BY NextIsLeast, ResultsAssumption DEF ResultsAssumption
<1> HIDE DEF p
<1>2. ratingLock[p] = NoOne /\ ratingLock' = [ratingLock EXCEPT ![p] = w] /\ UNCHANGED <<row, job>>
  BY DEF TakeRating, Stays, ApplyUnchanged, DecisionUnchanged, p
<1>3. \A v \in Workers : v # w => pc'[v] = pc[v]
  BY DEF TakeRating, Stays, Goto, RatingInv, TypeOK, RatingTypeOK
<1>4. Held(w)' = Held(w) \cup {p} /\ \A v \in Workers : v # w => Held(v)' = Held(v)
  <2>1. ratingLock'[p] = w /\ \A q \in Players : q # p => ratingLock'[q] = ratingLock[q]
    BY <1>1, <1>2 DEF RatingInv, TypeOK, RatingTypeOK
  <2> QED
    BY <1>1, <1>2, <2>1, ResultsAssumption DEF Held, ResultsAssumption
<1>5. Left(w)' = Left(w) \ {p} /\ \A v \in Workers : v # w => Left(v)' = Left(v)
  BY <1>2, <1>4 DEF Left, Both
<1>6. \A q \in Left(w)' : p < q
  BY <1>1, <1>5
<1>7. \A e \in Held(w)', q \in Left(w)' : e < q
  BY <1>4, <1>5, <1>6 DEF LocksAscend
<1> QED
  BY <1>3, <1>4, <1>5, <1>7 DEF LocksAscend

(* Every step of a transaction.                                            *)
LEMMA AscendTx ==
    ASSUME RatingInv, LocksAscend, NEW w \in Workers, Tx(w) \/ AbortTx(w)
    PROVE  LocksAscend'
<1>0. RatingTypeOK /\ job = [job EXCEPT ![w] = job[w]]
  BY DEF RatingInv, TypeOK, RatingTypeOK
<1>1. CASE BeginTx(w)
  BY <1>0, <1>1, AscendMoves DEF BeginTx, Stays, Goto, DecisionUnchanged, lockVars, Locking
<1>2. CASE FlipStatus(w)
  BY <1>2, AscendFlips
<1>3. CASE SelectRating(w)
  <2>1. CASE Stays(w, "insert") /\ UNCHANGED <<ratingLock, seen>>
    BY <1>0, <1>3, <2>1, AscendMoves
       DEF SelectRating, Stays, Goto, ApplyUnchanged, DecisionUnchanged, Locking
  <2> QED
    BY <1>3, <2>1, AscendTakes DEF SelectRating, Locking
<1>4. CASE InsertRating(w)
  <2>1. CASE Stays(w, "reselect") /\ UNCHANGED <<ratingLock, seen>>
    BY <1>0, <1>4, <2>1, AscendMoves
       DEF InsertRating, Stays, Goto, ApplyUnchanged, DecisionUnchanged, Locking
  <2> QED
    BY <1>4, <2>1, AscendTakes DEF InsertRating, Locking
<1>5. CASE ReselectRating(w)
  BY <1>5, AscendTakes DEF ReselectRating, Locking
<1>6. CASE RecordRating(w)
  BY <1>0, <1>6, AscendMoves
     DEF RecordRating, Stays, Goto, ApplyUnchanged, DecisionUnchanged, Locking
<1>7. CASE CommitTx(w)
  <2>1. \E l \in {"tell", "answer", "next", "idle"}, j \in {job[w], NoResult} :
          pc' = [pc EXCEPT ![w] = l] /\ job' = [job EXCEPT ![w] = j]
    BY <1>0, <1>7 DEF CommitTx, Stays, Leaves, Goto, AfterRollback
  <2> QED
    BY <1>0, <1>7, <2>1, AscendEnds DEF CommitTx, DecisionUnchanged, Locking
<1>8. CASE AbortTx(w)
  <2>1. AfterRollback(w) \notin Locking
    BY DEF AfterRollback, Locking
  <2> QED
    BY <1>0, <1>8, <2>1, AscendEnds DEF AbortTx, Leaves, Goto, DecisionUnchanged
<1> QED
  BY <1>1, <1>2, <1>3, <1>4, <1>5, <1>6, <1>7, <1>8 DEF Tx

(* Every step.                                                             *)
LEMMA AscendStep ==
    ASSUME RatingInv, LocksAscend, [Next]_vars
    PROVE  LocksAscend'
<1>0. RatingTypeOK /\ \A w \in Workers : job = [job EXCEPT ![w] = job[w]]
  BY DEF RatingInv, TypeOK, RatingTypeOK
<1> USE DEF ratingVars, lockVars, Goto
<1>1. CASE UNCHANGED vars
  BY <1>1, AscendStays DEF vars
<1>2. ASSUME NEW r \in Results, NEW a \in Players, NEW b \in Players, NEW d \in GameDays,
             Submit(r, a, b, d)
      PROVE  LocksAscend'
  <2>1. /\ status[r] = "none" /\ \A q \in Results : q # r => row'[q] = row[q]
        /\ UNCHANGED <<pc, job, ratingLock>>
    BY <1>0, <1>2 DEF Submit, RatingTypeOK
  <2>2. \A v \in Workers : pc[v] \in Locking => job[v] \in Results /\ job[v] # r
    BY <2>1 DEF RatingInv, JobsAreResults, RowLockHeld, Locking, InTx, Decided
  <2>3. \A v \in Workers : pc[v] \in Locking => Held(v)' = Held(v) /\ Left(v)' = Left(v)
    BY <2>1, <2>2 DEF Held, Left, Both
  <2> QED
    BY <2>1, <2>3 DEF LocksAscend
<1>3. ASSUME NEW w \in Deciders, NEW r \in Results, NEW decision \in Decisions,
             Press(w, r, decision)
      PROVE  LocksAscend'
  BY <1>0, <1>3, AscendMoves DEF Press, Workers, Locking
<1>4. ASSUME NEW p \in Players, ToggleOptOut(p) PROVE LocksAscend'
  BY <1>4, AscendStays DEF ToggleOptOut
<1>5. ASSUME NEW r \in Results, Bot(r) PROVE LocksAscend'
  BY <1>5, AscendStays DEF Bot, SendCard, StoreCard, CancelUndelivered, BotUnchanged
<1>6. ASSUME NEW w \in Workers, Tx(w) \/ AbortTx(w) PROVE LocksAscend'
  BY <1>6, AscendTx
<1>7. ASSUME NEW w \in Workers, Respond(w) PROVE LocksAscend'
  <2>1. /\ \E l \in {"idle", "answer", "refused", "next"}, j \in {job[w], NoResult} :
             pc' = [pc EXCEPT ![w] = l] /\ job' = [job EXCEPT ![w] = j]
        /\ UNCHANGED <<row, ratingLock>>
    BY <1>0, <1>7 DEF Respond, Decide, Answer, Refused, TellAutoApproved, Stays, Leaves,
                      DecisionUnchanged, TellUnchanged
  <2> QED
    BY <1>0, <2>1, AscendMoves DEF Locking
<1>8. ASSUME NEW w \in Polls, ListOverdue(w) \/ NextOverdue(w) \/ ListDone(w)
      PROVE  LocksAscend'
  <2>1. w \in Workers /\ UNCHANGED <<row, ratingLock>>
    BY <1>8 DEF Workers, ListOverdue, NextOverdue, ListDone, ListUnchanged
  <2>2. \E l \in {"next", "days", "decide"}, j \in Results \cup {job[w]} :
          pc' = [pc EXCEPT ![w] = l] /\ job' = [job EXCEPT ![w] = j]
    <3>1. CASE NextOverdue(w)
      <4>1. due[w] \subseteq Results
        BY <1>8 DEF RatingInv, TypeOK, OtherTypeOK
      <4> QED
        BY <3>1, <4>1 DEF NextOverdue
    <3>2. CASE ListOverdue(w) \/ ListDone(w)
      BY <1>0, <2>1, <3>2 DEF ListOverdue, ListDone
    <3> QED
      BY <1>8, <3>1, <3>2
  <2> QED
    BY <1>0, <2>1, <2>2, AscendMoves DEF Locking
<1>9. CASE BotRestart \/ Tick
  BY <1>9, AscendStays DEF BotRestart, Tick, BotUnchanged
<1>10. CASE ServiceRestart
  BY <1>10 DEF ServiceRestart, LocksAscend, Locking
<1>11. ASSUME NEW w \in Polls, Post(w) PROVE LocksAscend'
  <2>1. w \in Workers /\ UNCHANGED <<row, ratingLock, job>>
    BY <1>11 DEF Workers, Post, StartDays, ReadDay, SendPost, MarkDay, OthersUnchanged
  <2>2. \E l \in {"idle", "day", "send", "mark"} : pc' = [pc EXCEPT ![w] = l]
    BY <1>11 DEF Post, StartDays, ReadDay, SendPost, MarkDay, NextDay
  <2> QED
    BY <1>0, <2>1, <2>2, AscendMoves DEF Locking
<1> QED
  BY <1>1, <1>2, <1>3, <1>4, <1>5, <1>6, <1>7, <1>8, <1>9, <1>10, <1>11
     DEF Next, SubmitResult, ByPlayers, Handlers

-----------------------------------------------------------------------------
(* Rows locked in ascending order leave no circle: of the waiting          *)
(* transactions of one, that which asks for the greatest player waits for  *)
(* a holder that asks for a greater.                                       *)
LEMMA AscendingLeavesNoCircle ==
    ASSUME RatingInv, LocksAscend
    PROVE  NoCircularWait
<1> SUFFICES ASSUME NEW S \in SUBSET Workers, S # {},
                    \A w \in S : WaitsFor(w) \cap S # {}
             PROVE  FALSE
  BY DEF NoCircularWait
<1>1. \A w \in S : pc[w] \in {"flip"} \cup Locking
  BY DEF WaitsFor, Locking
<1> DEFINE L == {w \in S : pc[w] \in Locking}
           T == {NextPlayer(w) : w \in L}
<1>2. \A w \in L : /\ NextPlayer(w) \in Players
                   /\ ratingLock[NextPlayer(w)] \in S
  BY NextIsLeast DEF WaitsFor, Locking
<1>3. ASSUME NEW w \in S, pc[w] \in Decided PROVE w \in L
  BY <1>1, <1>3 DEF Decided, Locking
<1>4. L # {}
  <2>1. PICK w \in S : TRUE
    OBVIOUS
  <2>2. CASE pc[w] = "flip"
    <3>1. rowLock[job[w]] \in S /\ job[w] \in Results
      BY <2>2 DEF WaitsFor, RatingInv, JobsAreResults, InTx
    <3>2. pc[rowLock[job[w]]] \in Decided
      BY <3>1, ResultsAssumption DEF RatingInv, RowLockHeld, ResultsAssumption
    <3> QED
      BY <1>3, <3>1, <3>2
  <2> QED
    BY <1>1, <2>1, <2>2
<1>5. PICK w \in L : \A v \in L : NextPlayer(v) <= NextPlayer(w)
  <2>1. T \in SUBSET Players /\ T # {}
    BY <1>2, <1>4
  <2>2. \E p \in T : \A q \in T : q <= p
    <3> HIDE DEF T
    <3> QED
      BY <2>1, GreatestPlayer
  <2> QED
    BY <2>2
<1> DEFINE p == NextPlayer(w)
           u == ratingLock[p]
<1>6. u \in S /\ p \in Players /\ p \in Held(u)
  BY <1>2 DEF Held
<1>7. u \in L
  BY <1>3, <1>6 DEF RatingInv, RatingLockHeld
<1>8. NextPlayer(u) \in Left(u) /\ NextPlayer(u) \in Players
  BY <1>7, NextIsLeast
<1>9. p < NextPlayer(u)
  BY <1>6, <1>7, <1>8 DEF LocksAscend
<1>10. NextPlayer(u) <= p
  BY <1>5, <1>7
<1>11. p \in Nat /\ NextPlayer(u) \in Nat
  BY <1>6, <1>8, ResultsAssumption DEF ResultsAssumption
<1> HIDE DEF p, u
<1> QED
  BY <1>9, <1>10, <1>11

(* Transactions that share players never wait for one another in a circle, *)
(* however many decisions and polls run at once and whoever of two players *)
(* submitted which result: rows are locked in the order of player ids      *)
(* (rating_service.go:101-122).                                            *)
THEOREM RatingsNeverDeadlock == Spec => []NoCircularWait
<1>1. Init => LocksAscend
  BY DEF Init, ResultsInit, LocksAscend, Locking
<1>2. RatingInv /\ LocksAscend /\ [Next]_vars => LocksAscend'
  BY AscendStep
<1>3. RatingInv /\ LocksAscend => NoCircularWait
  BY AscendingLeavesNoCircle
<1> QED
  BY <1>1, <1>2, <1>3, RatingInvariant, PTL DEF Spec

-----------------------------------------------------------------------------
(* What players are told: the opponent's message never claims a decision   *)
(* that was not made, time's approval is told once and not without a word  *)
(* before, and a day's leaderboard is posted once.                         *)
(*                                                                         *)
(* A decision is final (ResultsImplementLedger), so that what a worker     *)
(* learned of its result is still true when it edits the message.          *)

(* Nobody has heard of a result that was not submitted.                    *)
RowFirst ==
    \A r \in Results : status[r] = "none" => flow[r] = "none" /\ card[r] = "none" /\ told[r] = 0

JobsHaveRows ==
    /\ \A w \in Workers : job[w] \in Results => status[job[w]] # "none"
    /\ \A w \in Polls : \A r \in due[w] : status[r] # "none"

WhoDecides ==
    /\ \A w \in Deciders : to[w] \in Decisions \cup {"none"}
    /\ \A w \in Polls : to[w] \in {"auto_approved", "none"}

(* What a worker is about to say has happened.                             *)
OutcomesAreTrue ==
    \A w \in Workers :
        /\ pc[w] = "answer" => to[w] \in Decisions /\ status[job[w]] = to[w]
        /\ pc[w] = "refused" => status[job[w]] \notin {"none", "pending"}
        /\ pc[w] = "tell" => status[job[w]] = "auto_approved"

(* A result is told of once: by one worker, and by none afterwards.        *)
ToldOnce ==
    /\ \A r \in Results : told[r] # 0 =>
         told[r] = 1 /\ status[r] = "auto_approved"
           /\ \A w \in Workers : pc[w] = "tell" => job[w] # r
    /\ \A w, v \in Workers : pc[w] = "tell" /\ pc[v] = "tell" /\ job[w] = job[v] => w = v

CardSays ==
    \A r \in Results :
        /\ card[r] = "approved" => status[r] = "approved"
        /\ card[r] = "rejected" => status[r] = "rejected"
        /\ card[r] = "withdrawn" => status[r] = "canceled"
        /\ card[r] = "auto" => status[r] = "auto_approved"
        /\ card[r] = "decided" => status[r] \notin {"none", "pending"}

CardInv == RowFirst /\ JobsHaveRows /\ WhoDecides /\ OutcomesAreTrue /\ ToldOnce /\ CardSays

(* A row stays, and a decision is final.                                   *)
StatusIsFinal ==
    \A r \in Results :
        /\ status[r] # "none" => status'[r] # "none"
        /\ status[r] \notin {"none", "pending"} => status'[r] = status[r]

-----------------------------------------------------------------------------
(* The ledger decides once.                                                *)
LEMMA DecisionsAreFinal ==
    ASSUME RatingInv, [Next]_vars
    PROVE  StatusIsFinal
<1>1. CASE status' = status
  BY <1>1 DEF StatusIsFinal
<1>2. CASE Ledger!Next
  <2>1. PICK r \in Results, s \in {"pending", "rejected", "canceled", "approved", "auto_approved"} :
          status[r] \in {"none", "pending"} /\ status' = [status EXCEPT ![r] = s]
    BY <1>2 DEF Ledger!Next, Ledger!Submit, Ledger!Drop, Ledger!Approve
  <2> QED
    BY <2>1 DEF StatusIsFinal, RatingInv, TypeOK, RatingTypeOK
<1> QED
  BY <1>1, <1>2, LedgerStep

(* A worker goes on, the bot's messages stay as they are.                  *)
LEMMA CardMoves ==
    ASSUME RatingInv, CardInv, StatusIsFinal, NEW w \in Workers, NEW l, NEW j, NEW t,
           pc' = [pc EXCEPT ![w] = l],
           job' = [job EXCEPT ![w] = j], to' = [to EXCEPT ![w] = t],
           UNCHANGED <<flow, card, told>>,
           \A v \in Polls : \A r \in due'[v] : status'[r] # "none",
           j \in Results => status'[j] # "none",
           w \in Deciders => t \in Decisions \cup {"none"},
           w \in Polls => t \in {"auto_approved", "none"},
           l = "answer" => t \in Decisions /\ status'[j] = t,
           l = "refused" => status'[j] \notin {"none", "pending"},
           l = "tell" => /\ j \in Results /\ status'[j] = "auto_approved" /\ told[j] = 0
                         /\ \A v \in Workers : v # w /\ pc[v] = "tell" => job[v] # j
    PROVE  CardInv'
<1> USE DEF CardInv, StatusIsFinal
<1>1. /\ pc'[w] = l /\ job'[w] = j /\ to'[w] = t
      /\ \A v \in Workers : v # w => pc'[v] = pc[v] /\ job'[v] = job[v] /\ to'[v] = to[v]
  BY DEF RatingInv, TypeOK, RatingTypeOK
<1>2. \A v \in Workers : pc[v] \in {"answer", "refused", "tell"} => job[v] \in Results
  BY DEF RatingInv, JobsAreResults
<1>3. RowFirst'
  BY DEF RowFirst
<1>4. JobsHaveRows'
  BY <1>1 DEF JobsHaveRows
<1>5. WhoDecides'
  BY <1>1 DEF WhoDecides, Workers
<1>6. OutcomesAreTrue'
  BY <1>1, <1>2 DEF OutcomesAreTrue, Decisions
<1>7. ToldOnce'
  <2>1. \A r \in Results : told[r] # 0 => told[r] = 1 /\ status'[r] = "auto_approved"
    BY DEF ToldOnce
  <2>2. \A r \in Results : told[r] # 0 => \A v \in Workers : pc'[v] = "tell" => job'[v] # r
    BY <1>1 DEF ToldOnce
  <2>3. \A u, v \in Workers : pc'[u] = "tell" /\ pc'[v] = "tell" /\ job'[u] = job'[v] => u = v
    BY <1>1 DEF ToldOnce
  <2> QED
    BY <2>1, <2>2, <2>3 DEF ToldOnce
<1>8. CardSays'
  BY DEF CardSays
<1> QED
  BY <1>3, <1>4, <1>5, <1>6, <1>7, <1>8

(* A worker goes on with the result it has, or is through with it.         *)
LEMMA CardGoesOn ==
    ASSUME RatingInv, CardInv, StatusIsFinal, NEW w \in Workers, NEW l,
           l \notin {"answer", "refused", "tell"}, Stays(w, l) \/ Leaves(w, l),
           UNCHANGED <<flow, card, told, due>>
    PROVE  CardInv'
<1>1. PICK j \in {job[w], NoResult}, t \in {to[w], "none"} :
        /\ pc' = [pc EXCEPT ![w] = l]
        /\ job' = [job EXCEPT ![w] = j] /\ to' = [to EXCEPT ![w] = t]
  BY DEF Stays, Leaves, Goto, RatingInv, TypeOK, RatingTypeOK
<1>2. j \in Results => status'[j] # "none"
  BY ResultsAssumption DEF CardInv, JobsHaveRows, StatusIsFinal, ResultsAssumption
<1>3. /\ w \in Deciders => t \in Decisions \cup {"none"}
      /\ w \in Polls => t \in {"auto_approved", "none"}
  BY DEF CardInv, WhoDecides
<1>4. \A v \in Polls : \A r \in due'[v] : status'[r] # "none"
  BY DEF CardInv, JobsHaveRows, StatusIsFinal, RatingInv, TypeOK, OtherTypeOK
<1> QED
  BY <1>1, <1>2, <1>3, <1>4, CardMoves

(* No worker moves; a message is at most sent.                             *)
LEMMA CardStays ==
    ASSUME RatingInv, CardInv, StatusIsFinal, UNCHANGED <<pc, job, to, told, due>>,
           \A r \in Results : card'[r] \in {card[r], "buttons"},
           RowFirst'
    PROVE  CardInv'
<1> USE DEF CardInv, StatusIsFinal
<1>1. \A w \in Workers : pc[w] \in {"answer", "refused", "tell"} => job[w] \in Results
  BY DEF RatingInv, JobsAreResults
<1>2. JobsHaveRows' /\ WhoDecides'
  BY DEF JobsHaveRows, WhoDecides, RatingInv, TypeOK, OtherTypeOK
<1>3. OutcomesAreTrue'
  BY <1>1 DEF OutcomesAreTrue, Decisions
<1>4. ToldOnce'
  BY DEF ToldOnce
<1>5. CardSays'
  BY DEF CardSays
<1> QED
  BY <1>2, <1>3, <1>4, <1>5

-----------------------------------------------------------------------------
(* The steps of a decision.                                                *)
LEMMA CardTx ==
    ASSUME RatingInv, CardInv, StatusIsFinal, NEW w \in Workers, Tx(w) \/ AbortTx(w)
    PROVE  CardInv'
<1>0. /\ job = [job EXCEPT ![w] = job[w]] /\ to = [to EXCEPT ![w] = to[w]]
      /\ \A v \in Polls : due[v] \subseteq Results
  BY DEF RatingInv, TypeOK, RatingTypeOK, OtherTypeOK
<1>1. UNCHANGED <<flow, card, told, due>>
  BY DEF Tx, BeginTx, FlipStatus, SelectRating, InsertRating, ReselectRating, RecordRating,
         CommitTx, AbortTx, ApplyUnchanged, DecisionUnchanged, botVars
<1>2. \A v \in Polls : \A r \in due'[v] : status'[r] # "none"
  BY <1>0, <1>1 DEF CardInv, JobsHaveRows, StatusIsFinal
<1>3. /\ w \in Deciders => to[w] \in Decisions \cup {"none"}
      /\ w \in Polls => to[w] \in {"auto_approved", "none"}
  BY DEF CardInv, WhoDecides
<1>4. CASE \E l \in InTx \cup {"next", "idle"} : Stays(w, l) \/ Leaves(w, l)
  BY <1>1, <1>4, CardGoesOn DEF InTx
<1>5. CASE FlipStatus(w) /\ Stays(w, "refused") /\ status[job[w]] # "pending" /\ status' = status
  <2>1. job[w] \in Results /\ status'[job[w]] \notin {"none", "pending"}
    BY <1>5 DEF FlipStatus, RatingInv, JobsAreResults, InTx, CardInv, JobsHaveRows
  <2>2. /\ pc' = [pc EXCEPT ![w] = "refused"]
        /\ job' = [job EXCEPT ![w] = job[w]] /\ to' = [to EXCEPT ![w] = to[w]]
    BY <1>0, <1>5 DEF Stays, Goto
  <2> QED
    BY <1>1, <1>2, <1>3, <2>1, <2>2, CardMoves
<1>6. CASE CommitTx(w) /\ Stays(w, IF w \in Polls THEN "tell" ELSE "answer")
  <2>1. /\ job[w] \in Results /\ status[job[w]] = "pending" /\ to[w] \in Rated
        /\ status'[job[w]] = to[w]
    BY <1>6, CommitKeeps DEF RatingInv, TypeOK, CoreInv, CommitTx, JobsAreResults, InTx,
                             RatingTypeOK
  <2>2. \A v \in Workers : pc[v] = "tell" => job[v] # job[w]
    BY <2>1 DEF CardInv, OutcomesAreTrue
  <2>3. told[job[w]] = 0
    BY <2>1 DEF CardInv, ToldOnce
  <2>4. CASE w \in Polls
    <3>1. Stays(w, "tell") /\ to[w] = "auto_approved"
      BY <1>3, <1>6, <2>1, <2>4 DEF Rated
    <3>2. /\ pc' = [pc EXCEPT ![w] = "tell"]
          /\ job' = [job EXCEPT ![w] = job[w]] /\ to' = [to EXCEPT ![w] = to[w]]
      BY <1>0, <3>1 DEF Stays, Goto
    <3> QED
      BY <1>1, <1>2, <1>3, <2>1, <2>2, <2>3, <3>1, <3>2, CardMoves
  <2>5. CASE w \notin Polls
    <3>1. Stays(w, "answer") /\ to[w] \in Decisions
      BY <1>3, <1>6, <2>1, <2>5 DEF Rated, Workers
    <3>2. /\ pc' = [pc EXCEPT ![w] = "answer"]
          /\ job' = [job EXCEPT ![w] = job[w]] /\ to' = [to EXCEPT ![w] = to[w]]
      BY <1>0, <3>1 DEF Stays, Goto
    <3> QED
      BY <1>1, <1>2, <1>3, <2>1, <3>1, <3>2, CardMoves DEF Rated
  <2> QED
    BY <2>4, <2>5
<1>7. CASE BeginTx(w) \/ SelectRating(w) \/ InsertRating(w) \/ ReselectRating(w) \/ RecordRating(w)
  <2>1. \E l \in InTx : Stays(w, l)
    BY <1>7 DEF BeginTx, SelectRating, InsertRating, ReselectRating, RecordRating, TakeRating, InTx
  <2> QED
    BY <1>4, <2>1
<1>8. CASE AbortTx(w) \/ (CommitTx(w) /\ Leaves(w, AfterRollback(w)))
  BY <1>4, <1>8 DEF AbortTx, AfterRollback
<1>9. CASE FlipStatus(w) /\ ~ (Stays(w, "refused") /\ status[job[w]] # "pending")
  BY <1>4, <1>9 DEF FlipStatus, InTx
<1> QED
  BY <1>5, <1>6, <1>7, <1>8, <1>9 DEF Tx, CommitTx, FlipStatus

(* A decision without a rating.                                            *)
LEMMA CardDecide ==
    ASSUME RatingInv, CardInv, StatusIsFinal, NEW w \in Workers, Decide(w)
    PROVE  CardInv'
<1>0. /\ job = [job EXCEPT ![w] = job[w]] /\ to = [to EXCEPT ![w] = to[w]]
      /\ \A v \in Polls : due[v] \subseteq Results
  BY DEF RatingInv, TypeOK, RatingTypeOK, OtherTypeOK
<1>1. UNCHANGED <<flow, card, told, due>>
  BY DEF Decide, DecisionUnchanged, botVars
<1>2. \A v \in Polls : \A r \in due'[v] : status'[r] # "none"
  BY <1>0, <1>1 DEF CardInv, JobsHaveRows, StatusIsFinal
<1>3. /\ job[w] \in Results /\ status[job[w]] # "none"
      /\ w \in Deciders /\ to[w] \in Decisions
  BY DEF Decide, RatingInv, JobsAreResults, CardInv, JobsHaveRows, WhoDecides, Workers, Rated
<1>4. w \notin Polls
  BY <1>3, ResultsAssumption DEF ResultsAssumption
<1>5. CASE Leaves(w, "idle")
  BY <1>1, <1>5, CardGoesOn
<1>6. CASE Stays(w, "refused") /\ status[job[w]] # "pending" /\ status' = status
  BY <1>0, <1>1, <1>2, <1>3, <1>4, <1>6, CardMoves DEF Stays, Goto
<1>7. CASE Stays(w, "answer") /\ status' = [status EXCEPT ![job[w]] = to[w]]
  <2>1. status'[job[w]] = to[w]
    BY <1>3, <1>7 DEF RatingInv, TypeOK, RatingTypeOK
  <2>2. /\ pc' = [pc EXCEPT ![w] = "answer"]
        /\ job' = [job EXCEPT ![w] = job[w]] /\ to' = [to EXCEPT ![w] = to[w]]
    BY <1>0, <1>7 DEF Stays, Goto
  <2>3. status'[job[w]] # "none"
    BY <1>3, <2>1 DEF Decisions
  <2> QED
    BY <1>1, <1>2, <1>3, <1>4, <2>1, <2>2, <2>3, CardMoves
<1> QED
  BY <1>5, <1>6, <1>7 DEF Decide

(* What is shown of a decision: the message says what the worker learned.  *)
LEMMA CardAnswers ==
    ASSUME RatingInv, CardInv, NEW w \in Workers, Answer(w) \/ Refused(w) \/ TellAutoApproved(w)
    PROVE  CardInv'
<1> DEFINE r == job[w]
<1>0. r \in Results /\ status[r] # "none" /\ pc[w] \in {"answer", "refused", "tell"}
  BY DEF Answer, Refused, TellAutoApproved, RatingInv, JobsAreResults, CardInv, JobsHaveRows
<1>1. UNCHANGED <<status, due>>
  BY DEF Answer, Refused, TellAutoApproved, TellUnchanged
<1>2. /\ pc'[w] \in {"idle", "next"} /\ job'[w] = NoResult /\ to'[w] = "none"
      /\ \A v \in Workers : v # w => pc'[v] = pc[v] /\ job'[v] = job[v] /\ to'[v] = to[v]
  BY DEF Answer, Refused, TellAutoApproved, Leaves, Goto, RatingInv, TypeOK, RatingTypeOK
<1>3. \A q \in Results : q # r => flow'[q] = flow[q] /\ card'[q] = card[q] /\ told'[q] = told[q]
  BY DEF Answer, Refused, TellAutoApproved, RatingInv, TypeOK, OtherTypeOK
<1>4. RowFirst' /\ WhoDecides'
  BY <1>0, <1>1, <1>2, <1>3 DEF CardInv, RowFirst, WhoDecides, Workers
<1>5. JobsHaveRows'
  BY <1>1, <1>2, ResultsAssumption DEF CardInv, JobsHaveRows, ResultsAssumption
<1>6. OutcomesAreTrue'
  BY <1>1, <1>2 DEF CardInv, OutcomesAreTrue
<1>7. ToldOnce'
  <2>1. \A u, v \in Workers : pc'[u] = "tell" /\ pc'[v] = "tell" /\ job'[u] = job'[v] => u = v
    BY <1>2 DEF CardInv, ToldOnce
  <2>2. CASE told' = told
    BY <1>1, <1>2, <2>1, <2>2 DEF CardInv, ToldOnce
  <2>3. CASE told' = [told EXCEPT ![r] = @ + 1] /\ pc[w] = "tell"
    <3>1. told'[r] = 1 /\ status'[r] = "auto_approved"
      BY <1>0, <1>1, <2>3 DEF CardInv, ToldOnce, OutcomesAreTrue, RatingInv, TypeOK, OtherTypeOK
    <3>2. \A v \in Workers : pc'[v] = "tell" => job'[v] # r
      BY <1>2, <2>3 DEF CardInv, ToldOnce
    <3>3. \A q \in Results : q # r /\ told'[q] # 0 =>
            told'[q] = 1 /\ status'[q] = "auto_approved"
              /\ \A v \in Workers : pc'[v] = "tell" => job'[v] # q
      BY <1>1, <1>2, <1>3 DEF CardInv, ToldOnce
    <3> QED
      BY <2>1, <3>1, <3>2, <3>3 DEF ToldOnce
  <2> QED
    BY <2>2, <2>3 DEF Answer, Refused, TellAutoApproved
<1>8. CardSays'
  <2>1. CASE card' = card
    BY <1>1, <2>1 DEF CardInv, CardSays
  <2>2. ASSUME NEW c, card' = [card EXCEPT ![r] = c],
               /\ c = "approved" => status[r] = "approved"
               /\ c = "rejected" => status[r] = "rejected"
               /\ c = "withdrawn" => status[r] = "canceled"
               /\ c = "auto" => status[r] = "auto_approved"
               /\ c = "decided" => status[r] \notin {"none", "pending"}
        PROVE  CardSays'
    <3>1. card'[r] = c
      BY <1>0, <2>2 DEF RatingInv, TypeOK, OtherTypeOK
    <3> QED
      BY <1>1, <1>3, <2>2, <3>1 DEF CardInv, CardSays
  <2>3. CASE Answer(w) /\ card' # card
    <3>1. card' = [card EXCEPT ![r] = Says(w)] /\ to[w] \in Decisions /\ status[r] = to[w]
      BY <2>3 DEF Answer, CardInv, OutcomesAreTrue
    <3>2. /\ Says(w) \in {"approved", "rejected", "withdrawn"}
          /\ Says(w) = "approved" => status[r] = "approved"
          /\ Says(w) = "rejected" => status[r] = "rejected"
          /\ Says(w) = "withdrawn" => status[r] = "canceled"
      BY <3>1 DEF Says, Decisions
    <3> QED
      BY <2>2, <3>1, <3>2
  <2>4. CASE Refused(w) /\ card' # card
    <3>1. card' = [card EXCEPT ![r] = "decided"] /\ status[r] \notin {"none", "pending"}
      BY <2>4 DEF Refused, CardInv, OutcomesAreTrue
    <3> QED
      BY <2>2, <3>1
  <2>5. CASE TellAutoApproved(w) /\ card' # card
    <3>1. card' = [card EXCEPT ![r] = "auto"] /\ status[r] = "auto_approved"
      BY <2>5 DEF TellAutoApproved, CardInv, OutcomesAreTrue
    <3> QED
      BY <2>2, <3>1
  <2> QED
    BY <2>1, <2>3, <2>4, <2>5
<1> QED
  BY <1>4, <1>5, <1>6, <1>7, <1>8 DEF CardInv

-----------------------------------------------------------------------------
(* Every step.                                                             *)
LEMMA CardStep ==
    ASSUME RatingInv, CardInv, [Next]_vars
    PROVE  CardInv'
<1>0. StatusIsFinal
  BY DecisionsAreFinal
<1> USE DEF Goto
<1>1. ASSUME UNCHANGED <<pc, job, to, told, due, status>>, \A r \in Results : card'[r] \in {card[r], "buttons"},
             \A r \in Results : status[r] = "none" => flow'[r] = flow[r] /\ card'[r] = card[r]
      PROVE  CardInv'
  <2>1. RowFirst'
    BY <1>1 DEF CardInv, RowFirst
  <2> QED
    BY <1>0, <1>1, <2>1, CardStays
<1>2. CASE UNCHANGED vars
  BY <1>1, <1>2 DEF vars, botVars
<1>3. ASSUME NEW r \in Results, NEW a \in Players, NEW b \in Players, NEW d \in GameDays,
             Submit(r, a, b, d)
      PROVE  CardInv'
  <2>1. /\ UNCHANGED <<pc, job, to, told, due, card>> /\ status'[r] = "pending"
        /\ \A q \in Results : q # r => status'[q] = status[q] /\ flow'[q] = flow[q]
    BY <1>3 DEF Submit, RatingInv, TypeOK, RatingTypeOK, OtherTypeOK
  <2>2. RowFirst'
    BY <2>1 DEF CardInv, RowFirst
  <2> QED
    BY <1>0, <2>1, <2>2, CardStays
<1>4. ASSUME NEW r \in Results, Bot(r) PROVE CardInv'
  <2>1. /\ UNCHANGED <<pc, job, to, told, due>> /\ flow[r] # "none"
        /\ \A q \in Results : card'[q] \in {card[q], "buttons"}
        /\ \A q \in Results : q # r => flow'[q] = flow[q] /\ card'[q] = card[q]
    BY <1>4 DEF Bot, SendCard, StoreCard, CancelUndelivered, BotUnchanged, RatingInv, TypeOK,
                OtherTypeOK
  <2>2. status[r] # "none" /\ told' = told
    BY <2>1 DEF CardInv, RowFirst
  <2>3. RowFirst'
    BY <1>0, <2>1, <2>2 DEF CardInv, RowFirst, StatusIsFinal
  <2> QED
    BY <1>0, <2>1, <2>3, CardStays
<1>5. CASE BotRestart
  <2>1. /\ UNCHANGED <<pc, job, to, told, due, status, card>>
        /\ \A q \in Results : flow[q] = "none" => flow'[q] = "none"
    BY <1>5 DEF BotRestart, BotUnchanged
  <2> QED
    BY <1>1, <2>1 DEF CardInv, RowFirst
<1>6. CASE Tick \/ (\E p \in Players : ToggleOptOut(p))
  BY <1>1, <1>6 DEF Tick, ToggleOptOut, botVars
<1>7. ASSUME NEW w \in Deciders, NEW r \in Results, NEW decision \in Decisions,
             Press(w, r, decision)
      PROVE  CardInv'
  <2>1. status[r] # "none"
    BY <1>7 DEF Press, CardInv, RowFirst
  <2>2. /\ pc' = [pc EXCEPT ![w] = "decide"] /\ job' = [job EXCEPT ![w] = r]
        /\ to' = [to EXCEPT ![w] = decision]
        /\ UNCHANGED <<status, flow, card, told, due>> /\ w \in Workers /\ w \notin Polls
    BY <1>7, ResultsAssumption DEF Press, botVars, Workers, ResultsAssumption
  <2>3. \A v \in Polls : \A q \in due'[v] : status'[q] # "none"
    BY <2>2 DEF CardInv, JobsHaveRows
  <2> QED
    BY <1>0, <2>1, <2>2, <2>3, CardMoves
<1>8. ASSUME NEW w \in Workers, Tx(w) \/ AbortTx(w) PROVE CardInv'
  BY <1>0, <1>8, CardTx
<1>9. ASSUME NEW w \in Workers, Respond(w) PROVE CardInv'
  BY <1>0, <1>9, CardDecide, CardAnswers DEF Respond
<1>10. ASSUME NEW w \in Polls, ListOverdue(w) \/ NextOverdue(w) \/ ListDone(w)
       PROVE  CardInv'
  <2>1. /\ w \in Workers /\ w \notin Deciders /\ UNCHANGED <<status, flow, card, told>>
        /\ job = [job EXCEPT ![w] = job[w]] /\ to = [to EXCEPT ![w] = to[w]]
        /\ to[w] \in {"auto_approved", "none"} /\ (job[w] \in Results => status[job[w]] # "none")
    BY <1>10, ResultsAssumption DEF ListOverdue, NextOverdue, ListDone, ListUnchanged, botVars,
         Workers, ResultsAssumption, RatingInv, TypeOK, RatingTypeOK, CardInv, WhoDecides,
         JobsHaveRows
  <2>2. \A v \in Polls : \A q \in due'[v] : status'[q] # "none"
    BY <1>10, <2>1 DEF ListOverdue, NextOverdue, ListDone, CardInv, JobsHaveRows, RatingInv,
                       TypeOK, OtherTypeOK
  <2>3. CASE NextOverdue(w)
    <3>1. PICK r \in due[w] : /\ job' = [job EXCEPT ![w] = r]
                              /\ to' = [to EXCEPT ![w] = "auto_approved"]
      BY <2>3 DEF NextOverdue
    <3>2. pc' = [pc EXCEPT ![w] = "decide"] /\ status'[r] # "none"
      BY <1>10, <2>1, <2>3 DEF NextOverdue, CardInv, JobsHaveRows
    <3> QED
      BY <1>0, <2>1, <2>2, <3>1, <3>2, CardMoves
  <2>4. CASE ListOverdue(w) \/ ListDone(w)
    <3>1. PICK l \in {"next", "days"} : pc' = [pc EXCEPT ![w] = l]
      BY <2>4 DEF ListOverdue, ListDone
    <3>2. job' = [job EXCEPT ![w] = job[w]] /\ to' = [to EXCEPT ![w] = to[w]]
      BY <2>1, <2>4 DEF ListOverdue, ListDone
    <3> QED
      BY <1>0, <2>1, <2>2, <3>1, <3>2, CardMoves
  <2> QED
    BY <1>10, <2>3, <2>4
<1>11. CASE ServiceRestart
  BY <1>11, ResultsAssumption
     DEF ServiceRestart, botVars, CardInv, RowFirst, JobsHaveRows, WhoDecides, OutcomesAreTrue,
         ToldOnce, CardSays, Workers, ResultsAssumption
<1>12. ASSUME NEW w \in Polls, Post(w) PROVE CardInv'
  <2>1. w \in Workers /\ UNCHANGED <<status, flow, card, told, due, job, to>>
    BY <1>12 DEF Workers, Post, StartDays, ReadDay, SendPost, MarkDay, OthersUnchanged, botVars
  <2>2. PICK l \in {"idle", "day", "send", "mark"} : pc' = [pc EXCEPT ![w] = l]
    BY <1>12 DEF Post, StartDays, ReadDay, SendPost, MarkDay, NextDay
  <2> QED
    BY <1>0, <2>1, <2>2, CardGoesOn DEF Stays
<1> QED
  BY <1>2, <1>3, <1>4, <1>5, <1>6, <1>7, <1>8, <1>9, <1>10, <1>11, <1>12
     DEF Next, SubmitResult, ByPlayers, Handlers

(* The message of the opponent never claims a decision that was not made,  *)
(* and both players are told at most once that time approved their result, *)
(* and only when it did, though author, opponent and polls decide at once, *)
(* answers are lost and the service restarts (result_handlers.go:690-860,  *)
(* auto_approve_results.go:66-86).                                         *)
THEOREM CardsTellTruth == Spec => []CardTellsTruth
<1>1. Init => CardInv
  BY ResultsAssumption
     DEF Init, ResultsInit, CardInv, RowFirst, JobsHaveRows, WhoDecides, OutcomesAreTrue,
         ToldOnce, CardSays, Workers, ResultsAssumption
<1>2. RatingInv /\ CardInv /\ [Next]_vars => CardInv'
  BY CardStep
<1>3. CardInv => CardTellsTruth
  <2> SUFFICES ASSUME CardInv, NEW r \in Results
               PROVE  /\ CASE card[r] = "approved" -> status[r] = "approved"
                           [] card[r] = "rejected" -> status[r] = "rejected"
                           [] card[r] = "withdrawn" -> status[r] = "canceled"
                           [] card[r] = "auto" -> status[r] = "auto_approved"
                           [] card[r] = "decided" -> status[r] \notin {"none", "pending"}
                           [] OTHER -> TRUE
                      /\ told[r] <= IF status[r] = "auto_approved" THEN 1 ELSE 0
    BY DEF CardTellsTruth
  <2>1. told[r] <= IF status[r] = "auto_approved" THEN 1 ELSE 0
    BY DEF CardInv, ToldOnce
  <2> QED
    BY <2>1 DEF CardInv, CardSays
<1> QED
  BY <1>1, <1>2, <1>3, RatingInvariant, PTL DEF Spec

-----------------------------------------------------------------------------
(* Approvals by time alone.                                                *)

Asking == {"ask", "cancel", "store"}

(* No time passes while the bot asks.                                      *)
AskingIsPrompt == \A r \in Results : flow[r] \in Asking => row[r].at = now

(* Polls deal with results that are overdue.                               *)
PollsTakeOverdue ==
    /\ \A w \in Polls : \A r \in due[w] : Overdue(r)
    /\ \A w \in Polls : job[w] \in Results => Overdue(job[w])
    /\ \A r \in Results : status[r] = "auto_approved" => Overdue(r)

(* A bot that is through has asked, withdrawn the result or failed twice.  *)
BotHasAsked ==
    \A r \in Results :
        /\ status[r] # "none" => flow[r] # "none"
        /\ flow[r] = "cancel" => faults >= 1
        /\ flow[r] \in {"store", "open"} => card[r] # "none"
        /\ flow[r] = "closed" /\ card[r] = "none" =>
             status[r] \notin {"pending", "auto_approved"} \/ faults >= 2

SilentInv == AskingIsPrompt /\ PollsTakeOverdue /\ BotHasAsked

(* Nothing happens to the clock, the rows and the bot, and no message is   *)
(* taken back.                                                             *)
LEMMA SilentMoves ==
    ASSUME RatingInv, SilentInv, StatusIsFinal,
           UNCHANGED <<row, now, flow>>, faults' >= faults,
           \A r \in Results : card[r] # "none" => card'[r] # "none",
           \A r \in Results : status[r] = "none" => status'[r] = "none",
           \A r \in Results : status'[r] = "auto_approved" => status[r] = "auto_approved" \/ Overdue(r),
           \A w \in Polls : \A r \in due'[w] : Overdue(r),
           \A w \in Polls : job'[w] \in Results => Overdue(job'[w]),
           faults' \in Nat
    PROVE  SilentInv'
<1> USE DEF SilentInv
<1>1. \A r \in Results : Overdue(r)' = Overdue(r)
  BY DEF Overdue
<1>2. AskingIsPrompt'
  BY DEF AskingIsPrompt
<1>3. PollsTakeOverdue'
  BY <1>1 DEF PollsTakeOverdue, Overdue
<1>4. BotHasAsked'
  <2>1. \A r \in Results :
          /\ status'[r] # "none" => flow'[r] # "none"
          /\ flow'[r] = "cancel" => faults' >= 1
          /\ flow'[r] \in {"store", "open"} => card'[r] # "none"
    BY DEF BotHasAsked, RatingInv, TypeOK, OtherTypeOK
  <2>2. ASSUME NEW r \in Results, flow'[r] = "closed", card'[r] = "none"
        PROVE  status'[r] \notin {"pending", "auto_approved"} \/ faults' >= 2
    <3>1. status[r] \notin {"pending", "auto_approved"} \/ faults >= 2
      BY <2>2 DEF BotHasAsked
    <3>2. CASE faults >= 2
      BY <3>2 DEF RatingInv, TypeOK, OtherTypeOK
    <3>3. CASE status[r] \notin {"pending", "auto_approved"}
      BY <3>3 DEF StatusIsFinal
    <3> QED
      BY <3>1, <3>2, <3>3
  <2> QED
    BY <2>1, <2>2 DEF BotHasAsked
<1> QED
  BY <1>2, <1>3, <1>4

(* The bot asks, stores what it asked, or withdraws the result.            *)
LEMMA SilentBot ==
    ASSUME RatingInv, CardInv, SilentInv, NEW r \in Results, Bot(r)
    PROVE  SilentInv'
<1> USE DEF SilentInv
<1>0. /\ faults \in Nat /\ faults' \in Nat /\ faults' >= faults
      /\ UNCHANGED <<row, now, job, due, told>> /\ flow[r] \in Asking
  BY DEF Bot, SendCard, StoreCard, CancelUndelivered, BotUnchanged, Works, Fails, Asking,
         RatingInv, TypeOK, OtherTypeOK
<1>1. /\ row[r].at = now /\ ~ Overdue(r) /\ status[r] # "none"
  BY <1>0 DEF AskingIsPrompt, Asking, Overdue, AutoApproveTicks, RatingInv, TypeOK, OtherTypeOK,
              CardInv, RowFirst
<1>2. status[r] # "auto_approved"
  BY <1>1 DEF PollsTakeOverdue
<1>3. \A q \in Results : q # r => flow'[q] = flow[q] /\ card'[q] = card[q] /\ status'[q] = status[q]
  BY DEF Bot, SendCard, StoreCard, CancelUndelivered, RatingInv, TypeOK, OtherTypeOK, RatingTypeOK
<1>4. flow'[r] \in {"store", "cancel", "closed", "open"}
  BY DEF Bot, SendCard, StoreCard, CancelUndelivered, RatingInv, TypeOK, OtherTypeOK
<1>5. AskingIsPrompt'
  BY <1>0, <1>1, <1>3 DEF AskingIsPrompt
<1>6. status'[r] # "auto_approved"
  BY <1>2 DEF Bot, SendCard, StoreCard, CancelUndelivered, RatingInv, TypeOK, RatingTypeOK
<1>7. PollsTakeOverdue'
  BY <1>0, <1>3, <1>6 DEF PollsTakeOverdue, Overdue
<1>8. /\ flow'[r] = "cancel" => faults' >= 1
      /\ flow'[r] \in {"store", "open"} => card'[r] # "none"
      /\ flow'[r] = "closed" => status'[r] \notin {"pending", "auto_approved"} \/ faults' >= 2
  <2> USE DEF RatingInv, TypeOK, OtherTypeOK, Works, Fails
  <2>1. CASE SendCard(r)
    BY <1>0, <2>1 DEF SendCard
  <2>2. CASE StoreCard(r)
    BY <1>0, <2>2 DEF StoreCard, BotHasAsked
  <2>3. CASE CancelUndelivered(r)
    <3>1. flow[r] = "cancel" /\ flow'[r] = "closed" /\ faults >= 1
      BY <2>3 DEF CancelUndelivered, BotHasAsked
    <3>2. CASE Works
      <4>1. status'[r] # "pending"
        BY <1>1, <2>3, <3>2 DEF CancelUndelivered, RatingTypeOK
      <4> QED
        BY <1>6, <3>1, <4>1
    <3>3. CASE Fails
      BY <1>0, <3>1, <3>3
    <3> QED
      BY <2>3, <3>2, <3>3 DEF CancelUndelivered
  <2> QED
    BY <2>1, <2>2, <2>3 DEF Bot
<1>9. BotHasAsked'
  BY <1>0, <1>3, <1>4, <1>8 DEF BotHasAsked
<1> QED
  BY <1>5, <1>7, <1>9

(* A withdrawal ends the submission: its result is canceled.               *)
LEMMA SilentAnswer ==
    ASSUME RatingInv, CardInv, SilentInv, StatusIsFinal, NEW w \in Workers, Answer(w)
    PROVE  SilentInv'
<1> USE DEF SilentInv
<1> DEFINE r == job[w]
<1>0. /\ r \in Results /\ status[r] \in Decisions /\ status[r] = to[w] /\ pc[w] = "answer"
      /\ faults \in Nat /\ faults' \in Nat /\ faults' >= faults
      /\ UNCHANGED <<status, row, due, now>> /\ job' = [job EXCEPT ![w] = NoResult]
  BY DEF Answer, TellUnchanged, Leaves, RatingInv, JobsAreResults, CardInv, OutcomesAreTrue,
         Works, Fails, TypeOK, OtherTypeOK
<1>1. /\ \A q \in Results : q # r => flow'[q] = flow[q]
      /\ flow'[r] = IF to[w] = "canceled" THEN "closed" ELSE flow[r]
  BY <1>0 DEF Answer, RatingInv, TypeOK, OtherTypeOK
<1>2. \A q \in Results : card[q] # "none" => card'[q] # "none"
  <2>1. Says(w) # "none"
    BY <1>0 DEF Says, Decisions
  <2> QED
    BY <2>1 DEF Answer, RatingInv, TypeOK, OtherTypeOK
<1>3. AskingIsPrompt'
  BY <1>0, <1>1 DEF AskingIsPrompt, Asking
<1>4. PollsTakeOverdue'
  BY <1>0, ResultsAssumption
     DEF PollsTakeOverdue, Overdue, ResultsAssumption, RatingInv, TypeOK, RatingTypeOK, Workers
<1>5. BotHasAsked'
  <2>1. \A q \in Results : q # r =>
          /\ status'[q] # "none" => flow'[q] # "none"
          /\ flow'[q] = "cancel" => faults' >= 1
          /\ flow'[q] \in {"store", "open"} => card'[q] # "none"
          /\ flow'[q] = "closed" /\ card'[q] = "none" =>
               status'[q] \notin {"pending", "auto_approved"} \/ faults' >= 2
    BY <1>0, <1>1, <1>2 DEF BotHasAsked
  <2>2. /\ flow'[r] # "none"
        /\ flow'[r] = "cancel" => faults' >= 1
        /\ flow'[r] \in {"store", "open"} => card'[r] # "none"
        /\ status'[r] \notin {"pending", "auto_approved"}
    BY <1>0, <1>1, <1>2 DEF BotHasAsked, Decisions
  <2> QED
    BY <1>0, <2>1, <2>2 DEF BotHasAsked
<1> QED
  BY <1>3, <1>4, <1>5

(* A worker decides or speaks, a poll goes through its list: only a poll   *)
(* approves by time, and only what is overdue.                             *)
LEMMA SilentWorker ==
    ASSUME RatingInv, CardInv, SilentInv, StatusIsFinal, NEW w \in Workers,
           Tx(w) \/ AbortTx(w) \/ Decide(w) \/ Refused(w) \/ TellAutoApproved(w)
    PROVE  SilentInv'
<1> USE DEF DecisionUnchanged, ApplyUnchanged, TellUnchanged, botVars, ratingVars, lockVars,
            Works, Fails
<1>1. UNCHANGED <<row, now, flow, due>>
  BY DEF Tx, BeginTx, FlipStatus, SelectRating, InsertRating, ReselectRating, RecordRating,
         CommitTx, AbortTx, Decide, Refused, TellAutoApproved
<1>2. faults' >= faults /\ faults' \in Nat
  BY DEF Tx, BeginTx, FlipStatus, SelectRating, InsertRating, ReselectRating, RecordRating,
         CommitTx, AbortTx, Decide, Refused, TellAutoApproved, RatingInv, TypeOK, OtherTypeOK
<1>3. \A r \in Results : card[r] # "none" => card'[r] # "none"
  BY DEF Tx, BeginTx, FlipStatus, SelectRating, InsertRating, ReselectRating, RecordRating,
         CommitTx, AbortTx, Decide, Refused, TellAutoApproved, RatingInv, TypeOK, OtherTypeOK
<1>4. \A v \in Workers : job'[v] \in {job[v], NoResult}
  BY DEF Tx, BeginTx, FlipStatus, SelectRating, InsertRating, ReselectRating, RecordRating,
         TakeRating, CommitTx, AbortTx, Decide, Refused, TellAutoApproved, Stays, Leaves,
         RatingInv, TypeOK, RatingTypeOK
<1>5. \A v \in Polls : job'[v] \in Results => Overdue(job'[v])
  BY <1>4, ResultsAssumption DEF SilentInv, PollsTakeOverdue, Workers, ResultsAssumption
<1>6. status' = status
        \/ /\ job[w] \in Results /\ status[job[w]] = "pending" /\ to[w] # "none"
           /\ status' = [status EXCEPT ![job[w]] = to[w]]
  <2>1. CASE CommitTx(w)
    BY <2>1, CommitKeeps DEF CommitTx, RatingInv, TypeOK, CoreInv, JobsAreResults, InTx, Rated
  <2>2. CASE Decide(w)
    BY <2>2 DEF Decide, RatingInv, JobsAreResults
  <2>3. CASE ~ CommitTx(w) /\ ~ Decide(w)
    BY <2>3 DEF Tx, BeginTx, FlipStatus, SelectRating, InsertRating, ReselectRating,
                RecordRating, AbortTx, Refused, TellAutoApproved
  <2> QED
    BY <2>1, <2>2, <2>3
<1>7. to[w] = "auto_approved" => w \in Polls
  BY DEF CardInv, WhoDecides, Workers, Decisions
<1>8. \A r \in Results : /\ status[r] = "none" => status'[r] = "none"
                         /\ status'[r] = "auto_approved" => status[r] = "auto_approved" \/ Overdue(r)
  BY <1>6, <1>7 DEF SilentInv, PollsTakeOverdue, RatingInv, TypeOK, RatingTypeOK
<1>9. \A v \in Polls : \A r \in due'[v] : Overdue(r)
  BY <1>1 DEF SilentInv, PollsTakeOverdue
<1> QED
  BY <1>1, <1>2, <1>3, <1>5, <1>8, <1>9, SilentMoves

(* Every step.                                                             *)
LEMMA SilentStep ==
    ASSUME RatingInv, CardInv, SilentInv, [Next]_vars
    PROVE  SilentInv'
<1>0. /\ StatusIsFinal /\ faults \in Nat /\ now \in Nat
      /\ row \in [Results -> [author : Nat, opponent : Nat, day : Nat, at : Nat]]
  BY DecisionsAreFinal DEF RatingInv, TypeOK, OtherTypeOK, RatingTypeOK
<1>1. ASSUME UNCHANGED <<row, now, flow, card, status>>, faults' \in {faults, faults + 1},
             \A w \in Polls : \A r \in due'[w] : Overdue(r),
             \A w \in Polls : job'[w] \in Results => Overdue(job'[w])
      PROVE  SilentInv'
  BY <1>0, <1>1, SilentMoves
<1>2. ASSUME UNCHANGED <<row, now, flow, card, status, due>>, faults' \in {faults, faults + 1},
             \A w \in Polls : job'[w] = job[w]
      PROVE  SilentInv'
  BY <1>1, <1>2 DEF SilentInv, PollsTakeOverdue
<1>3. CASE UNCHANGED vars
  BY <1>2, <1>3 DEF vars, botVars
<1>4. ASSUME NEW r \in Results, NEW a \in Players, NEW b \in Players, NEW d \in GameDays,
             Submit(r, a, b, d)
      PROVE  SilentInv'
  <2>1. /\ UNCHANGED <<job, due, card, now>> /\ status[r] = "none" /\ status'[r] = "pending"
        /\ flow'[r] \in {"ask", "lost"} /\ row'[r].at = now /\ faults' \in {faults, faults + 1}
        /\ \A q \in Results : q # r => status'[q] = status[q] /\ flow'[q] = flow[q] /\ row'[q] = row[q]
    BY <1>4 DEF Submit, Works, Fails, RatingInv, TypeOK, RatingTypeOK, OtherTypeOK
  <2>2. AskingIsPrompt'
    BY <2>1 DEF SilentInv, AskingIsPrompt
  <2>3. PollsTakeOverdue'
    <3>1. /\ \A w \in Polls : \A q \in due[w] : q \in Results /\ q # r
          /\ \A w \in Polls : job[w] \in Results => job[w] # r
      BY <2>1 DEF CardInv, JobsHaveRows, RatingInv, TypeOK, OtherTypeOK, Workers
    <3> QED
      BY <2>1, <3>1 DEF SilentInv, PollsTakeOverdue, Overdue
  <2>4. BotHasAsked'
    BY <1>0, <2>1 DEF SilentInv, BotHasAsked
  <2> QED
    BY <2>2, <2>3, <2>4 DEF SilentInv
<1>5. ASSUME NEW r \in Results, Bot(r) PROVE SilentInv'
  BY <1>5, SilentBot
<1>6. CASE BotRestart
  <2>1. /\ UNCHANGED <<row, now, card, status, job, due>> /\ faults' \in {faults, faults + 1}
        /\ \A q \in Results : flow'[q] = IF flow[q] \in Asking THEN "lost" ELSE flow[q]
    BY <1>6 DEF BotRestart, BotUnchanged, Fails, Asking
  <2> QED
    BY <1>0, <2>1 DEF SilentInv, AskingIsPrompt, PollsTakeOverdue, BotHasAsked, Overdue, Asking
<1>7. CASE Tick
  <2>1. /\ UNCHANGED <<row, flow, card, status, job, due, faults>> /\ now' = now + 1
        /\ \A q \in Results : flow[q] \notin Asking
    BY <1>7 DEF Tick, Quiet, botVars, Asking
  <2>2. \A r \in Results : Overdue(r) => Overdue(r)'
    BY <1>0, <2>1 DEF Overdue, AutoApproveTicks
  <2>3. \A w \in Polls : due[w] \subseteq Results
    BY DEF RatingInv, TypeOK, OtherTypeOK
  <2>4. PollsTakeOverdue'
    BY <2>1, <2>2, <2>3 DEF SilentInv, PollsTakeOverdue
  <2> QED
    BY <2>1, <2>4 DEF SilentInv, AskingIsPrompt, BotHasAsked
<1>8. CASE \E p \in Players : ToggleOptOut(p)
  BY <1>2, <1>8 DEF ToggleOptOut, botVars
<1>9. ASSUME NEW w \in Deciders, NEW r \in Results, NEW decision \in Decisions,
             Press(w, r, decision)
      PROVE  SilentInv'
  <2>1. w \notin Polls
    BY ResultsAssumption DEF ResultsAssumption
  <2> QED
    BY <1>2, <1>9, <2>1 DEF Press, botVars, RatingInv, TypeOK, RatingTypeOK, Workers
<1>10. ASSUME NEW w \in Workers, Tx(w) \/ AbortTx(w) \/ Respond(w) PROVE SilentInv'
  BY <1>0, <1>10, SilentWorker, SilentAnswer DEF Respond
<1>11. ASSUME NEW w \in Polls, ListOverdue(w) \/ NextOverdue(w) \/ ListDone(w)
       PROVE  SilentInv'
  <2>1. /\ UNCHANGED <<row, now, flow, card, status>> /\ faults' \in {faults, faults + 1}
    BY <1>11 DEF ListOverdue, NextOverdue, ListDone, ListUnchanged, Works, Fails, botVars
  <2>2. \A v \in Polls : \A r \in due'[v] : Overdue(r)
    BY <1>11 DEF ListOverdue, NextOverdue, ListDone, SilentInv, PollsTakeOverdue, RatingInv,
                 TypeOK, OtherTypeOK
  <2>3. \A v \in Polls : job'[v] \in Results => Overdue(job'[v])
    BY <1>11 DEF ListOverdue, NextOverdue, ListDone, SilentInv, PollsTakeOverdue, RatingInv,
                 TypeOK, RatingTypeOK, Workers
  <2> QED
    BY <1>1, <2>1, <2>2, <2>3
<1>12. CASE ServiceRestart
  BY <1>1, <1>12, ResultsAssumption DEF ServiceRestart, Fails, botVars, Workers, ResultsAssumption
<1>13. ASSUME NEW w \in Polls, Post(w) PROVE SilentInv'
  <2>1. UNCHANGED <<row, now, flow, card, status, due, job>> /\ faults' \in {faults, faults + 1}
    BY <1>13 DEF Post, StartDays, ReadDay, SendPost, MarkDay, OthersUnchanged, botVars, Works, Fails
  <2> QED
    BY <1>2, <2>1
<1> QED
  BY <1>3, <1>4, <1>5, <1>6, <1>7, <1>8, <1>9, <1>10, <1>11, <1>12, <1>13
     DEF Next, SubmitResult, ByPlayers, Handlers

(* No result is approved by time alone whose opponent was not asked,       *)
(* unless two calls failed, the answer of the submission was lost or the   *)
(* bot restarted: an approval within the time that the bot needs to ask is *)
(* none by time (result_handlers.go:598, auto_approve_results.go:51-86).   *)
THEOREM SilenceNeedsFaults == Spec => []SilentNeedsFaults
<1>1. Init => CardInv /\ SilentInv
  BY ResultsAssumption
     DEF Init, ResultsInit, CardInv, RowFirst, JobsHaveRows, WhoDecides, OutcomesAreTrue,
         ToldOnce, CardSays, SilentInv, AskingIsPrompt, PollsTakeOverdue, BotHasAsked, Asking,
         Workers, ResultsAssumption
<1>2. RatingInv /\ CardInv /\ SilentInv /\ [Next]_vars => CardInv' /\ SilentInv'
  BY CardStep, SilentStep
<1>3. RatingInv /\ SilentInv => SilentNeedsFaults
  <2> SUFFICES ASSUME RatingInv, SilentInv, NEW r \in Results,
                      status[r] = "auto_approved", card[r] = "none", flow[r] # "lost"
               PROVE  faults >= 2
    BY DEF SilentNeedsFaults
  <2>1. flow[r] \notin Asking
    BY DEF SilentInv, AskingIsPrompt, PollsTakeOverdue, Overdue, AutoApproveTicks, RatingInv,
           TypeOK, OtherTypeOK
  <2> QED
    BY <2>1 DEF SilentInv, BotHasAsked, Asking, RatingInv, TypeOK, OtherTypeOK
<1> QED
  BY <1>1, <1>2, <1>3, RatingInvariant, PTL DEF Spec

-----------------------------------------------------------------------------
(* The leaderboard of a day.                                               *)

AtDay == {"day", "send", "mark"}

(* One poll at a time is at a day, always one past the marker.             *)
OnePollPosts == \A v, w \in Polls : pc[v] \in AtDay /\ pc[w] \in AtDay => v = w
CursorIsAhead == \A w \in Polls : pc[w] \in AtDay => cursor[w] > marker

(* Each post of a day but the last was paid for by a failure, and a day    *)
(* past the marker has all of its posts paid for, unless the marker is     *)
(* about to be moved there.                                                *)
PaidPosts ==
    /\ \A d \in GameDays : posts[d] <= 1 + faults
    /\ \A d \in GameDays : d > marker /\ posts[d] > faults =>
         \E w \in Polls : pc[w] = "mark" /\ cursor[w] = d

PostInv == ~overlapped => OnePollPosts /\ CursorIsAhead /\ PaidPosts

(* Nobody comes to a day, and who leaves the mark does so by a failure.    *)
LEMMA PollsLeave ==
    ASSUME RatingInv, PostInv, UNCHANGED <<marker, posts, cursor, overlapped>>,
           faults' \in {faults, faults + 1},
           \A w \in Polls : pc'[w] \in AtDay => pc'[w] = pc[w],
           faults' = faults => \A w \in Polls : pc[w] = "mark" => pc'[w] = "mark"
    PROVE  PostInv'
<1>1. faults \in Nat /\ posts \in [GameDays -> Nat]
  BY DEF RatingInv, TypeOK, OtherTypeOK
<1> SUFFICES ASSUME ~overlapped PROVE OnePollPosts' /\ CursorIsAhead' /\ PaidPosts'
  BY DEF PostInv
<1>2. OnePollPosts' /\ CursorIsAhead'
  BY DEF PostInv, OnePollPosts, CursorIsAhead
<1>3. \A d \in GameDays : posts[d] <= 1 + faults /\ posts[d] \in Nat
  BY <1>1 DEF PostInv, PaidPosts
<1>4. CASE faults' = faults
  BY <1>2, <1>4 DEF PostInv, PaidPosts
<1>5. CASE faults' = faults + 1
  <2>1. \A d \in GameDays : posts[d] <= faults'
    BY <1>1, <1>3, <1>5
  <2> QED
    BY <1>1, <1>2, <1>3, <1>5, <2>1 DEF PaidPosts
<1> QED
  BY <1>4, <1>5

(* A worker that is not at a day does something else.                      *)
LEMMA OthersLeave ==
    ASSUME RatingInv, PostInv, UNCHANGED <<marker, posts, cursor, overlapped>>,
           faults' \in {faults, faults + 1}, NEW v \in Workers, NEW l, Goto(v, l),
           pc[v] \notin AtDay, l \notin AtDay
    PROVE  PostInv'
<1>1. \A w \in Polls : w \in Workers /\ pc'[w] = IF w = v THEN l ELSE pc[w]
  BY DEF Goto, RatingInv, TypeOK, RatingTypeOK, Workers
<1> QED
  BY <1>1, PollsLeave DEF AtDay

(* A poll starts at the first day after the marker, alone or as one that   *)
(* overlaps.                                                               *)
LEMMA StartKeepsPosts ==
    ASSUME RatingInv, PostInv, WestOfUtc = FALSE, NEW w \in Polls, StartDays(w)
    PROVE  PostInv'
<1>1. /\ faults \in Nat /\ marker \in Int /\ now \in Nat
      /\ \A v \in Polls : /\ pc'[v] = pc[v] \/ (v = w /\ pc'[v] \in {"day", "idle"})
                          /\ cursor'[v] = IF v = w THEN StartDay ELSE cursor[v]
      /\ UNCHANGED <<marker, posts, faults>> /\ pc[w] = "days"
  BY DEF StartDays, Goto, RatingInv, TypeOK, OtherTypeOK, RatingTypeOK, Workers
<1> SUFFICES ASSUME ~overlapped' PROVE OnePollPosts' /\ CursorIsAhead' /\ PaidPosts'
  BY DEF PostInv
<1>2. /\ ~overlapped
      /\ \A v \in Polls : v # w => pc[v] \notin DayPcs
  BY DEF StartDays
<1>3. \A v \in Polls : v # w => pc'[v] \notin AtDay
  BY <1>1, <1>2 DEF DayPcs, AtDay
<1>4. OnePollPosts'
  BY <1>3 DEF OnePollPosts
<1>5. StartDay > marker
  <2>1. Today \in Int
    BY <1>1 DEF Today
  <2>2. CASE marker = NoDay
    <3>1. StartDay = Later(0, Today - LookbackDays)
      BY <2>2 DEF StartDay
    <3> QED
      BY <2>1, <2>2, <3>1 DEF Later, NoDay, LookbackDays
  <2>3. CASE marker # NoDay
    <3>1. StartDay = Later(0, Later(marker + 1, Today - LookbackDays))
      BY <2>3 DEF StartDay, MarkerDay
    <3> QED
      BY <1>1, <2>1, <3>1 DEF Later, LookbackDays
  <2> QED
    BY <2>2, <2>3
<1>6. CursorIsAhead'
  BY <1>1, <1>3, <1>5 DEF CursorIsAhead
<1>7. \A v \in Polls : pc[v] # "mark"
  BY <1>1, <1>2 DEF DayPcs
<1>8. PaidPosts'
  BY <1>1, <1>2, <1>7 DEF PaidPosts, PostInv
<1> QED
  BY <1>4, <1>6, <1>8

(* A day is looked at and left, or posted, or marked without a post.       *)
LEMMA ReadKeepsPosts ==
    ASSUME RatingInv, PostInv, NEW w \in Polls, ReadDay(w)
    PROVE  PostInv'
<1>1. /\ UNCHANGED <<marker, posts, cursor, overlapped>>
      /\ faults' \in {faults, faults + 1} /\ faults \in Nat /\ posts \in [GameDays -> Nat]
      /\ pc[w] = "day"
      /\ \E l \in {"send", "idle", "mark"} : Goto(w, l)
  BY DEF ReadDay, Works, Fails, RatingInv, TypeOK, OtherTypeOK
<1>2. \A v \in Polls : pc'[v] = pc[v] \/ (v = w /\ pc'[v] \in {"send", "idle", "mark"})
  BY <1>1 DEF Goto, RatingInv, TypeOK, RatingTypeOK, Workers
<1> SUFFICES ASSUME ~overlapped PROVE OnePollPosts' /\ CursorIsAhead' /\ PaidPosts'
  BY <1>1 DEF PostInv
<1>3. \A v \in Polls : pc'[v] \in AtDay => pc[v] \in AtDay
  BY <1>1, <1>2 DEF AtDay
<1>4. OnePollPosts' /\ CursorIsAhead'
  BY <1>1, <1>3 DEF PostInv, OnePollPosts, CursorIsAhead
<1>5. \A v \in Polls : pc[v] = "mark" => pc'[v] = "mark"
  BY <1>1, <1>2
<1>6. \A d \in GameDays : posts[d] \in Nat /\ posts[d] <= 1 + faults
  BY <1>1 DEF PostInv, PaidPosts
<1>7. \A d \in GameDays : d > marker /\ posts[d] > faults' =>
         posts[d] > faults
  BY <1>1, <1>6
<1>8. PaidPosts'
  BY <1>1, <1>5, <1>6, <1>7 DEF PostInv, PaidPosts
<1> QED
  BY <1>4, <1>8

(* A day past the marker, at which no other poll is, has its posts paid    *)
(* for before it is posted.                                                *)
LEMMA SendKeepsPosts ==
    ASSUME RatingInv, PostInv, NEW w \in Polls, SendPost(w)
    PROVE  PostInv'
<1>1. /\ faults \in Nat /\ posts \in [GameDays -> Nat] /\ w \in Workers
      /\ cursor \in [Polls -> Nat] /\ pc[w] = "send"
  BY DEF SendPost, RatingInv, TypeOK, OtherTypeOK, Workers
<1>2. CASE Goto(w, "idle") /\ UNCHANGED posts
  <2>1. /\ UNCHANGED <<marker, posts, cursor, overlapped>> /\ faults' \in {faults, faults + 1}
        /\ \A v \in Polls : pc'[v] = pc[v] \/ (v = w /\ pc'[v] = "idle")
    BY <1>2 DEF SendPost, Works, Fails, Goto, RatingInv, TypeOK, RatingTypeOK, Workers
  <2> QED
    BY <1>1, <2>1, PollsLeave DEF AtDay
<1>3. CASE Goto(w, "mark") /\ Works /\ posts' = [posts EXCEPT ![cursor[w]] = @ + 1]
  <2>1. /\ UNCHANGED <<marker, cursor, overlapped, faults>>
        /\ \A v \in Polls : pc'[v] = IF v = w THEN "mark" ELSE pc[v]
    BY <1>3 DEF SendPost, Works, Goto, RatingInv, TypeOK, RatingTypeOK, Workers
  <2> SUFFICES ASSUME ~overlapped PROVE OnePollPosts' /\ CursorIsAhead' /\ PaidPosts'
    BY <2>1 DEF PostInv
  <2>2. OnePollPosts' /\ CursorIsAhead'
    BY <1>1, <2>1 DEF PostInv, OnePollPosts, CursorIsAhead, AtDay
  <2>3. \A v \in Polls : pc[v] # "mark"
    BY <1>1 DEF PostInv, OnePollPosts, AtDay
  <2>4. cursor[w] > marker
    BY <1>1 DEF PostInv, CursorIsAhead, AtDay
  <2>5. \A d \in GameDays : posts[d] \in Nat /\ posts[d] <= 1 + faults
    BY <1>1 DEF PostInv, PaidPosts
  <2>6. \A d \in GameDays : d > marker => posts[d] <= faults
    BY <1>1, <2>3, <2>5 DEF PostInv, PaidPosts
  <2>7. \A d \in GameDays : posts'[d] = IF d = cursor[w] THEN posts[d] + 1 ELSE posts[d]
    BY <1>1, <1>3
  <2>8. \A d \in GameDays : posts'[d] <= 1 + faults
    BY <1>1, <2>4, <2>5, <2>6, <2>7
  <2>9. ASSUME NEW d \in GameDays, d > marker, posts'[d] > faults
        PROVE  pc'[w] = "mark" /\ cursor[w] = d
    BY <1>1, <2>1, <2>5, <2>6, <2>7, <2>9
  <2>10. PaidPosts'
    BY <2>1, <2>8, <2>9 DEF PaidPosts
  <2> QED
    BY <2>2, <2>10
<1> QED
  BY <1>2, <1>3 DEF SendPost

(* The marker comes to the day of the poll, or a failure pays for its post. *)
LEMMA MarkKeepsPosts ==
    ASSUME RatingInv, PostInv, NEW w \in Polls, MarkDay(w)
    PROVE  PostInv'
<1>1. /\ faults \in Nat /\ posts \in [GameDays -> Nat] /\ w \in Workers /\ marker \in Int
      /\ cursor \in [Polls -> Nat] /\ pc[w] = "mark" /\ UNCHANGED <<posts, overlapped>>
  BY DEF MarkDay, RatingInv, TypeOK, OtherTypeOK, Workers
<1>2. \A v \in Polls : /\ pc'[v] = pc[v] \/ (v = w /\ pc'[v] \in {"day", "idle"})
                       /\ cursor'[v] = IF v = w THEN cursor[w] + 1 ELSE cursor[v]
  BY DEF MarkDay, NextDay, Goto, RatingInv, TypeOK, OtherTypeOK, RatingTypeOK, Workers
<1>3. \/ marker' = cursor[w] /\ faults' = faults
      \/ marker' = marker /\ faults' = faults + 1
  BY DEF MarkDay, Works, Fails
<1> SUFFICES ASSUME ~overlapped PROVE OnePollPosts' /\ CursorIsAhead' /\ PaidPosts'
  BY <1>1 DEF PostInv
<1>4. \A v \in Polls : v # w => pc[v] \notin AtDay
  BY <1>1 DEF PostInv, OnePollPosts, AtDay
<1>5. \A v \in Polls : v # w => pc'[v] \notin AtDay
  BY <1>2, <1>4
<1>6. OnePollPosts'
  BY <1>5 DEF OnePollPosts
<1>7. cursor[w] > marker /\ cursor[w] \in Nat
  BY <1>1 DEF PostInv, CursorIsAhead, AtDay
<1>8. CursorIsAhead'
  BY <1>1, <1>2, <1>3, <1>5, <1>7 DEF CursorIsAhead
<1>9. \A d \in GameDays : posts[d] \in Nat /\ posts[d] <= 1 + faults
  BY <1>1 DEF PostInv, PaidPosts
<1>10. \A d \in GameDays : d \in Int /\ (posts[d] > faults /\ d > marker => d = cursor[w])
  BY <1>1, <1>4, ResultsAssumption DEF PostInv, PaidPosts, AtDay, ResultsAssumption
<1>11. \A d \in GameDays : posts'[d] <= 1 + faults'
  BY <1>1, <1>3, <1>9
<1>12. \A d \in GameDays : d > marker' => posts'[d] <= faults'
  BY <1>1, <1>3, <1>7, <1>9, <1>10
<1>13. \A d \in GameDays : posts'[d] \in Nat /\ faults' \in Nat
  BY <1>1, <1>3, <1>9
<1>14. PaidPosts'
  BY <1>11, <1>12, <1>13 DEF PaidPosts
<1> QED
  BY <1>6, <1>8, <1>14

(* Every step.                                                             *)
LEMMA PostStep ==
    ASSUME RatingInv, PostInv, WestOfUtc = FALSE, [Next]_vars
    PROVE  PostInv'
<1> USE DEF postVars, Works, Fails
<1>1. ASSUME UNCHANGED <<postVars, pc>>, faults' \in {faults, faults + 1} PROVE PostInv'
  BY <1>1, PollsLeave
<1>2. CASE UNCHANGED vars
  BY <1>1, <1>2 DEF vars
<1>3. ASSUME NEW r \in Results, NEW a \in Players, NEW b \in Players, NEW d \in GameDays,
             SubmitResult(r, a, b, d)
      PROVE  PostInv'
  <2>1. UNCHANGED <<marker, posts, cursor, overlapped, pc>> /\ faults' \in {faults, faults + 1}
    BY <1>3 DEF SubmitResult, Submit
  <2> QED
    BY <2>1, PollsLeave
<1>4. ASSUME NEW w \in Deciders, NEW r \in Results, NEW decision \in Decisions,
             Press(w, r, decision), UNCHANGED postVars
      PROVE  PostInv'
  <2>1. Goto(w, "decide") /\ UNCHANGED faults /\ pc[w] \notin AtDay /\ w \in Workers
    BY <1>4 DEF Press, AtDay, Workers
  <2> QED
    BY <1>4, <2>1, OthersLeave DEF AtDay
<1>5. CASE (\E p \in Players : ToggleOptOut(p)) /\ UNCHANGED postVars
  BY <1>1, <1>5 DEF ToggleOptOut
<1>6. ASSUME NEW r \in Results, Bot(r), UNCHANGED postVars PROVE PostInv'
  <2>1. UNCHANGED pc /\ faults' \in {faults, faults + 1}
    BY <1>6 DEF Bot, SendCard, CancelUndelivered, StoreCard, BotUnchanged
  <2> QED
    BY <1>1, <1>6, <2>1
<1>7. ASSUME NEW w \in Workers, Tx(w) \/ AbortTx(w) \/ Respond(w), UNCHANGED postVars
      PROVE  PostInv'
  <2>1. faults' \in {faults, faults + 1}
    BY <1>7 DEF Tx, BeginTx, FlipStatus, SelectRating, InsertRating, ReselectRating,
                RecordRating, CommitTx, AbortTx, Respond, Decide, Answer, Refused,
                TellAutoApproved, ApplyUnchanged
  <2>2. pc[w] \notin AtDay
    BY <1>7 DEF Tx, BeginTx, FlipStatus, SelectRating, InsertRating, ReselectRating,
                RecordRating, CommitTx, AbortTx, Respond, Decide, Answer, Refused,
                TellAutoApproved, InTx, AtDay
  <2>3. \E l : Goto(w, l) /\ l \notin AtDay
    <3> USE DEF Stays, Leaves, AtDay
    <3>1. CASE Tx(w)
      BY <3>1 DEF Tx, BeginTx, FlipStatus, SelectRating, InsertRating, ReselectRating,
                  RecordRating, CommitTx, TakeRating, AfterRollback
    <3>2. CASE AbortTx(w)
      BY <3>2 DEF AbortTx, AfterRollback
    <3>3. CASE Respond(w)
      BY <3>3 DEF Respond, Decide, Answer, Refused, TellAutoApproved
    <3> QED
      BY <1>7, <3>1, <3>2, <3>3
  <2> QED
    BY <1>7, <2>1, <2>2, <2>3, OthersLeave
<1>8. ASSUME NEW w \in Polls, ListOverdue(w) \/ NextOverdue(w) \/ ListDone(w),
             UNCHANGED postVars
      PROVE  PostInv'
  <2>1. /\ faults' \in {faults, faults + 1} /\ pc[w] \notin AtDay /\ w \in Workers
        /\ \E l \in {"next", "days", "decide"} : Goto(w, l)
    BY <1>8 DEF ListOverdue, NextOverdue, ListDone, AtDay, Workers
  <2> QED
    BY <1>8, <2>1, OthersLeave DEF AtDay
<1>9. CASE (BotRestart \/ Tick) /\ UNCHANGED postVars
  BY <1>1, <1>9 DEF BotRestart, Tick, BotUnchanged
<1>10. CASE ServiceRestart /\ UNCHANGED postVars
  <2>1. /\ faults' = faults + 1 /\ faults \in Nat
        /\ \A w \in Polls : pc'[w] = "idle"
    BY <1>10 DEF ServiceRestart, Workers, RatingInv, TypeOK, OtherTypeOK
  <2> QED
    BY <1>10, <2>1, PollsLeave DEF AtDay
<1>11. ASSUME NEW w \in Polls, Post(w) PROVE PostInv'
  BY <1>11, StartKeepsPosts, ReadKeepsPosts, SendKeepsPosts, MarkKeepsPosts DEF Post
<1> QED
  BY <1>2, <1>3, <1>4, <1>5, <1>6, <1>7, <1>8, <1>9, <1>10, <1>11
     DEF Next, ByPlayers, Handlers

(* In a group not west of UTC the leaderboard of a day is posted once, but *)
(* for as many failures as repeat it: whatever polls, decisions and        *)
(* restarts come, only a failing call can leave a posted day past the      *)
(* marker (post_leaderboard.go:177-184).  West of UTC the DATE column      *)
(* brings the last day back at every poll.                                 *)
THEOREM LeaderboardPostedOnce ==
    ASSUME WestOfUtc = FALSE PROVE Spec => []PostedOnce
<1>1. Init => PostInv
  <2> SUFFICES ASSUME Init PROVE OnePollPosts /\ CursorIsAhead /\ PaidPosts
    BY DEF PostInv
  <2>1. /\ \A w \in Polls : pc[w] = "idle"
        /\ \A d \in GameDays : posts[d] = 0
        /\ faults = 0
    BY DEF Init, ResultsInit, Workers
  <2> QED
    BY <2>1 DEF OnePollPosts, CursorIsAhead, PaidPosts, AtDay
<1>2. RatingInv /\ PostInv /\ [Next]_vars => PostInv'
  BY PostStep
<1>3. PostInv => PostedOnce
  BY DEF PostInv, PaidPosts, PostedOnce
<1> QED
  BY <1>1, <1>2, <1>3, RatingInvariant, PTL DEF Spec
=============================================================================
