--------------------------- MODULE CheckoutProofs ---------------------------
(***************************************************************************)
(* Proof that the booking service keeps BookCall's promise: a call is      *)
(* carried out at most once and "ok" is answered only for what was carried *)
(* out in full, whatever sessions end, requests fail, clients are shared   *)
(* or services restart; and that calls of one account stay apart.          *)
(*                                                                         *)
(* BookCall says nothing of where a call is, so the promise is inductive   *)
(* only with CallInv: nothing was done for a call that may still log in    *)
(* and ask again, and a call past its reservation never goes back.  That   *)
(* calls stay apart rests on ApartInv: a session is in the jar of one      *)
(* client, and a checkout holds that client's lock, so that the latest     *)
(* reservation of its session is its own.                                  *)
(***************************************************************************)
EXTENDS Checkout, FiniteSetTheorems, TLAPS

(* Steps at which the platform has done nothing yet.                       *)
Before == {"idle", "load", "store", "lock", "ensure", "enter", "login",
           "confirm", "unflag", "drop", "send"}
Steps == Before \cup {"pay", "match", "track", "done"}

CallTypeOK ==
    /\ pc \in [Calls -> Steps]
    /\ kind \in [Calls -> Kinds \cup {"none"}]
    /\ answer \in [Calls -> {"none", "ok", "error"}]
    /\ acted \in [Calls -> Nat]
    /\ paid \subseteq Calls

CallOK(w) ==
    /\ kind[w] = "none" <=> pc[w] = "idle"
    /\ answer[w] = "none" <=> pc[w] # "done"
    /\ pc[w] \in Before => acted[w] = 0 /\ w \notin paid
    /\ pc[w] = "pay" => kind[w] = "book" /\ acted[w] = 1 /\ w \notin paid
    /\ pc[w] \in {"match", "track"} =>
           kind[w] = "book" /\ acted[w] = 1 /\ w \in paid

CallInv == CallTypeOK /\ \A w \in Calls : CallOK(w)

-----------------------------------------------------------------------------
(* What the steps do to the variables of the invariant.                    *)

Working == Before \ {"idle"}

MovesTo(w, l) ==
    /\ pc' = [pc EXCEPT ![w] = l]
    /\ UNCHANGED answer
EndsWith(w, a) ==
    /\ pc' = [pc EXCEPT ![w] = "done"]
    /\ answer' = [answer EXCEPT ![w] = a]

Asks(w) ==
    /\ pc[w] = "idle" /\ MovesTo(w, "load")
    /\ \E k \in Kinds : kind' = [kind EXCEPT ![w] = k]
    /\ UNCHANGED <<acted, paid>>

Prepares(w) ==
    /\ pc[w] \in Working
    /\ \E l \in Working : MovesTo(w, l)
    /\ \/ UNCHANGED kind
       \/ kind[w] = "list" /\ kind' = [kind EXCEPT ![w] = "read"]
    /\ UNCHANGED <<acted, paid>>

GivesUp(w) ==
    /\ pc[w] \in Working \cup {"pay"} /\ EndsWith(w, "error")
    /\ UNCHANGED <<kind, acted, paid>>

ActsOnce(w) ==
    /\ pc[w] = "send" /\ kind[w] \in {"book", "cancel"}
    /\ acted' = [acted EXCEPT ![w] = @ + 1]
    /\ \/ kind[w] = "book" /\ MovesTo(w, "pay")
       \/ kind[w] = "cancel" /\ EndsWith(w, "ok")
       \/ EndsWith(w, "error")
    /\ UNCHANGED <<kind, paid>>

PaysOnce(w) ==
    /\ pc[w] = "pay" /\ paid' = paid \cup {w}
    /\ MovesTo(w, "match") \/ EndsWith(w, "error")
    /\ UNCHANGED <<kind, acted>>

Tracks(w) ==
    /\ pc[w] = "match" /\ MovesTo(w, "track")
    /\ UNCHANGED <<kind, acted, paid>>

Answers(w) ==
    /\ \/ pc[w] = "send" /\ kind[w] \in {"read", "courts"}
       \/ pc[w] = "track"
    /\ EndsWith(w, "ok")
    /\ UNCHANGED <<kind, acted, paid>>

Restarts ==
    /\ pc' = [w \in Calls |-> IF w \in Running THEN "done" ELSE pc[w]]
    /\ answer' = [w \in Calls |-> IF w \in Running THEN "error" ELSE answer[w]]
    /\ UNCHANGED <<kind, acted, paid>>

Elsewhere == UNCHANGED <<pc, kind, answer, acted, paid>>

Shape(w) ==
    \/ Asks(w) \/ Prepares(w) \/ GivesUp(w) \/ ActsOnce(w) \/ PaysOnce(w)
    \/ Tracks(w) \/ Answers(w)

(* Logging in touches nothing but the client and its locks.                *)
LEMMA SessionShape ==
    ASSUME CallInv, NEW w \in Calls,
           Load(w) \/ Store(w) \/ Lock(w) \/ Ensure(w) \/ Enter(w) \/ Login(w)
           \/ Confirm(w) \/ Unflag(w) \/ Drop(w)
    PROVE  Prepares(w) \/ GivesUp(w)
<1>1. CASE Load(w)
  BY <1>1 DEF Load, Begin, Goto, platformVars, Prepares, MovesTo, Working, Before
<1>2. CASE Store(w)
  BY <1>2 DEF Store, Begin, Goto, platformVars, Prepares, MovesTo, Working, Before
<1>3. CASE Lock(w)
  BY <1>3 DEF Lock, callVars, platformVars, Prepares, MovesTo, Working, Before
<1>4. CASE Ensure(w)
  BY <1>4 DEF Ensure, Goto, callVars, platformVars, Prepares, MovesTo, Working, Before
<1>5. CASE Enter(w)
  BY <1>5 DEF Enter, Goto, callVars, platformVars, Prepares, MovesTo, Working, Before
<1>6. CASE Login(w)
  BY <1>6 DEF Login, Goto, End, callVars, Prepares, GivesUp, MovesTo, EndsWith,
              Working, Before
<1>7. CASE Confirm(w)
  BY <1>7 DEF Confirm, End, callVars, platformVars, Prepares, GivesUp, MovesTo,
              EndsWith, Working, Before
<1>8. CASE Unflag(w)
  BY <1>8 DEF Unflag, Goto, callVars, platformVars, Prepares, MovesTo, Working, Before
<1>9. CASE Drop(w)
  BY <1>9 DEF Drop, Goto, callVars, platformVars, Prepares, MovesTo, Working, Before
<1> QED BY <1>1, <1>2, <1>3, <1>4, <1>5, <1>6, <1>7, <1>8, <1>9

(* A refusal ends the call or sends it back to log in.                     *)
LEMMA RefusalShape ==
    ASSUME CallInv, NEW w \in Calls, pc[w] = "send",
           Unauthorized(w) \/ (End(w, "error") /\ UNCHANGED retried),
           UNCHANGED <<kind, acted, paid>>
    PROVE  Prepares(w) \/ GivesUp(w)
BY DEF Unauthorized, End, Goto, Prepares, GivesUp, MovesTo, EndsWith, Working, Before

(* A request acts on the platform once, and only from "send".              *)
LEMMA RequestShape ==
    ASSUME CallInv, NEW w \in Calls,
           Reserve(w) \/ Cancel(w) \/ Read(w) \/ Courts(w)
    PROVE  Shape(w)
<1>1. CASE Reserve(w)
  <2>1. CASE Authorized(w) /\ acted' = [acted EXCEPT ![w] = @ + 1]
             /\ ((Works /\ Goto(w, "pay")) \/ (Fails /\ End(w, "error")))
    BY <1>1, <2>1 DEF Reserve, Goto, End, Shape, ActsOnce, MovesTo, EndsWith
  <2>2. CASE (TurnedDown(w) \/ Rejected(w) \/ Broken(w)) /\ UNCHANGED acted
    BY <1>1, <2>2, RefusalShape
       DEF Reserve, TurnedDown, Rejected, Broken, Shape
  <2> QED BY <1>1, <2>1, <2>2 DEF Reserve
<1>2. CASE Cancel(w)
  <2>1. CASE Authorized(w) /\ acted' = [acted EXCEPT ![w] = @ + 1]
             /\ ((Works /\ End(w, "ok")) \/ (Fails /\ End(w, "error")))
    BY <1>2, <2>1 DEF Cancel, End, Shape, ActsOnce, EndsWith
  <2>2. CASE (TurnedDown(w) \/ Rejected(w) \/ Broken(w)) /\ UNCHANGED acted
    BY <1>2, <2>2, RefusalShape
       DEF Cancel, TurnedDown, Rejected, Broken, Shape
  <2> QED BY <1>2, <2>1, <2>2 DEF Cancel
<1>3. CASE Read(w)
  <2>1. CASE End(w, "ok")
    BY <1>3, <2>1 DEF Read, End, Shape, Answers, EndsWith
  <2>2. CASE TurnedDown(w) \/ Rejected(w) \/ Broken(w)
    BY <1>3, <2>2, RefusalShape
       DEF Read, TurnedDown, Rejected, Broken, Shape
  <2> QED BY <1>3, <2>1, <2>2 DEF Read
<1>4. CASE Courts(w)
  <2>1. CASE kind[w] = "courts" /\ End(w, "ok") /\ UNCHANGED kind
    BY <1>4, <2>1 DEF Courts, End, Shape, Answers, EndsWith
  <2>2. CASE kind[w] = "list" /\ Goto(w, "ensure")
             /\ kind' = [kind EXCEPT ![w] = "read"]
    BY <1>4, <2>2 DEF Courts, Goto, Shape, Prepares, MovesTo, Working, Before
  <2>3. CASE (Unauthorized(w) \/ Broken(w)) /\ UNCHANGED kind
    BY <1>4, <2>3, RefusalShape DEF Courts, Broken, Shape
  <2> QED BY <1>4, <2>1, <2>2, <2>3 DEF Courts
<1> QED BY <1>1, <1>2, <1>3, <1>4

(* After the reservation nothing leads back to it.                         *)
LEMMA CheckoutShape ==
    ASSUME CallInv, NEW w \in Calls, Pay(w) \/ MatchRecord(w) \/ Track(w)
    PROVE  Shape(w)
<1>1. CASE Pay(w)
  BY <1>1 DEF Pay, CheckoutUnchanged, callVars, Goto, End, Shape, PaysOnce,
              GivesUp, MovesTo, EndsWith
<1>2. CASE MatchRecord(w)
  BY <1>2 DEF MatchRecord, CheckoutUnchanged, callVars, Goto, Shape, Tracks, MovesTo
<1>3. CASE Track(w)
  BY <1>3 DEF Track, CheckoutUnchanged, callVars, End, Shape, Answers, EndsWith
<1> QED BY <1>1, <1>2, <1>3

LEMMA NextShape ==
    ASSUME CallInv, [CheckoutNext]_vars
    PROVE  (\E w \in Calls : Shape(w)) \/ Restarts \/ Elsewhere
<1>1. ASSUME NEW w \in Calls, Step(w)
      PROVE  Shape(w)
  BY <1>1, SessionShape, RequestShape, CheckoutShape DEF Step, Shape
<1>2. ASSUME NEW w \in Calls, NEW k \in Kinds, Ask(w, k)
      PROVE  Shape(w)
  BY <1>2 DEF Ask, Goto, platformVars, Shape, Asks, MovesTo
<1>3. ASSUME NEW s \in 1..MaxSessions, Expire(s)
      PROVE  Elsewhere
  BY <1>3 DEF Expire, callVars, Elsewhere
<1>4. ASSUME NEW c \in Calls, CookieExpires(c)
      PROVE  Elsewhere
  BY <1>4 DEF CookieExpires, callVars, platformVars, Elsewhere
<1>5. CASE Restart
  BY <1>5 DEF Restart, callVars, platformVars, Restarts
<1>6. CASE UNCHANGED vars
  BY <1>6 DEF vars, Elsewhere
<1> QED BY <1>1, <1>2, <1>3, <1>4, <1>5, <1>6 DEF CheckoutNext

-----------------------------------------------------------------------------
(* The invariant.                                                          *)

LEMMA CallInit == CheckoutInit => CallInv
BY DEF CheckoutInit, CallInv, CallTypeOK, CallOK, Steps, Before

(* The calls that do not move keep their part.                             *)
LEMMA ShapeKeeps ==
    ASSUME CallInv, NEW w \in Calls, Shape(w)
    PROVE  CallInv'
<1>1. ASSUME NEW v \in Calls, v # w
      PROVE  /\ pc'[v] = pc[v] /\ kind'[v] = kind[v] /\ answer'[v] = answer[v]
             /\ acted'[v] = acted[v] /\ (v \in paid' <=> v \in paid)
  BY <1>1 DEF CallInv, CallTypeOK, Shape, Asks, Prepares, GivesUp, ActsOnce,
              PaysOnce, Tracks, Answers, MovesTo, EndsWith
<1>2. \A v \in Calls \ {w} : CallOK(v)'
  BY <1>1 DEF CallInv, CallOK
<1>3. CallTypeOK'
  BY DEF CallInv, CallTypeOK, Shape, Asks, Prepares, GivesUp, ActsOnce, PaysOnce,
         Tracks, Answers, MovesTo, EndsWith, Kinds, Steps, Working, Before
<1>4. CallOK(w)'
  <2>1. CASE Asks(w)
    BY <2>1 DEF CallInv, CallTypeOK, CallOK, Asks, MovesTo, Kinds, Before
  <2>2. CASE Prepares(w)
    BY <2>2 DEF CallInv, CallTypeOK, CallOK, Prepares, MovesTo, Working, Before
  <2>3. CASE GivesUp(w)
    BY <2>3 DEF CallInv, CallTypeOK, CallOK, GivesUp, EndsWith, Working, Before
  <2>4. CASE ActsOnce(w)
    BY <2>4 DEF CallInv, CallTypeOK, CallOK, ActsOnce, MovesTo, EndsWith, Before
  <2>5. CASE PaysOnce(w)
    BY <2>5 DEF CallInv, CallTypeOK, CallOK, PaysOnce, MovesTo, EndsWith, Before
  <2>6. CASE Tracks(w)
    BY <2>6 DEF CallInv, CallTypeOK, CallOK, Tracks, MovesTo, Before
  <2>7. CASE Answers(w)
    BY <2>7 DEF CallInv, CallTypeOK, CallOK, Answers, EndsWith, Before
  <2> QED BY <2>1, <2>2, <2>3, <2>4, <2>5, <2>6, <2>7 DEF Shape
<1> QED BY <1>2, <1>3, <1>4 DEF CallInv

LEMMA RestartKeeps ==
    ASSUME CallInv, Restarts
    PROVE  CallInv'
<1>1. CallTypeOK'
  BY DEF CallInv, CallTypeOK, Restarts, Steps
<1>2. ASSUME NEW w \in Calls
      PROVE  CallOK(w)'
  BY <1>2 DEF CallInv, CallTypeOK, CallOK, Restarts, Running, Before
<1> QED BY <1>1, <1>2 DEF CallInv

LEMMA CallStep == CallInv /\ [CheckoutNext]_vars => CallInv'
<1>1. CallInv /\ Elsewhere => CallInv'
  BY DEF CallInv, CallTypeOK, CallOK, Elsewhere
<1> QED BY <1>1, NextShape, ShapeKeeps, RestartKeeps

(* Nothing was done for a call before its request, whatever happens; a     *)
(* call that pays reserved once (checkout.go, CreateBooking).              *)
THEOREM CallInvariant == CheckoutSpec => []CallInv
BY CallInit, CallStep, PTL DEF CheckoutSpec

-----------------------------------------------------------------------------
(* The promise.                                                            *)

AskedOf == [w \in Calls |-> Asked(w)]
EffectOf == [w \in Calls |-> Effect(w)]

LEMMA PromiseInit == CheckoutInit => Promise!BookCallInit
BY DEF CheckoutInit, Promise!BookCallInit, Asked, Effect

(* A step of a call changes what BookCall sees of that call only.          *)
LEMMA ShapeIsLocal ==
    ASSUME CallInv, NEW w \in Calls, Shape(w)
    PROVE  /\ AskedOf' = [AskedOf EXCEPT ![w] = Asked(w)']
           /\ EffectOf' = [EffectOf EXCEPT ![w] = Effect(w)']
           /\ answer' = [answer EXCEPT ![w] = answer'[w]]
<1>1. ASSUME NEW v \in Calls, v # w
      PROVE  /\ kind'[v] = kind[v] /\ acted'[v] = acted[v]
             /\ (v \in paid' <=> v \in paid)
  BY <1>1 DEF CallInv, CallTypeOK, Shape, Asks, Prepares, GivesUp, ActsOnce,
              PaysOnce, Tracks, Answers, MovesTo, EndsWith
<1>2. ASSUME NEW v \in Calls, v # w
      PROVE  Asked(v)' = Asked(v) /\ Effect(v)' = Effect(v)
  BY <1>1, <1>2 DEF Asked, Effect
<1>3. answer' = [answer EXCEPT ![w] = answer'[w]]
  BY DEF CallInv, CallTypeOK, Shape, Asks, Prepares, GivesUp, ActsOnce,
         PaysOnce, Tracks, Answers, MovesTo, EndsWith
<1> QED BY <1>2, <1>3 DEF AskedOf, EffectOf

(* A step that changes nothing BookCall sees of its call.                  *)
LEMMA Unseen ==
    ASSUME CallInv, NEW w \in Calls, Shape(w),
           Asked(w)' = Asked(w), Effect(w)' = Effect(w), answer'[w] = answer[w]
    PROVE  UNCHANGED Promise!bookVars
<1>1. AskedOf' = AskedOf /\ EffectOf' = EffectOf
  BY ShapeIsLocal DEF AskedOf, EffectOf
<1>2. answer' = answer
  BY ShapeIsLocal DEF CallInv, CallTypeOK
<1> QED BY <1>1, <1>2 DEF Promise!bookVars, AskedOf, EffectOf

LEMMA OpenCall ==
    ASSUME CallInv, NEW w \in Calls, pc[w] \notin {"idle", "done"}
    PROVE  Promise!Open(w)
BY DEF CallInv, CallTypeOK, CallOK, Kinds, Promise!Open, Asked

(* One error among the calls under way.                                    *)
LEMMA OneFails ==
    ASSUME CallInv, NEW w \in Calls, Shape(w), Promise!Open(w),
           Asked(w)' = Asked(w), Effect(w)' = Effect(w), answer'[w] = "error"
    PROVE  Promise!Fail
<1>1. AskedOf' = AskedOf /\ EffectOf' = EffectOf
  BY ShapeIsLocal DEF AskedOf, EffectOf
<1>2. answer' = [v \in Calls |-> IF v \in {w} THEN "error" ELSE answer[v]]
  BY ShapeIsLocal DEF CallInv, CallTypeOK
<1>3. {w} \in SUBSET {v \in Calls : Promise!Open(v)}
  OBVIOUS
<1> QED BY <1>1, <1>2, <1>3 DEF Promise!Fail, AskedOf, EffectOf

LEMMA ShapeIsPromised ==
    ASSUME CallInv, NEW w \in Calls, Shape(w)
    PROVE  [Promise!BookCallNext]_(Promise!bookVars)
<1>1. CASE Asks(w)
  <2>1. PICK k \in Kinds : kind' = [kind EXCEPT ![w] = k]
    BY <1>1 DEF Asks
  <2>2. Asked(w) = "none" /\ Asked(w)' \in {"book", "cancel", "look"}
    BY <1>1, <2>1 DEF CallInv, CallTypeOK, CallOK, Asks, Asked, Kinds
  <2>3. Effect(w)' = Effect(w) /\ answer'[w] = answer[w]
    BY <1>1 DEF Asks, MovesTo, Effect
  <2>4. EffectOf' = EffectOf /\ answer' = answer
    BY <2>3, <1>1, ShapeIsLocal DEF EffectOf, Asks, MovesTo
  <2>5. Promise!Ask(w)
    BY <2>2, <2>4, ShapeIsLocal DEF Promise!Ask, AskedOf, EffectOf
  <2> QED BY <2>5 DEF Promise!BookCallNext
<1>2. CASE Prepares(w)
  <2>1. Asked(w)' = Asked(w)
    BY <1>2 DEF CallInv, CallTypeOK, Prepares, Asked
  <2>2. Effect(w)' = Effect(w) /\ answer'[w] = answer[w]
    BY <1>2 DEF Prepares, MovesTo, Effect
  <2> QED BY <2>1, <2>2, Unseen
<1>3. CASE GivesUp(w)
  <2>1. Asked(w)' = Asked(w) /\ Effect(w)' = Effect(w)
    BY <1>3 DEF GivesUp, Asked, Effect
  <2>2. answer'[w] = "error"
    BY <1>3 DEF CallInv, CallTypeOK, GivesUp, EndsWith
  <2>3. Promise!Open(w)
    BY <1>3, OpenCall DEF GivesUp, Working, Before
  <2> QED BY <2>1, <2>2, <2>3, OneFails DEF Promise!BookCallNext
<1>4. CASE ActsOnce(w)
  <2>1. acted[w] = 0 /\ w \notin paid /\ acted'[w] = 1 /\ w \notin paid'
    BY <1>4 DEF CallInv, CallTypeOK, CallOK, ActsOnce, Before
  <2>2. Effect(w) = "none" /\ Effect(w)' = "acted"
    BY <2>1 DEF Effect
  <2>3. Asked(w) = kind[w] /\ Asked(w)' = Asked(w)
    BY <1>4 DEF ActsOnce, Asked
  <2>4. Promise!Open(w)
    BY <1>4, OpenCall DEF ActsOnce
  <2>5. \/ UNCHANGED answer
        \/ Asked(w) = "cancel" /\ answer' = [answer EXCEPT ![w] = "ok"]
        \/ answer' = [answer EXCEPT ![w] = "error"]
    BY <1>4, <2>3 DEF ActsOnce, MovesTo, EndsWith
  <2>6. AskedOf' = AskedOf /\ EffectOf' = [EffectOf EXCEPT ![w] = "acted"]
    BY <2>2, <2>3, ShapeIsLocal DEF AskedOf
  <2>7. Asked(w) # "look"
    BY <1>4, <2>3 DEF ActsOnce
  <2>8. Promise!Act(w)
    BY <2>2, <2>4, <2>5, <2>6, <2>7 DEF Promise!Act, AskedOf, EffectOf
  <2> QED BY <2>8 DEF Promise!BookCallNext
<1>5. CASE PaysOnce(w)
  <2>1. kind[w] = "book" /\ acted[w] = 1 /\ w \notin paid
    BY <1>5 DEF CallInv, CallOK, PaysOnce
  <2>2. Effect(w) = "acted" /\ Effect(w)' = "paid"
    BY <1>5, <2>1 DEF Effect, PaysOnce
  <2>3. Asked(w) = "book" /\ Asked(w)' = Asked(w)
    BY <1>5, <2>1 DEF PaysOnce, Asked
  <2>4. Promise!Open(w)
    BY <1>5, OpenCall DEF PaysOnce
  <2>5. UNCHANGED answer \/ answer' = [answer EXCEPT ![w] = "error"]
    BY <1>5 DEF PaysOnce, MovesTo, EndsWith
  <2>6. AskedOf' = AskedOf /\ EffectOf' = [EffectOf EXCEPT ![w] = "paid"]
    BY <2>2, <2>3, ShapeIsLocal DEF AskedOf
  <2>7. Promise!Pay(w)
    BY <2>2, <2>3, <2>4, <2>5, <2>6 DEF Promise!Pay, AskedOf, EffectOf
  <2> QED BY <2>7 DEF Promise!BookCallNext
<1>6. CASE Tracks(w)
  <2>1. Asked(w)' = Asked(w) /\ Effect(w)' = Effect(w) /\ answer'[w] = answer[w]
    BY <1>6 DEF Tracks, MovesTo, Asked, Effect
  <2> QED BY <2>1, Unseen
<1>7. CASE Answers(w)
  <2>1. Asked(w)' = Asked(w) /\ Effect(w)' = Effect(w)
    BY <1>7 DEF Answers, Asked, Effect
  <2>2. Effect(w) = Promise!Complete(Asked(w))
    <3>1. CASE pc[w] = "send" /\ kind[w] \in {"read", "courts"}
      <4>1. acted[w] = 0 /\ w \notin paid
        BY <3>1 DEF CallInv, CallOK, Before
      <4>2. Effect(w) = "none" /\ Asked(w) = "look"
        BY <3>1, <4>1 DEF Effect, Asked
      <4> QED BY <4>2 DEF Promise!Complete
    <3>2. CASE pc[w] = "track"
      <4>1. kind[w] = "book" /\ acted[w] = 1 /\ w \in paid
        BY <3>2 DEF CallInv, CallOK
      <4>2. Effect(w) = "paid" /\ Asked(w) = "book"
        BY <4>1 DEF Effect, Asked
      <4> QED BY <4>2 DEF Promise!Complete
    <3> QED BY <1>7, <3>1, <3>2 DEF Answers
  <2>3. Promise!Open(w)
    BY <1>7, OpenCall DEF Answers
  <2>4. answer' = [answer EXCEPT ![w] = "ok"]
    BY <1>7 DEF Answers, EndsWith
  <2>5. AskedOf' = AskedOf /\ EffectOf' = EffectOf
    BY <2>1, ShapeIsLocal DEF AskedOf, EffectOf
  <2>6. Promise!Succeed(w)
    BY <2>2, <2>3, <2>4, <2>5 DEF Promise!Succeed, AskedOf, EffectOf
  <2> QED BY <2>6 DEF Promise!BookCallNext
<1> QED BY <1>1, <1>2, <1>3, <1>4, <1>5, <1>6, <1>7 DEF Shape

LEMMA RestartIsPromised ==
    ASSUME CallInv, Restarts
    PROVE  Promise!Fail
<1>1. ASSUME NEW w \in Calls
      PROVE  Asked(w)' = Asked(w) /\ Effect(w)' = Effect(w)
  BY <1>1 DEF Restarts, Asked, Effect
<1>2. AskedOf' = AskedOf /\ EffectOf' = EffectOf
  BY <1>1 DEF AskedOf, EffectOf
<1>3. Running \in SUBSET {w \in Calls : Promise!Open(w)}
  BY OpenCall DEF Running
<1>4. answer' = [w \in Calls |-> IF w \in Running THEN "error" ELSE answer[w]]
  BY DEF Restarts
<1> QED BY <1>2, <1>3, <1>4 DEF Promise!Fail, AskedOf, EffectOf

(* Every step of the service is one BookCall allows: a call is carried out *)
(* at most once, and "ok" means in full (checkout.go, errUnauthorized is   *)
(* returned by step 1 only).                                               *)
THEOREM CallsKeepPromise == CheckoutSpec => ImplementsBookCall
<1>1. CallInv /\ [CheckoutNext]_vars => [Promise!BookCallNext]_(Promise!bookVars)
  <2>1. CallInv /\ Elsewhere => UNCHANGED Promise!bookVars
    BY DEF Elsewhere, Promise!bookVars, Asked, Effect
  <2>2. CallInv /\ Restarts => Promise!BookCallNext
    BY RestartIsPromised DEF Promise!BookCallNext
  <2> QED BY <2>1, <2>2, NextShape, ShapeIsPromised
<1> QED
  BY <1>1, PromiseInit, CallInvariant, PTL
     DEF CheckoutSpec, ImplementsBookCall, Promise!BookCallSpec
-----------------------------------------------------------------------------
(* Calls of one account stay apart.                                        *)

CheckingOut == {"pay", "match", "track"}
NotYet == {"idle", "load", "store", "done"}

SharedTypeOK ==
    /\ cached \in Calls \cup {NoCall}
    /\ jar \in [Calls -> Nat] /\ loggedIn \in [Calls -> BOOLEAN]
    /\ loginMu \in [Calls -> Calls \cup {NoCall}]
    /\ bookingMu \in [Calls -> Calls \cup {NoCall}]
    /\ client \in [Calls -> Calls \cup {NoCall}]
    /\ matched \in [Calls -> Calls \cup {NoCall}]
    /\ latest \in [1..MaxSessions -> Calls \cup {NoCall}]
    /\ sessions \in Nat /\ sessions <= MaxSessions /\ live \subseteq 1..sessions
    /\ faults \in Nat /\ expiries \in Nat

(* A session is in the jar of one client, and new ones are unused.         *)
SessionsAreOwn ==
    /\ \A c \in Calls : jar[c] <= sessions
    /\ \A c, d \in Calls : c # d /\ jar[c] = jar[d] => jar[c] = 0
    /\ \A s \in 1..MaxSessions : s > sessions => latest[s] = NoCall

(* A checkout holds the lock of its client, so that the latest reservation *)
(* of the client's session is its own, or none when somebody logged in.    *)
ApartOK(w) ==
    /\ pc[w] \notin NotYet => client[w] \in Calls
    /\ kind[w] = "book" /\ pc[w] \notin NotYet \cup {"lock"} => bookingMu[client[w]] = w
    /\ pc[w] \in CheckingOut =>
           jar[client[w]] = 0 \/ latest[jar[client[w]]] \in {w, NoCall}
    /\ matched[w] \in {w, NoCall}

(* Where nothing fails and no session ends, a call that has a session      *)
(* keeps it: only the holder of loginMu logs in, and only once.            *)
SmoothOK(w) ==
    /\ pc[w] \notin {"unflag", "drop"}
    /\ pc[w] \in CheckingOut \cup {"send"} => loggedIn[client[w]]
    /\ pc[w] \in {"login", "confirm"} => loginMu[client[w]] = w /\ ~loggedIn[client[w]]
    /\ pc[w] = "confirm" => jar[client[w]] # 0
    /\ pc[w] \in {"pay", "match"} => latest[jar[client[w]]] = w
    /\ pc[w] = "track" => matched[w] = w
    /\ answer[w] = "error" => w \in refused
    /\ answer[w] = "ok" /\ kind[w] = "book" => matched[w] = w
SessionsLast == live = 1..sessions /\ \A c \in Calls : loggedIn[c] => jar[c] # 0

Smooth == faults = 0 /\ expiries = 0
ApartInv ==
    /\ SharedTypeOK /\ SessionsAreOwn /\ \A w \in Calls : ApartOK(w)
    /\ Smooth => SessionsLast /\ \A w \in Calls : SmoothOK(w)

(* A step of w that touches no session: it moves, and takes or gives back  *)
(* locks.                                                                  *)
Quiet(w, l) ==
    /\ pc' = [pc EXCEPT ![w] = l]
    /\ \A v \in Calls \ {w} : /\ client'[v] = client[v] /\ kind'[v] = kind[v]
                              /\ answer'[v] = answer[v]
    /\ client' \in [Calls -> Calls \cup {NoCall}]
    /\ cached' \in Calls \cup {NoCall}
    /\ loginMu' \in [Calls -> Calls \cup {NoCall}]
    /\ bookingMu' \in [Calls -> Calls \cup {NoCall}]
    /\ \A c \in Calls : /\ loginMu[c] \notin {w, NoCall} => loginMu'[c] = loginMu[c]
                        /\ bookingMu[c] \notin {w, NoCall} => bookingMu'[c] = bookingMu[c]
    /\ UNCHANGED <<jar, loggedIn, sessions, live, latest, matched>>
    /\ refused \subseteq refused'
    /\ expiries' = expiries /\ faults' \in {faults, faults + 1}

(* What is left to show of such a step.                                    *)
LEMMA QuietKeeps ==
    ASSUME CallInv, ApartInv, NEW w \in Calls, NEW l \in Steps, Quiet(w, l),
           ApartOK(w)', Smooth' /\ SessionsLast /\ SmoothOK(w) => SmoothOK(w)'
    PROVE  ApartInv'
<1> USE DEF ApartInv
<1>1. \A v \in Calls \ {w} : pc'[v] = pc[v]
  BY DEF Quiet, CallInv, CallTypeOK
<1>2. SharedTypeOK'
  BY DEF Quiet, SharedTypeOK
<1>3. SessionsAreOwn'
  BY DEF Quiet, SessionsAreOwn
<1>4. ASSUME NEW v \in Calls \ {w}
      PROVE  ApartOK(v)'
  BY <1>1, <1>4, CheckoutAssumption DEF Quiet, ApartOK, CheckoutAssumption
<1>5. ASSUME NEW v \in Calls \ {w}, SmoothOK(v)
      PROVE  SmoothOK(v)'
  <2>1. pc[v] \in {"login", "confirm"} => loginMu'[client[v]] = v
    <3>1. pc[v] \in {"login", "confirm"} => client[v] \in Calls
      BY DEF ApartOK, NotYet
    <3> QED
      BY <1>5, <3>1, CheckoutAssumption DEF Quiet, SmoothOK, CheckoutAssumption
  <2> QED
    BY <1>1, <1>5, <2>1 DEF Quiet, SmoothOK
<1>6. Smooth' => Smooth
  BY DEF Quiet, Smooth, SharedTypeOK
<1>7. SessionsLast => SessionsLast'
  BY DEF Quiet, SessionsLast
<1> QED
  BY <1>2, <1>3, <1>4, <1>5, <1>6, <1>7

LEMMA SmoothSession ==
    ASSUME ApartInv, Smooth, NEW w \in Calls, client[w] \in Calls, loggedIn[client[w]]
    PROVE  Authorized(w)
BY DEF ApartInv, Smooth, SessionsLast, SessionsAreOwn, SharedTypeOK, Authorized, Jar

(* What a lock released by its holder leaves.                              *)
LEMMA ReleasedLocks ==
    ASSUME NEW mu \in [Calls -> Calls \cup {NoCall}], NEW w \in Calls
    PROVE  /\ Released(mu, w) \in [Calls -> Calls \cup {NoCall}]
           /\ \A c \in Calls : mu[c] \notin {w, NoCall} => Released(mu, w)[c] = mu[c]
BY DEF Released

LEMMA QuietGoto ==
    ASSUME ApartInv, CallInv, NEW w \in Calls, NEW l, Goto(w, l),
           UNCHANGED <<cached, jar, loggedIn, callVars, sessions, live, latest, matched,
                       refused, expiries>>,
           faults' \in {faults, faults + 1}
    PROVE  Quiet(w, l)
BY DEF Quiet, Goto, ApartInv, SharedTypeOK, lockVars, callVars

LEMMA QuietEnd ==
    ASSUME ApartInv, CallInv, NEW w \in Calls, NEW a, End(w, a),
           UNCHANGED <<cached, jar, loggedIn, callVars, sessions, live, latest, matched,
                       expiries>>,
           refused \subseteq refused', faults' \in {faults, faults + 1}
    PROVE  Quiet(w, "done") /\ answer'[w] = a
<1>1. answer'[w] = a /\ \A v \in Calls \ {w} : answer'[v] = answer[v]
  BY DEF End, CallInv, CallTypeOK
<1>2. /\ loginMu' \in [Calls -> Calls \cup {NoCall}]
      /\ \A c \in Calls : loginMu[c] \notin {w, NoCall} => loginMu'[c] = loginMu[c]
  <2>1. loginMu' = Released(loginMu, w) /\ loginMu \in [Calls -> Calls \cup {NoCall}]
    BY DEF End, ApartInv, SharedTypeOK
  <2> QED
    BY <2>1, ReleasedLocks
<1>3. /\ bookingMu' \in [Calls -> Calls \cup {NoCall}]
      /\ \A c \in Calls : bookingMu[c] \notin {w, NoCall} => bookingMu'[c] = bookingMu[c]
  <2>1. bookingMu' = Released(bookingMu, w) /\ bookingMu \in [Calls -> Calls \cup {NoCall}]
    BY DEF End, ApartInv, SharedTypeOK
  <2> QED
    BY <2>1, ReleasedLocks
<1>4. cached' \in Calls \cup {NoCall} /\ client' \in [Calls -> Calls \cup {NoCall}]
  BY DEF ApartInv, SharedTypeOK, callVars
<1> QED
  BY <1>1, <1>2, <1>3, <1>4 DEF Quiet, End, callVars

(* A call that ends: with a fault whatever it answers, without one only if *)
(* the answer is due.                                                      *)
LEMMA EndKeeps ==
    ASSUME CallInv, ApartInv, NEW w \in Calls, NEW a, End(w, a),
           UNCHANGED <<cached, jar, loggedIn, callVars, sessions, live, latest, matched,
                       expiries>>,
           refused \subseteq refused', faults' \in {faults, faults + 1},
           Smooth' => \/ a = "error" /\ w \in refused'
                      \/ a = "ok" /\ (kind[w] = "book" => matched[w] = w)
    PROVE  ApartInv'
<1>1. Quiet(w, "done") /\ answer'[w] = a
  BY QuietEnd
<1>2. pc'[w] = "done"
  BY <1>1 DEF Quiet, CallInv, CallTypeOK
<1>3. ApartOK(w)'
  BY <1>1, <1>2 DEF ApartInv, ApartOK, Quiet, NotYet, CheckingOut
<1>4. Smooth' => SmoothOK(w)'
  BY <1>1, <1>2 DEF Quiet, SmoothOK, CheckingOut, callVars
<1> QED
  BY <1>1, <1>3, <1>4, QuietKeeps DEF Steps

-----------------------------------------------------------------------------
(* The client object and the locks.                                        *)

LEMMA ApartClient ==
    ASSUME CallInv, ApartInv, NEW w \in Calls,
           Load(w) \/ Store(w) \/ \E k \in Kinds : Ask(w, k)
    PROVE  ApartInv'
<1> USE DEF ApartInv
<1>1. ASSUME NEW k \in Kinds, Ask(w, k)
      PROVE  ApartInv'
  <2>1. Quiet(w, "load")
    BY <1>1 DEF Ask, Goto, Quiet, clientVars, platformVars, lockVars, SharedTypeOK,
                CallInv, CallTypeOK
  <2>2. pc'[w] = "load" /\ answer'[w] = answer[w] /\ pc[w] = "idle"
    BY <1>1, <2>1 DEF Ask, Goto, Quiet, CallInv, CallTypeOK
  <2>3. ApartOK(w)'
    BY <2>1, <2>2 DEF Quiet, ApartOK, NotYet, CheckingOut
  <2>4. answer[w] = "none"
    BY <2>2 DEF CallInv, CallOK
  <2>5. SmoothOK(w) => SmoothOK(w)'
    BY <2>1, <2>2, <2>4 DEF Quiet, SmoothOK, CheckingOut
  <2> QED
    BY <2>1, <2>3, <2>5, QuietKeeps DEF Steps, Before
<1>2. CASE Load(w) \/ Store(w)
  <2>1. PICK l \in {"store", "lock", "ensure"} :
            /\ pc' = [pc EXCEPT ![w] = l] /\ (l = "ensure" => kind[w] # "book")
            /\ UNCHANGED <<answer, lockVars>>
    BY <1>2 DEF Load, Store, Begin, Goto
  <2>2. Quiet(w, l) /\ kind' = kind
    BY <1>2, <2>1 DEF Load, Store, Quiet, clientVars, platformVars, lockVars, SharedTypeOK
  <2>3. pc'[w] = l /\ answer'[w] = answer[w] /\ pc[w] \in {"load", "store"}
    BY <1>2, <2>1 DEF Load, Store, CallInv, CallTypeOK
  <2>4. l # "store" => client'[w] \in Calls
    BY <1>2, <2>1 DEF Load, Store, Begin, Goto, SharedTypeOK, CallInv, CallTypeOK
  <2>5. ApartOK(w)'
    BY <2>1, <2>2, <2>3, <2>4 DEF Quiet, ApartOK, NotYet, CheckingOut
  <2>6. answer[w] = "none"
    BY <2>3 DEF CallInv, CallOK
  <2>7. SmoothOK(w) => SmoothOK(w)'
    BY <2>2, <2>3, <2>6 DEF Quiet, SmoothOK, CheckingOut
  <2> QED
    BY <2>2, <2>5, <2>7, QuietKeeps DEF Steps, Before
<1> QED
  BY <1>1, <1>2

LEMMA ApartLocks ==
    ASSUME CallInv, ApartInv, NEW w \in Calls, Lock(w) \/ Ensure(w) \/ Enter(w)
    PROVE  ApartInv'
<1> USE DEF ApartInv
<1>1. PICK l \in {"ensure", "send", "enter", "login"} : pc' = [pc EXCEPT ![w] = l]
  BY DEF Lock, Ensure, Enter, Goto
<1>2. /\ pc'[w] = l /\ pc[w] \in {"lock", "ensure", "enter"} /\ client[w] \in Calls
      /\ UNCHANGED <<answer, kind, client, jar, loggedIn, matched>>
  BY <1>1 DEF Lock, Ensure, Enter, Goto, CallInv, CallTypeOK, callVars, clientVars,
              ApartOK, NotYet
<1>3. Quiet(w, l)
  <2>1. UNCHANGED <<cached, sessions, live, latest, refused, expiries, faults>>
    BY DEF Lock, Ensure, Enter, platformVars
  <2>2. \/ bookingMu[client[w]] = NoCall /\ bookingMu' = [bookingMu EXCEPT ![client[w]] = w]
        \/ bookingMu' = bookingMu
    BY DEF Lock, Ensure, Enter, Goto, lockVars
  <2>3. \/ loginMu[client[w]] = NoCall /\ loginMu' = [loginMu EXCEPT ![client[w]] = w]
        \/ loginMu' = loginMu
    BY DEF Lock, Ensure, Enter, Goto, lockVars
  <2>4. /\ loginMu' \in [Calls -> Calls \cup {NoCall}]
        /\ \A c \in Calls : loginMu[c] \notin {w, NoCall} => loginMu'[c] = loginMu[c]
    BY <1>2, <2>3 DEF SharedTypeOK
  <2>5. /\ bookingMu' \in [Calls -> Calls \cup {NoCall}]
        /\ \A c \in Calls : bookingMu[c] \notin {w, NoCall} => bookingMu'[c] = bookingMu[c]
    BY <1>2, <2>2 DEF SharedTypeOK
  <2> QED
    BY <1>1, <1>2, <2>1, <2>4, <2>5 DEF Quiet, SharedTypeOK
<1>4. kind[w] = "book" => bookingMu'[client[w]] = w
  <2>1. CASE Lock(w)
    BY <1>2, <2>1 DEF Lock, SharedTypeOK
  <2>2. CASE Ensure(w) \/ Enter(w)
    BY <1>2, <2>2 DEF Ensure, Enter, Goto, lockVars, ApartOK, NotYet
  <2> QED
    BY <2>1, <2>2
<1>5. ApartOK(w)'
  BY <1>2, <1>4 DEF ApartOK, NotYet, CheckingOut
<1>6. l = "send" => loggedIn[client[w]]
  BY <1>1, <1>2 DEF Lock, Ensure, Enter, Goto, HasSession, CallInv, CallTypeOK
<1>7. l = "login" => loginMu'[client[w]] = w /\ ~HasSession(w)
  BY <1>1, <1>2 DEF Lock, Ensure, Enter, Goto, CallInv, CallTypeOK, SharedTypeOK
<1>8. SessionsLast /\ l = "login" => ~loggedIn[client[w]]
  BY <1>2, <1>7 DEF SessionsLast, HasSession, Jar
<1>9. answer[w] = "none"
  BY <1>2 DEF CallInv, CallOK
<1>10. SessionsLast /\ SmoothOK(w) => SmoothOK(w)'
  BY <1>2, <1>6, <1>7, <1>8, <1>9 DEF SmoothOK, CheckingOut
<1> QED
  BY <1>3, <1>5, <1>10, QuietKeeps DEF Steps, Before
-----------------------------------------------------------------------------
(* Logging in, and the session's end.                                      *)

LEMMA MaxIsNat == IsFiniteSet(Calls) => MaxSessions \in Nat
BY FS_CardinalityType DEF MaxSessions

(* Where nothing fails, whoever is at the login is alone with its client.  *)
LEMMA AloneAtLogin ==
    ASSUME ApartInv, Smooth, NEW w \in Calls, pc[w] \in {"login", "confirm"},
           NEW v \in Calls, v # w, client[v] = client[w]
    PROVE  pc[v] \notin CheckingOut \cup {"send", "login", "confirm"}
BY DEF ApartInv, SmoothOK

LEMMA ApartLogin ==
    ASSUME IsFiniteSet(Calls), CallInv, ApartInv, NEW w \in Calls, Login(w)
    PROVE  ApartInv'
<1> USE DEF ApartInv
<1>1. pc[w] = "login" /\ client[w] \in Calls
  BY DEF Login, ApartOK, NotYet
<1>2. CASE Fails /\ End(w, "error") /\ UNCHANGED <<jar, sessions, live>>
  <2>1. ~Smooth' /\ faults' = faults + 1
    BY <1>2 DEF Fails, Smooth, SharedTypeOK
  <2>2. UNCHANGED <<cached, jar, loggedIn, callVars, sessions, live, latest, matched,
                    refused, expiries>>
    BY <1>2 DEF Login
  <2> QED
    BY <1>2, <2>1, <2>2, EndKeeps
<1>3. CASE Fails /\ Goto(w, "confirm") /\ UNCHANGED <<jar, sessions, live>>
  <2>1. ~Smooth' /\ faults' = faults + 1
    BY <1>3 DEF Fails, Smooth, SharedTypeOK
  <2>2. UNCHANGED <<cached, jar, loggedIn, callVars, sessions, live, latest, matched,
                    refused, expiries>>
    BY <1>3 DEF Login
  <2>3. Quiet(w, "confirm")
    BY <1>3, <2>1, <2>2, QuietGoto
  <2>4. pc'[w] = "confirm"
    BY <2>3 DEF Quiet, CallInv, CallTypeOK
  <2>5. UNCHANGED <<client, kind, bookingMu, matched>>
    BY <1>3, <2>2 DEF Goto, lockVars, callVars
  <2>6. ApartOK(w)'
    BY <1>1, <2>4, <2>5 DEF ApartOK, NotYet, CheckingOut
  <2> QED
    BY <2>1, <2>3, <2>6, QuietKeeps DEF Steps, Before
<1>4. CASE /\ Works /\ sessions < MaxSessions
           /\ sessions' = sessions + 1
           /\ live' = live \cup {sessions'}
           /\ jar' = [jar EXCEPT ![client[w]] = sessions']
           /\ Goto(w, "confirm")
  <2>1. UNCHANGED <<cached, loggedIn, kind, client, latest, matched, refused, expiries,
                    faults, answer, loginMu, bookingMu>>
    BY <1>4 DEF Login, Goto, Works, lockVars, callVars
  <2>2. pc'[w] = "confirm" /\ \A v \in Calls \ {w} : pc'[v] = pc[v]
    BY <1>4 DEF Goto, CallInv, CallTypeOK
  <2>3. /\ jar' \in [Calls -> Nat] /\ jar'[client[w]] = sessions + 1
        /\ \A c \in Calls \ {client[w]} : jar'[c] = jar[c]
    BY <1>1, <1>4 DEF SharedTypeOK
  <2>4. MaxSessions' = MaxSessions
    BY DEF MaxSessions
  <2>5. SharedTypeOK'
    <3>1. live' \subseteq 1..sessions' /\ sessions' \in Nat
      BY <1>4 DEF SharedTypeOK
    <3>2. sessions' <= MaxSessions
      BY <1>4, MaxIsNat DEF SharedTypeOK
    <3> QED
      BY <2>1, <2>3, <2>4, <3>1, <3>2 DEF SharedTypeOK
  <2>6. sessions + 1 \in 1..MaxSessions /\ latest[sessions + 1] = NoCall
    BY <1>4, MaxIsNat DEF SharedTypeOK, SessionsAreOwn
  <2>7. SessionsAreOwn'
    <3>1. \A c \in Calls : jar'[c] <= sessions'
      BY <1>4, <2>3 DEF SharedTypeOK, SessionsAreOwn
    <3>2. ASSUME NEW c \in Calls, NEW d \in Calls, c # d, jar'[c] = jar'[d]
          PROVE  jar'[c] = 0
      BY <3>2, <2>3 DEF SharedTypeOK, SessionsAreOwn
    <3>3. ASSUME NEW s \in 1..MaxSessions, s > sessions'
          PROVE  latest'[s] = NoCall
      BY <3>3, <1>4, <2>1, MaxIsNat DEF SharedTypeOK, SessionsAreOwn
    <3> QED
      BY <2>4, <3>1, <3>2, <3>3 DEF SessionsAreOwn
  <2>8. ASSUME NEW v \in Calls
        PROVE  ApartOK(v)'
    <3>1. pc[v] \in CheckingOut \/ pc'[v] \in CheckingOut => client[v] \in Calls /\ v # w
      BY <1>1, <2>2 DEF ApartOK, CheckingOut, NotYet
    <3>2. pc'[v] \in CheckingOut =>
              jar'[client'[v]] = 0 \/ latest'[jar'[client'[v]]] \in {v, NoCall}
      BY <2>1, <2>2, <2>3, <2>6, <3>1 DEF ApartOK
    <3>3. pc'[v] \notin NotYet => pc[v] \notin NotYet
      BY <1>1, <2>2 DEF NotYet
    <3>4. pc'[v] \notin NotYet \cup {"lock"} => pc[v] \notin NotYet \cup {"lock"}
      BY <1>1, <2>2 DEF NotYet
    <3> QED
      BY <2>1, <3>2, <3>3, <3>4 DEF ApartOK
  <2>9. ASSUME Smooth'
        PROVE  SessionsLast' /\ \A v \in Calls : SmoothOK(v)'
    <3>1. Smooth
      BY <2>1, <2>9 DEF Smooth
    <3>2. SessionsLast'
      BY <1>4, <2>1, <2>3, <3>1 DEF SessionsLast, SharedTypeOK
    <3>3. ASSUME NEW v \in Calls \ {w}
          PROVE  SmoothOK(v)'
      <4>1. CASE client[v] = client[w]
        <5>1. pc'[v] \notin CheckingOut \cup {"send", "login", "confirm"}
          BY <1>1, <2>2, <3>1, <4>1, AloneAtLogin
        <5> QED
          BY <2>1, <2>2, <3>1, <5>1 DEF SmoothOK, CheckingOut
      <4>2. CASE client[v] # client[w]
        <5>1. pc[v] \in CheckingOut \cup {"send", "login", "confirm"} => jar'[client[v]] = jar[client[v]]
          BY <2>3, <4>2 DEF ApartOK, NotYet, CheckingOut
        <5> QED
          BY <2>1, <2>2, <3>1, <5>1 DEF SmoothOK, CheckingOut
      <4> QED
        BY <4>1, <4>2
    <3>4. SmoothOK(w)'
      <4>1. jar'[client[w]] # 0
        BY <2>3 DEF SharedTypeOK
      <4>2. SmoothOK(w)
        BY <3>1
      <4> QED
        BY <1>1, <2>1, <2>2, <4>1, <4>2 DEF SmoothOK, CheckingOut
    <3> QED
      BY <3>2, <3>3, <3>4
  <2> QED
    BY <2>5, <2>7, <2>8, <2>9
<1> QED
  BY <1>2, <1>3, <1>4 DEF Login

LEMMA ApartConfirm ==
    ASSUME CallInv, ApartInv, NEW w \in Calls, Confirm(w)
    PROVE  ApartInv'
<1> USE DEF ApartInv
<1>1. /\ pc[w] = "confirm" /\ client[w] \in Calls
      /\ UNCHANGED <<cached, jar, client, kind, sessions, live, latest, refused, matched,
                     expiries, faults>>
  BY DEF Confirm, ApartOK, NotYet, callVars, platformVars
<1>2. CASE Jar(w) = 0
  <2>1. End(w, "error") /\ UNCHANGED loggedIn
    BY <1>2 DEF Confirm
  <2>2. ~Smooth'
    BY <1>1, <1>2 DEF Smooth, SmoothOK, Jar
  <2> QED
    BY <1>1, <2>1, <2>2, EndKeeps DEF callVars
<1>3. CASE Jar(w) # 0
  <2>1. /\ loggedIn' = [loggedIn EXCEPT ![client[w]] = TRUE]
        /\ pc' = [pc EXCEPT ![w] = "send"]
        /\ loginMu' = Released(loginMu, w)
        /\ UNCHANGED <<bookingMu, answer>>
    BY <1>3 DEF Confirm
  <2>2. pc'[w] = "send" /\ \A v \in Calls \ {w} : pc'[v] = pc[v]
    BY <2>1 DEF CallInv, CallTypeOK
  <2>3. /\ loginMu' \in [Calls -> Calls \cup {NoCall}]
        /\ \A c \in Calls : loginMu[c] \notin {w, NoCall} => loginMu'[c] = loginMu[c]
    BY <2>1, ReleasedLocks DEF SharedTypeOK
  <2>4. /\ loggedIn' \in [Calls -> BOOLEAN]
        /\ loggedIn'[client[w]] = TRUE
        /\ \A c \in Calls : c # client[w] => loggedIn'[c] = loggedIn[c]
    BY <1>1, <2>1 DEF SharedTypeOK
  <2>5. SharedTypeOK'
    BY <1>1, <2>1, <2>3, <2>4 DEF SharedTypeOK
  <2>6. SessionsAreOwn'
    BY <1>1 DEF SessionsAreOwn
  <2>7. ASSUME NEW v \in Calls
        PROVE  ApartOK(v)'
    BY <1>1, <2>1, <2>2 DEF ApartOK, NotYet, CheckingOut
  <2>8. ASSUME Smooth'
        PROVE  SessionsLast' /\ \A v \in Calls : SmoothOK(v)'
    <3>1. Smooth
      BY <1>1, <2>8 DEF Smooth
    <3>2. SessionsLast'
      BY <1>1, <1>3, <2>4, <3>1 DEF SessionsLast, Jar
    <3>3. ASSUME NEW v \in Calls \ {w}
          PROVE  SmoothOK(v)'
      <4>1. CASE client[v] = client[w]
        <5>1. pc'[v] \notin CheckingOut \cup {"send", "login", "confirm"}
          BY <1>1, <2>2, <3>1, <4>1, AloneAtLogin
        <5> QED
          BY <1>1, <2>1, <2>2, <3>1, <5>1 DEF SmoothOK, CheckingOut
      <4>2. CASE client[v] # client[w]
        <5>1. pc[v] \in CheckingOut \cup {"send", "login", "confirm"} =>
                  loggedIn'[client[v]] = loggedIn[client[v]]
          BY <2>4, <4>2 DEF ApartOK, NotYet, CheckingOut
        <5>2. pc[v] \in {"login", "confirm"} => loginMu'[client[v]] = v
          <6>1. pc[v] \in {"login", "confirm"} => client[v] \in Calls /\ loginMu[client[v]] = v
            BY <3>1 DEF ApartOK, NotYet, SmoothOK
          <6> QED
            BY <2>3, <6>1, CheckoutAssumption DEF CheckoutAssumption
        <5>3. SmoothOK(v)
          BY <3>1
        <5> QED
          BY <1>1, <2>1, <2>2, <5>1, <5>2, <5>3 DEF SmoothOK, CheckingOut
      <4> QED
        BY <4>1, <4>2
    <3>4. SmoothOK(w)'
      <4>1. answer[w] = "none"
        BY <1>1 DEF CallInv, CallOK
      <4> QED
        BY <1>1, <2>1, <2>2, <2>4, <4>1 DEF SmoothOK, CheckingOut
    <3> QED
      BY <3>2, <3>3, <3>4
  <2> QED
    BY <2>5, <2>6, <2>7, <2>8
<1> QED
  BY <1>2, <1>3

(* invalidateSession: only after a refusal, which needs an ended session   *)
(* or a fault.                                                             *)
LEMMA ApartInvalidate ==
    ASSUME CallInv, ApartInv, NEW w \in Calls, Unflag(w) \/ Drop(w)
    PROVE  ApartInv'
<1> USE DEF ApartInv
<1>1. PICK l \in {"drop", "ensure"} : pc' = [pc EXCEPT ![w] = l]
  BY DEF Unflag, Drop, Goto
<1>2. /\ pc[w] \in {"unflag", "drop"} /\ client[w] \in Calls
      /\ UNCHANGED <<cached, client, kind, sessions, live, latest, refused, matched,
                     answer, loginMu, bookingMu, expiries, faults>>
  BY DEF Unflag, Drop, Goto, ApartOK, NotYet, callVars, platformVars, lockVars
<1>3. pc'[w] = l /\ \A v \in Calls \ {w} : pc'[v] = pc[v]
  BY <1>1 DEF CallInv, CallTypeOK
<1>4. /\ jar' \in [Calls -> Nat] /\ loggedIn' \in [Calls -> BOOLEAN]
      /\ \A c \in Calls : jar'[c] \in {0, jar[c]}
  <2>1. CASE Unflag(w)
    BY <2>1 DEF Unflag, SharedTypeOK
  <2>2. CASE Drop(w)
    BY <1>2, <2>2 DEF Drop, SharedTypeOK
  <2> QED
    BY <2>1, <2>2
<1>5. SharedTypeOK'
  BY <1>2, <1>4 DEF SharedTypeOK
<1>6. SessionsAreOwn'
  <2>1. ASSUME NEW c \in Calls
        PROVE  jar'[c] <= sessions'
    <3>1. jar'[c] \in {0, jar[c]} /\ jar[c] <= sessions /\ sessions \in Nat
      BY <1>4 DEF SharedTypeOK, SessionsAreOwn
    <3> QED
      BY <1>2, <3>1
  <2>2. ASSUME NEW c \in Calls, NEW d \in Calls, c # d, jar'[c] = jar'[d]
        PROVE  jar'[c] = 0
    BY <1>4, <2>2 DEF SessionsAreOwn
  <2> QED
    BY <1>2, <2>1, <2>2 DEF SessionsAreOwn
<1>7. ASSUME NEW v \in Calls
      PROVE  ApartOK(v)'
  <2>1. pc'[v] \in CheckingOut => pc[v] \in CheckingOut /\ client[v] \in Calls
    BY <1>3 DEF ApartOK, NotYet, CheckingOut
  <2>2. pc'[v] \in CheckingOut =>
            jar'[client'[v]] = 0 \/ latest'[jar'[client'[v]]] \in {v, NoCall}
    BY <1>2, <1>4, <2>1 DEF ApartOK
  <2>3. pc'[v] \notin NotYet => pc[v] \notin NotYet
    BY <1>2, <1>3 DEF NotYet
  <2>4. pc'[v] \notin NotYet \cup {"lock"} => pc[v] \notin NotYet \cup {"lock"}
    BY <1>2, <1>3 DEF NotYet
  <2> QED
    BY <1>2, <2>2, <2>3, <2>4 DEF ApartOK
<1>8. ~Smooth'
  BY <1>2 DEF Smooth, SmoothOK
<1> QED
  BY <1>5, <1>6, <1>7, <1>8
-----------------------------------------------------------------------------
(* Requests.                                                               *)

(* A refusal needs an ended session or a fault.                            *)
LEMMA ApartRefused ==
    ASSUME CallInv, ApartInv, NEW w \in Calls, pc[w] = "send",
           TurnedDown(w) \/ ((Rejected(w) \/ Broken(w)) /\ UNCHANGED refused),
           UNCHANGED <<kind, latest>>, RequestUnchanged
    PROVE  ApartInv'
<1> USE DEF ApartInv
<1>1. client[w] \in Calls
  BY DEF ApartOK, NotYet
<1>2. UNCHANGED <<cached, jar, loggedIn, callVars, sessions, live, latest, matched, expiries>>
  BY DEF RequestUnchanged, clientVars, callVars
<1>3. refused \subseteq refused' /\ faults' \in {faults, faults + 1}
  BY DEF TurnedDown, Rejected, Broken, Works, Fails
<1>4. faults' = faults + 1 => ~Smooth'
  BY DEF Smooth, SharedTypeOK
<1>5. Smooth => Authorized(w)
  BY <1>1, SmoothSession DEF SmoothOK
<1>6. Smooth' => Smooth /\ faults' = faults
  BY <1>2, <1>3, <1>4 DEF Smooth
<1>7. CASE TurnedDown(w) \/ Broken(w)
  <2>1. End(w, "error")
    BY <1>7 DEF TurnedDown, Broken
  <2>2. Smooth' => w \in refused'
    BY <1>4, <1>7 DEF TurnedDown, Broken, Fails
  <2> QED
    BY <1>2, <1>3, <2>1, <2>2, EndKeeps
<1>8. CASE Rejected(w) /\ UNCHANGED refused
  <2>1. ~Smooth'
    BY <1>4, <1>5, <1>6, <1>8 DEF Rejected, Fails
  <2>2. CASE End(w, "error")
    BY <1>2, <1>3, <2>1, <2>2, EndKeeps
  <2>3. CASE Goto(w, "unflag")
    <3>1. Quiet(w, "unflag")
      BY <1>2, <1>3, <1>8, <2>3, QuietGoto DEF Rejected
    <3>2. pc'[w] = "unflag"
      BY <3>1 DEF Quiet, CallInv, CallTypeOK
    <3>3. UNCHANGED <<client, kind, bookingMu, matched>>
      BY <1>2, <2>3 DEF Goto, lockVars, callVars
    <3>4. ApartOK(w)'
      BY <3>2, <3>3 DEF ApartOK, NotYet, CheckingOut
    <3> QED
      BY <2>1, <3>1, <3>4, QuietKeeps DEF Steps, Before
  <2> QED
    BY <1>8, <2>2, <2>3 DEF Rejected, Unauthorized
<1> QED
  BY <1>7, <1>8

(* A request that was carried out, or failed after it was.                 *)
LEMMA ApartAnswered ==
    ASSUME CallInv, ApartInv, NEW w \in Calls,
           (Works /\ End(w, "ok") /\ kind[w] # "book") \/ (Fails /\ End(w, "error")),
           UNCHANGED <<kind, latest, refused>>, RequestUnchanged
    PROVE  ApartInv'
<1>1. UNCHANGED <<cached, jar, loggedIn, callVars, sessions, live, latest, matched, expiries>>
  BY DEF RequestUnchanged, clientVars, callVars
<1>2. Fails => ~Smooth'
  BY DEF Fails, Smooth, ApartInv, SharedTypeOK
<1>3. faults' \in {faults, faults + 1}
  BY DEF Works, Fails
<1>4. CASE Works /\ End(w, "ok") /\ kind[w] # "book"
  BY <1>1, <1>3, <1>4, EndKeeps
<1>5. CASE Fails /\ End(w, "error")
  BY <1>1, <1>2, <1>3, <1>5, EndKeeps
<1> QED
  BY <1>4, <1>5

LEMMA ApartLooks ==
    ASSUME CallInv, ApartInv, NEW w \in Calls, Cancel(w) \/ Read(w) \/ Courts(w)
    PROVE  ApartInv'
<1>1. pc[w] = "send" /\ kind[w] # "book" /\ RequestUnchanged /\ UNCHANGED latest
  BY DEF Cancel, Read, Courts
<1>2. CASE Cancel(w)
  <2>1. UNCHANGED kind
    BY <1>2 DEF Cancel
  <2>2. CASE TurnedDown(w) \/ ((Rejected(w) \/ Broken(w)) /\ UNCHANGED refused)
    BY <1>1, <2>1, <2>2, ApartRefused
  <2>3. CASE ((Works /\ End(w, "ok")) \/ (Fails /\ End(w, "error"))) /\ UNCHANGED refused
    BY <1>1, <2>1, <2>3, ApartAnswered
  <2> QED
    BY <1>2, <2>2, <2>3 DEF Cancel
<1>3. CASE Read(w)
  <2>1. UNCHANGED kind
    BY <1>3 DEF Read
  <2>2. CASE TurnedDown(w) \/ ((Rejected(w) \/ Broken(w)) /\ UNCHANGED refused)
    BY <1>1, <2>1, <2>2, ApartRefused
  <2>3. CASE Works /\ End(w, "ok") /\ UNCHANGED refused
    BY <1>1, <2>1, <2>3, ApartAnswered
  <2> QED
    BY <1>3, <2>2, <2>3 DEF Read
<1>4. CASE Courts(w)
  <2>1. UNCHANGED refused
    BY <1>4 DEF Courts
  <2>2. CASE Broken(w) /\ UNCHANGED kind
    BY <1>1, <2>1, <2>2, ApartRefused
  <2>3. CASE ~Authorized(w) /\ Works /\ Unauthorized(w) /\ UNCHANGED kind
    BY <1>1, <2>1, <2>3, ApartRefused DEF Rejected
  <2>4. CASE (Works \/ Fails) /\ kind[w] = "courts" /\ End(w, "ok") /\ UNCHANGED kind
    <3>1. faults' \in {faults, faults + 1}
      BY <2>4 DEF Works, Fails
    <3>2. UNCHANGED <<cached, jar, loggedIn, callVars, sessions, live, latest, matched, expiries>>
      BY <1>1, <2>4 DEF RequestUnchanged, clientVars, callVars
    <3> QED
      BY <1>1, <2>1, <2>4, <3>1, <3>2, EndKeeps
  <2>5. CASE (Works \/ Fails) /\ kind[w] = "list" /\ Goto(w, "ensure")
             /\ kind' = [kind EXCEPT ![w] = "read"]
    <3>1. faults' \in {faults, faults + 1}
      BY <2>5 DEF Works, Fails
    <3>2. UNCHANGED <<cached, jar, loggedIn, client, sessions, live, latest, matched, expiries,
                      answer, loginMu, bookingMu>>
      BY <1>1, <2>5 DEF RequestUnchanged, clientVars, Goto, lockVars
    <3>3. kind'[w] = "read" /\ \A v \in Calls \ {w} : kind'[v] = kind[v]
      BY <2>5 DEF CallInv, CallTypeOK
    <3>4. Quiet(w, "ensure")
      BY <2>1, <2>5, <3>1, <3>2, <3>3 DEF Goto, Quiet, ApartInv, SharedTypeOK
    <3>5. pc'[w] = "ensure"
      BY <3>4 DEF Quiet, CallInv, CallTypeOK
    <3>6. ApartOK(w)'
      BY <1>1, <3>2, <3>3, <3>5 DEF ApartInv, ApartOK, NotYet, CheckingOut
    <3>7. SmoothOK(w) => SmoothOK(w)'
      BY <1>1, <2>1, <3>2, <3>3, <3>5 DEF SmoothOK, CheckingOut
    <3> QED
      BY <3>4, <3>6, <3>7, QuietKeeps DEF Steps, Before
  <2> QED
    BY <1>4, <2>2, <2>3, <2>4, <2>5 DEF Courts
<1> QED
  BY <1>2, <1>3, <1>4

-----------------------------------------------------------------------------
(* The checkout.                                                           *)

(* What a step of a checkout does: it may change the latest reservation of *)
(* its session, to its own or none, and the match of its call.             *)
Checks(w, l) ==
    /\ pc[w] \in CheckingOut \cup {"send"} /\ kind[w] = "book"
    /\ pc' = [pc EXCEPT ![w] = l]
    /\ \A v \in Calls \ {w} : answer'[v] = answer[v] /\ matched'[v] = matched[v]
    /\ matched' \in [Calls -> Calls \cup {NoCall}]
    /\ matched'[w] \in {w, NoCall}
    /\ loginMu' \in [Calls -> Calls \cup {NoCall}]
    /\ bookingMu' \in [Calls -> Calls \cup {NoCall}]
    /\ \A c \in Calls : /\ loginMu[c] \notin {w, NoCall} => loginMu'[c] = loginMu[c]
                        /\ bookingMu[c] \notin {w, NoCall} => bookingMu'[c] = bookingMu[c]
    /\ \/ UNCHANGED latest
       \/ \E x \in {w, NoCall} : Authorized(w) /\ latest' = [latest EXCEPT ![Jar(w)] = x]
    /\ UNCHANGED <<cached, client, kind, jar, loggedIn, sessions, live, refused, expiries>>
    /\ faults' \in {faults, faults + 1}

(* A checkout has its client, and so its session, to itself: bookingMu.    *)
LEMMA CheckoutIsAlone ==
    ASSUME ApartInv, CallInv, NEW w \in Calls, NEW v \in Calls \ {w},
           pc[w] \in CheckingOut \cup {"send"}, kind[w] = "book", pc[v] \in CheckingOut
    PROVE  /\ client[w] \in Calls /\ client[v] \in Calls /\ client[v] # client[w]
           /\ Jar(w) # 0 => Jar(v) # Jar(w)
<1>1. kind[v] = "book"
  BY DEF CallInv, CallOK, CheckingOut
<1>2. /\ client[w] \in Calls /\ client[v] \in Calls
      /\ bookingMu[client[w]] = w /\ bookingMu[client[v]] = v
  BY <1>1 DEF ApartInv, ApartOK, NotYet, CheckingOut
<1> QED
  BY <1>2 DEF ApartInv, SessionsAreOwn, Jar

LEMMA ChecksKeeps ==
    ASSUME IsFiniteSet(Calls), CallInv, ApartInv, NEW w \in Calls, NEW l \in Steps,
           Checks(w, l), ApartOK(w)', Smooth' /\ SmoothOK(w) => SmoothOK(w)'
    PROVE  ApartInv'
<1> USE DEF ApartInv
<1>1. \A v \in Calls \ {w} : pc'[v] = pc[v]
  BY DEF Checks, CallInv, CallTypeOK
<1>2. Authorized(w) => Jar(w) \in 1..sessions /\ Jar(w) \in 1..MaxSessions
  <2>1. Authorized(w) => Jar(w) \in 1..sessions
    BY DEF SharedTypeOK, Authorized
  <2>2. \A s \in 1..sessions : s \in 1..MaxSessions
    BY MaxIsNat DEF SharedTypeOK
  <2> QED
    BY <2>1, <2>2
<1>3. MaxSessions' = MaxSessions
  BY DEF MaxSessions
<1>4. latest' \in [1..MaxSessions -> Calls \cup {NoCall}]
  BY DEF Checks, SharedTypeOK
<1>5. SharedTypeOK'
  BY <1>3, <1>4 DEF Checks, SharedTypeOK
<1>6. SessionsAreOwn'
  <2>1. ASSUME NEW s \in 1..MaxSessions, s > sessions
        PROVE  latest'[s] = NoCall
    <3>1. latest[s] = NoCall
      BY <2>1 DEF SessionsAreOwn
    <3>2. Authorized(w) => s # Jar(w)
      BY <1>2, <2>1 DEF SharedTypeOK
    <3> QED
      BY <3>1, <3>2 DEF Checks, SharedTypeOK
  <2> QED
    BY <1>3, <2>1 DEF Checks, SessionsAreOwn
<1>7. ASSUME NEW v \in Calls \ {w}, pc[v] \in CheckingOut
      PROVE  latest'[jar[client[v]]] = latest[jar[client[v]]]
  <2>1. client[v] \in Calls /\ (Jar(w) # 0 => jar[client[v]] # Jar(w))
    BY <1>7, CheckoutIsAlone DEF Checks, Jar
  <2>2. CASE UNCHANGED latest
    BY <2>2
  <2>3. CASE \E x \in {w, NoCall} : Authorized(w) /\ latest' = [latest EXCEPT ![Jar(w)] = x]
    <3>1. jar[client[v]] # Jar(w)
      BY <1>2, <2>1, <2>3 DEF SharedTypeOK
    <3> QED
      BY <2>3, <3>1 DEF SharedTypeOK
  <2> QED
    BY <2>2, <2>3 DEF Checks
<1>8. ASSUME NEW v \in Calls \ {w}
      PROVE  ApartOK(v)'
  <2>1. ApartOK(v)
    OBVIOUS
  <2>2. kind[v] = "book" /\ pc[v] \notin NotYet \cup {"lock"} => bookingMu'[client[v]] = v
    <3>1. kind[v] = "book" /\ pc[v] \notin NotYet \cup {"lock"} =>
              client[v] \in Calls /\ bookingMu[client[v]] = v
      BY <2>1 DEF ApartOK
    <3> QED
      BY <3>1, CheckoutAssumption DEF Checks, CheckoutAssumption
  <2>3. pc[v] \in CheckingOut => jar[client[v]] = 0 \/ latest'[jar[client[v]]] \in {v, NoCall}
    BY <1>7, <2>1 DEF ApartOK
  <2>4. matched'[v] = matched[v] /\ client' = client /\ kind' = kind /\ jar' = jar
    BY DEF Checks
  <2> QED
    BY <1>1, <2>1, <2>2, <2>3, <2>4 DEF ApartOK
<1>9. ASSUME NEW v \in Calls \ {w}, SmoothOK(v)
      PROVE  SmoothOK(v)'
  <2>1. pc[v] \in {"login", "confirm"} => loginMu'[client[v]] = v
    <3>1. pc[v] \in {"login", "confirm"} => client[v] \in Calls /\ loginMu[client[v]] = v
      BY <1>9 DEF ApartOK, NotYet, SmoothOK
    <3> QED
      BY <3>1, CheckoutAssumption DEF Checks, CheckoutAssumption
  <2>2. pc[v] \in {"pay", "match"} => latest'[jar[client[v]]] = v
    BY <1>7, <1>9 DEF SmoothOK, CheckingOut
  <2>3. /\ matched'[v] = matched[v] /\ answer'[v] = answer[v]
        /\ UNCHANGED <<client, kind, jar, loggedIn, refused>>
    BY DEF Checks
  <2> QED
    BY <1>1, <1>9, <2>1, <2>2, <2>3 DEF SmoothOK
<1>10. Smooth' => Smooth
  BY DEF Checks, Smooth, SharedTypeOK
<1>11. SessionsLast => SessionsLast'
  BY DEF Checks, SessionsLast
<1> QED
  BY <1>5, <1>6, <1>8, <1>9, <1>10, <1>11
(* The steps of the checkout that go on.                                   *)
LEMMA ChecksGoto ==
    ASSUME ApartInv, CallInv, NEW w \in Calls, NEW l, Goto(w, l),
           pc[w] \in CheckingOut \cup {"send"}, kind[w] = "book",
           \A v \in Calls \ {w} : matched'[v] = matched[v],
           matched' \in [Calls -> Calls \cup {NoCall}], matched'[w] \in {w, NoCall},
           UNCHANGED latest
           \/ \E x \in {w, NoCall} : Authorized(w) /\ latest' = [latest EXCEPT ![Jar(w)] = x],
           UNCHANGED <<cached, client, kind, jar, loggedIn, sessions, live, refused, expiries>>,
           faults' \in {faults, faults + 1}
    PROVE  Checks(w, l)
BY DEF Checks, Goto, ApartInv, SharedTypeOK, lockVars

(* The steps of the checkout with which the call ends.                     *)
LEMMA ChecksEnd ==
    ASSUME ApartInv, CallInv, NEW w \in Calls, NEW a, End(w, a),
           pc[w] \in CheckingOut \cup {"send"}, kind[w] = "book",
           UNCHANGED latest
           \/ \E x \in {w, NoCall} : Authorized(w) /\ latest' = [latest EXCEPT ![Jar(w)] = x],
           UNCHANGED <<cached, client, kind, jar, loggedIn, sessions, live, refused, matched,
                       expiries>>,
           faults' \in {faults, faults + 1}
    PROVE  Checks(w, "done") /\ pc'[w] = "done" /\ answer'[w] = a /\ ApartOK(w)'
<1>1. answer'[w] = a /\ pc'[w] = "done" /\ \A v \in Calls \ {w} : answer'[v] = answer[v]
  BY DEF End, CallInv, CallTypeOK
<1>2. /\ loginMu' \in [Calls -> Calls \cup {NoCall}]
      /\ \A c \in Calls : loginMu[c] \notin {w, NoCall} => loginMu'[c] = loginMu[c]
  <2>1. loginMu' = Released(loginMu, w) /\ loginMu \in [Calls -> Calls \cup {NoCall}]
    BY DEF End, ApartInv, SharedTypeOK
  <2> QED
    BY <2>1, ReleasedLocks
<1>3. /\ bookingMu' \in [Calls -> Calls \cup {NoCall}]
      /\ \A c \in Calls : bookingMu[c] \notin {w, NoCall} => bookingMu'[c] = bookingMu[c]
  <2>1. bookingMu' = Released(bookingMu, w) /\ bookingMu \in [Calls -> Calls \cup {NoCall}]
    BY DEF End, ApartInv, SharedTypeOK
  <2> QED
    BY <2>1, ReleasedLocks
<1>4. matched \in [Calls -> Calls \cup {NoCall}] /\ matched[w] \in {w, NoCall}
  BY DEF ApartInv, SharedTypeOK, ApartOK
<1>5. Checks(w, "done")
  BY <1>1, <1>2, <1>3, <1>4 DEF Checks, End
<1>6. ApartOK(w)'
  BY <1>1, <1>4 DEF ApartOK, NotYet, CheckingOut
<1> QED
  BY <1>1, <1>5, <1>6

LEMMA ApartReserve ==
    ASSUME IsFiniteSet(Calls), CallInv, ApartInv, NEW w \in Calls, Reserve(w)
    PROVE  ApartInv'
<1>1. /\ pc[w] = "send" /\ kind[w] = "book" /\ client[w] \in Calls
      /\ UNCHANGED kind /\ RequestUnchanged
  BY DEF Reserve, ApartInv, ApartOK, NotYet
<1>2. CASE (TurnedDown(w) \/ ((Rejected(w) \/ Broken(w)) /\ UNCHANGED refused))
           /\ UNCHANGED latest
  BY <1>1, <1>2, ApartRefused
<1>3. CASE /\ Authorized(w) /\ latest' = [latest EXCEPT ![Jar(w)] = w] /\ UNCHANGED refused
           /\ ((Works /\ Goto(w, "pay")) \/ (Fails /\ End(w, "error")))
  <2>1. /\ UNCHANGED <<cached, client, kind, jar, loggedIn, sessions, live, refused, matched,
                       expiries>>
        /\ faults' \in {faults, faults + 1}
    BY <1>1, <1>3 DEF RequestUnchanged, clientVars, Works, Fails
  <2>2. matched \in [Calls -> Calls \cup {NoCall}] /\ matched[w] \in {w, NoCall}
    BY DEF ApartInv, SharedTypeOK, ApartOK
  <2>3. \E x \in {w, NoCall} : Authorized(w) /\ latest' = [latest EXCEPT ![Jar(w)] = x]
    BY <1>3
  <2>4. CASE Fails /\ End(w, "error")
    <3>1. Checks(w, "done") /\ ApartOK(w)'
      BY <1>1, <2>1, <2>3, <2>4, ChecksEnd
    <3>2. ~Smooth'
      BY <2>4 DEF Fails, Smooth, ApartInv, SharedTypeOK
    <3> QED
      BY <3>1, <3>2, ChecksKeeps DEF Steps
  <2>5. CASE Works /\ Goto(w, "pay")
    <3>1. Checks(w, "pay")
      BY <1>1, <2>1, <2>2, <2>3, <2>5, ChecksGoto
    <3>2. pc'[w] = "pay" /\ UNCHANGED <<answer, bookingMu>>
      BY <2>5 DEF Goto, lockVars, CallInv, CallTypeOK
    <3>3. latest'[jar[client[w]]] = w
      <4>1. \A s \in 1..sessions : s \in 1..MaxSessions
        BY MaxIsNat DEF ApartInv, SharedTypeOK
      <4>2. Jar(w) \in 1..MaxSessions
        BY <1>3, <4>1 DEF ApartInv, SharedTypeOK, Authorized
      <4> QED
        BY <1>3, <4>2 DEF ApartInv, SharedTypeOK, Jar
    <3>4. bookingMu[client[w]] = w
      BY <1>1 DEF ApartInv, ApartOK, NotYet
    <3>5. ApartOK(w)'
      BY <1>1, <2>1, <2>2, <3>2, <3>3, <3>4 DEF ApartOK
    <3>6. SmoothOK(w) => SmoothOK(w)'
      BY <1>1, <2>1, <3>2, <3>3 DEF SmoothOK, CheckingOut
    <3> QED
      BY <3>1, <3>5, <3>6, ChecksKeeps DEF Steps
  <2> QED
    BY <1>3, <2>4, <2>5
<1> QED
  BY <1>2, <1>3 DEF Reserve

LEMMA ApartCheckout ==
    ASSUME IsFiniteSet(Calls), CallInv, ApartInv, NEW w \in Calls,
           Pay(w) \/ MatchRecord(w) \/ Track(w)
    PROVE  ApartInv'
<1>1. pc[w] \in CheckingOut /\ kind[w] = "book"
  BY DEF Pay, MatchRecord, Track, CallInv, CallOK, CheckingOut
<1>2. /\ client[w] \in Calls /\ bookingMu[client[w]] = w
      /\ jar[client[w]] = 0 \/ latest[jar[client[w]]] \in {w, NoCall}
      /\ matched \in [Calls -> Calls \cup {NoCall}] /\ matched[w] \in {w, NoCall}
  BY <1>1 DEF ApartInv, SharedTypeOK, ApartOK, NotYet, CheckingOut
<1>3. /\ UNCHANGED <<cached, client, kind, jar, loggedIn, sessions, live, refused, expiries>>
      /\ faults' \in {faults, faults + 1}
  BY DEF Pay, MatchRecord, Track, CheckoutUnchanged, clientVars, callVars, Works, Fails
<1>4. Fails => ~Smooth'
  BY DEF Fails, Smooth, ApartInv, SharedTypeOK
<1>5. Works /\ Smooth' => Smooth /\ Authorized(w)
  <2>1. Works /\ Smooth' => Smooth
    BY <1>3 DEF Works, Smooth
  <2>2. Smooth => loggedIn[client[w]]
    BY <1>1 DEF ApartInv, SmoothOK
  <2> QED
    BY <1>2, <2>1, <2>2, SmoothSession
<1>6. CASE Pay(w)
  <2>1. UNCHANGED <<latest, matched>>
    BY <1>6 DEF Pay
  <2>2. CASE End(w, "error") /\ ~Smooth'
    <3>1. Checks(w, "done") /\ ApartOK(w)'
      BY <1>1, <1>3, <2>1, <2>2, ChecksEnd
    <3> QED
      BY <2>2, <3>1, ChecksKeeps DEF Steps
  <2>3. CASE Authorized(w) /\ Works /\ Goto(w, "match")
    <3>1. Checks(w, "match")
      BY <1>1, <1>2, <1>3, <2>1, <2>3, ChecksGoto
    <3>2. pc'[w] = "match" /\ UNCHANGED <<answer, bookingMu>>
      BY <2>3 DEF Goto, lockVars, CallInv, CallTypeOK
    <3>3. ApartOK(w)'
      BY <1>2, <1>3, <2>1, <3>2 DEF ApartOK
    <3>4. pc[w] = "pay"
      BY <1>6 DEF Pay
    <3>5. SmoothOK(w) => SmoothOK(w)'
      BY <1>3, <2>1, <3>2, <3>4 DEF SmoothOK, CheckingOut
    <3> QED
      BY <3>1, <3>3, <3>5, ChecksKeeps DEF Steps
  <2> QED
    BY <1>4, <1>5, <1>6, <2>2, <2>3 DEF Pay
<1>7. CASE MatchRecord(w)
  <2>1. UNCHANGED latest /\ Goto(w, "track") /\ pc[w] = "match"
    BY <1>7 DEF MatchRecord
  <2>2. /\ matched' \in [Calls -> Calls \cup {NoCall}] /\ matched'[w] \in {w, NoCall}
        /\ \A v \in Calls \ {w} : matched'[v] = matched[v]
    <3>1. CASE matched' = matched
      BY <1>2, <3>1
    <3>2. CASE Authorized(w) /\ matched' = [matched EXCEPT ![w] = latest[Jar(w)]]
      <4>1. latest[Jar(w)] \in {w, NoCall}
        BY <1>2, <3>2 DEF Authorized, Jar, ApartInv, SharedTypeOK
      <4> QED
        BY <1>2, <3>2, <4>1
    <3> QED
      BY <1>7, <3>1, <3>2 DEF MatchRecord
  <2>3. Checks(w, "track")
    BY <1>1, <1>3, <2>1, <2>2, ChecksGoto
  <2>4. pc'[w] = "track" /\ UNCHANGED <<answer, bookingMu>>
    BY <2>1 DEF Goto, lockVars, CallInv, CallTypeOK
  <2>5. ApartOK(w)'
    BY <1>2, <1>3, <2>1, <2>2, <2>4 DEF ApartOK
  <2>6. Smooth' /\ SmoothOK(w) => matched'[w] = w
    <3>1. SmoothOK(w) => latest[Jar(w)] = w
      BY <2>1 DEF SmoothOK, Jar
    <3>2. Smooth' => matched' = [matched EXCEPT ![w] = latest[Jar(w)]]
      BY <1>4, <1>5, <1>7 DEF MatchRecord
    <3> QED
      BY <1>2, <3>1, <3>2
  <2>7. answer[w] = "none"
    BY <1>1 DEF CallInv, CallOK, CheckingOut
  <2>8. Smooth' /\ SmoothOK(w) => SmoothOK(w)'
    BY <1>1, <1>3, <2>4, <2>6, <2>7 DEF SmoothOK, CheckingOut
  <2> QED
    BY <2>3, <2>5, <2>8, ChecksKeeps DEF Steps
<1>8. CASE Track(w)
  <2>1. End(w, "ok") /\ pc[w] = "track" /\ UNCHANGED matched
    BY <1>8 DEF Track
  <2>2. UNCHANGED latest
        \/ \E x \in {w, NoCall} : Authorized(w) /\ latest' = [latest EXCEPT ![Jar(w)] = x]
    BY <1>8 DEF Track
  <2>3. Checks(w, "done") /\ ApartOK(w)' /\ answer'[w] = "ok" /\ pc'[w] = "done"
    BY <1>1, <1>3, <2>1, <2>2, ChecksEnd
  <2>4. SmoothOK(w) => SmoothOK(w)'
    BY <2>1, <2>3 DEF SmoothOK, CheckingOut
  <2> QED
    BY <2>3, <2>4, ChecksKeeps DEF Steps
<1> QED
  BY <1>6, <1>7, <1>8

-----------------------------------------------------------------------------
(* Around the calls: sessions end, the service restarts.                   *)

LEMMA ApartEnded ==
    ASSUME ApartInv, (\E s \in 1..MaxSessions : Expire(s)) \/ \E c \in Calls : CookieExpires(c)
    PROVE  ApartInv'
<1> USE DEF ApartInv
<1>1. /\ UNCHANGED <<cached, loggedIn, loginMu, bookingMu, pc, client, kind, sessions, latest,
                     matched, refused, answer, faults>>
      /\ expiries' = expiries + 1
  BY DEF Expire, CookieExpires, clientVars, lockVars, callVars, platformVars
<1>2. jar' \in [Calls -> Nat] /\ \A c \in Calls : jar'[c] \in {0, jar[c]}
  BY DEF Expire, CookieExpires, clientVars, SharedTypeOK
<1>3. live' \subseteq live
  BY DEF Expire, CookieExpires, platformVars
<1>4. MaxSessions' = MaxSessions
  BY DEF MaxSessions
<1>5. SharedTypeOK'
  <2>1. live' \subseteq 1..sessions
    BY <1>3 DEF SharedTypeOK
  <2> QED
    BY <1>1, <1>2, <1>4, <2>1 DEF SharedTypeOK
<1>6. SessionsAreOwn'
  <2>1. ASSUME NEW c \in Calls
        PROVE  jar'[c] <= sessions
    <3>1. jar'[c] \in {0, jar[c]} /\ jar[c] <= sessions /\ sessions \in Nat
      BY <1>2 DEF SharedTypeOK, SessionsAreOwn
    <3> QED
      BY <3>1
  <2>2. ASSUME NEW c \in Calls, NEW d \in Calls, c # d, jar'[c] = jar'[d]
        PROVE  jar'[c] = 0
    BY <1>2, <2>2 DEF SessionsAreOwn
  <2> QED
    BY <1>1, <1>4, <2>1, <2>2 DEF SessionsAreOwn
<1>7. ASSUME NEW v \in Calls
      PROVE  ApartOK(v)'
  <2>1. pc[v] \in CheckingOut => client[v] \in Calls
    BY DEF ApartOK, NotYet, CheckingOut
  <2>2. pc[v] \in CheckingOut => jar'[client[v]] = 0 \/ latest[jar'[client[v]]] \in {v, NoCall}
    BY <1>2, <2>1 DEF ApartOK
  <2> QED
    BY <1>1, <2>2 DEF ApartOK
<1>8. ~Smooth'
  BY <1>1 DEF Smooth, SharedTypeOK
<1> QED
  BY <1>5, <1>6, <1>7, <1>8

LEMMA ApartRestart ==
    ASSUME ApartInv, Restart
    PROVE  ApartInv'
<1> USE DEF ApartInv
<1>1. UNCHANGED <<client, kind, sessions, live, latest, matched, refused, expiries>>
  BY DEF Restart, callVars, platformVars
<1>2. /\ cached' = NoCall /\ jar' = [c \in Calls |-> 0]
      /\ loggedIn' = [c \in Calls |-> FALSE]
      /\ loginMu' = [c \in Calls |-> NoCall] /\ bookingMu' = [c \in Calls |-> NoCall]
  BY DEF Restart
<1>3. MaxSessions' = MaxSessions
  BY DEF MaxSessions
<1>4. faults' = faults + 1
  BY DEF Restart, Fails
<1>5. SharedTypeOK'
  BY <1>1, <1>2, <1>3, <1>4 DEF SharedTypeOK
<1>6. SessionsAreOwn'
  BY <1>1, <1>2, <1>3 DEF SharedTypeOK, SessionsAreOwn
<1>7. ASSUME NEW v \in Calls
      PROVE  ApartOK(v)'
  <2>1. pc'[v] \in {"idle", "done"}
    BY DEF Restart, Running
  <2> QED
    BY <1>1, <2>1 DEF ApartOK, NotYet, CheckingOut
<1>8. ~Smooth'
  BY <1>4 DEF Smooth, SharedTypeOK
<1> QED
  BY <1>5, <1>6, <1>7, <1>8

LEMMA ApartInit == IsFiniteSet(Calls) /\ CheckoutInit => ApartInv
<1> SUFFICES ASSUME IsFiniteSet(Calls), CheckoutInit
             PROVE  ApartInv
  OBVIOUS
<1>1. SharedTypeOK
  BY MaxIsNat DEF CheckoutInit, SharedTypeOK
<1>2. SessionsAreOwn
  BY DEF CheckoutInit, SessionsAreOwn
<1>3. ASSUME NEW w \in Calls
      PROVE  ApartOK(w) /\ SmoothOK(w)
  BY DEF CheckoutInit, ApartOK, SmoothOK, NotYet, CheckingOut
<1>4. SessionsLast
  BY DEF CheckoutInit, SessionsLast
<1> QED
  BY <1>1, <1>2, <1>3, <1>4 DEF ApartInv

LEMMA ApartStep ==
    ASSUME IsFiniteSet(Calls), CallInv, ApartInv, [CheckoutNext]_vars
    PROVE  ApartInv'
<1>1. ASSUME NEW w \in Calls, Step(w) \/ \E k \in Kinds : Ask(w, k)
      PROVE  ApartInv'
  BY <1>1, ApartClient, ApartLocks, ApartLogin, ApartConfirm, ApartInvalidate,
     ApartLooks, ApartReserve, ApartCheckout
     DEF Step
<1>2. CASE UNCHANGED vars
  <2>1. SharedTypeOK' /\ SessionsAreOwn'
    BY <1>2 DEF vars, ApartInv, SharedTypeOK, SessionsAreOwn, MaxSessions
  <2>2. ASSUME NEW w \in Calls
        PROVE  ApartOK(w)' /\ (SmoothOK(w) => SmoothOK(w)')
    BY <1>2 DEF vars, ApartInv, ApartOK, SmoothOK
  <2>3. (Smooth' => Smooth) /\ (SessionsLast => SessionsLast')
    BY <1>2 DEF vars, Smooth, SessionsLast
  <2> QED
    BY <2>1, <2>2, <2>3 DEF ApartInv
<1> QED
  BY <1>1, <1>2, ApartEnded, ApartRestart DEF CheckoutNext

LEMMA ApartShows == ApartInv => CallsStayApart
BY DEF ApartInv, ApartOK, SmoothOK, Smooth, CallsStayApart

(* Calls of one account never get another's court, and where nothing fails *)
(* and no session ends every booking that succeeds knows its match and     *)
(* only the platform turns a call down (checkout.go, bookingMu; client.go, *)
(* loginMu and the second look).  Of finitely many calls: MaxSessions is   *)
(* their number times four.                                                *)
THEOREM CallsAreApart ==
    ASSUME IsFiniteSet(Calls)
    PROVE  CheckoutSpec => []CallsStayApart
<1>1. CheckoutInit => ApartInv
  BY ApartInit
<1>2. CallInv /\ ApartInv /\ [CheckoutNext]_vars => ApartInv'
  BY ApartStep
<1> QED
  BY <1>1, <1>2, ApartShows, CallInvariant, PTL DEF CheckoutSpec
=============================================================================
