------------------------------ MODULE Checkout ------------------------------
(***************************************************************************)
(* The booking service: calls of the management service for one account,  *)
(* the client object and cookie session they share, and the checkout of    *)
(* several requests.  A call runs in a goroutine of its own.  Each step    *)
(* is a request to the platform, a lock, or an access to shared memory.    *)
(*                                                                         *)
(* A client object is named after the call that made it, and so is the     *)
(* reservation the platform makes for a call.                              *)
(***************************************************************************)
EXTENDS Integers, FiniteSets

CONSTANTS
    Calls,        \* bound: calls to the service
    NoCall,       \* no call, no client object
    MaxExpiries,  \* bound: sessions the platform ends
    MaxFaults     \* bound: challenges, failed requests, lost answers, restarts

ASSUME CheckoutAssumption ==
    /\ NoCall \notin Calls
    /\ MaxExpiries \in Nat /\ MaxFaults \in Nat

VARIABLES
    cached,     \* Handler.credClients: the account's client object
    jar,        \* [Calls -> the session of the client's et cookie, 0 if none]
    loggedIn,   \* [Calls -> the client's loggedIn flag]
    loginMu,    \* [Calls -> the call that holds the client's loginMu]
    bookingMu,  \* [Calls -> the call that holds the client's bookingMu]
    pc,         \* [Calls -> the step a call is at]
    kind,       \* [Calls -> what it is to do]
    client,     \* [Calls -> the client object it uses]
    retried,    \* calls that logged in again after a refusal
    sessions,   \* the platform: sessions given out so far
    live,       \* the platform: sessions not ended
    latest,     \* the platform: [sessions -> the session's latest reservation]
    acted,      \* the platform: [Calls -> reservations or cancellations made]
    paid,       \* the platform: reservations paid
    matched,    \* [Calls -> the reservation the answered match belongs to]
    refused,    \* calls the platform turned down, the court being taken, say
    answer,     \* [Calls -> "none", "ok" or "error"]
    expiries,   \* sessions ended
    faults      \* faults so far

vars == <<cached, jar, loggedIn, loginMu, bookingMu, pc, kind, client, retried,
          sessions, live, latest, acted, paid, matched, refused, answer,
          expiries, faults>>

clientVars == <<jar, loggedIn>>
lockVars == <<loginMu, bookingMu>>
platformVars == <<sessions, live, latest, acted, paid, refused>>
callVars == <<kind, client>>

(* "read" is getMatch or getFacility, or the second half of listMatches.   *)
Kinds == {"book", "cancel", "courts", "list", "read"}
(* A call asks for at most two requests, each with a login and another.     *)
MaxSessions == 4 * Cardinality(Calls)

Works == UNCHANGED faults
Fails == faults < MaxFaults /\ faults' = faults + 1

Jar(w) == jar[client[w]]
Authorized(w) == Jar(w) \in live

(* The flag is set and the cookie is still in the jar.                     *)
HasSession(w) == loggedIn[client[w]] /\ Jar(w) # 0

CheckoutInit ==
    /\ cached = NoCall
    /\ jar = [c \in Calls |-> 0]
    /\ loggedIn = [c \in Calls |-> FALSE]
    /\ loginMu = [c \in Calls |-> NoCall]
    /\ bookingMu = [c \in Calls |-> NoCall]
    /\ pc = [w \in Calls |-> "idle"]
    /\ kind = [w \in Calls |-> "none"]
    /\ client = [w \in Calls |-> NoCall]
    /\ retried = {}
    /\ sessions = 0 /\ live = {}
    /\ latest = [s \in 1..MaxSessions |-> NoCall]
    /\ acted = [w \in Calls |-> 0]
    /\ paid = {}
    /\ matched = [w \in Calls |-> NoCall]
    /\ refused = {}
    /\ answer = [w \in Calls |-> "none"]
    /\ expiries = 0 /\ faults = 0

Goto(w, l) ==
    /\ pc' = [pc EXCEPT ![w] = l]
    /\ UNCHANGED <<answer, lockVars>>

Released(mu, w) == [c \in Calls |-> IF mu[c] = w THEN NoCall ELSE mu[c]]

(* Mutant: an error of the login returns without the deferred unlock.       *)
EndLocked(w, a) ==
    /\ pc' = [pc EXCEPT ![w] = "done"]
    /\ answer' = [answer EXCEPT ![w] = a]
    /\ bookingMu' = Released(bookingMu, w)
    /\ UNCHANGED loginMu

(* The call returns and its deferred unlocks run.                          *)
End(w, a) ==
    /\ pc' = [pc EXCEPT ![w] = "done"]
    /\ answer' = [answer EXCEPT ![w] = a]
    /\ loginMu' = Released(loginMu, w)
    /\ bookingMu' = Released(bookingMu, w)

-----------------------------------------------------------------------------
(* Finding the client object.                                              *)

Begin(w) == Goto(w, IF kind[w] = "book" THEN "lock" ELSE "ensure")

Ask(w, k) ==
    /\ pc[w] = "idle"
    /\ kind' = [kind EXCEPT ![w] = k]
    /\ Goto(w, "load")
    /\ UNCHANGED <<cached, clientVars, client, retried, platformVars, matched,
                   expiries, faults>>

(* getOrCreateCredClient: Load, and Store of a new client when there is    *)
(* none.  Two first calls make two clients, and the later one stays.       *)
Load(w) ==
    /\ pc[w] = "load"
    /\ IF cached = NoCall
       THEN Goto(w, "store") /\ UNCHANGED client
       ELSE Begin(w) /\ client' = [client EXCEPT ![w] = cached]
    /\ UNCHANGED <<cached, clientVars, kind, retried, platformVars, matched,
                   expiries, faults>>

Store(w) ==
    /\ pc[w] = "store"
    /\ cached' = w
    /\ client' = [client EXCEPT ![w] = w]
    /\ Begin(w)
    /\ UNCHANGED <<clientVars, kind, retried, platformVars, matched, expiries,
                   faults>>

-----------------------------------------------------------------------------
(* The session.                                                            *)

(* Mutant: checkouts of one client are not serialised.                     *)
LockNothing(w) ==
    /\ pc[w] = "lock"
    /\ Goto(w, "ensure")
    /\ UNCHANGED <<cached, clientVars, callVars, retried, platformVars,
                   matched, expiries, faults>>

(* CreateBooking holds bookingMu until it returns.                         *)
Lock(w) ==
    /\ pc[w] = "lock"
    /\ bookingMu[client[w]] = NoCall
    /\ bookingMu' = [bookingMu EXCEPT ![client[w]] = w]
    /\ pc' = [pc EXCEPT ![w] = "ensure"]
    /\ UNCHANGED <<cached, clientVars, loginMu, callVars, retried, platformVars,
                   matched, answer, expiries, faults>>

(* EnsureLoggedIn: the fast path, and the second look under loginMu.       *)
Ensure(w) ==
    /\ pc[w] = "ensure"
    /\ Goto(w, IF HasSession(w) THEN "send" ELSE "enter")
    /\ UNCHANGED <<cached, clientVars, callVars, retried, platformVars,
                   matched, expiries, faults>>

(* Mutant: no second look once the lock is held.                           *)
EnterUnchecked(w) ==
    /\ pc[w] = "enter"
    /\ loginMu[client[w]] = NoCall
    /\ loginMu' = [loginMu EXCEPT ![client[w]] = w]
    /\ pc' = [pc EXCEPT ![w] = "login"]
    /\ UNCHANGED <<cached, clientVars, bookingMu, callVars, retried,
                   platformVars, matched, answer, expiries, faults>>

Enter(w) ==
    /\ pc[w] = "enter"
    /\ loginMu[client[w]] = NoCall
    /\ IF HasSession(w)
       THEN Goto(w, "send")
       ELSE /\ loginMu' = [loginMu EXCEPT ![client[w]] = w]
            /\ pc' = [pc EXCEPT ![w] = "login"]
            /\ UNCHANGED <<bookingMu, answer>>
    /\ UNCHANGED <<cached, clientVars, callVars, retried, platformVars,
                   matched, expiries, faults>>

(* Login: the platform opens a session and the jar stores its cookie; or   *)
(* the login fails; or a challenge page comes back, and whether a cookie   *)
(* is there decides (confirm).                                             *)
Login(w) ==
    /\ pc[w] = "login"
    /\ \/ /\ Works /\ sessions < MaxSessions
          /\ sessions' = sessions + 1
          /\ live' = live \cup {sessions'}
          /\ jar' = [jar EXCEPT ![client[w]] = sessions']
          /\ Goto(w, "confirm")
       \/ Fails /\ End(w, "error") /\ UNCHANGED <<jar, sessions, live>>
       \/ Fails /\ Goto(w, "confirm") /\ UNCHANGED <<jar, sessions, live>>
    /\ UNCHANGED <<cached, loggedIn, callVars, retried, latest, acted, paid,
                   refused, matched, expiries>>

(* hasCookie and the flag; then loginMu is unlocked.                       *)
Confirm(w) ==
    /\ pc[w] = "confirm"
    /\ IF Jar(w) # 0
       THEN /\ loggedIn' = [loggedIn EXCEPT ![client[w]] = TRUE]
            /\ pc' = [pc EXCEPT ![w] = "send"]
            /\ loginMu' = Released(loginMu, w)
            /\ UNCHANGED <<bookingMu, answer>>
       ELSE End(w, "error") /\ UNCHANGED loggedIn
    /\ UNCHANGED <<cached, jar, callVars, retried, platformVars, matched,
                   expiries, faults>>

(* invalidateSession, in its two steps: the flag, and whatever cookie is   *)
(* then in the jar.                                                        *)
Unflag(w) ==
    /\ pc[w] = "unflag"
    /\ loggedIn' = [loggedIn EXCEPT ![client[w]] = FALSE]
    /\ Goto(w, "drop")
    /\ UNCHANGED <<cached, jar, callVars, retried, platformVars, matched,
                   expiries, faults>>

Drop(w) ==
    /\ pc[w] = "drop"
    /\ jar' = [jar EXCEPT ![client[w]] = 0]
    /\ Goto(w, "ensure")
    /\ UNCHANGED <<cached, loggedIn, callVars, retried, platformVars, matched,
                   expiries, faults>>

-----------------------------------------------------------------------------
(* Requests.                                                               *)

(* errUnauthorized: log in again and repeat the request, once.             *)
Unauthorized(w) ==
    IF w \in retried
    THEN End(w, "error") /\ UNCHANGED retried
    ELSE retried' = retried \cup {w} /\ Goto(w, "unflag")

RequestUnchanged ==
    UNCHANGED <<cached, clientVars, client, sessions, live, matched, expiries>>

(* 401, a login page or an auth-shaped error; or a challenge page, which   *)
(* looks the same.  The request had no effect.                             *)
Rejected(w) ==
    /\ \/ ~Authorized(w) /\ Works
       \/ Fails
    /\ Unauthorized(w)

TurnedDown(w) ==
    /\ Authorized(w) /\ Works
    /\ refused' = refused \cup {w}
    /\ End(w, "error") /\ UNCHANGED retried

Broken(w) == Fails /\ End(w, "error") /\ UNCHANGED retried

(* Step 1 of CreateBooking.                                                *)
Reserve(w) ==
    /\ pc[w] = "send" /\ kind[w] = "book"
    /\ \/ /\ Authorized(w)
          /\ acted' = [acted EXCEPT ![w] = @ + 1]
          /\ latest' = [latest EXCEPT ![Jar(w)] = w]
          /\ \/ Works /\ Goto(w, "pay")
             \/ Fails /\ End(w, "error")
          /\ UNCHANGED <<refused, retried>>
       \/ TurnedDown(w) /\ UNCHANGED <<acted, latest>>
       \/ (Rejected(w) \/ Broken(w)) /\ UNCHANGED <<acted, latest, refused>>
    /\ UNCHANGED <<kind, paid>> /\ RequestUnchanged

(* CancelMatch.                                                            *)
Cancel(w) ==
    /\ pc[w] = "send" /\ kind[w] = "cancel"
    /\ \/ /\ Authorized(w)
          /\ acted' = [acted EXCEPT ![w] = @ + 1]
          /\ \/ Works /\ End(w, "ok")
             \/ Fails /\ End(w, "error")
          /\ UNCHANGED <<refused, retried>>
       \/ TurnedDown(w) /\ UNCHANGED acted
       \/ (Rejected(w) \/ Broken(w)) /\ UNCHANGED <<acted, refused>>
    /\ UNCHANGED <<kind, latest, paid>> /\ RequestUnchanged

(* GetMatchByID, GetFacility, GetSlots.                                    *)
Read(w) ==
    /\ pc[w] = "send" /\ kind[w] = "read"
    /\ \/ Authorized(w) /\ Works /\ End(w, "ok") /\ UNCHANGED <<refused, retried>>
       \/ TurnedDown(w)
       \/ (Rejected(w) \/ Broken(w)) /\ UNCHANGED refused
    /\ UNCHANGED <<kind, acted, latest, paid>> /\ RequestUnchanged

(* GetCourts expects HTML: without a session a page with no courts, or a   *)
(* challenge page, is a good answer; only a 401 is a refusal.  listMatches *)
(* goes on to the slots.                                                   *)
Courts(w) ==
    /\ pc[w] = "send" /\ kind[w] \in {"courts", "list"}
    /\ \/ /\ Works \/ Fails
          /\ \/ kind[w] = "courts" /\ End(w, "ok") /\ UNCHANGED <<kind, retried>>
             \/ /\ kind[w] = "list" /\ Goto(w, "ensure")
                /\ kind' = [kind EXCEPT ![w] = "read"]
                /\ retried' = retried \ {w}
       \/ ~Authorized(w) /\ Works /\ Unauthorized(w) /\ UNCHANGED kind
       \/ Broken(w) /\ UNCHANGED kind
    /\ UNCHANGED <<acted, latest, paid, refused>> /\ RequestUnchanged

-----------------------------------------------------------------------------
(* The rest of the checkout.                                               *)

CheckoutUnchanged ==
    /\ UNCHANGED <<cached, clientVars, callVars, sessions, live, acted, refused,
                   expiries>>

(* Mutant: a refused payment starts the checkout again.                    *)
PayRetried(w) ==
    /\ pc[w] = "pay"
    /\ \/ /\ Authorized(w) /\ paid' = paid \cup {w}
          /\ \/ Works /\ Goto(w, "match")
             \/ Fails /\ End(w, "error")
          /\ UNCHANGED retried
       \/ Rejected(w) /\ UNCHANGED paid
    /\ UNCHANGED <<latest, matched>> /\ CheckoutUnchanged

(* Step 2.  A refusal is a plain error here: the court stays reserved.     *)
Pay(w) ==
    /\ pc[w] = "pay"
    /\ \/ /\ Authorized(w) /\ paid' = paid \cup {w}
          /\ \/ Works /\ Goto(w, "match")
             \/ Fails /\ End(w, "error")
       \/ ~Authorized(w) /\ Works /\ End(w, "error") /\ UNCHANGED paid
       \/ Fails /\ End(w, "error") /\ UNCHANGED paid
    /\ UNCHANGED <<latest, matched, retried>> /\ CheckoutUnchanged

(* Step 3, best effort: the platform makes a match for the session's       *)
(* latest reservation.                                                     *)
MatchRecord(w) ==
    /\ pc[w] = "match"
    /\ \/ /\ Authorized(w) /\ Works
          /\ matched' = [matched EXCEPT ![w] = latest[Jar(w)]]
       \/ ~Authorized(w) /\ Works /\ UNCHANGED matched
       \/ Fails /\ UNCHANGED matched
    /\ Goto(w, "track")
    /\ UNCHANGED <<latest, paid, retried>> /\ CheckoutUnchanged

(* Steps 4 and 5, best effort: they may end the session's checkout.        *)
Track(w) ==
    /\ pc[w] = "track"
    /\ \/ UNCHANGED latest
       \/ Authorized(w) /\ latest' = [latest EXCEPT ![Jar(w)] = NoCall]
    /\ End(w, "ok")
    /\ UNCHANGED <<paid, matched, retried, faults>> /\ CheckoutUnchanged

-----------------------------------------------------------------------------
(* Around the calls.                                                       *)

(* The platform ends a session.                                            *)
Expire(s) ==
    /\ s \in live /\ expiries < MaxExpiries
    /\ live' = live \ {s}
    /\ expiries' = expiries + 1
    /\ UNCHANGED <<cached, clientVars, lockVars, pc, callVars, retried,
                   sessions, latest, acted, paid, matched, refused, answer,
                   faults>>

(* The cookie reaches its own end and the jar drops it.                    *)
CookieExpires(c) ==
    /\ jar[c] # 0 /\ expiries < MaxExpiries
    /\ jar' = [jar EXCEPT ![c] = 0]
    /\ expiries' = expiries + 1
    /\ UNCHANGED <<cached, loggedIn, lockVars, pc, callVars, retried,
                   platformVars, matched, answer, faults>>

Running == {w \in Calls : pc[w] \notin {"idle", "done"}}

(* The service restarts: client objects and calls are gone.                *)
Restart ==
    /\ Fails /\ cached # NoCall
    /\ cached' = NoCall
    /\ jar' = [c \in Calls |-> 0]
    /\ loggedIn' = [c \in Calls |-> FALSE]
    /\ loginMu' = [c \in Calls |-> NoCall]
    /\ bookingMu' = [c \in Calls |-> NoCall]
    /\ pc' = [w \in Calls |-> IF w \in Running THEN "done" ELSE pc[w]]
    /\ answer' = [w \in Calls |-> IF w \in Running THEN "error" ELSE answer[w]]
    /\ UNCHANGED <<callVars, retried, platformVars, matched, expiries>>

Step(w) ==
    \/ Load(w) \/ Store(w) \/ Lock(w) \/ Ensure(w) \/ Enter(w) \/ Login(w)
    \/ Confirm(w) \/ Unflag(w) \/ Drop(w)
    \/ Reserve(w) \/ Cancel(w) \/ Read(w) \/ Courts(w)
    \/ Pay(w) \/ MatchRecord(w) \/ Track(w)

CheckoutNext ==
    \/ \E w \in Calls : Step(w) \/ (\E k \in Kinds : Ask(w, k))
    \/ \E s \in 1..MaxSessions : Expire(s)
    \/ \E c \in Calls : CookieExpires(c)
    \/ Restart

(* Every call is a goroutine: it goes on whenever it can.                  *)
CheckoutSpec == CheckoutInit /\ [][CheckoutNext]_vars /\ \A w \in Calls : WF_vars(Step(w))

-----------------------------------------------------------------------------
(* Properties.                                                             *)

CheckoutTypeOK ==
    /\ cached \in Calls \cup {NoCall}
    /\ jar \in [Calls -> 0..MaxSessions]
    /\ loggedIn \in [Calls -> BOOLEAN]
    /\ loginMu \in [Calls -> Calls \cup {NoCall}]
    /\ bookingMu \in [Calls -> Calls \cup {NoCall}]
    /\ pc \in [Calls -> {"idle", "load", "store", "lock", "ensure", "enter",
                         "login", "confirm", "unflag", "drop", "send", "pay",
                         "match", "track", "done"}]
    /\ kind \in [Calls -> Kinds \cup {"none"}]
    /\ client \in [Calls -> Calls \cup {NoCall}]
    /\ retried \subseteq Calls
    /\ acted \in [Calls -> Nat] /\ paid \subseteq Calls
    /\ answer \in [Calls -> {"none", "ok", "error"}]

(* Calls of one account share a client object, a session and, at the       *)
(* platform, the session's latest reservation.  Even so the match a call   *)
(* gets is that of its own court (checkout.go, bookingMu); and with no     *)
(* session ended and no fault, an error means that the platform turned the *)
(* call down, and a booking that succeeds knows its match, without which   *)
(* no row is saved for the court (booking_core.go): two logins at once, or *)
(* two client objects, must not take the session from under a checkout.    *)
CallsStayApart ==
    \A w \in Calls :
        /\ matched[w] \in {w, NoCall}
        /\ faults = 0 /\ expiries = 0 =>
              /\ answer[w] = "error" => w \in refused
              /\ answer[w] = "ok" /\ kind[w] = "book" => matched[w] = w

(* Every call is answered, whatever fails: no error path keeps a lock that *)
(* a later call waits for.                                                 *)
EveryCallEnds == \A w \in Calls : pc[w] # "idle" ~> pc[w] = "done"

Effect(w) ==
    CASE w \in paid /\ acted[w] = 1 -> "paid"
      [] acted[w] = 0 -> "none"
      [] acted[w] = 1 /\ w \notin paid -> "acted"
      [] OTHER -> "twice"

Asked(w) ==
    CASE kind[w] \in {"book", "cancel", "none"} -> kind[w]
      [] OTHER -> "look"

(* The platform carries out a call at most once, retries and refusals      *)
(* included, and "ok" is answered only for a court reserved and paid       *)
(* (checkout.go, errUnauthorized from step 1 only).                        *)
Promise == INSTANCE BookCall WITH
    asked <- [w \in Calls |-> Asked(w)],
    effect <- [w \in Calls |-> Effect(w)]
ImplementsBookCall == Promise!BookCallSpec
=============================================================================
