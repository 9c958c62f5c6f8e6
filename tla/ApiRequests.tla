---------------------------- MODULE ApiRequests ----------------------------
(***************************************************************************)
(* Requests to the management service that administrators and server       *)
(* owners make, and the jobs beside them: each is a goroutine that makes   *)
(* one statement, transaction or platform call at a time and then answers. *)
(* Accounts and VenueDesk say what the steps do.                           *)
(***************************************************************************)
EXTENDS Integers

CONSTANTS
    Requests,   \* bound: requests and jobs
    NoReq,      \* no request
    MaxFaults   \* bound: statements and calls that fail

ASSUME RequestsAssumption == NoReq \notin Requests /\ MaxFaults \in Nat

VARIABLES
    pc,      \* [Requests -> the step a request is at]
    req,     \* [Requests -> the request: what it is to do, on what]
    answer,  \* [Requests -> "none", "ok", "refused" or "error"]
    faults   \* faults so far

requestVars == <<pc, req, answer, faults>>

NoRequest == [op |-> "none"]

RequestsInit ==
    /\ pc = [r \in Requests |-> "idle"]
    /\ req = [r \in Requests |-> NoRequest]
    /\ answer = [r \in Requests |-> "none"]
    /\ faults = 0

Works == UNCHANGED faults
Fails == faults < MaxFaults /\ faults' = faults + 1

Goto(r, l) ==
    /\ pc' = [pc EXCEPT ![r] = l]
    /\ UNCHANGED <<req, answer>>

Respond(r, a) ==
    /\ pc' = [pc EXCEPT ![r] = "done"]
    /\ answer' = [answer EXCEPT ![r] = a]
    /\ UNCHANGED req

(* A request comes in and starts at step l.                                *)
Receive(r, what, l) ==
    /\ pc[r] = "idle"
    /\ pc' = [pc EXCEPT ![r] = l]
    /\ req' = [req EXCEPT ![r] = what]
    /\ UNCHANGED <<answer, faults>>

At(r, op, l) == req[r].op = op /\ pc[r] = l
=============================================================================
