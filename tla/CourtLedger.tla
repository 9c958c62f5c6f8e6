---------------------------- MODULE CourtLedger -----------------------------
(***************************************************************************)
(* What court_bookings promises about the reservations at the platform,    *)
(* however jobs, requests, failures and restarts interleave: a reservation *)
(* is made once and given back at most once; its record is opened at most  *)
(* once, after the reservation was made, and closed at most once, after    *)
(* the reservation was given back or the game date is over.                *)
(***************************************************************************)
CONSTANT Matches

VARIABLES st,     \* [Matches -> "unused" | "live" | "canceled"]
          row,    \* [Matches -> "none" | "active" | "canceled"]
          over    \* the date is over

ledger == <<st, row, over>>

LedgerInit ==
    /\ st = [m \in Matches |-> "unused"]
    /\ row = [m \in Matches |-> "none"]
    /\ over = FALSE

Reserve(m) ==
    /\ st[m] = "unused"
    /\ st' = [st EXCEPT ![m] = "live"]
    /\ UNCHANGED <<row, over>>

GiveBack(m) ==
    /\ st[m] = "live"
    /\ st' = [st EXCEPT ![m] = "canceled"]
    /\ UNCHANGED <<row, over>>

Open(m) ==
    /\ st[m] # "unused" /\ row[m] = "none"
    /\ row' = [row EXCEPT ![m] = "active"]
    /\ UNCHANGED <<st, over>>

Close(ms) ==
    /\ \A m \in ms : row[m] = "active" /\ (over \/ st[m] = "canceled")
    /\ row' = [m \in Matches |-> IF m \in ms THEN "canceled" ELSE row[m]]
    /\ UNCHANGED <<st, over>>

DayEnds == ~over /\ over' = TRUE /\ UNCHANGED <<st, row>>

LedgerNext ==
    \/ \E m \in Matches : Reserve(m) \/ GiveBack(m) \/ Open(m)
    \/ \E ms \in SUBSET Matches : Close(ms)
    \/ DayEnds

LedgerSpec == LedgerInit /\ [][LedgerNext]_ledger
=============================================================================
