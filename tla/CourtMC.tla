------------------------------- MODULE CourtMC ------------------------------
(* Values for the constants of CourtLifecycle that are not plain numbers.  *)
EXTENDS CourtProperties

(* The order NewScheduler is given the jobs in (main.go).                  *)
AllJobs == <<"reminder", "halfway", "final", "booking_reminder", "cleanup", "auto_booking">>

(* Fewer jobs where the head counts before the deadline do not matter.     *)
FewJobs == <<"reminder", "booking_reminder", "cleanup", "auto_booking">>

(* When the games start.                                                   *)
OneVerySoon == [s \in {1} |-> 3]
OneSoon == [s \in {1} |-> 5]
OneMiddling == [s \in {1} |-> 6]
OneLater == [s \in {1} |-> 8]
TwoLater == [s \in {1, 2} |-> 6 + s]

(* What the platform lists, and what the venue prefers of it.              *)
TwoCourts == <<1, 2>>
ThreeCourts == <<1, 2, 3>>
FourCourts == <<1, 2, 3, 4>>
PreferTwoOne == <<2, 1>>
PreferThree == <<3, 1, 2>>
=============================================================================
