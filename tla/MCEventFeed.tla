---------------------------- MODULE MCEventFeed ----------------------------
(***************************************************************************)
(* Instances of EventFeed for TLC.  The log and the page are a few events  *)
(* long instead of 512 and 128, so that a handful of events overflows      *)
(* them; what the runs compare is which of the two is the smaller.         *)
(***************************************************************************)
EXTENDS EventFeed

CONSTANTS j1, j2

OneJob  == {j1}
TwoJobs == {j1, j2}
NoJobs  == {}

Succeeding == {"completed", "cancelled"}
AnyOutcome == {"completed", "cancelled", "failed"}
=============================================================================
