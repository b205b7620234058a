---------------------------- MODULE ImportOutcome ----------------------------
(***************************************************************************)
(* What becomes of one tutorial import, without workers, owners, leases,   *)
(* locks, attempts or stops.  The import is pending until it fails, is     *)
(* cancelled, is deleted or is listed.  An attempt at publishing it may be *)
(* left open by whoever began it, and is then finished or undone by        *)
(* somebody else; the base is listed only through an attempt that has put  *)
(* its files in place.                                                     *)
(***************************************************************************)
VARIABLES
    outcome,  \* what the user is told
    listed,   \* whether the base is in the catalog
    attempt   \* "none", "begun", or "installed" with its files in place

vars == <<outcome, listed, attempt>>

Init == outcome = "pending" /\ listed = FALSE /\ attempt = "none"

Fail ==
    /\ outcome = "pending"
    /\ outcome' \in {"failed", "review", "reconcile"}
    /\ UNCHANGED <<listed, attempt>>

\* Only a failure the user can do nothing else about is tried again.
Retry == outcome = "failed" /\ outcome' = "pending" /\ UNCHANGED <<listed, attempt>>

\* A cancellation comes before an attempt or not at all ...
Cancel ==
    /\ outcome = "pending" /\ attempt = "none"
    /\ outcome' = "cancelled"
    /\ UNCHANGED <<listed, attempt>>

\* ... while a pending import can be deleted from under its attempt.
Delete == outcome = "pending" /\ outcome' = "gone" /\ UNCHANGED <<listed, attempt>>

Begin ==
    /\ attempt = "none" /\ attempt' = "begun"
    /\ outcome \notin {"listed", "cancelled"}
    /\ UNCHANGED <<outcome, listed>>

Install == attempt = "begun" /\ attempt' = "installed" /\ UNCHANGED <<outcome, listed>>

\* What the user is told and what the catalog lists change together.
List ==
    /\ attempt = "installed"
    /\ outcome \in {"pending", "reconcile"}
    /\ outcome' = "listed" /\ listed' = TRUE

Publish == List /\ UNCHANGED attempt

Undo == attempt = "begun" /\ attempt' = "none" /\ UNCHANGED <<outcome, listed>>

\* Files in place are never given up: their attempt ends with the base listed.
Close ==
    /\ attempt = "installed" /\ attempt' = "none"
    /\ outcome = "listed" /\ UNCHANGED <<outcome, listed>>

Replay == List /\ attempt' = "none"

Remove ==
    /\ listed /\ attempt = "none"
    /\ outcome' = "gone" /\ listed' = FALSE
    /\ UNCHANGED attempt

Next ==
    \/ Fail \/ Retry \/ Cancel \/ Delete
    \/ Begin \/ Install \/ Publish \/ Undo \/ Close \/ Replay
    \/ Remove

Spec == Init /\ [][Next]_vars
=============================================================================
