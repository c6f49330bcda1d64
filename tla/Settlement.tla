----------------------------- MODULE Settlement -----------------------------
(***************************************************************************)
(* What the shared store promises about a pending request, seen from any   *)
(* process: a request is posted at most once, settled at most once, keeps  *)
(* its recorded resolution until it is forgotten, and never comes back;    *)
(* and what its asker is promised: one outcome, for good.                  *)
(***************************************************************************)
EXTENDS Integers

CONSTANTS Requests,     \* request ids
          Resolutions,  \* what a request can be settled with
          Outcomes      \* what an ask can return

VARIABLES cell,     \* [r] "unset", "pending", a resolution, or "gone"
          outcome   \* [r] "none", or what r's ask returned

Init ==
    /\ cell = [r \in Requests |-> "unset"]
    /\ outcome = [r \in Requests |-> "none"]

Post(r) ==
    /\ cell[r] = "unset"
    /\ cell' = [cell EXCEPT ![r] = "pending"]
    /\ UNCHANGED outcome

Settle(r, v) ==
    /\ cell[r] = "pending"
    /\ cell' = [cell EXCEPT ![r] = v]
    /\ UNCHANGED outcome

\* Requests that were withdrawn, never posted, or whose rows expired.
Forget(S) ==
    /\ S # {}
    /\ cell' = [r \in Requests |-> IF r \in S THEN "gone" ELSE cell[r]]
    /\ UNCHANGED outcome

Return(r, v) ==
    /\ outcome[r] = "none"
    /\ outcome' = [outcome EXCEPT ![r] = v]
    /\ UNCHANGED cell

\* An ask that returns without having posted its request.
Waive(r, v) ==
    /\ outcome[r] = "none"
    /\ outcome' = [outcome EXCEPT ![r] = v]
    /\ cell' = [cell EXCEPT ![r] = "gone"]

Next ==
    \/ \E r \in Requests : Post(r)
    \/ \E r \in Requests, v \in Resolutions : Settle(r, v)
    \/ \E S \in SUBSET Requests : Forget(S)
    \/ \E r \in Requests, v \in Outcomes : Return(r, v) \/ Waive(r, v)

Spec == Init /\ [][Next]_<<cell, outcome>>
=============================================================================
