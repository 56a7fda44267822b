--------------------------- MODULE ApprovalChain ---------------------------
(***************************************************************************)
(* What the approval engine promises the owner of a request: it is opened  *)
(* once, signed one step after the other by whoever the organisation       *)
(* names, and closed once, by the last signature or by a refusal at any    *)
(* step. A closed request stays as it is. Nothing is said of the number of *)
(* steps: an administrator may change it while the request is open.        *)
(***************************************************************************)
EXTENDS Naturals

CONSTANT Request

VARIABLES
    outcome,    \* of each request: none, pending, approved or rejected
    signed      \* how many steps of it have been approved

vars == <<outcome, signed>>

Init ==
    /\ outcome = [r \in Request |-> "none"]
    /\ signed = [r \in Request |-> 0]

Open(r) ==
    /\ outcome[r] = "none"
    /\ outcome' = [outcome EXCEPT ![r] = "pending"]
    /\ UNCHANGED signed

Sign(r) ==
    /\ outcome[r] = "pending"
    /\ signed' = [signed EXCEPT ![r] = @ + 1]
    /\ outcome' \in {outcome, [outcome EXCEPT ![r] = "approved"]}

Refuse(r) ==
    /\ outcome[r] = "pending"
    /\ outcome' = [outcome EXCEPT ![r] = "rejected"]
    /\ UNCHANGED signed

Next == \E r \in Request : Open(r) \/ Sign(r) \/ Refuse(r)

Spec == Init /\ [][Next]_vars
=============================================================================
