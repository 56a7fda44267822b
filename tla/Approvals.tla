----------------------------- MODULE Approvals -----------------------------
(***************************************************************************)
(* The approval engine under concurrent deciders: leave requests and       *)
(* expenses (decided without a lock on their row), stock documents         *)
(* (decided under one), leave encashments (which share the leave balance   *)
(* but have no workflow), and the administrator who replaces the steps     *)
(* while requests are in flight. One organisation, one employee, one leave *)
(* year.                                                                   *)
(*                                                                         *)
(* A decision is a database transaction at READ COMMITTED: each read sees  *)
(* what is committed by then, what it read is kept in the session and not  *)
(* read again, and an UPDATE waits for the transaction that updated the    *)
(* row before it and then overwrites the columns it changed. Who may       *)
(* decide a step is left out: anybody may try.                             *)
(***************************************************************************)
EXTENDS Integers, Sequences, FiniteSets, FiniteSetsExt

CONSTANTS
    Leave, Encashment, Expense, Stock,  \* requests of each kind
    Days,           \* of each leave request and encashment
    Entitlement,    \* the employee's leave days this year
    MaxSteps,       \* bounds the workflow an administrator writes
    MaxRequests,    \* bounds the requests that are submitted
    Txn,            \* deciding transactions that may overlap
    None

Request == Leave \cup Encashment \cup Expense \cup Stock
Routed == Leave \cup Expense \cup Stock     \* go through the engine

ASSUME KindAssumption ==
    /\ Leave \cap Stock = {} /\ Expense \cap Stock = {}
    /\ Encashment \cap Routed = {} /\ Leave \cap Expense = {}
    /\ None \notin Request
ASSUME DaysAssumption ==
    /\ Days \in [Leave \cup Encashment -> Nat \ {0}]
    /\ Entitlement \in Nat /\ MaxSteps \in Nat /\ MaxRequests \in Nat

VARIABLES
    doc,        \* LeaveRequest, Expense, stock document: status
    instance,   \* ApprovalInstance: status and current_step
    trail,      \* ApprovalInstanceDecision rows, in the order they commit
    steps,      \* ApprovalWorkflowStep: how many, by kind of request
    txn,        \* what each open transaction has read and done
    required    \* history: the steps in force when the approval was judged

vars == <<doc, instance, trail, steps, txn, required>>

Status == {"absent", "pending", "approved", "rejected", "cancelled", "reimbursed"}
InstanceStatus == {"none", "pending", "approved", "rejected"}
Phase == {"idle", "loaded", "seen", "judged", "decided", "funded", "reimbursing"}
Decision == [step : Nat, approve : BOOLEAN]
InstanceRow == [status : InstanceStatus, step : 1..(MaxSteps + 1)]
Steps == [{"leave", "expense", "stock"} -> 0..MaxSteps]
Reads == [phase : Phase, req : Request \cup {None}, approve : BOOLEAN, step : Nat, total : 0..MaxSteps]
Idle == [phase |-> "idle", req |-> None, approve |-> FALSE, step |-> 0, total |-> 0]

TypeOK ==
    /\ doc \in [Request -> Status]
    /\ instance \in [Routed -> InstanceRow]
    /\ trail \in [Routed -> Seq(Decision)]
    /\ steps \in Steps
    /\ txn \in [Txn -> Reads]
    /\ required \in [Routed -> 0..(MaxSteps + 1)]

Init ==
    /\ doc = [r \in Request |-> "absent"]
    /\ instance = [r \in Routed |-> [status |-> "none", step |-> 1]]
    /\ trail = [r \in Routed |-> <<>>]
    /\ steps = [kind \in {"leave", "expense", "stock"} |-> 0]
    /\ txn = [t \in Txn |-> Idle]
    /\ required = [r \in Routed |-> 0]

KindOf(r) == IF r \in Leave THEN "leave" ELSE IF r \in Expense THEN "expense" ELSE "stock"

-----------------------------------------------------------------------------
(* Row locks.                                                              *)

\* Mutant: the document is read without FOR UPDATE.
DocumentNotLocked(r) == FALSE

\* Stock documents are read FOR UPDATE and held to the end of the transaction.
DocumentLocked(r) == r \in Stock /\ \E t \in Txn : txn[t].req = r

\* The row of an instance is locked by the UPDATE that decide() flushes.
InstanceLocked(r) == \E t \in Txn : txn[t].req = r /\ txn[t].phase \in {"decided", "funded"}

-----------------------------------------------------------------------------
(* Requests by their owners and by the administrator.                      *)

\* Mutant: a rejected request can be submitted again.
SubmitAgain(r) ==
    /\ doc[r] \in {"absent", "rejected"}
    /\ Cardinality({q \in Request \ {r} : doc[q] # "absent"}) < MaxRequests
    /\ doc' = [doc EXCEPT ![r] = "pending"]
    /\ instance' = IF r \in Encashment THEN instance
                   ELSE [instance EXCEPT ![r].status = "pending"]
    /\ UNCHANGED <<trail, steps, txn, required>>

\* A leave request or an expense opens its instance with it; a stock document
\* does unless the settings ask for no approval.
Submit(r) ==
    /\ doc[r] = "absent"
    /\ Cardinality({q \in Request : doc[q] # "absent"}) < MaxRequests
    /\ \/ /\ doc' = [doc EXCEPT ![r] = "pending"]
          /\ instance' = IF r \in Encashment THEN instance
                         ELSE [instance EXCEPT ![r].status = "pending"]
       \/ /\ r \in Stock
          /\ doc' = [doc EXCEPT ![r] = "approved"]
          /\ UNCHANGED instance
    /\ UNCHANGED <<trail, steps, txn, required>>

\* Only stock documents can be cancelled; their instance is left as it is.
Cancel(r) ==
    /\ r \in Stock /\ doc[r] \in {"pending", "approved"} /\ ~DocumentLocked(r)
    /\ doc' = [doc EXCEPT ![r] = "cancelled"]
    /\ UNCHANGED <<instance, trail, steps, txn, required>>

\* The steps of a kind nobody has requested yet may as well be replaced later.
ReplaceSteps(kind, n) ==
    /\ n # steps[kind] /\ \E r \in Routed : KindOf(r) = kind /\ doc[r] # "absent"
    /\ steps' = [steps EXCEPT ![kind] = n]
    /\ UNCHANGED <<doc, instance, trail, txn, required>>

-----------------------------------------------------------------------------
(* A deciding transaction, one statement at a time.                        *)

Advance(t, next) ==
    /\ txn' = [txn EXCEPT ![t] = next]
    /\ UNCHANGED <<doc, instance, trail, steps, required>>

\* The endpoint loads the request. One that is no longer pending is refused
\* here or two reads later: it changes nothing either way.
Load(t, r, approve) ==
    /\ txn[t] = Idle
    /\ doc[r] = "pending" /\ ~DocumentLocked(r)
    /\ Advance(t, [Idle EXCEPT !.phase = "loaded", !.req = r, !.approve = approve])

ReadInstance(t) ==
    /\ txn[t].phase = "loaded" /\ txn[t].req \in Routed
    /\ instance[txn[t].req].status = "pending"
    /\ Advance(t, [txn[t] EXCEPT !.phase = "seen", !.step = instance[txn[t].req].step])

\* The steps are read live, after the instance.
ReadSteps(t) ==
    /\ txn[t].phase = "seen"
    /\ Advance(t, [txn[t] EXCEPT !.phase = "judged", !.total = steps[KindOf(txn[t].req)]])

\* No steps at all count as one.
StepsToPass(n) == IF n = 0 THEN 1 ELSE n

\* Mutant: the step after this one counts as approved already.
FinalTooSoon(t) == ~txn[t].approve \/ txn[t].step + 1 >= StepsToPass(txn[t].total)

\* Mutant: a step past a workflow that was shortened never closes the request.
FinalOnlyAtLast(t) == ~txn[t].approve \/ txn[t].step = StepsToPass(txn[t].total)

\* Whether this decision closes the request.
Final(t) == ~txn[t].approve \/ txn[t].step >= StepsToPass(txn[t].total)

Decide(t) ==
    /\ txn[t].phase = "judged" /\ ~InstanceLocked(txn[t].req)
    /\ Advance(t, [txn[t] EXCEPT !.phase = "decided"])

\* Leave and encashments approved so far, as committed now.
DaysTaken == MapThenSumSet(LAMBDA r : Days[r], {r \in Leave \cup Encashment : doc[r] = "approved"})

NeedsBalance(t) ==
    \/ txn[t].phase = "decided" /\ txn[t].req \in Leave /\ txn[t].approve /\ Final(t)
    \/ txn[t].phase = "loaded" /\ txn[t].req \in Encashment /\ txn[t].approve

CheckBalance(t) ==
    /\ NeedsBalance(t)
    /\ Days[txn[t].req] <= Entitlement - DaysTaken
    /\ Advance(t, [txn[t] EXCEPT !.phase = "funded"])

Closed(approve) == IF approve THEN "approved" ELSE "rejected"

\* Mutant: a refusal closes the request and not its instance.
InstanceKeptOpen(t, row) ==
    IF Final(t) /\ txn[t].approve THEN [row EXCEPT !.status = "approved"]
    ELSE [row EXCEPT !.step = txn[t].step]

\* The columns the decision changed, computed from what it read.
InstanceAfter(t, row) ==
    IF Final(t) THEN [row EXCEPT !.status = Closed(txn[t].approve)]
    ELSE [row EXCEPT !.step = txn[t].step + 1]

CommitDecision(t) ==
    LET r == txn[t].req IN
    /\ r \in Routed /\ txn[t].phase \in {"decided", "funded"} /\ ~NeedsBalance(t)
    /\ instance' = [instance EXCEPT ![r] = InstanceAfter(t, @)]
    /\ trail' = [trail EXCEPT ![r] = Append(@, [step |-> txn[t].step, approve |-> txn[t].approve])]
    /\ doc' = IF Final(t) THEN [doc EXCEPT ![r] = Closed(txn[t].approve)] ELSE doc
    /\ required' = IF Final(t) /\ txn[t].approve
                   THEN [required EXCEPT ![r] = StepsToPass(txn[t].total)] ELSE required
    /\ txn' = [txn EXCEPT ![t] = Idle]
    /\ UNCHANGED steps

CommitEncashment(t) ==
    LET r == txn[t].req IN
    /\ r \in Encashment /\ txn[t].phase \in {"loaded", "funded"} /\ ~NeedsBalance(t)
    /\ doc' = [doc EXCEPT ![r] = Closed(txn[t].approve)]
    /\ txn' = [txn EXCEPT ![t] = Idle]
    /\ UNCHANGED <<instance, trail, steps, required>>

\* Reimbursing reads the expense and writes it; the instance is not touched.
LoadToReimburse(t, r) ==
    /\ txn[t] = Idle /\ r \in Expense /\ doc[r] = "approved"
    /\ Advance(t, [Idle EXCEPT !.phase = "reimbursing", !.req = r])

CommitReimbursement(t) ==
    /\ txn[t].phase = "reimbursing"
    /\ doc' = [doc EXCEPT ![txn[t].req] = "reimbursed"]
    /\ txn' = [txn EXCEPT ![t] = Idle]
    /\ UNCHANGED <<instance, trail, steps, required>>

\* Refused, disconnected or crashed: everything is rolled back.
Abort(t) == txn[t] # Idle /\ Advance(t, Idle)

Next ==
    \/ \E r \in Request : Submit(r) \/ Cancel(r)
    \/ \E kind \in DOMAIN steps, n \in 0..MaxSteps : ReplaceSteps(kind, n)
    \/ \E t \in Txn :
        \/ \E r \in Request, approve \in BOOLEAN : Load(t, r, approve)
        \/ ReadInstance(t) \/ ReadSteps(t) \/ Decide(t) \/ CheckBalance(t)
        \/ CommitDecision(t) \/ CommitEncashment(t)
        \/ \E r \in Request : LoadToReimburse(t, r)
        \/ CommitReimbursement(t) \/ Abort(t)

Spec == Init /\ [][Next]_vars

-----------------------------------------------------------------------------
(* Properties.                                                             *)

Signed(r, s) == \E i \in DOMAIN trail[r] : trail[r][i] = [step |-> s, approve |-> TRUE]

\* However decisions overlap, a request and its instance tell the same story:
\* the row of the instance is locked first, so whoever writes it last writes the
\* request last (approvals.py:189-218, api/v1/leave.py:155-163). Two states have no
\* counterpart: a reimbursed expense and a cancelled document.
StatusesAgree ==
    \A r \in Routed :
        doc[r] \in {"pending", "approved", "rejected"} /\ instance[r].status # "none" =>
            doc[r] = instance[r].status

\* Nobody skips a step: an instance stands at a step only when every step before
\* it was approved, and it was approved only when every step of the workflow in
\* force when the last decision was judged had been, even if two deciders take
\* one step at once or the workflow is replaced between two of them
\* (approvals.py:168-218).
StepsSigned ==
    \A r \in Routed :
        /\ \A s \in 1..(instance[r].step - 1) : Signed(r, s)
        /\ instance[r].status = "approved" => \A s \in 1..required[r] : Signed(r, s)

\* A stock document is decided under its row lock, so its trail has one decision
\* per step, in order, and none after a refusal (inventory_issues.py:253-271).
LockedTrailInOrder ==
    \A r \in Stock :
        /\ \A i \in DOMAIN trail[r] : trail[r][i].step = i
        /\ \A i \in DOMAIN trail[r] : i < Len(trail[r]) => trail[r][i].approve

\* To the owner of a stock document the engine is an approval chain: opened once,
\* signed step by step, closed for good (approvals.py:145-218).
Chain == INSTANCE ApprovalChain WITH
    Request <- Stock,
    outcome <- [r \in Stock |-> instance[r].status],
    signed <- [r \in Stock |-> Cardinality({i \in DOMAIN trail[r] : trail[r][i].approve})]
ImplementsApprovalChain == Chain!Spec

\* "a pending request can exceed the balance ..., but it can't be approved past
\* what's actually left" (leave.py:61-63).
LeaveWithinEntitlement == DaysTaken <= Entitlement
=============================================================================
