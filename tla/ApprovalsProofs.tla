-------------------------- MODULE ApprovalsProofs --------------------------
(***************************************************************************)
(* What holds of the approval engine for any requests, any number of       *)
(* overlapping transactions and any length of workflow.                    *)
(***************************************************************************)
EXTENDS Approvals, FiniteSetTheorems, TLAPS

-----------------------------------------------------------------------------
(* Types.                                                                  *)

LEMMA IdleType == Idle \in Reads
BY DaysAssumption DEF Idle, Reads, Phase

LEMMA AdvanceType ==
    ASSUME TypeOK, NEW t \in Txn, NEW next \in Reads, Advance(t, next)
    PROVE  TypeOK'
BY DEF TypeOK, Advance, Reads

LEMMA StepsToPassType ==
    ASSUME NEW n \in 0..MaxSteps
    PROVE  StepsToPass(n) \in 1..(MaxSteps + 1)
BY DaysAssumption DEF StepsToPass

(* A decision that does not close the request leaves it inside the workflow *)
(* the decision was judged by.                                              *)
LEMMA InstanceAfterType ==
    ASSUME TypeOK, NEW t \in Txn, NEW row \in InstanceRow
    PROVE  InstanceAfter(t, row) \in InstanceRow
<1>1. txn[t] \in Reads /\ txn[t].total \in 0..MaxSteps /\ txn[t].step \in Nat
  BY DEF TypeOK, Reads
<1>2. CASE Final(t)
  BY <1>2 DEF InstanceAfter, Closed, InstanceRow, InstanceStatus
<1>3. CASE ~Final(t)
  <2>1. txn[t].step + 1 \in 1..(MaxSteps + 1)
    BY <1>1, <1>3, DaysAssumption DEF Final, StepsToPass
  <2> QED  BY <1>3, <2>1 DEF InstanceAfter, InstanceRow
<1> QED  BY <1>2, <1>3

LEMMA SubmitType == ASSUME TypeOK, NEW r \in Request, Submit(r) PROVE TypeOK'
<1>1. doc' \in [Request -> Status]
  BY DEF TypeOK, Submit, Status
<1>2. instance' \in [Routed -> InstanceRow]
  <2>1. CASE instance' = instance  BY <2>1 DEF TypeOK, InstanceRow
  <2>2. CASE r \in Routed /\ instance' = [instance EXCEPT ![r].status = "pending"]
    BY <2>2 DEF TypeOK, InstanceRow, InstanceStatus
  <2> QED  BY <2>1, <2>2 DEF Submit, Request, Routed
<1> QED  BY <1>1, <1>2 DEF TypeOK, Submit, InstanceRow

LEMMA CommitDecisionType == ASSUME TypeOK, NEW t \in Txn, CommitDecision(t) PROVE TypeOK'
<1> DEFINE r == txn[t].req
<1>1. r \in Routed /\ r \in Request
  BY DEF CommitDecision, Routed, Request
<1>2. txn[t] \in Reads /\ txn[t].total \in 0..MaxSteps /\ txn[t].step \in Nat
      /\ txn[t].approve \in BOOLEAN
  BY DEF TypeOK, Reads
<1>3. doc' \in [Request -> Status]
  BY <1>1 DEF TypeOK, CommitDecision, Closed, Status
<1>4. instance' \in [Routed -> InstanceRow]
  <2>1. instance \in [Routed -> InstanceRow]  BY DEF TypeOK, InstanceRow
  <2>2. InstanceAfter(t, instance[r]) \in InstanceRow  BY <1>1, <2>1, InstanceAfterType
  <2>3. instance' = [instance EXCEPT ![r] = InstanceAfter(t, instance[r])]
    BY DEF CommitDecision
  <2> QED  BY <1>1, <2>1, <2>2, <2>3
<1>5. trail' \in [Routed -> Seq(Decision)]
  <2>1. trail \in [Routed -> Seq(Decision)]  BY DEF TypeOK
  <2>2. [step |-> txn[t].step, approve |-> txn[t].approve] \in Decision
    BY <1>2 DEF Decision
  <2>3. Append(trail[r], [step |-> txn[t].step, approve |-> txn[t].approve]) \in Seq(Decision)
    BY <1>1, <2>1, <2>2
  <2>4. trail' = [trail EXCEPT ![r] = Append(trail[r], [step |-> txn[t].step, approve |-> txn[t].approve])]
    BY DEF CommitDecision
  <2> QED  BY <1>1, <2>1, <2>3, <2>4
<1>6. required' \in [Routed -> 0..(MaxSteps + 1)]
  <2>1. required \in [Routed -> 0..(MaxSteps + 1)]  BY DEF TypeOK
  <2>2. StepsToPass(txn[t].total) \in 0..(MaxSteps + 1)  BY <1>2, StepsToPassType
  <2>3. required' = required \/ required' = [required EXCEPT ![r] = StepsToPass(txn[t].total)]
    BY DEF CommitDecision
  <2> QED  BY <1>1, <2>1, <2>2, <2>3
<1>7. txn' \in [Txn -> Reads]
  BY IdleType DEF TypeOK, CommitDecision, Reads
<1>8. steps' = steps  BY DEF CommitDecision
<1> QED  BY <1>3, <1>4, <1>5, <1>6, <1>7, <1>8 DEF TypeOK, InstanceRow, Reads

LEMMA TypeStep == ASSUME TypeOK, [Next]_vars PROVE TypeOK'
<1>1. ASSUME NEW r \in Request, Submit(r) PROVE TypeOK'
  BY <1>1, SubmitType
<1>2. ASSUME NEW r \in Request, Cancel(r) PROVE TypeOK'
  BY <1>2 DEF TypeOK, Cancel, Status
<1>3. ASSUME NEW kind \in DOMAIN steps, NEW n \in 0..MaxSteps, ReplaceSteps(kind, n) PROVE TypeOK'
  BY <1>3 DEF TypeOK, Steps, ReplaceSteps
<1>4. ASSUME NEW t \in Txn, NEW r \in Request, NEW approve \in BOOLEAN, Load(t, r, approve)
      PROVE  TypeOK'
  <2>1. [Idle EXCEPT !.phase = "loaded", !.req = r, !.approve = approve] \in Reads
    BY IdleType DEF Reads, Phase
  <2> QED  BY <1>4, <2>1, AdvanceType DEF Load
<1>5. ASSUME NEW t \in Txn, ReadInstance(t) PROVE TypeOK'
  <2>1. txn[t] \in Reads /\ instance[txn[t].req].step \in Nat
    BY <1>5, DaysAssumption DEF TypeOK, InstanceRow, Reads, ReadInstance
  <2>2. [txn[t] EXCEPT !.phase = "seen", !.step = instance[txn[t].req].step] \in Reads
    BY <2>1 DEF Reads, Phase
  <2> QED  BY <1>5, <2>2, AdvanceType DEF ReadInstance
<1>6. ASSUME NEW t \in Txn, ReadSteps(t) PROVE TypeOK'
  <2>1. txn[t] \in Reads /\ steps[KindOf(txn[t].req)] \in 0..MaxSteps
    BY DEF TypeOK, Steps, Reads, KindOf
  <2>2. [txn[t] EXCEPT !.phase = "judged", !.total = steps[KindOf(txn[t].req)]] \in Reads
    BY <2>1 DEF Reads, Phase
  <2> QED  BY <1>6, <2>2, AdvanceType DEF ReadSteps
<1>7. ASSUME NEW t \in Txn, Decide(t) \/ CheckBalance(t) PROVE TypeOK'
  <2>1. /\ [txn[t] EXCEPT !.phase = "decided"] \in Reads
        /\ [txn[t] EXCEPT !.phase = "funded"] \in Reads
    BY DEF TypeOK, Reads, Phase
  <2> QED  BY <1>7, <2>1, AdvanceType DEF Decide, CheckBalance
<1>8. ASSUME NEW t \in Txn, CommitDecision(t) PROVE TypeOK'
  BY <1>8, CommitDecisionType
<1>9. ASSUME NEW t \in Txn, CommitEncashment(t) \/ CommitReimbursement(t) PROVE TypeOK'
  <2>1. doc' \in [Request -> Status]
    BY <1>9 DEF TypeOK, CommitEncashment, CommitReimbursement, Closed, Status
  <2>2. txn' \in [Txn -> Reads]
    BY <1>9, IdleType DEF TypeOK, CommitEncashment, CommitReimbursement, Reads
  <2> QED
    BY <1>9, <2>1, <2>2 DEF TypeOK, CommitEncashment, CommitReimbursement, Reads
<1>10. ASSUME NEW t \in Txn, NEW r \in Request, LoadToReimburse(t, r) PROVE TypeOK'
  <2>1. [Idle EXCEPT !.phase = "reimbursing", !.req = r] \in Reads
    BY IdleType DEF Reads, Phase
  <2> QED  BY <1>10, <2>1, AdvanceType DEF LoadToReimburse
<1>11. ASSUME NEW t \in Txn, Abort(t) PROVE TypeOK'
  BY <1>11, IdleType, AdvanceType DEF Abort
<1>12. CASE UNCHANGED vars
  BY <1>12 DEF TypeOK, vars
<1> HIDE DEF TypeOK
<1> QED
  BY <1>1, <1>2, <1>3, <1>4, <1>5, <1>6, <1>7, <1>8, <1>9, <1>10, <1>11, <1>12 DEF Next

LEMMA TypeInit == Init => TypeOK
BY IdleType, DaysAssumption DEF Init, TypeOK, Steps, InstanceRow, Status, InstanceStatus, Reads, Decision

(* Whatever order decisions and replacements of the workflow come in, an    *)
(* instance never stands past the longest workflow there can be             *)
(* (approvals.py:178-218).                                                  *)
THEOREM TypeCorrect == Spec => []TypeOK
<1> QED  BY TypeInit, TypeStep, PTL DEF Spec

-----------------------------------------------------------------------------
(* No step is skipped.                                                     *)

(* The transaction has read the instance it decides. *)
Engaged(t) == txn[t].req \in Routed /\ txn[t].phase \in {"seen", "judged", "decided", "funded"}

(* StepsSigned is not inductive: a transaction writes the step after the one *)
(* it read, so every step before the one it read must be signed as well.     *)
ReadStepsSigned ==
    \A t \in Txn : Engaged(t) => \A s \in 1..(txn[t].step - 1) : Signed(txn[t].req, s)

StepsInv == StepsSigned /\ ReadStepsSigned

(* What a transaction does before it commits. *)
Working(t) ==
    \/ \E r \in Request, approve \in BOOLEAN : Load(t, r, approve)
    \/ ReadInstance(t) \/ ReadSteps(t) \/ Decide(t) \/ CheckBalance(t)
    \/ \E r \in Request : LoadToReimburse(t, r)
    \/ Abort(t)

LEMMA WorkingTouchesNothing ==
    ASSUME TypeOK, NEW t \in Txn, Working(t)
    PROVE  /\ UNCHANGED <<doc, instance, trail, steps, required>>
           /\ \A u \in Txn \ {t} : txn'[u] = txn[u]
<1>1. \E next : Advance(t, next)
  BY DEF Working, Load, ReadInstance, ReadSteps, Decide, CheckBalance, LoadToReimburse, Abort
<1> QED  BY <1>1 DEF TypeOK, Advance

LEMMA WorkingReads ==
    ASSUME NEW q \in Reads, NEW phase, NEW total
    PROVE  /\ [q EXCEPT !.phase = phase].req = q.req
           /\ [q EXCEPT !.phase = phase].step = q.step
           /\ [q EXCEPT !.phase = phase, !.total = total].req = q.req
           /\ [q EXCEPT !.phase = phase, !.total = total].step = q.step
BY DEF Reads

(* Before it commits, a transaction stays with its request and its step,     *)
(* unless it is only now reading them.                                       *)
LEMMA WorkingKeepsStep ==
    ASSUME TypeOK, NEW t \in Txn, Working(t)
    PROVE  \/ ~Engaged(t)'
           \/ /\ Engaged(t) /\ txn'[t].req = txn[t].req /\ txn'[t].step = txn[t].step
           \/ /\ txn'[t].req = txn[t].req /\ txn[t].req \in Routed
              /\ instance[txn[t].req].status = "pending"
              /\ txn'[t].step = instance[txn[t].req].step
<1>1. ASSUME NEW r \in Request, NEW approve \in BOOLEAN, Load(t, r, approve) PROVE ~Engaged(t)'
  BY <1>1 DEF TypeOK, Load, Advance, Idle, Engaged
<1>2. CASE ReadInstance(t)
  BY <1>2 DEF TypeOK, Reads, ReadInstance, Advance
<1>3. CASE ReadSteps(t) \/ Decide(t)
  <2>0. txn[t] \in Reads  BY DEF TypeOK
  <2>1. PICK next : /\ txn' = [txn EXCEPT ![t] = next]
                    /\ next.req = txn[t].req /\ next.step = txn[t].step
                    /\ txn[t].phase \in {"seen", "judged"}
    <3>1. CASE ReadSteps(t)
      <4> WITNESS [txn[t] EXCEPT !.phase = "judged", !.total = steps[KindOf(txn[t].req)]]
      <4> QED  BY <2>0, <3>1, WorkingReads DEF ReadSteps, Advance
    <3>2. CASE Decide(t)
      <4> WITNESS [txn[t] EXCEPT !.phase = "decided"]
      <4> QED  BY <2>0, <3>2, WorkingReads DEF Decide, Advance
    <3> QED  BY <1>3, <3>1, <3>2
  <2>2. txn'[t] = next  BY <2>1 DEF TypeOK
  <2> QED  BY <2>1, <2>2 DEF Engaged
<1>4. CASE CheckBalance(t)
  <2>1. CASE txn[t].phase = "decided"
    BY <1>4, <2>1 DEF TypeOK, Reads, CheckBalance, Advance, Engaged
  <2>2. CASE txn[t].req \in Encashment
    BY <1>4, <2>2, KindAssumption DEF TypeOK, Reads, CheckBalance, Advance, Engaged
  <2> QED  BY <1>4, <2>1, <2>2 DEF CheckBalance, NeedsBalance
<1>5. ASSUME NEW r \in Request, LoadToReimburse(t, r) PROVE ~Engaged(t)'
  BY <1>5 DEF TypeOK, LoadToReimburse, Advance, Idle, Engaged
<1>6. CASE Abort(t)
  BY <1>6 DEF TypeOK, Abort, Advance, Idle, Engaged
<1> QED  BY <1>1, <1>2, <1>3, <1>4, <1>5, <1>6 DEF Working

LEMMA Appended ==
    ASSUME NEW S, NEW q \in Seq(S), NEW d \in S
    PROVE  /\ Len(q) \in Nat /\ DOMAIN q = 1..Len(q)
           /\ DOMAIN Append(q, d) = 1..(Len(q) + 1)
           /\ Append(q, d)[Len(q) + 1] = d
           /\ \A i \in DOMAIN q : i \in DOMAIN Append(q, d) /\ Append(q, d)[i] = q[i]
OBVIOUS

LEMMA SignedKept ==
    ASSUME TypeOK, NEW t \in Txn, CommitDecision(t), NEW r \in Routed, NEW s, Signed(r, s)
    PROVE  Signed(r, s)'
<1> DEFINE d == [step |-> txn[t].step, approve |-> txn[t].approve]
<1>1. trail \in [Routed -> Seq(Decision)] /\ d \in Decision
  BY DEF TypeOK, Reads, Decision
<1>2. trail' = [trail EXCEPT ![txn[t].req] = Append(@, d)]
  BY DEF CommitDecision
<1>3. CASE r = txn[t].req
  <2>1. trail'[r] = Append(trail[r], d) /\ trail[r] \in Seq(Decision)
    BY <1>1, <1>2, <1>3
  <2>2. \A i \in DOMAIN trail[r] : i \in DOMAIN trail'[r] /\ trail'[r][i] = trail[r][i]
    BY <1>1, <2>1, Appended
  <2> QED  BY <2>2 DEF Signed
<1>4. CASE r # txn[t].req
  <2>1. trail'[r] = trail[r]  BY <1>1, <1>2, <1>4
  <2> QED  BY <2>1 DEF Signed
<1> QED  BY <1>3, <1>4

LEMMA SignedNow ==
    ASSUME TypeOK, NEW t \in Txn, CommitDecision(t), txn[t].approve,
           NEW r \in Routed, r = txn[t].req, NEW s, s = txn[t].step
    PROVE  Signed(r, s)'
<1> DEFINE d == [step |-> s, approve |-> TRUE]
<1>1. trail \in [Routed -> Seq(Decision)] /\ d \in Decision
  BY DEF TypeOK, Reads, Decision
<1>2. trail' = [trail EXCEPT ![r] = Append(@, d)]
  <2>1. txn[t].approve = TRUE  BY DEF TypeOK, Reads
  <2> QED  BY <2>1 DEF CommitDecision
<1>3. trail'[r] = Append(trail[r], d) /\ trail[r] \in Seq(Decision)
  BY <1>1, <1>2
<1>4. Len(trail[r]) + 1 \in DOMAIN trail'[r] /\ trail'[r][Len(trail[r]) + 1] = d
  BY <1>1, <1>3, Appended
<1> QED  BY <1>4 DEF Signed

(* A step that changes no trail and no instance keeps what is signed.        *)
LEMMA SignedSame == ASSUME trail' = trail, NEW r, NEW s PROVE Signed(r, s)' <=> Signed(r, s)
BY DEF Signed

LEMMA SubmitKeepsSteps ==
    ASSUME TypeOK, StepsInv, NEW r \in Request, Submit(r)
    PROVE  StepsInv'
<1>1. /\ \A q \in Routed : /\ instance'[q].step = instance[q].step
                           /\ instance'[q].status = "approved" => instance[q].status = "approved"
      /\ UNCHANGED <<trail, txn, required>>
  <2>1. CASE instance' = instance  BY <2>1 DEF Submit
  <2>2. CASE instance' = [instance EXCEPT ![r].status = "pending"]
    BY <2>2 DEF Submit, TypeOK, InstanceRow
  <2> QED  BY <2>1, <2>2 DEF Submit
<1>2. StepsSigned'
  BY <1>1, SignedSame DEF StepsInv, StepsSigned
<1>3. ReadStepsSigned'
  BY <1>1, SignedSame DEF StepsInv, ReadStepsSigned, Engaged
<1> QED  BY <1>2, <1>3 DEF StepsInv

LEMMA WorkingKeepsSteps ==
    ASSUME TypeOK, StepsInv, NEW t \in Txn, Working(t)
    PROVE  StepsInv'
<1>1. UNCHANGED <<instance, trail, required>>
  BY WorkingTouchesNothing
<1>2. StepsSigned'
  BY <1>1, SignedSame DEF StepsInv, StepsSigned
<1>3. ASSUME NEW u \in Txn, Engaged(u)', NEW s \in 1..(txn'[u].step - 1),
             NEW r, r = txn'[u].req
      PROVE  Signed(r, s)'
  <2>1. CASE u # t
    <3>1. txn'[u] = txn[u]  BY <2>1, WorkingTouchesNothing
    <3> QED  BY <1>1, <1>3, <3>1, SignedSame DEF StepsInv, ReadStepsSigned, Engaged
  <2>2. CASE u = t
    <3>1. CASE Engaged(t) /\ txn'[t].req = txn[t].req /\ txn'[t].step = txn[t].step
      BY <1>1, <1>3, <2>2, <3>1, SignedSame DEF StepsInv, ReadStepsSigned
    <3>2. CASE /\ txn'[t].req = txn[t].req /\ txn[t].req \in Routed
               /\ txn'[t].step = instance[txn[t].req].step
      BY <1>1, <1>3, <2>2, <3>2, SignedSame DEF StepsInv, StepsSigned
    <3> QED  BY <1>3, <2>2, <3>1, <3>2, WorkingKeepsStep
  <2> QED  BY <2>1, <2>2
<1>4. ReadStepsSigned'
  BY <1>3 DEF ReadStepsSigned, Signed
<1> QED  BY <1>2, <1>4 DEF StepsInv

(* What a decision writes, without the EXCEPTs.                              *)
LEMMA DecisionWrites ==
    ASSUME TypeOK, NEW t \in Txn, CommitDecision(t), NEW r \in Routed, r = txn[t].req
    PROVE  /\ \A q \in Routed \ {r} : /\ instance'[q] = instance[q] /\ trail'[q] = trail[q]
                                      /\ doc'[q] = doc[q] /\ required'[q] = required[q]
           /\ Final(t) => /\ instance'[r].status = Closed(txn[t].approve)
                          /\ instance'[r].step = instance[r].step
                          /\ doc'[r] = Closed(txn[t].approve)
           /\ ~Final(t) => /\ txn[t].approve
                           /\ instance'[r].status = instance[r].status
                           /\ instance'[r].step = txn[t].step + 1
                           /\ doc'[r] = doc[r] /\ required'[r] = required[r]
           /\ Final(t) /\ txn[t].approve => /\ required'[r] = StepsToPass(txn[t].total)
                                            /\ required'[r] <= txn[t].step
           /\ trail'[r] = Append(trail[r], [step |-> txn[t].step, approve |-> txn[t].approve])
           /\ txn'[t] = Idle /\ \A u \in Txn \ {t} : txn'[u] = txn[u]
<1>1. /\ doc \in [Request -> Status] /\ instance \in [Routed -> InstanceRow]
      /\ trail \in [Routed -> Seq(Decision)] /\ txn \in [Txn -> Reads]
      /\ required \in [Routed -> 0..(MaxSteps + 1)]
  BY DEF TypeOK
<1>2. instance' = [instance EXCEPT ![r] = InstanceAfter(t, instance[r])]
  BY DEF CommitDecision
<1>3. instance'[r] = InstanceAfter(t, instance[r]) /\ instance[r] \in InstanceRow
  BY <1>1, <1>2
<1>4. /\ Final(t) => /\ instance'[r].status = Closed(txn[t].approve)
                     /\ instance'[r].step = instance[r].step
      /\ ~Final(t) => /\ instance'[r].status = instance[r].status
                      /\ instance'[r].step = txn[t].step + 1
  BY <1>3 DEF InstanceAfter, InstanceRow
<1>5. \A q \in Routed \ {r} : instance'[q] = instance[q]
  BY <1>1, <1>2
<1>6. /\ \A q \in Routed \ {r} : trail'[q] = trail[q]
      /\ trail'[r] = Append(trail[r], [step |-> txn[t].step, approve |-> txn[t].approve])
  BY <1>1 DEF CommitDecision
<1>7. /\ \A q \in Routed \ {r} : doc'[q] = doc[q]
      /\ Final(t) => doc'[r] = Closed(txn[t].approve)
      /\ ~Final(t) => doc'[r] = doc[r]
  BY <1>1 DEF CommitDecision, Routed, Request
<1>8. /\ \A q \in Routed \ {r} : required'[q] = required[q]
      /\ ~Final(t) => required'[r] = required[r]
      /\ Final(t) /\ txn[t].approve => required'[r] = StepsToPass(txn[t].total)
  BY <1>1 DEF CommitDecision
<1>9. txn'[t] = Idle /\ \A u \in Txn \ {t} : txn'[u] = txn[u]
  BY <1>1 DEF CommitDecision
<1>10. /\ ~Final(t) => txn[t].approve
       /\ Final(t) /\ txn[t].approve => StepsToPass(txn[t].total) <= txn[t].step
  BY <1>1, StepsToPassType, DaysAssumption DEF Final, Reads
<1> QED  BY <1>4, <1>5, <1>6, <1>7, <1>8, <1>9, <1>10

LEMMA DecisionKeepsSteps ==
    ASSUME TypeOK, StepsInv, NEW t \in Txn, CommitDecision(t)
    PROVE  StepsInv'
<1>1. PICK r \in Routed : r = txn[t].req
  BY DEF CommitDecision
<1>2. /\ txn[t].phase \in {"decided", "funded"} /\ Engaged(t)
      /\ txn[t].step \in Nat /\ \A q \in Routed : instance[q].step \in Nat
  BY <1>1, DaysAssumption DEF CommitDecision, Engaged, TypeOK, Reads, InstanceRow
<1>0. /\ \A q \in Routed \ {r} : instance'[q] = instance[q] /\ required'[q] = required[q]
      /\ Final(t) => /\ instance'[r].status = Closed(txn[t].approve)
                     /\ instance'[r].step = instance[r].step
      /\ ~Final(t) => /\ txn[t].approve
                      /\ instance'[r].status = instance[r].status
                      /\ instance'[r].step = txn[t].step + 1
                      /\ required'[r] = required[r]
      /\ Final(t) /\ txn[t].approve => required'[r] <= txn[t].step
      /\ txn'[t] = Idle /\ \A u \in Txn \ {t} : txn'[u] = txn[u]
  BY <1>1, DecisionWrites
<1>3. \A s \in 1..(txn[t].step - 1) : Signed(r, s)'
  BY <1>1, <1>2, SignedKept DEF StepsInv, ReadStepsSigned
<1>4. txn[t].approve => \A s \in 1..txn[t].step : Signed(r, s)'
  <2> SUFFICES ASSUME txn[t].approve, NEW s \in 1..txn[t].step PROVE Signed(r, s)'
    OBVIOUS
  <2>1. CASE s = txn[t].step  BY <1>1, <2>1, SignedNow
  <2>2. CASE s # txn[t].step  BY <1>2, <1>3, <2>2
  <2> QED  BY <2>1, <2>2
<1>5. ASSUME NEW q \in Routed, NEW s \in 1..(instance'[q].step - 1)
      PROVE  Signed(q, s)'
  <2>1. CASE instance'[q].step = instance[q].step
    BY <1>5, <2>1, SignedKept DEF StepsInv, StepsSigned
  <2>2. CASE instance'[q].step # instance[q].step
    <3>1. q = r /\ txn[t].approve /\ instance'[q].step = txn[t].step + 1
      BY <1>0, <2>2
    <3> QED  BY <1>2, <1>4, <1>5, <3>1
  <2> QED  BY <2>1, <2>2
<1>6. ASSUME NEW q \in Routed, instance'[q].status = "approved", NEW s \in 1..required'[q]
      PROVE  Signed(q, s)'
  <2>1. CASE q = r /\ Final(t)
    <3>1. txn[t].approve /\ required'[r] <= txn[t].step
      BY <1>0, <1>6, <2>1 DEF Closed
    <3>2. required'[r] \in Nat
      BY CommitDecisionType, DaysAssumption DEF TypeOK
    <3> QED  BY <1>2, <1>4, <1>6, <2>1, <3>1, <3>2
  <2>2. CASE ~(q = r /\ Final(t))
    <3>1. instance[q].status = "approved" /\ required'[q] = required[q]
      BY <1>0, <1>6, <2>2
    <3> QED  BY <1>6, <3>1, SignedKept DEF StepsInv, StepsSigned
  <2> QED  BY <2>1, <2>2
<1>7. ASSUME NEW u \in Txn, Engaged(u)', NEW s \in 1..(txn'[u].step - 1),
             NEW q, q = txn'[u].req
      PROVE  Signed(q, s)'
  <2>1. u # t
    BY <1>0, <1>7 DEF Engaged, Idle
  <2>2. txn'[u] = txn[u] /\ Engaged(u)
    BY <1>0, <1>7, <2>1 DEF Engaged
  <2> QED  BY <1>7, <2>2, SignedKept DEF StepsInv, ReadStepsSigned, Engaged
<1>8. StepsSigned'  BY <1>5, <1>6 DEF StepsSigned
<1>9. ReadStepsSigned'  BY <1>7 DEF ReadStepsSigned, Signed
<1> QED  BY <1>8, <1>9 DEF StepsInv

(* The steps that touch neither an instance nor a trail.                     *)
Aside ==
    \/ \E r \in Request : Cancel(r)
    \/ \E kind \in DOMAIN steps, n \in 0..MaxSteps : ReplaceSteps(kind, n)
    \/ \E t \in Txn : CommitEncashment(t) \/ CommitReimbursement(t)
    \/ UNCHANGED vars

LEMMA AsideTouches ==
    ASSUME TypeOK, Aside
    PROVE  /\ UNCHANGED <<instance, trail, required>>
           /\ \A u \in Txn : txn'[u] = txn[u] \/ txn'[u] = Idle
BY DEF TypeOK, Aside, Cancel, ReplaceSteps, CommitEncashment, CommitReimbursement, vars

LEMMA StepKinds ==
    ASSUME [Next]_vars
    PROVE  \/ \E r \in Request : Submit(r)
           \/ \E t \in Txn : Working(t)
           \/ \E t \in Txn : CommitDecision(t)
           \/ Aside
BY DEF Next, Working, Aside

LEMMA AsideKeepsSteps == ASSUME TypeOK, StepsInv, Aside PROVE StepsInv'
<1>1. StepsSigned'
  BY AsideTouches, SignedSame DEF StepsInv, StepsSigned
<1>2. ASSUME NEW u \in Txn, Engaged(u)' PROVE txn'[u] = txn[u] /\ Engaged(u)
  <2>1. txn'[u] # Idle  BY <1>2 DEF Engaged, Idle
  <2> QED  BY <1>2, <2>1, AsideTouches DEF Engaged
<1>3. ReadStepsSigned'
  BY <1>2, AsideTouches DEF StepsInv, ReadStepsSigned, Signed
<1> QED  BY <1>1, <1>3 DEF StepsInv

LEMMA StepsInvInit == Init => StepsInv
BY KindAssumption DEF Init, StepsInv, StepsSigned, ReadStepsSigned, Engaged, Idle

LEMMA StepsInvStep == ASSUME TypeOK, StepsInv, [Next]_vars PROVE StepsInv'
BY StepKinds, SubmitKeepsSteps, WorkingKeepsSteps, DecisionKeepsSteps, AsideKeepsSteps

(* Nobody skips a step, however many transactions decide it at once and      *)
(* however often the workflow is replaced between two of them                *)
(* (approvals.py:168-218).                                                   *)
THEOREM NoStepSkipped == Spec => []StepsSigned
<1>1. Init => TypeOK /\ StepsInv  BY TypeInit, StepsInvInit
<1>2. TypeOK /\ StepsInv /\ [Next]_vars => (TypeOK /\ StepsInv)'  BY TypeStep, StepsInvStep
<1>3. StepsInv => StepsSigned  BY DEF StepsInv
<1> QED  BY <1>1, <1>2, <1>3, PTL DEF Spec

-----------------------------------------------------------------------------
(* A request and its instance.                                             *)

(* What was never submitted has no instance: without it a submission could  *)
(* meet an instance that was decided before.                                *)
AgreeInv ==
    /\ StatusesAgree
    /\ \A r \in Routed : doc[r] = "absent" => instance[r].status = "none"

LEMMA SubmitWrites ==
    ASSUME TypeOK, NEW r \in Request, Submit(r)
    PROVE  /\ UNCHANGED <<trail, steps, txn, required>>
           /\ doc[r] = "absent"
           /\ \A q \in Routed \ {r} : doc'[q] = doc[q] /\ instance'[q] = instance[q]
           /\ \A q \in Routed : instance'[q].step = instance[q].step
           /\ \/ doc'[r] = "pending" /\ (r \in Routed => instance'[r].status = "pending")
              \/ doc'[r] = "approved" /\ instance' = instance
<1>1. doc \in [Request -> Status] /\ instance \in [Routed -> InstanceRow]
  BY DEF TypeOK
<1>2. CASE doc' = [doc EXCEPT ![r] = "pending"] /\ instance' = [instance EXCEPT ![r].status = "pending"]
  <2>1. \A q \in Routed : instance'[q] = IF q = r THEN [instance[q] EXCEPT !.status = "pending"]
                                         ELSE instance[q]
    BY <1>1, <1>2
  <2>2. \A q \in Routed : instance'[q].step = instance[q].step
    BY <1>1, <2>1 DEF InstanceRow
  <2>3. r \in Routed => instance'[r].status = "pending"
    BY <1>1, <2>1 DEF InstanceRow
  <2>4. \A q \in Routed \ {r} : doc'[q] = doc[q] /\ instance'[q] = instance[q]
    BY <1>1, <1>2, <2>1 DEF Routed, Request
  <2> QED  BY <1>1, <1>2, <2>2, <2>3, <2>4 DEF Submit
<1>3. CASE doc' = [doc EXCEPT ![r] = "pending"] /\ r \in Encashment /\ instance' = instance
  BY <1>1, <1>3, KindAssumption DEF Submit, Routed, Request
<1>4. CASE doc' = [doc EXCEPT ![r] = "approved"] /\ instance' = instance
  BY <1>1, <1>4 DEF Submit, Routed, Request
<1> QED  BY <1>2, <1>3, <1>4 DEF Submit

LEMMA AgreeInit == Init => AgreeInv
BY DEF Init, AgreeInv, StatusesAgree, Routed, Request

LEMMA AgreeStep == ASSUME TypeOK, AgreeInv, [Next]_vars PROVE AgreeInv'
<1>1. ASSUME NEW r \in Request, Submit(r) PROVE AgreeInv'
  BY <1>1, SubmitWrites DEF AgreeInv, StatusesAgree
<1>2. ASSUME NEW t \in Txn, Working(t) PROVE AgreeInv'
  BY <1>2, WorkingTouchesNothing DEF AgreeInv, StatusesAgree
<1>3. ASSUME NEW t \in Txn, CommitDecision(t) PROVE AgreeInv'
  <2>1. PICK r \in Routed : r = txn[t].req
    BY <1>3 DEF CommitDecision
  <2>2. /\ \A q \in Routed \ {r} : doc'[q] = doc[q] /\ instance'[q] = instance[q]
        /\ \/ doc'[r] = instance'[r].status /\ doc'[r] \in {"approved", "rejected"}
           \/ doc'[r] = doc[r] /\ instance'[r].status = instance[r].status
    BY <1>3, <2>1, DecisionWrites DEF Closed
  <2> QED  BY <2>2 DEF AgreeInv, StatusesAgree
<1>4. ASSUME Aside PROVE AgreeInv'
  <2>1. \A q \in Routed : doc'[q] = doc[q] \/ doc'[q] \in {"cancelled", "reimbursed"}
    <3>1. ASSUME NEW r \in Request, Cancel(r) PROVE \A q \in Routed : doc'[q] \in {doc[q], "cancelled"}
      BY <3>1 DEF TypeOK, Cancel, Routed, Request
    <3>2. ASSUME NEW t \in Txn, CommitReimbursement(t)
          PROVE  \A q \in Routed : doc'[q] \in {doc[q], "reimbursed"}
      BY <3>2 DEF TypeOK, CommitReimbursement, Routed, Request
    <3>3. ASSUME NEW t \in Txn, CommitEncashment(t) PROVE \A q \in Routed : doc'[q] = doc[q]
      BY <3>3, KindAssumption DEF TypeOK, CommitEncashment, Routed, Request
    <3>4. ASSUME (\E kind \in DOMAIN steps, n \in 0..MaxSteps : ReplaceSteps(kind, n)) \/ UNCHANGED vars
          PROVE  doc' = doc
      BY <3>4 DEF ReplaceSteps, vars
    <3> QED  BY <1>4, <3>1, <3>2, <3>3, <3>4 DEF Aside
  <2> QED  BY <1>4, <2>1, AsideTouches DEF AgreeInv, StatusesAgree
<1> QED  BY <1>1, <1>2, <1>3, <1>4, StepKinds

(* However decisions overlap, a request and its instance tell the same story *)
(* (approvals.py:189-218, api/v1/leave.py:155-163).                          *)
THEOREM RequestAndInstanceAgree == Spec => []StatusesAgree
<1>1. Init => TypeOK /\ AgreeInv  BY TypeInit, AgreeInit
<1>2. TypeOK /\ AgreeInv /\ [Next]_vars => (TypeOK /\ AgreeInv)'  BY TypeStep, AgreeStep
<1>3. AgreeInv => StatusesAgree  BY DEF AgreeInv
<1> QED  BY <1>1, <1>2, <1>3, PTL DEF Spec

-----------------------------------------------------------------------------
(* Documents decided under their row lock.                                 *)

(* One transaction holds a stock document, and what it has read of the      *)
(* instance is still so.                                                    *)
HeldAlone ==
    /\ \A t, u \in Txn : txn[t].req \in Stock /\ txn[u].req = txn[t].req => t = u
    /\ \A t \in Txn : Engaged(t) /\ txn[t].req \in Stock =>
          /\ instance[txn[t].req].status = "pending"
          /\ txn[t].step = instance[txn[t].req].step

(* Until it is closed the instance stands at the step after the last one    *)
(* signed.                                                                  *)
StepFollowsTrail ==
    \A r \in Stock :
        /\ instance[r].status = "none" => trail[r] = <<>> /\ instance[r].step = 1
        /\ instance[r].status = "pending" =>
              /\ instance[r].step = Len(trail[r]) + 1
              /\ \A i \in DOMAIN trail[r] : trail[r][i].approve

StockInv ==
    /\ HeldAlone /\ StepFollowsTrail /\ LockedTrailInOrder
    /\ \A r \in Stock : doc[r] = "absent" => instance[r].status = "none"

LEMMA StockRouted == Stock \subseteq Routed /\ Stock \subseteq Request /\ None \notin Stock
BY KindAssumption DEF Routed, Request

LEMMA StockInit == Init => StockInv
<1> SUFFICES ASSUME Init PROVE StockInv  OBVIOUS
<1>1. /\ \A r \in Stock : trail[r] = <<>> /\ instance[r].step = 1 /\ instance[r].status = "none"
      /\ \A t \in Txn : txn[t].req \notin Stock
  BY StockRouted DEF Init, Idle
<1> QED  BY <1>1 DEF StockInv, HeldAlone, StepFollowsTrail, LockedTrailInOrder, Engaged

LEMMA SubmitKeepsStock ==
    ASSUME TypeOK, StockInv, NEW r \in Request, Submit(r)
    PROVE  StockInv'
<1>1. /\ UNCHANGED <<trail, txn>>
      /\ \A q \in Stock \ {r} : doc'[q] = doc[q] /\ instance'[q] = instance[q]
      /\ \A q \in Stock : instance'[q].step = instance[q].step
      /\ \/ doc'[r] = "pending" /\ (r \in Stock => instance'[r].status = "pending")
         \/ doc'[r] = "approved" /\ instance' = instance
      /\ doc[r] = "absent" /\ (r \in Stock => instance[r].status = "none")
  BY SubmitWrites, StockRouted DEF StockInv
<1>2. HeldAlone'  BY <1>1 DEF StockInv, HeldAlone, Engaged
<1>3. StepFollowsTrail'
  <2> SUFFICES ASSUME NEW q \in Stock
               PROVE  /\ instance'[q].status = "none" => trail[q] = <<>> /\ instance'[q].step = 1
                      /\ instance'[q].status = "pending" =>
                            /\ instance'[q].step = Len(trail[q]) + 1
                            /\ \A i \in DOMAIN trail[q] : trail[q][i].approve
    BY <1>1 DEF StepFollowsTrail
  <2>1. CASE instance'[q] = instance[q]
    BY <2>1 DEF StockInv, StepFollowsTrail
  <2>2. CASE q = r /\ instance'[r].status = "pending"
    <3>1. trail[q] = <<>> /\ instance'[q].step = 1
      BY <1>1, <2>2 DEF StockInv, StepFollowsTrail
    <3> QED  BY <2>2, <3>1
  <2> QED  BY <1>1, <2>1, <2>2
<1>4. LockedTrailInOrder'  BY <1>1 DEF StockInv, LockedTrailInOrder
<1>5. \A q \in Stock : doc'[q] = "absent" => instance'[q].status = "none"
  BY <1>1 DEF StockInv
<1> QED  BY <1>2, <1>3, <1>4, <1>5 DEF StockInv

(* The lock is taken with the first read and kept.                          *)
LEMMA WorkingHolds ==
    ASSUME TypeOK, NEW t \in Txn, Working(t), NEW r \in Stock, txn'[t].req = r
    PROVE  txn[t].req = r \/ ~DocumentLocked(r)
<1>1. ASSUME NEW q \in Request, NEW approve \in BOOLEAN, Load(t, q, approve) PROVE ~DocumentLocked(r)
  BY <1>1 DEF TypeOK, Load, Advance, Idle
<1>2. CASE ReadInstance(t) \/ ReadSteps(t) \/ Decide(t) \/ CheckBalance(t)
  BY <1>2 DEF TypeOK, Reads, ReadInstance, ReadSteps, Decide, CheckBalance, Advance
<1>3. ASSUME NEW q \in Request, LoadToReimburse(t, q) PROVE FALSE
  BY <1>3, KindAssumption DEF TypeOK, LoadToReimburse, Advance, Idle
<1>4. CASE Abort(t)
  BY <1>4, StockRouted DEF TypeOK, Abort, Advance, Idle
<1> QED  BY <1>1, <1>2, <1>3, <1>4 DEF Working

LEMMA WorkingKeepsStock ==
    ASSUME TypeOK, StockInv, NEW t \in Txn, Working(t)
    PROVE  StockInv'
<1>1. /\ UNCHANGED <<doc, instance, trail>>
      /\ \A u \in Txn \ {t} : txn'[u] = txn[u]
  BY WorkingTouchesNothing
<1>2. ASSUME NEW u \in Txn, NEW w \in Txn, txn'[u].req \in Stock, txn'[w].req = txn'[u].req
      PROVE  u = w
  <2>1. CASE u # t /\ w # t
    BY <1>1, <1>2, <2>1 DEF StockInv, HeldAlone
  <2>2. ASSUME NEW x \in Txn \ {t}, txn'[t].req \in Stock, txn'[x].req = txn'[t].req PROVE FALSE
    <3>1. txn[x].req = txn'[t].req  BY <1>1, <2>2
    <3>2. txn[t].req # txn'[t].req  BY <2>2, <3>1 DEF StockInv, HeldAlone
    <3>3. ~DocumentLocked(txn'[t].req)
      BY <2>2, <3>2, WorkingHolds
    <3> QED  BY <2>2, <3>1, <3>3 DEF DocumentLocked
  <2> QED  BY <1>2, <2>1, <2>2
<1>3. ASSUME NEW u \in Txn, Engaged(u)', txn'[u].req \in Stock
      PROVE  /\ instance[txn'[u].req].status = "pending"
             /\ txn'[u].step = instance[txn'[u].req].step
  <2>1. CASE u # t
    BY <1>1, <1>3, <2>1 DEF StockInv, HeldAlone, Engaged
  <2>2. CASE u = t
    BY <1>3, <2>2, WorkingKeepsStep DEF StockInv, HeldAlone
  <2> QED  BY <2>1, <2>2
<1>4. HeldAlone'  BY <1>1, <1>2, <1>3 DEF HeldAlone
<1> QED  BY <1>1, <1>4 DEF StockInv, StepFollowsTrail, LockedTrailInOrder

LEMMA AsideKeepsStock == ASSUME TypeOK, StockInv, Aside PROVE StockInv'
<1>1. UNCHANGED <<instance, trail>> /\ \A u \in Txn : txn'[u] = txn[u] \/ txn'[u] = Idle
  BY AsideTouches
<1>2. \A u \in Txn : txn'[u].req \in Stock => txn'[u] = txn[u]
  BY <1>1, StockRouted DEF Idle
<1>3. HeldAlone'
  BY <1>1, <1>2 DEF StockInv, HeldAlone, Engaged
<1>4. \A r \in Stock : doc'[r] = "absent" => doc[r] = "absent"
  BY StockRouted
     DEF TypeOK, Aside, Cancel, ReplaceSteps, CommitEncashment, CommitReimbursement, Closed, vars
<1> QED  BY <1>1, <1>3, <1>4 DEF StockInv, StepFollowsTrail, LockedTrailInOrder

LEMMA DecisionKeepsStock ==
    ASSUME TypeOK, StockInv, NEW t \in Txn, CommitDecision(t)
    PROVE  StockInv'
<1>1. PICK r \in Routed : r = txn[t].req
  BY DEF CommitDecision
<1> DEFINE d == [step |-> txn[t].step, approve |-> txn[t].approve]
<1>2. /\ \A q \in Routed \ {r} : /\ instance'[q] = instance[q] /\ trail'[q] = trail[q]
                                 /\ doc'[q] = doc[q]
      /\ Final(t) => /\ instance'[r].status = Closed(txn[t].approve)
                     /\ doc'[r] = Closed(txn[t].approve)
      /\ ~Final(t) => /\ txn[t].approve
                      /\ instance'[r].status = instance[r].status
                      /\ instance'[r].step = txn[t].step + 1
                      /\ doc'[r] = doc[r]
      /\ trail'[r] = Append(trail[r], d)
      /\ txn'[t] = Idle /\ \A u \in Txn \ {t} : txn'[u] = txn[u]
  BY <1>1, DecisionWrites
<1>3. d \in Decision /\ \A q \in Routed : trail[q] \in Seq(Decision)
  BY DEF TypeOK, Reads, Decision
<1>4. ASSUME NEW q \in Stock, q # r
      PROVE  instance'[q] = instance[q] /\ trail'[q] = trail[q] /\ doc'[q] = doc[q]
  BY <1>2, <1>4, StockRouted
<1>5. HeldAlone'
  <2>1. \A u \in Txn : txn'[u].req \in Stock => u # t /\ txn'[u] = txn[u]
    BY <1>2, StockRouted DEF Idle
  <2>2. \A u \in Txn : txn'[u].req \in Stock => txn'[u].req # r
    BY <1>1, <2>1 DEF StockInv, HeldAlone
  <2> QED  BY <1>4, <2>1, <2>2 DEF StockInv, HeldAlone, Engaged
<1>6. CASE r \notin Stock
  BY <1>4, <1>5, <1>6 DEF StockInv, StepFollowsTrail, LockedTrailInOrder
<1>7. CASE r \in Stock
  <2>1. /\ instance[r].status = "pending" /\ txn[t].step = Len(trail[r]) + 1
        /\ \A i \in DOMAIN trail[r] : trail[r][i].approve
        /\ \A i \in DOMAIN trail[r] : trail[r][i].step = i
    BY <1>1, <1>7 DEF CommitDecision, StockInv, HeldAlone, StepFollowsTrail, LockedTrailInOrder, Engaged
  <2>2. /\ Len(trail[r]) \in Nat /\ DOMAIN trail[r] = 1..Len(trail[r])
        /\ DOMAIN trail'[r] = 1..(Len(trail[r]) + 1) /\ Len(trail'[r]) = Len(trail[r]) + 1
        /\ trail'[r][Len(trail[r]) + 1] = d
        /\ \A i \in DOMAIN trail[r] : trail'[r][i] = trail[r][i]
    BY <1>2, <1>3, Appended
  <2>3. /\ \A i \in DOMAIN trail'[r] : trail'[r][i].step = i
        /\ \A i \in DOMAIN trail'[r] : i < Len(trail'[r]) => trail'[r][i].approve
    BY <2>1, <2>2
  <2>4. /\ instance'[r].status = "none" => trail'[r] = <<>> /\ instance'[r].step = 1
        /\ instance'[r].status = "pending" =>
              /\ instance'[r].step = Len(trail'[r]) + 1
              /\ \A i \in DOMAIN trail'[r] : trail'[r][i].approve
    <3>1. CASE Final(t)
      BY <1>2, <3>1 DEF Closed
    <3>2. CASE ~Final(t)
      <4>1. d.approve /\ instance'[r].status = "pending" /\ instance'[r].step = Len(trail'[r]) + 1
        BY <1>2, <2>1, <2>2, <3>2
      <4>2. \A i \in DOMAIN trail'[r] : trail'[r][i].approve
        BY <2>1, <2>2, <4>1
      <4> QED  BY <4>1, <4>2
    <3> QED  BY <3>1, <3>2
  <2>5. doc'[r] # "absent"
    BY <1>2, <1>7, <2>1 DEF Closed, StockInv
  <2>6. StepFollowsTrail'
    BY <1>4, <2>4 DEF StockInv, StepFollowsTrail
  <2>7. LockedTrailInOrder'
    BY <1>4, <2>3 DEF StockInv, LockedTrailInOrder
  <2> QED  BY <1>4, <1>5, <2>5, <2>6, <2>7 DEF StockInv
<1> QED  BY <1>6, <1>7

LEMMA StockStep == ASSUME TypeOK, StockInv, [Next]_vars PROVE StockInv'
BY StepKinds, SubmitKeepsStock, WorkingKeepsStock, DecisionKeepsStock, AsideKeepsStock

(* A document decided under its row lock has one decision per step, in order *)
(* and none after a refusal (inventory_issues.py:253-271).                   *)
THEOREM TrailInOrder == Spec => []LockedTrailInOrder
<1>1. Init => TypeOK /\ StockInv  BY TypeInit, StockInit
<1>2. TypeOK /\ StockInv /\ [Next]_vars => (TypeOK /\ StockInv)'  BY TypeStep, StockStep
<1>3. StockInv => LockedTrailInOrder  BY DEF StockInv
<1> QED  BY <1>1, <1>2, <1>3, PTL DEF Spec

-----------------------------------------------------------------------------
(* The engine implements the approval chain.                               *)

ApprovedSteps(r) == {i \in DOMAIN trail[r] : trail[r][i].approve}

LEMMA OneMoreApproval ==
    ASSUME TypeOK, NEW r \in Routed, NEW d \in Decision, trail'[r] = Append(trail[r], d)
    PROVE  Cardinality(ApprovedSteps(r)') =
               IF d.approve THEN Cardinality(ApprovedSteps(r)) + 1 ELSE Cardinality(ApprovedSteps(r))
<1>1. trail[r] \in Seq(Decision)  BY DEF TypeOK
<1> DEFINE n == Len(trail[r])
<1>2. /\ n \in Nat /\ DOMAIN trail[r] = 1..n /\ DOMAIN trail'[r] = 1..(n + 1)
      /\ trail'[r][n + 1] = d
      /\ \A i \in 1..n : trail'[r][i] = trail[r][i]
  BY <1>1, Appended
<1>3. ApprovedSteps(r)' = IF d.approve THEN ApprovedSteps(r) \cup {n + 1} ELSE ApprovedSteps(r)
  BY <1>2 DEF ApprovedSteps
<1>4. IsFiniteSet(ApprovedSteps(r)) /\ n + 1 \notin ApprovedSteps(r)
  <2>1. IsFiniteSet(1..n)  BY <1>2, FS_Interval
  <2>2. ApprovedSteps(r) \subseteq 1..n  BY <1>2 DEF ApprovedSteps
  <2> QED  BY <1>2, <2>1, <2>2, FS_Subset
<1> QED  BY <1>3, <1>4, FS_AddElement

(* The mapped variables of the chain.                                        *)
Outcome == [r \in Stock |-> instance[r].status]
Signatures == [r \in Stock |-> Cardinality(ApprovedSteps(r))]

LEMMA ChainInit == Init => Chain!Init
<1> SUFFICES ASSUME Init PROVE Chain!Init  OBVIOUS
<1>1. \A r \in Stock : instance[r].status = "none" /\ trail[r] = <<>>
  BY StockRouted DEF Init
<1>2. \A r \in Stock : {i \in DOMAIN trail[r] : trail[r][i].approve} = {}
  BY <1>1
<1> QED  BY <1>1, <1>2, FS_EmptySet DEF Chain!Init

LEMMA SameChain ==
    ASSUME \A r \in Stock : instance'[r].status = instance[r].status /\ trail'[r] = trail[r]
    PROVE  UNCHANGED Chain!vars
BY DEF Chain!vars

LEMMA SubmitOpens ==
    ASSUME TypeOK, StockInv, NEW r \in Request, Submit(r)
    PROVE  [Chain!Next]_(Chain!vars)
<1>1. /\ UNCHANGED trail /\ doc[r] = "absent"
      /\ \A q \in Stock \ {r} : instance'[q] = instance[q]
      /\ (r \in Stock => instance'[r].status = "pending") \/ instance' = instance
  BY SubmitWrites, StockRouted
<1>2. CASE r \notin Stock \/ instance' = instance
  BY <1>1, <1>2, SameChain
<1>3. CASE r \in Stock /\ instance'[r].status = "pending"
  <2>1. Outcome[r] = "none" /\ Outcome' = [Outcome EXCEPT ![r] = "pending"] /\ Signatures' = Signatures
    BY <1>1, <1>3 DEF StockInv, Outcome, Signatures, ApprovedSteps
  <2>2. Chain!Open(r)
    BY <2>1 DEF Chain!Open, Outcome, Signatures, ApprovedSteps
  <2> QED  BY <1>3, <2>2 DEF Chain!Next
<1> QED  BY <1>1, <1>2, <1>3

LEMMA DecisionSigns ==
    ASSUME TypeOK, StockInv, NEW t \in Txn, CommitDecision(t)
    PROVE  [Chain!Next]_(Chain!vars)
<1>1. PICK r \in Routed : r = txn[t].req
  BY DEF CommitDecision
<1> DEFINE d == [step |-> txn[t].step, approve |-> txn[t].approve]
<1>2. /\ \A q \in Routed \ {r} : instance'[q] = instance[q] /\ trail'[q] = trail[q]
      /\ Final(t) => instance'[r].status = Closed(txn[t].approve)
      /\ ~Final(t) => txn[t].approve /\ instance'[r].status = instance[r].status
      /\ trail'[r] = Append(trail[r], d)
  BY <1>1, DecisionWrites
<1>3. d \in Decision /\ d.approve = txn[t].approve /\ txn[t].approve \in BOOLEAN
  BY DEF TypeOK, Reads, Decision
<1>4. CASE r \notin Stock
  BY <1>2, <1>4, StockRouted, SameChain
<1>5. CASE r \in Stock
  <2>1. Outcome[r] = "pending"
    BY <1>1, <1>5 DEF CommitDecision, StockInv, HeldAlone, Engaged, Outcome
  <2>2. \A q \in Stock \ {r} : Outcome'[q] = Outcome[q] /\ Signatures'[q] = Signatures[q]
    BY <1>2, StockRouted DEF Outcome, Signatures, ApprovedSteps
  <2>3. Signatures'[r] = IF d.approve THEN Signatures[r] + 1 ELSE Signatures[r]
    BY <1>2, <1>3, <1>5, OneMoreApproval DEF Signatures
  <2>4. Outcome'[r] = IF Final(t) THEN Closed(txn[t].approve) ELSE Outcome[r]
    BY <1>2, <1>5 DEF Outcome
  <2>5. CASE d.approve
    <3>1. Signatures' = [Signatures EXCEPT ![r] = @ + 1]
      BY <1>5, <2>2, <2>3, <2>5 DEF Signatures
    <3>2. Outcome' \in {Outcome, [Outcome EXCEPT ![r] = "approved"]}
      BY <1>3, <1>5, <2>2, <2>4, <2>5 DEF Closed, Outcome
    <3>3. Chain!Sign(r)
      BY <2>1, <3>1, <3>2 DEF Chain!Sign, Outcome, Signatures, ApprovedSteps
    <3> QED  BY <1>5, <3>3 DEF Chain!Next
  <2>6. CASE ~d.approve
    <3>1. Final(t)  BY <1>2, <1>3, <2>6
    <3>2. Signatures' = Signatures
      BY <1>5, <2>2, <2>3, <2>6 DEF Signatures
    <3>3. Outcome' = [Outcome EXCEPT ![r] = "rejected"]
      BY <1>3, <1>5, <2>2, <2>4, <2>6, <3>1 DEF Closed, Outcome
    <3>4. Chain!Refuse(r)
      BY <2>1, <3>2, <3>3 DEF Chain!Refuse, Outcome, Signatures, ApprovedSteps
    <3> QED  BY <1>5, <3>4 DEF Chain!Next
  <2> QED  BY <2>5, <2>6
<1> QED  BY <1>4, <1>5

LEMMA ChainStep ==
    ASSUME TypeOK, StockInv, [Next]_vars
    PROVE  [Chain!Next]_(Chain!vars)
<1>1. ASSUME NEW t \in Txn, Working(t) PROVE UNCHANGED Chain!vars
  BY <1>1, WorkingTouchesNothing, SameChain
<1>2. ASSUME Aside PROVE UNCHANGED Chain!vars
  BY <1>2, AsideTouches, SameChain
<1> QED  BY <1>1, <1>2, SubmitOpens, DecisionSigns, StepKinds

(* To the owner of a stock document the engine is an approval chain: opened  *)
(* once, signed step by step, closed for good (approvals.py:145-218).        *)
THEOREM ChainImplemented == Spec => ImplementsApprovalChain
<1>1. Init => TypeOK /\ StockInv  BY TypeInit, StockInit
<1>2. TypeOK /\ StockInv /\ [Next]_vars => (TypeOK /\ StockInv)'  BY TypeStep, StockStep
<1>3. Init => Chain!Init  BY ChainInit
<1>4. TypeOK /\ StockInv /\ [Next]_vars => [Chain!Next]_(Chain!vars)  BY ChainStep
<1> QED  BY <1>1, <1>2, <1>3, <1>4, PTL DEF Spec, ImplementsApprovalChain, Chain!Spec
=============================================================================
