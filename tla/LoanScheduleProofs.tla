------------------------- MODULE LoanScheduleProofs -------------------------
(***************************************************************************)
(* The arithmetic of a loan for any principal, rate and number of          *)
(* installments. After k payslips exactly k installments are deducted, or  *)
(* all that is owed if that is less: the invariant LoanInv, from which the *)
(* three properties follow by arithmetic on the division's remainder.      *)
(***************************************************************************)
EXTENDS LoanSchedule, SumTheorems, TLAPS

-----------------------------------------------------------------------------
(* Sequences of amounts.                                                   *)

LEMMA TotalEmpty == Total(<<>>) = 0
<1>1. DOMAIN <<>> = {}
  OBVIOUS
<1> QED  BY <1>1, SumEmpty DEF Total, SumFunction

LEMMA TotalAppend ==
    ASSUME NEW amounts \in Seq(Int), NEW amount \in Int
    PROVE  /\ Total(amounts) \in Int
           /\ Total(Append(amounts, amount)) = Total(amounts) + amount
<1> DEFINE k == Len(amounts)
           more == Append(amounts, amount)
<1>1. /\ k \in Nat /\ DOMAIN amounts = 1..k /\ DOMAIN more = 1..k \cup {k + 1}
      /\ k + 1 \notin 1..k /\ more[k + 1] = amount
      /\ \A n \in 1..k : more[n] = amounts[n] /\ amounts[n] \in Int
  OBVIOUS
<1> HIDE DEF k, more
<1>2. IsFiniteSet(1..k)
  BY <1>1, FS_Interval
<1>3. \A n \in 1..k \cup {k + 1} : more[n] \in Int
  BY <1>1
<1>4. SumFunctionOnSet(more, 1..k \cup {k + 1}) = amount + SumFunctionOnSet(more, 1..k)
  BY <1>1, <1>2, <1>3, SumAdd
<1>5. SumFunctionOnSet(more, 1..k) = SumFunctionOnSet(amounts, 1..k)
  <2>1. \A n \in 1..k : more[n] = amounts[n]
    BY <1>1
  <2> QED  BY <1>2, <2>1, SumEqual
<1>6. SumFunctionOnSet(amounts, 1..k) \in Int
  <2>1. \A n \in 1..k : amounts[n] \in Int
    BY <1>1
  <2> QED  BY <1>2, <2>1, SumInt
<1>7. Total(more) = Total(amounts) + amount /\ Total(amounts) \in Int
  BY <1>1, <1>4, <1>5, <1>6 DEF Total, SumFunction
<1> QED  BY <1>7 DEF more

(* Equal amounts.                                                          *)
LEMMA EqualSum ==
    ASSUME NEW b \in Int, NEW f, NEW n \in Nat, \A i \in 1..n : f[i] = b
    PROVE  SumFunctionOnSet(f, 1..n) = n * b
<1> DEFINE Wrong == {m \in 0..n : SumFunctionOnSet(f, 1..m) # m * b}
<1> SUFFICES ASSUME Wrong # {} PROVE FALSE
  OBVIOUS
<1>1. PICK m \in Wrong : \A k \in Wrong : m <= k
  <2>1. Wrong \in SUBSET Nat
    OBVIOUS
  <2> HIDE DEF Wrong
  <2> QED  BY <2>1, LeastNatural
<1>2. m \in 0..n /\ SumFunctionOnSet(f, 1..m) # m * b
  OBVIOUS
<1>3. m # 0
  <2>1. 1..0 = {} /\ 0 * b = 0
    OBVIOUS
  <2> QED  BY <1>2, <2>1, SumEmpty
<1>4. m - 1 \in 0..n /\ m - 1 \notin Wrong
  BY <1>1, <1>2, <1>3
<1>5. SumFunctionOnSet(f, 1..(m - 1)) = (m - 1) * b
  BY <1>4
<1>6. SumFunctionOnSet(f, 1..m) = b + SumFunctionOnSet(f, 1..(m - 1))
  <2>1. 1..m = 1..(m - 1) \cup {m} /\ m \notin 1..(m - 1)
    BY <1>2, <1>3
  <2>2. \A i \in 1..(m - 1) \cup {m} : f[i] \in Int
    BY <1>2, <1>3
  <2>3. IsFiniteSet(1..(m - 1))
    BY <1>2, <1>3, FS_Interval
  <2>4. SumFunctionOnSet(f, 1..(m - 1) \cup {m}) = f[m] + SumFunctionOnSet(f, 1..(m - 1))
    BY <2>1, <2>2, <2>3, SumAdd
  <2>5. f[m] = b
    BY <1>2, <1>3
  <2> QED  BY <2>1, <2>4, <2>5
<1>7. b + (m - 1) * b = m * b
  BY <1>2
<1> QED  BY <1>2, <1>5, <1>6, <1>7

-----------------------------------------------------------------------------
(* The plan.                                                               *)

(* A division and its remainder.                                           *)
LEMMA BaseDivides ==
    ASSUME NEW amount \in Nat, NEW n \in Nat \ {0}
    PROVE  /\ Base(amount, n) \in Nat /\ Remainder(amount, n) \in 0..(n - 1)
           /\ n * Base(amount, n) \in Nat
           /\ amount = n * Base(amount, n) + Remainder(amount, n)
<1>1. amount \div n \in Nat /\ amount % n \in 0..(n - 1) /\ amount = n * (amount \div n) + (amount % n)
  OBVIOUS
<1>2. n * (amount \div n) \in Nat /\ (amount \div n) * n = n * (amount \div n)
  BY <1>1
<1> QED  BY <1>1, <1>2 DEF Base, Remainder

LEMMA PlanTotal ==
    ASSUME NEW amount \in Nat, NEW n \in Nat \ {0}
    PROVE  Total(EqualInstallments(amount, n)) = amount
<1> DEFINE f == EqualInstallments(amount, n)
           b == Base(amount, n)
           r == Remainder(amount, n)
<1>1. /\ b \in Nat /\ r \in Nat /\ amount = n * b + r /\ n * b \in Nat
  BY BaseDivides
<1>2. /\ DOMAIN f = 1..n /\ f[n] = b + r /\ \A i \in 1..(n - 1) : f[i] = b
  BY DEF EqualInstallments
<1> HIDE DEF f, b, r
<1>3. SumFunctionOnSet(f, 1..(n - 1)) = (n - 1) * b
  BY <1>1, <1>2, EqualSum
<1>4. SumFunctionOnSet(f, 1..n) = (b + r) + (n - 1) * b
  <2>1. 1..n = 1..(n - 1) \cup {n} /\ n \notin 1..(n - 1)
    OBVIOUS
  <2>2. \A i \in 1..(n - 1) \cup {n} : f[i] \in Int
    BY <1>1, <1>2
  <2>3. IsFiniteSet(1..(n - 1))
    BY FS_Interval
  <2>4. SumFunctionOnSet(f, 1..(n - 1) \cup {n}) = f[n] + SumFunctionOnSet(f, 1..(n - 1))
    BY <2>1, <2>2, <2>3, SumAdd
  <2> QED  BY <1>2, <1>3, <2>1, <2>4
<1>5. (b + r) + (n - 1) * b = n * b + r
  BY <1>1
<1> QED  BY <1>1, <1>2, <1>4, <1>5 DEF Total, SumFunction, f

-----------------------------------------------------------------------------
(* What is deducted.                                                       *)

(* k installments, or all that is owed.                                    *)
Upto(k) == IF k * installment <= Repayable THEN k * installment ELSE Repayable

LoanInv ==
    /\ principal \in Nat /\ rate \in Nat /\ term \in Nat
    /\ Repayable \in Nat /\ installment \in Nat /\ deducted \in Seq(Int)
    /\ term = 0 => deducted = <<>> /\ Repayable = 0
    /\ term > 0 => installment = Plan[1]
    /\ Total(deducted) = Upto(Len(deducted))
    /\ \A i \in DOMAIN deducted : i * installment <= Repayable => deducted[i] = installment

LEMMA RepayableNatural ==
    ASSUME NEW p \in Nat, NEW bps \in Nat
    PROVE  ApplyFlatInterest(p, bps) \in Nat
<1>1. p * bps \in Nat
  BY ProductNatural
<1>2. (p * bps) \div 10000 \in Nat
  BY <1>1, QuotientNatural
<1> QED  BY <1>2 DEF ApplyFlatInterest

LEMMA InitLoan == Init => LoanInv
<1> SUFFICES ASSUME Init PROVE LoanInv
  OBVIOUS
<1>1. Repayable = 0
  BY DEF Init, Repayable, ApplyFlatInterest
<1>2. deducted = <<>> /\ deducted \in Seq(Int) /\ Len(deducted) = 0 /\ DOMAIN deducted = {}
  BY DEF Init
<1>3. Total(deducted) = Upto(Len(deducted))
  BY <1>1, <1>2, TotalEmpty DEF Init, Upto
<1> QED  BY <1>1, <1>2, <1>3 DEF Init, LoanInv

LEMMA RequestKeeps ==
    ASSUME LoanInv, NEW p \in Principals, NEW bps \in Rates, NEW n \in Terms, RequestLoan(p, bps, n)
    PROVE  LoanInv'
<1>1. p \in Nat /\ bps \in Nat /\ n \in Nat \ {0} /\ deducted = <<>> /\ deducted' = deducted
  BY TermsAssumption DEF LoanInv, RequestLoan
<1> DEFINE amount == ApplyFlatInterest(p, bps)
<1>2. /\ principal' = p /\ rate' = bps /\ term' = n /\ amount \in Nat
      /\ Repayable' = amount /\ installment' = EqualInstallments(amount, n)[1]
  BY <1>1, RepayableNatural DEF RequestLoan, Repayable
<1> HIDE DEF amount
<1>3. EqualInstallments(amount, n)[1] \in Nat
  <2>1. Base(amount, n) \in Nat /\ Remainder(amount, n) \in Nat
    <3>1. Base(amount, n) \in Nat /\ Remainder(amount, n) \in 0..(n - 1)
      BY <1>1, <1>2, BaseDivides
    <3> QED  BY <1>1, <3>1
  <2>2. 1 \in 1..n
    BY <1>1
  <2>3. EqualInstallments(amount, n)[1] \in {Base(amount, n), Base(amount, n) + Remainder(amount, n)}
    BY <2>2 DEF EqualInstallments
  <2> QED  BY <2>1, <2>3
<1>4. Plan' = EqualInstallments(amount, n)
  BY <1>2 DEF Plan
<1>5. Len(deducted') = 0 /\ DOMAIN deducted' = {} /\ deducted' \in Seq(Int)
  BY <1>1
<1>6. Total(deducted') = 0
  BY <1>1, TotalEmpty
<1>7. Upto(Len(deducted))' = 0
  <2>1. 0 * installment' = 0
    BY <1>2, <1>3
  <2> QED  BY <1>2, <1>5, <2>1 DEF Upto
<1>8. Total(deducted') = Upto(Len(deducted))'
  BY <1>6, <1>7
<1> QED  BY <1>1, <1>2, <1>3, <1>4, <1>5, <1>8 DEF LoanInv

LEMMA DeductKeeps == ASSUME LoanInv, Deduct PROVE LoanInv'
<1> DEFINE k == Len(deducted)
           q == installment
           R == Repayable
           d == NextInstallment(Outstanding, installment)
<1>1. /\ term > 0 /\ Outstanding > 0 /\ d > 0 /\ deducted' = Append(deducted, d)
      /\ principal' = principal /\ rate' = rate /\ term' = term /\ installment' = installment
  BY DEF Deduct
<1>2. R \in Nat /\ q \in Nat /\ k \in Nat /\ deducted \in Seq(Int) /\ DOMAIN deducted = 1..k
  BY DEF LoanInv
<1>3. Total(deducted) = (IF k * q <= R THEN k * q ELSE R)
  BY DEF LoanInv, Upto
<1>4. Outstanding = R - Total(deducted)
  BY DEF Outstanding
<1>5. Repayable' = R /\ Plan' = Plan
  BY <1>1 DEF Repayable, Plan
<1>6. d = IF Outstanding < q THEN Outstanding ELSE q
  BY DEF NextInstallment
<1>7. k * q \in Nat /\ (k + 1) * q = k * q + q
  BY <1>2
<1> HIDE DEF k, q, R, d
<1>8. /\ k * q < R /\ Total(deducted) = k * q /\ d \in Int
      /\ d = (IF k * q + q <= R THEN q ELSE R - k * q)
  BY <1>1, <1>2, <1>3, <1>4, <1>6, <1>7
<1>9. /\ Total(deducted') = k * q + d
  BY <1>1, <1>2, <1>8, TotalAppend
<1>10. Total(deducted') = IF (k + 1) * q <= R THEN (k + 1) * q ELSE R
  BY <1>2, <1>7, <1>8, <1>9
<1>11. /\ deducted' \in Seq(Int) /\ Len(deducted') = k + 1 /\ DOMAIN deducted' = 1..(k + 1)
       /\ deducted'[k + 1] = d /\ \A i \in 1..k : deducted'[i] = deducted[i]
  BY <1>1, <1>2, <1>8 DEF k
<1>12. Total(deducted)' = Upto(Len(deducted))'
  BY <1>1, <1>5, <1>10, <1>11 DEF Upto, q
<1>13. \A i \in DOMAIN deducted' : i * installment' <= R => deducted'[i] = installment'
  <2> SUFFICES ASSUME NEW i \in 1..(k + 1), i * q <= R PROVE deducted'[i] = q
    BY <1>1, <1>11 DEF q
  <2>1. CASE i = k + 1
    BY <1>7, <1>8, <1>11, <2>1
  <2>2. CASE i # k + 1
    <3>1. i \in 1..k
      BY <1>2, <2>2
    <3> QED  BY <1>2, <1>11, <3>1 DEF LoanInv, q, R
  <2> QED  BY <2>1, <2>2
<1> QED  BY <1>1, <1>2, <1>5, <1>11, <1>12, <1>13 DEF LoanInv, q, R

LEMMA LoanInvHolds == Spec => []LoanInv
<1>1. ASSUME LoanInv, [Next]_vars PROVE LoanInv'
  <2>1. CASE UNCHANGED vars
    BY <1>1, <2>1 DEF vars, LoanInv, Upto, Repayable, Plan
  <2> QED  BY <1>1, <2>1, RequestKeeps, DeductKeeps DEF Next
<1> QED  BY InitLoan, <1>1, PTL DEF Spec

-----------------------------------------------------------------------------
(* The plan the borrower is given adds up to what is owed, to the unit, for  *)
(* any amount and number of installments (domain/payroll/loans.py:49-61).   *)
THEOREM PlanCoversLoan == Spec => []PlanSumsToTotal
<1>1. LoanInv => PlanSumsToTotal
  <2> SUFFICES ASSUME LoanInv, term > 0 PROVE Total(Plan) = Repayable
    BY DEF PlanSumsToTotal
  <2>1. term \in Nat \ {0} /\ Repayable \in Nat
    BY DEF LoanInv
  <2> QED  BY <2>1, PlanTotal DEF Plan
<1> QED  BY LoanInvHolds, <1>1, PTL

(* The first installment but for its remainder.                             *)
LEMMA InstallmentIs ==
    ASSUME LoanInv, term > 0
    PROVE  /\ term \in Nat \ {0} /\ Repayable \in Nat /\ installment \in Nat
           /\ \E r \in 0..(term - 1) : Repayable = term * Base(Repayable, term) + r
           /\ Base(Repayable, term) \in Nat
           /\ term > 1 => installment = Base(Repayable, term)
           /\ term = 1 => installment = Repayable
<1>1. term \in Nat \ {0} /\ Repayable \in Nat /\ installment \in Nat /\ installment = Plan[1]
  BY DEF LoanInv
<1>2. /\ Base(Repayable, term) \in Nat /\ Remainder(Repayable, term) \in 0..(term - 1)
      /\ Repayable = term * Base(Repayable, term) + Remainder(Repayable, term)
  BY <1>1, BaseDivides
<1>3. 1 \in 1..term
  BY <1>1
<1>4. Plan[1] = IF 1 = term THEN Base(Repayable, term) + Remainder(Repayable, term)
                ELSE Base(Repayable, term)
  BY <1>3 DEF Plan, EqualInstallments
<1>5. term = 1 => Base(Repayable, term) + Remainder(Repayable, term) = Repayable
  <2>1. 1 * Base(Repayable, term) = Base(Repayable, term)
    BY <1>2
  <2> QED  BY <1>2, <2>1
<1> QED  BY <1>1, <1>2, <1>4, <1>5

(* The payslips deduct what the plan says of every installment but the last, *)
(* and never more than is owed in all; after as many payslips as were asked  *)
(* for, exactly the remainder of the division is still owed.                 *)
THEOREM PlanFollowed == Spec => []DeductionsFollowPlan
<1>1. LoanInv => DeductionsFollowPlan
  <2> SUFFICES ASSUME LoanInv PROVE DeductionsFollowPlan
    OBVIOUS
  <2>1. Repayable \in Nat /\ installment \in Nat /\ Len(deducted) \in Nat /\ term \in Nat
        /\ DOMAIN deducted = 1..Len(deducted)
    BY DEF LoanInv
  <2>2. Outstanding >= 0
    <3>1. Total(deducted) \in Int /\ Total(deducted) <= Repayable
      <4>1. Len(deducted) * installment \in Int
        BY <2>1
      <4> QED  BY <2>1, <4>1 DEF LoanInv, Upto
    <3> QED  BY <2>1, <3>1 DEF Outstanding
  <2>3. ASSUME NEW i \in DOMAIN deducted, i < term PROVE deducted[i] = Plan[i]
    <3>1. term > 1 /\ term > 0 /\ i \in 1..term /\ i # term /\ i \in Nat
      BY <2>1, <2>3
    <3> DEFINE b == Base(Repayable, term)
    <3>2. PICK r \in 0..(term - 1) : Repayable = term * b + r
      BY <3>1, InstallmentIs
    <3>3. b \in Nat /\ installment = b
      BY <3>1, InstallmentIs
    <3>4. Plan[i] = b
      BY <3>1 DEF Plan, EqualInstallments
    <3> HIDE DEF b
    <3>5. i * b <= term * b
      <4>1. b * i <= b * term
        BY <2>1, <3>1, <3>3, ProductGrows
      <4> QED  BY <2>1, <3>1, <3>3, <4>1
    <3>6. i * installment <= Repayable
      <4>1. i * b \in Nat /\ term * b \in Nat /\ r \in Nat
        BY <2>1, <3>1, <3>3
      <4> QED  BY <3>2, <3>3, <3>5, <4>1
    <3> QED  BY <3>3, <3>4, <3>6 DEF LoanInv
  <2>4. ASSUME term > 0, Len(deducted) = term PROVE Outstanding = Remainder(Repayable, term)
    <3> DEFINE n == term
               q == installment
               R == Repayable
               b == Base(Repayable, term)
               r == Remainder(Repayable, term)
    <3>1. /\ n \in Nat \ {0} /\ b \in Nat /\ r \in 0..(n - 1) /\ n * b \in Nat
          /\ R \in Nat /\ q \in Nat /\ R = n * b + r
      <4>1. term \in Nat \ {0} /\ Repayable \in Nat /\ installment \in Nat
        BY <2>1, <2>4
      <4> QED  BY <4>1, BaseDivides
    <3>2. (n > 1 => q = b) /\ (n = 1 => q = R)
      BY <2>4, InstallmentIs
    <3>3. Outstanding = R - (IF n * q <= R THEN n * q ELSE R)
      BY <2>4 DEF LoanInv, Upto, Outstanding
    <3> HIDE DEF n, q, R, b, r
    <3>4. CASE n = 1
      <4>1. r = 0 /\ n * q = R
        BY <3>1, <3>2, <3>4
      <4> QED  BY <3>1, <3>3, <4>1 DEF r
    <3>5. CASE n > 1
      <4>1. n * q = n * b /\ n * b <= R
        BY <3>1, <3>2, <3>5
      <4> QED  BY <3>1, <3>3, <4>1 DEF r
    <3> QED  BY <3>1, <3>4, <3>5
  <2> QED  BY <2>2, <2>3, <2>4 DEF DeductionsFollowPlan
<1> QED  BY LoanInvHolds, <1>1, PTL

(* A loan whose installment is not nothing is repaid after fewer payslips    *)
(* than twice the installments asked for, whatever the remainder.            *)
THEOREM RepaidInTime == Spec => []RepaidWithinTwiceTheTerm
<1>1. LoanInv => RepaidWithinTwiceTheTerm
  <2> SUFFICES ASSUME LoanInv, term > 0, installment > 0, Len(deducted) >= 2 * term - 1
               PROVE  Outstanding = 0
    BY DEF RepaidWithinTwiceTheTerm
  <2> DEFINE n == term
             q == installment
             k == Len(deducted)
             R == Repayable
  <2>1. n \in Nat \ {0} /\ q \in Nat \ {0} /\ k \in Nat /\ R \in Nat /\ k >= 2 * n - 1
    BY InstallmentIs DEF LoanInv
  <2>2. Total(deducted) = (IF k * q <= R THEN k * q ELSE R) /\ Outstanding = R - Total(deducted)
    BY DEF LoanInv, Upto, Outstanding
  <2>3. \E r \in 0..(n - 1) : (n = 1 /\ R = q) \/ R = n * q + r
    BY <2>1, InstallmentIs
  <2> HIDE DEF n, q, k, R
  <2>4. R <= (2 * n - 1) * q
    <3>1. PICK r \in 0..(n - 1) : (n = 1 /\ R = q) \/ R = n * q + r
      BY <2>3
    <3>2. CASE n = 1 /\ R = q
      BY <2>1, <3>2
    <3>3. CASE R = n * q + r
      <4>1. r <= (n - 1) * q
        <5>1. (n - 1) * 1 <= (n - 1) * q
          BY <2>1, ProductGrows
        <5>2. (n - 1) * q \in Nat /\ (n - 1) * 1 = n - 1 /\ r \in Nat /\ r <= n - 1
          BY <2>1, <3>1
        <5> QED  BY <2>1, <5>1, <5>2
      <4>2. n * q \in Nat /\ (n - 1) * q \in Nat /\ (2 * n - 1) * q = n * q + (n - 1) * q
        BY <2>1
      <4> QED  BY <3>1, <3>3, <4>1, <4>2
    <3> QED  BY <3>1, <3>2, <3>3
  <2>5. R <= k * q
    <3>1. q * (2 * n - 1) <= q * k
      BY <2>1, ProductGrows
    <3>2. /\ q * (2 * n - 1) \in Int /\ q * k \in Int /\ q * k = k * q
          /\ (2 * n - 1) * q = q * (2 * n - 1)
      BY <2>1
    <3> QED  BY <2>1, <2>4, <3>1, <3>2
  <2>6. k * q \in Int
    BY <2>1
  <2> QED  BY <2>1, <2>2, <2>5, <2>6
<1> QED  BY LoanInvHolds, <1>1, PTL
=============================================================================
