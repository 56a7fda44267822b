-------------------------- MODULE PurchasingProofs --------------------------
(***************************************************************************)
(* What holds of orders, goods receipts and bills for any number of them,  *)
(* any quantities and tolerances and any number of overlapping             *)
(* transactions: first who may change a bill and what its receipt is kept  *)
(* for (BillInv), then the quantities of orders and the balances of the    *)
(* two accounts, which are sums over receipts and bills (PurchasingInv).   *)
(***************************************************************************)
EXTENDS Purchasing, SumTheorems, TLAPS

ReceiptFields == {"status", "order", "accepted", "accrual"}

(* Every table has its rows; amounts are left out.                         *)
Rows ==
    /\ DOMAIN order = Order
    /\ DOMAIN receipt = Receipt /\ \A g \in Receipt : DOMAIN receipt[g] = ReceiptFields
    /\ bill \in [Bill -> BillRow]
    /\ DOMAIN txn = Txn
    /\ \A t \in Txn : /\ txn[t].bill \in Bill \cup {None}
                      /\ txn[t].receipt \in Receipt \cup {None}

(* The transaction deals with a bill.                                      *)
Handling(t) == txn[t].kind \in {"register", "approve", "pay", "void"}

Live(b) == bill[b].status \notin {"absent", "void"}

(* A receipt that has been posted keeps what it accrued for ever.           *)
Settled == {"posted", "reversed"}

(* What an approval has read of its bill's receipt still holds, and the     *)
(* receipt of a bill that is still a draft can be billed.                   *)
ApprovalHolds(b, accrual) ==
    /\ bill[b].receipt = None => accrual = 0
    /\ bill[b].receipt # None =>
          /\ receipt[bill[b].receipt].status \in Settled
          /\ accrual = receipt[bill[b].receipt].accrual
          /\ bill[b].status = "draft" => receipt[bill[b].receipt].status = "posted"

ReadsHold ==
    \A t \in Txn : Handling(t) =>
        /\ txn[t].bill \in Bill
        /\ txn[t].kind # "register" => bill[txn[t].bill].status # "absent"
        /\ txn[t].kind = "approve" => ApprovalHolds(txn[t].bill, txn[t].accrual)

OneLiveBill ==
    \A b, c \in Bill :
        Live(b) /\ Live(c) /\ bill[b].receipt = bill[c].receipt /\ bill[b].receipt # None => b = c

ClearedPosted ==
    \A b \in Bill \ overtaken : bill[b].status \in Cleared /\ bill[b].receipt # None =>
        receipt[bill[b].receipt].status = "posted"

BillInv == Rows /\ ReadsHold /\ OneLiveBill /\ ClearedPosted

-----------------------------------------------------------------------------
(* What the steps write.                                                   *)

LEMMA IdleFields ==
    ASSUME NEW kind, NEW b, NEW g, NEW o, NEW accrual
    PROVE  /\ LET q == [Idle EXCEPT !.kind = kind, !.order = o, !.receipt = g] IN
              q.kind = kind /\ q.bill = None /\ q.receipt = g
           /\ LET q == [Idle EXCEPT !.kind = kind, !.bill = b, !.receipt = g] IN
              q.kind = kind /\ q.bill = b /\ q.receipt = g
           /\ LET q == [Idle EXCEPT !.kind = kind, !.bill = b, !.accrual = accrual] IN
              q.kind = kind /\ q.bill = b /\ q.receipt = None /\ q.accrual = accrual
           /\ LET q == [Idle EXCEPT !.kind = kind, !.bill = b] IN
              q.kind = kind /\ q.bill = b /\ q.receipt = None
BY DEF Idle

(* Steps of orders and receipts leave bills and transactions alone, and a    *)
(* posted receipt that has a bill stays posted.                              *)
OrderStep ==
    \/ \E o \in Order :
        \/ CreateOrder(o) \/ SubmitOrder(o) \/ \E approve \in BOOLEAN : DecideOrder(o, approve)
        \/ IssueOrder(o) \/ DeleteOrder(o) \/ CancelOrder(o) \/ CloseOrder(o)
    \/ \E tolerance \in Tolerances : SetTolerance(tolerance)
    \/ StartGl
    \/ UNCHANGED vars

ReceiptStep ==
    \E g \in Receipt :
        \/ \E accepted \in Bodies : UpdateReceipt(g, accepted)
        \/ DeleteReceipt(g) \/ PostReceipt(g) \/ ReverseReceipt(g)

ReadStep(t) ==
    \/ \E o \in Order, g \in Receipt : ReadToReceive(t, o, g)
    \/ \E b \in Bill :
        \/ \E g \in Receipt \cup {None} : ReadToRegister(t, b, g)
        \/ ReadToApprove(t, b) \/ ReadToPay(t, b) \/ ReadToVoid(t, b)

WriteStep(t) ==
    \/ \E accepted \in Bodies : CreateReceipt(t, accepted)
    \/ \E amount \in Amounts, wht \in Withheld : RegisterBill(t, amount, wht)
    \/ ApproveBill(t) \/ PayBill(t) \/ VoidBill(t) \/ Abort(t)

LEMMA StepKinds ==
    ASSUME [Next]_vars
    PROVE  \/ OrderStep \/ ReceiptStep
           \/ \E t \in Txn : ReadStep(t) \/ WriteStep(t)
BY DEF Next, OrderStep, ReceiptStep, ReadStep, WriteStep

LEMMA OrderStepWrites ==
    ASSUME Rows, OrderStep
    PROVE  UNCHANGED <<receipt, bill, txn, books>> /\ DOMAIN order' = Order
BY DEF Rows, OrderStep, CreateOrder, SubmitOrder, DecideOrder, IssueOrder, DeleteOrder, CancelOrder,
       CloseOrder, Move, SetTolerance, StartGl, vars, books

ReceiptsKept ==
    /\ DOMAIN receipt' = Receipt /\ \A h \in Receipt : DOMAIN receipt'[h] = ReceiptFields
    /\ \A h \in Receipt : receipt[h].status \in Settled =>
          /\ receipt'[h].status \in Settled /\ receipt'[h].accrual = receipt[h].accrual
          /\ receipt[h].status = "posted" => receipt'[h].status = "posted" \/ ReceiptBill(h) = {}

LEMMA ReceiptStepWrites ==
    ASSUME Rows, ReceiptStep
    PROVE  UNCHANGED <<bill, txn, booked, overtaken>> /\ DOMAIN order' = Order /\ ReceiptsKept
<1>1. ASSUME NEW g \in Receipt, NEW accepted \in Bodies, UpdateReceipt(g, accepted)
      PROVE  UNCHANGED <<bill, txn, booked, overtaken>> /\ DOMAIN order' = Order /\ ReceiptsKept
  BY <1>1 DEF Rows, UpdateReceipt, ReceiptFields, ReceiptsKept, books
<1>2. ASSUME NEW g \in Receipt, DeleteReceipt(g)
      PROVE  UNCHANGED <<bill, txn, booked, overtaken>> /\ DOMAIN order' = Order /\ ReceiptsKept
  BY <1>2 DEF Rows, DeleteReceipt, ReceiptFields, ReceiptsKept, Settled, books
<1>3. ASSUME NEW g \in Receipt, PostReceipt(g)
      PROVE  UNCHANGED <<bill, txn, booked, overtaken>> /\ DOMAIN order' = Order /\ ReceiptsKept
  BY <1>3 DEF Rows, PostReceipt, Receive, ReceiptFields, ReceiptsKept, Settled
<1>4. ASSUME NEW g \in Receipt, ReverseReceipt(g)
      PROVE  UNCHANGED <<bill, txn, booked, overtaken>> /\ DOMAIN order' = Order /\ ReceiptsKept
  BY <1>4 DEF Rows, ReverseReceipt, Receive, ReceiptFields, ReceiptsKept, Settled
<1> QED  BY <1>1, <1>2, <1>3, <1>4 DEF ReceiptStep

(* What a transaction that handles a bill has read holds when it has read it.*)
LEMMA ReadStepWrites ==
    ASSUME Rows, NEW t \in Txn, ReadStep(t)
    PROVE  /\ UNCHANGED <<order, receipt, bill, books>> /\ DOMAIN txn' = Txn
           /\ \A u \in Txn \ {t} : txn'[u] = txn[u]
           /\ txn'[t].bill \in Bill \cup {None} /\ txn'[t].receipt \in Receipt \cup {None}
           /\ Handling(t)' =>
                 /\ txn'[t].bill \in Bill
                 /\ txn'[t].kind # "register" => bill[txn'[t].bill].status # "absent"
                 /\ txn'[t].kind = "approve" => ApprovalHolds(txn'[t].bill, txn'[t].accrual)
<1>1. ASSUME NEW reads, Start(t, reads)
      PROVE  /\ UNCHANGED <<order, receipt, bill, books>> /\ DOMAIN txn' = Txn
             /\ txn'[t] = reads /\ \A u \in Txn \ {t} : txn'[u] = txn[u]
  BY <1>1 DEF Rows, Start
<1>2. CASE \E o \in Order, g \in Receipt : ReadToReceive(t, o, g)
  <2>1. PICK o \in Order, g \in Receipt : ReadToReceive(t, o, g)
    BY <1>2
  <2> DEFINE q == [Idle EXCEPT !.kind = "draft", !.order = o, !.receipt = g]
  <2>2. Start(t, q) /\ q.kind = "draft" /\ q.bill = None /\ q.receipt = g
    BY <2>1, IdleFields DEF ReadToReceive
  <2> HIDE DEF q
  <2> QED  BY <1>1, <2>2 DEF Handling
<1>3. CASE \E b \in Bill, g \in Receipt \cup {None} : ReadToRegister(t, b, g)
  <2>1. PICK b \in Bill, g \in Receipt \cup {None} : ReadToRegister(t, b, g)
    BY <1>3
  <2> DEFINE q == [Idle EXCEPT !.kind = "register", !.bill = b, !.receipt = g]
  <2>2. Start(t, q) /\ q.kind = "register" /\ q.bill = b /\ q.receipt = g
    BY <2>1, IdleFields DEF ReadToRegister
  <2> HIDE DEF q
  <2> QED  BY <1>1, <2>2 DEF Handling
<1>4. CASE \E b \in Bill : ReadToApprove(t, b)
  <2>1. PICK b \in Bill : ReadToApprove(t, b)
    BY <1>4
  <2> DEFINE read == IF bill[b].receipt = None THEN 0 ELSE receipt[bill[b].receipt].accrual
             q == [Idle EXCEPT !.kind = "approve", !.bill = b, !.accrual = read]
  <2>2. Start(t, q) /\ q.kind = "approve" /\ q.bill = b /\ q.receipt = None /\ q.accrual = read
    BY <2>1, IdleFields DEF ReadToApprove
  <2>3. bill[b].status # "absent" /\ ApprovalHolds(b, read)
    BY <2>1 DEF ReadToApprove, BillableAtApproval, Billable, ApprovalHolds, Settled
  <2> HIDE DEF q, read
  <2> QED  BY <1>1, <2>2, <2>3 DEF Handling
<1>5. CASE \E b \in Bill : ReadToPay(t, b) \/ ReadToVoid(t, b)
  <2>1. PICK b \in Bill, kind \in {"pay", "void"} :
             Start(t, [Idle EXCEPT !.kind = kind, !.bill = b]) /\ bill[b].status # "absent"
    BY <1>5 DEF ReadToPay, ReadToVoid
  <2> DEFINE q == [Idle EXCEPT !.kind = kind, !.bill = b]
  <2>2. Start(t, q) /\ q.kind = kind /\ q.bill = b /\ q.receipt = None
    BY <2>1, IdleFields
  <2> HIDE DEF q
  <2> QED  BY <1>1, <2>1, <2>2 DEF Handling
<1> QED  BY <1>2, <1>3, <1>4, <1>5 DEF ReadStep

LEMMA FinishWrites ==
    ASSUME Rows, NEW t \in Txn, Finish(t)
    PROVE  /\ DOMAIN txn' = Txn /\ txn'[t] = Idle /\ ~Handling(t)'
           /\ \A u \in Txn \ {t} : txn'[u] = txn[u]
           /\ \A u \in Txn : /\ txn'[u].bill \in Bill \cup {None}
                             /\ txn'[u].receipt \in Receipt \cup {None}
BY DEF Rows, Finish, Handling, Idle

LEMMA CreateReceiptWrites ==
    ASSUME Rows, NEW t \in Txn, NEW accepted \in Bodies, CreateReceipt(t, accepted)
    PROVE  UNCHANGED <<order, bill, books>> /\ Finish(t) /\ ReceiptsKept
<1>1. receipt' = [receipt EXCEPT ![txn[t].receipt] =
          [status |-> "draft", order |-> txn[t].order, accepted |-> accepted, accrual |-> 0]]
  BY DEF CreateReceipt
<1>2. \A h \in Receipt :
         \/ receipt'[h] = receipt[h]
         \/ h = txn[t].receipt
            /\ receipt'[h] = [status |-> "draft", order |-> txn[t].order, accepted |-> accepted, accrual |-> 0]
  BY <1>1 DEF Rows
<1>3. receipt[txn[t].receipt].status = "absent"
  BY DEF CreateReceipt
<1>4. DOMAIN receipt' = Receipt  BY <1>1 DEF Rows
<1> QED  BY <1>2, <1>3, <1>4 DEF Rows, CreateReceipt, ReceiptFields, ReceiptsKept, Settled

(* A bill that is inserted was not there and is the one bill of its receipt. *)
LEMMA RegisterWrites ==
    ASSUME Rows, ReadsHold, NEW t \in Txn, NEW amount \in Amounts, NEW wht \in Withheld,
           RegisterBill(t, amount, wht), NEW b, b = txn[t].bill
    PROVE  /\ UNCHANGED <<order, receipt, settings, books>> /\ Finish(t) /\ b \in Bill
           /\ bill' \in [Bill -> BillRow]
           /\ \A c \in Bill \ {b} : bill'[c] = bill[c]
           /\ bill[b].status = "absent" /\ bill'[b].status = "draft"
           /\ bill'[b].receipt # None => ReceiptBill(bill'[b].receipt) \subseteq {b}
<1> DEFINE row == [status |-> "draft", receipt |-> txn[t].receipt, amount |-> amount, wht |-> wht]
<1>1. /\ UNCHANGED <<order, receipt, settings, books>> /\ Finish(t) /\ b \in Bill
      /\ bill' = [bill EXCEPT ![b] = row] /\ bill[b].status = "absent"
      /\ txn[t].receipt # None => ReceiptBill(txn[t].receipt) \subseteq {b}
  BY DEF RegisterBill, OneBill, Handling, ReadsHold
<1>2. row \in BillRow /\ row.status = "draft" /\ row.receipt = txn[t].receipt
  BY DEF Rows, BillRow
<1> HIDE DEF row
<1>3. /\ bill' \in [Bill -> BillRow] /\ bill'[b] = row
      /\ \A c \in Bill \ {b} : bill'[c] = bill[c]
  BY <1>1, <1>2 DEF Rows
<1> QED  BY <1>1, <1>2, <1>3

(* A decision writes the status and nothing else of the bill's row, and the *)
(* index sees to it that no other bill of the receipt stands.               *)
Pairs == {<<"draft", "approved">>, <<"approved", "paid">>, <<"draft", "void">>}

LEMMA DecideWrites ==
    ASSUME Rows, ReadsHold, NEW t \in Txn, NEW from, NEW to, <<from, to>> \in Pairs, Decide(t, from, to),
           Handling(t), NEW b, b = txn[t].bill
    PROVE  /\ Finish(t) /\ b \in Bill
           /\ bill' \in [Bill -> BillRow]
           /\ \A c \in Bill \ {b} : bill'[c] = bill[c]
           /\ bill'[b].status = to /\ bill'[b].receipt = bill[b].receipt
           /\ bill'[b].amount = bill[b].amount /\ bill'[b].wht = bill[b].wht
           /\ overtaken' = IF bill[b].status = from THEN overtaken ELSE overtaken \cup {b}
           /\ to # "void" /\ bill[b].receipt # None => ReceiptBill(bill[b].receipt) \subseteq {b}
<1>1. /\ Finish(t) /\ b \in Bill
      /\ bill' = [bill EXCEPT ![b].status = to]
      /\ overtaken' = IF bill[b].status = from THEN overtaken ELSE overtaken \cup {b}
      /\ to # "void" /\ bill[b].receipt # None => ReceiptBill(bill[b].receipt) \subseteq {b}
  BY DEF Decide, OneBill, ReadsHold
<1>2. to \in {"approved", "paid", "void"}
  BY DEF Pairs
<1>3. /\ bill' \in [Bill -> BillRow]
      /\ \A c \in Bill \ {b} : bill'[c] = bill[c]
      /\ bill'[b].status = to /\ bill'[b].receipt = bill[b].receipt
      /\ bill'[b].amount = bill[b].amount /\ bill'[b].wht = bill[b].wht
  BY <1>1, <1>2 DEF Rows, BillRow
<1> QED  BY <1>1, <1>3

LEMMA Decisions ==
    ASSUME NEW t \in Txn, ApproveBill(t) \/ PayBill(t) \/ VoidBill(t)
    PROVE  /\ UNCHANGED <<order, receipt, settings>> /\ Handling(t) /\ txn[t].kind # "register"
           /\ \E from, to : /\ Decide(t, from, to) /\ <<from, to>> \in Pairs
                            /\ to = "approved" => txn[t].kind = "approve"
BY DEF ApproveBill, PayBill, VoidBill, Handling, Pairs

-----------------------------------------------------------------------------
(* Billed receipts stand.                                                  *)

(* A live bill keeps its receipt from being reversed.                        *)
LEMMA LiveBillsHold ==
    ASSUME Rows, NEW b \in Bill, Live(b), NEW g, g = bill[b].receipt
    PROVE  b \in ReceiptBill(g)
BY DEF Rows, Live, ReceiptBill

(* Whatever happens to receipts, as long as it does not happen to bills.     *)
LEMMA ReceiptsChange ==
    ASSUME BillInv, UNCHANGED <<bill, overtaken>>, ReceiptsKept
    PROVE  /\ OneLiveBill' /\ ClearedPosted'
           /\ \A b \in Bill : \A accrual : ApprovalHolds(b, accrual) => ApprovalHolds(b, accrual)'
<1>1. OneLiveBill'
  BY DEF BillInv, OneLiveBill, Live
<1>2. ASSUME NEW b \in Bill, Live(b), bill[b].receipt # None,
             receipt[bill[b].receipt].status = "posted"
      PROVE  receipt'[bill[b].receipt].status = "posted"
  <2>1. bill[b].receipt \in Receipt  BY <1>2 DEF BillInv, Rows, BillRow
  <2>2. ReceiptBill(bill[b].receipt) # {}  BY <1>2, LiveBillsHold DEF BillInv
  <2> QED  BY <1>2, <2>1, <2>2 DEF ReceiptsKept, Settled
<1>3. \A b \in Bill : bill[b].status \in Cleared => Live(b)
  BY DEF Cleared, Live
<1>4. ClearedPosted'
  BY <1>2, <1>3 DEF BillInv, ClearedPosted
<1>5. ASSUME NEW b \in Bill, NEW accrual, ApprovalHolds(b, accrual) PROVE ApprovalHolds(b, accrual)'
  <2>1. CASE bill[b].receipt = None
    BY <1>5, <2>1 DEF ApprovalHolds
  <2>2. CASE bill[b].receipt # None
    <3>1. bill[b].receipt \in Receipt  BY <2>2 DEF BillInv, Rows, BillRow
    <3>2. /\ receipt'[bill[b].receipt].status \in Settled
          /\ receipt'[bill[b].receipt].accrual = receipt[bill[b].receipt].accrual
      BY <1>5, <2>2, <3>1 DEF ApprovalHolds, ReceiptsKept
    <3>3. bill[b].status = "draft" => Live(b)
      BY DEF Live
    <3> QED  BY <1>2, <1>5, <2>2, <3>2, <3>3 DEF ApprovalHolds
  <2> QED  BY <2>1, <2>2
<1> QED  BY <1>1, <1>4, <1>5

LEMMA OrderStepKeeps == ASSUME BillInv, OrderStep PROVE BillInv'
<1>1. UNCHANGED <<receipt, bill, txn, overtaken>> /\ DOMAIN order' = Order
  BY OrderStepWrites DEF BillInv, books
<1> QED  BY <1>1 DEF BillInv, Rows, ReadsHold, ApprovalHolds, OneLiveBill, ClearedPosted, Handling, Live

LEMMA ReceiptStepKeeps == ASSUME BillInv, ReceiptStep PROVE BillInv'
<1>1. UNCHANGED <<bill, txn, booked, overtaken>> /\ DOMAIN order' = Order /\ ReceiptsKept
  BY ReceiptStepWrites DEF BillInv
<1>2. Rows'
  BY <1>1 DEF BillInv, Rows, ReceiptsKept
<1>3. /\ OneLiveBill' /\ ClearedPosted'
      /\ \A b \in Bill : \A accrual : ApprovalHolds(b, accrual) => ApprovalHolds(b, accrual)'
  BY <1>1, ReceiptsChange
<1>4. ReadsHold'
  <2> SUFFICES ASSUME NEW t \in Txn, Handling(t)
               PROVE  /\ txn[t].bill \in Bill
                      /\ txn[t].kind # "register" => bill[txn[t].bill].status # "absent"
                      /\ txn[t].kind = "approve" => ApprovalHolds(txn[t].bill, txn[t].accrual)'
    BY <1>1 DEF ReadsHold, Handling, ApprovalHolds
  <2> QED  BY <1>1, <1>3 DEF BillInv, ReadsHold
<1> QED  BY <1>2, <1>3, <1>4 DEF BillInv

LEMMA ReadStepKeeps == ASSUME BillInv, NEW t \in Txn, ReadStep(t) PROVE BillInv'
<1>1. /\ UNCHANGED <<order, receipt, bill, overtaken>> /\ DOMAIN txn' = Txn
      /\ \A u \in Txn \ {t} : txn'[u] = txn[u]
      /\ txn'[t].bill \in Bill \cup {None} /\ txn'[t].receipt \in Receipt \cup {None}
      /\ Handling(t)' =>
            /\ txn'[t].bill \in Bill
            /\ txn'[t].kind # "register" => bill[txn'[t].bill].status # "absent"
            /\ txn'[t].kind = "approve" => ApprovalHolds(txn'[t].bill, txn'[t].accrual)
  BY ReadStepWrites DEF BillInv, books
<1>2. Rows'
  BY <1>1 DEF BillInv, Rows
<1>3. ReadsHold'
  <2> SUFFICES ASSUME NEW u \in Txn, Handling(u)'
               PROVE  /\ txn'[u].bill \in Bill
                      /\ txn'[u].kind # "register" => bill[txn'[u].bill].status # "absent"
                      /\ txn'[u].kind = "approve" => ApprovalHolds(txn'[u].bill, txn'[u].accrual)
    BY <1>1 DEF ReadsHold, ApprovalHolds
  <2>1. CASE u = t  BY <1>1, <2>1
  <2>2. CASE u # t
    <3>1. txn'[u] = txn[u] /\ Handling(u)  BY <1>1, <2>2 DEF Handling
    <3> QED  BY <3>1 DEF BillInv, ReadsHold
  <2> QED  BY <2>1, <2>2
<1> QED  BY <1>1, <1>2, <1>3 DEF BillInv, OneLiveBill, ClearedPosted, Live

(* The transactions that go on are those that have not ended.                *)
LEMMA FinishKeeps ==
    ASSUME Rows, NEW t \in Txn, Finish(t)
    PROVE  \A u \in Txn : Handling(u)' => txn'[u] = txn[u] /\ Handling(u)
BY FinishWrites DEF Handling

LEMMA CreateReceiptKeeps ==
    ASSUME BillInv, NEW t \in Txn, NEW accepted \in Bodies, CreateReceipt(t, accepted)
    PROVE  BillInv'
<1>1. UNCHANGED <<order, bill, overtaken>> /\ Finish(t) /\ ReceiptsKept
  BY CreateReceiptWrites DEF BillInv, books
<1>2. Rows'
  BY <1>1, FinishWrites DEF BillInv, Rows, ReceiptsKept
<1>3. /\ OneLiveBill' /\ ClearedPosted'
      /\ \A b \in Bill : \A accrual : ApprovalHolds(b, accrual) => ApprovalHolds(b, accrual)'
  BY <1>1, ReceiptsChange
<1>4. ReadsHold'
  <2> SUFFICES ASSUME NEW u \in Txn, Handling(u)'
               PROVE  /\ txn'[u].bill \in Bill
                      /\ txn'[u].kind # "register" => bill[txn'[u].bill].status # "absent"
                      /\ txn'[u].kind = "approve" => ApprovalHolds(txn[u].bill, txn[u].accrual)'
                      /\ txn'[u] = txn[u]
    BY <1>1 DEF ReadsHold, ApprovalHolds
  <2>1. txn'[u] = txn[u] /\ Handling(u)  BY <1>1, FinishKeeps DEF BillInv
  <2>2. /\ txn[u].bill \in Bill
        /\ txn[u].kind # "register" => bill[txn[u].bill].status # "absent"
        /\ txn[u].kind = "approve" => ApprovalHolds(txn[u].bill, txn[u].accrual)
    BY <2>1 DEF BillInv, ReadsHold
  <2> QED  BY <1>3, <2>1, <2>2
<1> QED  BY <1>2, <1>3, <1>4 DEF BillInv

(* A bill changes by the hand of one transaction; what others have read of it *)
(* holds as long as it is not a draft again.                                 *)
LEMMA OthersHold ==
    ASSUME BillInv, NEW t \in Txn, Finish(t), UNCHANGED receipt, NEW b \in Bill,
           \A c \in Bill \ {b} : bill'[c] = bill[c],
           bill'[b].status # "absent",
           bill[b].status # "absent" => bill'[b].status # "draft" /\ bill'[b].receipt = bill[b].receipt
    PROVE  ReadsHold'
<1> SUFFICES ASSUME NEW u \in Txn, Handling(u)'
             PROVE  /\ txn'[u].bill \in Bill
                    /\ txn'[u].kind # "register" => bill'[txn'[u].bill].status # "absent"
                    /\ txn'[u].kind = "approve" => ApprovalHolds(txn[u].bill, txn[u].accrual)'
                    /\ txn'[u] = txn[u]
  BY DEF ReadsHold, ApprovalHolds
<1>1. txn'[u] = txn[u] /\ Handling(u)  BY FinishKeeps DEF BillInv
<1>2. /\ txn[u].bill \in Bill
      /\ txn[u].kind # "register" => bill[txn[u].bill].status # "absent"
      /\ txn[u].kind = "approve" => ApprovalHolds(txn[u].bill, txn[u].accrual)
  BY <1>1 DEF BillInv, ReadsHold
<1>3. ASSUME txn[u].kind = "approve" PROVE ApprovalHolds(txn[u].bill, txn[u].accrual)'
  <2>1. bill[txn[u].bill].status # "absent"
    BY <1>2, <1>3
  <2>2. CASE txn[u].bill # b
    <3>1. bill'[txn[u].bill] = bill[txn[u].bill]  BY <1>2, <2>2
    <3> QED  BY <1>1, <1>2, <1>3, <3>1 DEF ApprovalHolds
  <2>3. CASE txn[u].bill = b
    <3>1. bill'[b].status # "draft" /\ bill'[b].receipt = bill[b].receipt  BY <2>1, <2>3
    <3> QED  BY <1>1, <1>2, <1>3, <2>3, <3>1 DEF ApprovalHolds
  <2> QED  BY <2>2, <2>3
<1>4. bill[txn[u].bill].status # "absent" => bill'[txn[u].bill].status # "absent"
  BY <1>2
<1> QED  BY <1>1, <1>2, <1>3, <1>4

LEMMA StillOneLive ==
    ASSUME BillInv, NEW b \in Bill, \A c \in Bill \ {b} : bill'[c] = bill[c],
           \/ bill'[b].status = "void"
           \/ bill'[b].receipt # None => ReceiptBill(bill'[b].receipt) \subseteq {b}
    PROVE  OneLiveBill'
<1> SUFFICES ASSUME NEW c \in Bill, NEW d \in Bill, c # d, Live(c)', Live(d)',
                    bill'[c].receipt = bill'[d].receipt, bill'[c].receipt # None
             PROVE  FALSE
  BY DEF OneLiveBill
<1>1. ASSUME NEW e \in Bill, e # b, Live(b)', Live(e)', bill'[e].receipt = bill'[b].receipt,
             bill'[b].receipt # None
      PROVE  FALSE
  <2>1. Live(e) /\ bill[e].receipt = bill'[b].receipt
    BY <1>1 DEF Live
  <2>2. e \in ReceiptBill(bill'[b].receipt)
    BY <1>1, <2>1, LiveBillsHold DEF BillInv
  <2> QED  BY <1>1, <2>2 DEF Live
<1>2. CASE c # b /\ d # b
  BY <1>2 DEF BillInv, OneLiveBill, Live
<1> QED  BY <1>1, <1>2

LEMMA RegisterKeeps ==
    ASSUME BillInv, NEW t \in Txn, NEW amount \in Amounts, NEW wht \in Withheld,
           RegisterBill(t, amount, wht)
    PROVE  BillInv'
<1>1. PICK b : b = txn[t].bill  OBVIOUS
<1>2. /\ UNCHANGED <<order, receipt, overtaken>> /\ Finish(t) /\ b \in Bill
      /\ bill' \in [Bill -> BillRow]
      /\ \A c \in Bill \ {b} : bill'[c] = bill[c]
      /\ bill[b].status = "absent" /\ bill'[b].status = "draft"
      /\ bill'[b].receipt # None => ReceiptBill(bill'[b].receipt) \subseteq {b}
  BY <1>1, RegisterWrites DEF BillInv, books
<1>3. Rows'
  BY <1>2, FinishWrites DEF BillInv, Rows
<1>4. ReadsHold' /\ OneLiveBill'
  BY <1>2, OthersHold, StillOneLive
<1>5. ClearedPosted'
  BY <1>2 DEF BillInv, ClearedPosted, Cleared
<1> QED  BY <1>3, <1>4, <1>5 DEF BillInv

LEMMA DecideKeeps ==
    ASSUME BillInv, NEW t \in Txn, ApproveBill(t) \/ PayBill(t) \/ VoidBill(t)
    PROVE  BillInv'
<1>1. PICK b : b = txn[t].bill  OBVIOUS
<1>2. PICK from, to : /\ Decide(t, from, to) /\ <<from, to>> \in Pairs
                      /\ to = "approved" => txn[t].kind = "approve"
  BY Decisions
<1>3. UNCHANGED <<order, receipt>> /\ Handling(t) /\ txn[t].kind # "register"
  BY Decisions
<1>4. /\ Finish(t) /\ b \in Bill
      /\ bill' \in [Bill -> BillRow]
      /\ \A c \in Bill \ {b} : bill'[c] = bill[c]
      /\ bill'[b].status = to /\ bill'[b].receipt = bill[b].receipt
      /\ overtaken' = IF bill[b].status = from THEN overtaken ELSE overtaken \cup {b}
      /\ to # "void" /\ bill[b].receipt # None => ReceiptBill(bill[b].receipt) \subseteq {b}
  BY <1>1, <1>2, <1>3, DecideWrites DEF BillInv
<1>5. \/ from = "draft" /\ to = "approved"
      \/ from = "approved" /\ to = "paid"
      \/ from = "draft" /\ to = "void"
  BY <1>2 DEF Pairs
<1>6. Rows'
  BY <1>3, <1>4, FinishWrites DEF BillInv, Rows
<1>7. ReadsHold' /\ OneLiveBill'
  BY <1>3, <1>4, <1>5, OthersHold, StillOneLive
<1>8. ClearedPosted'
  <2> SUFFICES ASSUME NEW c \in Bill \ overtaken', bill'[c].status \in Cleared, bill'[c].receipt # None
               PROVE  receipt[bill'[c].receipt].status = "posted"
    BY <1>3 DEF ClearedPosted
  <2>1. c \in Bill \ overtaken
    BY <1>4
  <2>2. CASE c # b
    BY <1>4, <2>1, <2>2 DEF BillInv, ClearedPosted
  <2>3. CASE c = b
    <3>1. bill[b].status = from /\ to \in {"approved", "paid"}
      BY <1>4, <1>5, <2>3 DEF Cleared
    <3>2. CASE to = "approved"
      BY <1>1, <1>2, <1>3, <1>4, <1>5, <2>3, <3>1, <3>2 DEF BillInv, ReadsHold, ApprovalHolds
    <3>3. CASE to = "paid"
      BY <1>4, <1>5, <2>1, <2>3, <3>1, <3>3 DEF BillInv, ClearedPosted, Cleared
    <3> QED  BY <3>1, <3>2, <3>3
  <2> QED  BY <2>2, <2>3
<1> QED  BY <1>6, <1>7, <1>8 DEF BillInv

LEMMA AbortKeeps == ASSUME BillInv, NEW t \in Txn, Abort(t) PROVE BillInv'
<1>1. UNCHANGED <<order, receipt, bill, overtaken>> /\ Finish(t)  BY DEF Abort, books
<1>2. Rows'  BY <1>1, FinishWrites DEF BillInv, Rows
<1>3. \A u \in Txn : Handling(u)' => txn'[u] = txn[u] /\ Handling(u)
  BY <1>1, FinishKeeps DEF BillInv
<1>4. ReadsHold'  BY <1>1, <1>3 DEF BillInv, ReadsHold, ApprovalHolds
<1> QED  BY <1>1, <1>2, <1>4 DEF BillInv, OneLiveBill, ClearedPosted, Live

LEMMA BillInvInit == Init => BillInv
<1> SUFFICES ASSUME Init PROVE BillInv  OBVIOUS
<1>1. bill \in [Bill -> BillRow]
  BY DEF Init, BillRow
<1>2. Rows
  BY <1>1 DEF Init, Rows, Idle, ReceiptFields
<1> QED  BY <1>2 DEF Init, BillInv, ReadsHold, OneLiveBill, ClearedPosted, Handling,
                     Live, Idle, Cleared

LEMMA BillInvStep == ASSUME BillInv, [Next]_vars PROVE BillInv'
<1>1. ASSUME NEW t \in Txn, WriteStep(t) PROVE BillInv'
  BY <1>1, CreateReceiptKeeps, RegisterKeeps, DecideKeeps, AbortKeeps DEF WriteStep
<1> QED  BY <1>1, OrderStepKeeps, ReceiptStepKeeps, ReadStepKeeps, StepKinds

LEMMA BilledFromInv == BillInv => BilledReceiptsStand
<1> SUFFICES ASSUME BillInv, NEW b \in Bill \ overtaken, bill[b].status \in Cleared, bill[b].receipt # None
             PROVE  /\ receipt[bill[b].receipt].status = "posted"
                    /\ ReceiptBill(bill[b].receipt) = {b}
  BY DEF BilledReceiptsStand
<1>1. receipt[bill[b].receipt].status = "posted"  BY DEF BillInv, ClearedPosted
<1>2. Live(b)  BY DEF Live, Cleared
<1>3. ReceiptBill(bill[b].receipt) = {b}
  BY <1>2 DEF BillInv, OneLiveBill, ReceiptBill, Live
<1> QED  BY <1>1, <1>3

(* A receipt that a bill has cleared is there for good and no other bill     *)
(* clears it, although neither side is read under the other's lock           *)
(* (bills.py:48-50, 83-92, inventory_purchasing.py:654-659): unless another  *)
(* transaction changed that very bill between the read and the write.        *)
THEOREM BilledReceiptsKept == Spec => []BilledReceiptsStand
<1> QED  BY BillInvInit, BillInvStep, BilledFromInv, PTL DEF Spec

-----------------------------------------------------------------------------
(* Ended orders.                                                           *)

LEMMA MoveElsewhere ==
    ASSUME Rows, NEW o \in Order, NEW from, NEW to, Move(o, from, to),
           NEW p \in Order, order[p].status \notin from
    PROVE  order'[p] = order[p]
BY DEF Rows, Move

LEMMA EndedStep ==
    ASSUME Rows, [Next]_vars, NEW p \in Order, order[p].status \in {"closed", "cancelled"}
    PROVE  order'[p] = order[p]
<1>1. CASE OrderStep
  BY <1>1, MoveElsewhere
     DEF OrderStep, CreateOrder, SubmitOrder, DecideOrder, IssueOrder, DeleteOrder, CancelOrder,
         CloseOrder, SetTolerance, StartGl, vars
<1>2. CASE ReceiptStep
  BY <1>2 DEF Rows, ReceiptStep, UpdateReceipt, DeleteReceipt, PostReceipt, MayPost, ReverseReceipt,
              Receive, Receivable
<1>3. ASSUME NEW t \in Txn, ReadStep(t) PROVE order' = order
  BY <1>3, ReadStepWrites
<1>4. ASSUME NEW t \in Txn, WriteStep(t) PROVE order' = order
  BY <1>4 DEF WriteStep, CreateReceipt, RegisterBill, ApproveBill, PayBill, VoidBill, Abort
<1> QED  BY <1>1, <1>2, <1>3, <1>4, StepKinds

(* Nothing arrives on an order that was cancelled or closed, although a      *)
(* receipt is drafted without the order's lock and may outlive it            *)
(* (inventory_purchasing.py:555-556).                                        *)
THEOREM EndedOrdersKept == Spec => EndedOrdersStand
<1>1. BillInv /\ [Next]_vars =>
        [\A o \in Order : order[o].status \in {"closed", "cancelled"} => order'[o] = order[o]]_vars
  BY EndedStep DEF BillInv
<1> QED  BY <1>1, BillInvInit, BillInvStep, PTL DEF Spec, EndedOrdersStand

-----------------------------------------------------------------------------
(* Quantities and tolerances.                                              *)

LEMMA RoundNatural ==
    ASSUME NEW a \in Nat, NEW b \in Nat \ {0}
    PROVE  Round(a, b) \in Nat
BY QuotientNatural DEF Round

LEMMA HundredthsGrow ==
    ASSUME NEW a \in Nat, NEW b \in Nat, a <= b
    PROVE  a \div 100 <= b \div 100 /\ a \div 100 \in Nat
OBVIOUS

LEMMA LargestTolerance ==
    /\ Max(Tolerances) \in 0..100
    /\ \A u \in Tolerances : u <= Max(Tolerances)
<1>1. Tolerances \in SUBSET Nat /\ Tolerances # {} /\ Tolerances \subseteq 0..100
  BY BillAssumption
<1>2. \A n \in Tolerances : n <= 100
  BY <1>1
<1>3. \E n \in Tolerances : \A m \in Tolerances : m <= n
  BY <1>1, <1>2, LargestNatural
<1>4. \E n \in Tolerances : \A m \in Tolerances : n >= m
  BY <1>1, <1>3
<1>5. Max(Tolerances) \in Tolerances /\ \A m \in Tolerances : Max(Tolerances) >= m
  BY <1>4 DEF Max
<1> QED  BY <1>1, <1>5

LEMMA ReceivableGrows ==
    ASSUME NEW l \in Line, NEW u \in Tolerances
    PROVE  /\ MaxReceivable(l, u) \in Nat /\ MaxReceivable(l, Max(Tolerances)) \in Nat
           /\ MaxReceivable(l, u) <= MaxReceivable(l, Max(Tolerances))
<1> DEFINE top == Max(Tolerances)
<1>1. Ordered[l] \in Nat /\ 100 + u \in Nat /\ 100 + top \in Nat /\ 100 + u <= 100 + top
  BY LargestTolerance, LineAssumption, BillAssumption
<1> HIDE DEF top
<1>2. Ordered[l] * (100 + u) <= Ordered[l] * (100 + top)
  BY <1>1, ProductGrows
<1>3. Ordered[l] * (100 + u) \in Nat /\ Ordered[l] * (100 + top) \in Nat
  BY <1>1, ProductNatural
<1> DEFINE x == Ordered[l] * (100 + u)
           y == Ordered[l] * (100 + top)
<1>4. x \in Nat /\ y \in Nat /\ x <= y
  BY <1>2, <1>3
<1>5. MaxReceivable(l, u) = x \div 100 /\ MaxReceivable(l, top) = y \div 100
  BY DEF MaxReceivable
<1> HIDE DEF x, y
<1>6. x \div 100 \in Nat /\ y \div 100 \in Nat /\ x \div 100 <= y \div 100
  BY <1>4, HundredthsGrow
<1> QED  BY <1>5, <1>6 DEF top

LEMMA ValueNatural == ASSUME NEW accepted \in [Line -> Nat] PROVE Value(accepted) \in Nat
<1> DEFINE share == [l \in Line |-> Round(accepted[l] * Net[l], Ordered[l])]
<1>1. ASSUME NEW l \in Line PROVE share[l] \in Nat
  <2>1. accepted[l] * Net[l] \in Nat /\ Ordered[l] \in Nat \ {0}
    BY LineAssumption, ProductNatural
  <2> QED  BY <2>1, RoundNatural
<1>2. IsFiniteSet(Line)
  BY LineAssumption
<1> HIDE DEF share
<1>3. SumFunctionOnSet(share, Line) \in Nat
  BY <1>1, <1>2, SumNat
<1> QED  BY <1>3 DEF Value, share

-----------------------------------------------------------------------------
(* The invariant of quantities and balances.                               *)

(* What a posted or drafted receipt was written for is an order.            *)
RefsHold ==
    /\ \A g \in Receipt : receipt[g].status # "absent" => receipt[g].order \in Order
    /\ \A t \in Txn : txn[t].kind = "draft" => txn[t].order \in Order /\ txn[t].receipt \in Receipt

Balances == OrdersMatchReceipts /\ GrniExplained /\ BillsPostOnce

PurchasingInv == BillInv /\ TypeOK /\ RefsHold /\ Balances

-----------------------------------------------------------------------------
(* Types.                                                                  *)

LEMMA ReadsTyped ==
    ASSUME NEW kind \in {"none", "draft", "register", "approve", "pay", "void"},
           NEW b \in Bill \cup {None}, NEW g \in Receipt \cup {None}, NEW o \in Order \cup {None},
           NEW accrual \in Nat
    PROVE  /\ Idle \in Reads
           /\ [Idle EXCEPT !.kind = kind, !.order = o, !.receipt = g] \in Reads
           /\ [Idle EXCEPT !.kind = kind, !.bill = b, !.receipt = g] \in Reads
           /\ [Idle EXCEPT !.kind = kind, !.bill = b, !.accrual = accrual] \in Reads
           /\ [Idle EXCEPT !.kind = kind, !.bill = b] \in Reads
BY DEF Idle, Reads

LEMMA OrderStepTyped == ASSUME TypeOK, OrderStep PROVE TypeOK'
<1>1. ASSUME NEW o \in Order, NEW from, NEW to \in OrderStatus, Move(o, from, to)
      PROVE  TypeOK'
  <2>1. /\ order' \in [Order -> OrderRow]
        /\ \A p \in Order : order'[p].received = order[p].received
    BY <1>1 DEF Move, TypeOK, OrderRow
  <2>2. /\ \A p \in Order, l \in Line : order'[p].received[l] <= MaxReceivable(l, Max(Tolerances))
        /\ UNCHANGED <<receipt, bill, txn, settings, books>>
    BY <1>1, <2>1 DEF Move, TypeOK
  <2> QED  BY <2>1, <2>2 DEF TypeOK, books
<1>2. ASSUME NEW o \in Order,
             \/ CreateOrder(o) \/ SubmitOrder(o) \/ \E approve \in BOOLEAN : DecideOrder(o, approve)
             \/ IssueOrder(o) \/ DeleteOrder(o) \/ CancelOrder(o) \/ CloseOrder(o)
      PROVE  \E from : \E to \in OrderStatus : Move(o, from, to)
  BY <1>2 DEF CreateOrder, SubmitOrder, DecideOrder, IssueOrder, DeleteOrder, CancelOrder,
              CloseOrder, OrderStatus
<1>3. ASSUME NEW tolerance \in Tolerances, SetTolerance(tolerance) PROVE TypeOK'
  BY <1>3 DEF SetTolerance, TypeOK, Settings, books
<1>4. ASSUME StartGl PROVE TypeOK'
  BY <1>4 DEF StartGl, TypeOK, Settings, books
<1>5. ASSUME UNCHANGED vars PROVE TypeOK'
  BY <1>5 DEF vars, TypeOK
<1> QED  BY <1>1, <1>2, <1>3, <1>4, <1>5 DEF OrderStep

LEMMA ReadStepTyped == ASSUME TypeOK, NEW t \in Txn, ReadStep(t) PROVE TypeOK'
<1>1. ASSUME NEW reads \in Reads, Start(t, reads) PROVE TypeOK'
  BY <1>1 DEF Start, TypeOK, books
<1>2. ASSUME NEW b \in Bill PROVE (IF bill[b].receipt = None THEN 0 ELSE receipt[bill[b].receipt].accrual) \in Nat
  BY DEF TypeOK, BillRow, ReceiptRow
<1>3. ASSUME NEW o \in Order, NEW g \in Receipt, ReadToReceive(t, o, g) PROVE TypeOK'
  <2>1. [Idle EXCEPT !.kind = "draft", !.order = o, !.receipt = g] \in Reads
    BY ReadsTyped
  <2> QED  BY <1>1, <1>3, <2>1 DEF ReadToReceive
<1>4. ASSUME NEW b \in Bill, NEW g \in Receipt \cup {None}, ReadToRegister(t, b, g) PROVE TypeOK'
  <2>1. [Idle EXCEPT !.kind = "register", !.bill = b, !.receipt = g] \in Reads
    BY ReadsTyped
  <2> QED  BY <1>1, <1>4, <2>1 DEF ReadToRegister
<1>5. ASSUME NEW b \in Bill, ReadToApprove(t, b) PROVE TypeOK'
  <2>1. [Idle EXCEPT !.kind = "approve", !.bill = b,
            !.accrual = IF bill[b].receipt = None THEN 0 ELSE receipt[bill[b].receipt].accrual] \in Reads
    BY <1>2, ReadsTyped
  <2> QED  BY <1>1, <1>5, <2>1 DEF ReadToApprove
<1>6. ASSUME NEW b \in Bill, ReadToPay(t, b) \/ ReadToVoid(t, b) PROVE TypeOK'
  <2>1. /\ [Idle EXCEPT !.kind = "pay", !.bill = b] \in Reads
        /\ [Idle EXCEPT !.kind = "void", !.bill = b] \in Reads
    BY ReadsTyped
  <2> QED  BY <1>1, <1>6, <2>1 DEF ReadToPay, ReadToVoid
<1> QED  BY <1>3, <1>4, <1>5, <1>6 DEF ReadStep

LEMMA FinishTyped == ASSUME TypeOK, NEW t \in Txn, Finish(t) PROVE txn' \in [Txn -> Reads]
BY ReadsTyped DEF Finish, TypeOK

(* The receipt a step writes is the only one that changes.                 *)
LEMMA ReceiptRows ==
    ASSUME TypeOK, NEW g \in Receipt
    PROVE  /\ receipt \in [Receipt -> ReceiptRow] /\ receipt[g] \in ReceiptRow
           /\ receipt[g].accepted \in [Line -> Nat] /\ receipt[g].accrual \in Nat
BY LineAssumption DEF TypeOK, ReceiptRow

LEMMA DraftWritten ==
    ASSUME TypeOK, NEW t \in Txn, NEW accepted \in Bodies, CreateReceipt(t, accepted),
           txn[t].receipt \in Receipt, txn[t].order \in Order
    PROVE  TypeOK'
<1>1. [status |-> "draft", order |-> txn[t].order, accepted |-> accepted, accrual |-> 0] \in ReceiptRow
  BY DEF ReceiptRow
<1>2. receipt' \in [Receipt -> ReceiptRow]
  BY <1>1 DEF CreateReceipt, TypeOK
<1>3. txn' \in [Txn -> Reads] /\ UNCHANGED <<order, bill, settings, books>>
  BY FinishTyped DEF CreateReceipt
<1> QED  BY <1>2, <1>3 DEF TypeOK, books

LEMMA DraftChanged ==
    ASSUME TypeOK, NEW g \in Receipt,
           (\E accepted \in Bodies : UpdateReceipt(g, accepted)) \/ DeleteReceipt(g)
    PROVE  /\ TypeOK' /\ UNCHANGED <<order, bill, txn, settings, books>>
           /\ \A h \in Receipt \ {g} : receipt'[h] = receipt[h]
           /\ receipt[g].status = "draft"
           /\ \/ receipt'[g].status = "draft" /\ receipt'[g].order = receipt[g].order
              \/ receipt'[g].status = "absent"
<1>1. ASSUME NEW accepted \in Bodies, UpdateReceipt(g, accepted)
      PROVE  /\ receipt' \in [Receipt -> ReceiptRow]
             /\ receipt'[g].status = "draft" /\ receipt'[g].order = receipt[g].order
             /\ receipt[g].status = "draft"
             /\ \A h \in Receipt \ {g} : receipt'[h] = receipt[h]
             /\ UNCHANGED <<order, bill, txn, settings, books>>
  BY <1>1 DEF UpdateReceipt, TypeOK, ReceiptRow
<1>2. ASSUME DeleteReceipt(g)
      PROVE  /\ receipt' \in [Receipt -> ReceiptRow]
             /\ receipt'[g].status = "absent" /\ receipt[g].status = "draft"
             /\ \A h \in Receipt \ {g} : receipt'[h] = receipt[h]
             /\ UNCHANGED <<order, bill, txn, settings, books>>
  BY <1>2 DEF DeleteReceipt, TypeOK, ReceiptRow
<1> QED  BY <1>1, <1>2 DEF TypeOK, books

LEMMA ProgressStatus == ASSUME NEW received PROVE Progress(received) \in {"issued", "partial", "received"}
BY DEF Progress

LEMMA OrderReceives ==
    ASSUME TypeOK, NEW o \in Order, NEW received \in [Line -> Nat], order' = Receive(o, received),
           \A l \in Line : received[l] <= MaxReceivable(l, Max(Tolerances))
    PROVE  /\ order' \in [Order -> OrderRow]
           /\ \A p \in Order, l \in Line : order'[p].received[l] <= MaxReceivable(l, Max(Tolerances))
           /\ order'[o].received = received /\ order'[o].status = Progress(received)
           /\ \A p \in Order \ {o} : order'[p] = order[p]
<1>1. [status |-> Progress(received), received |-> received] \in OrderRow
  BY ProgressStatus DEF OrderRow, OrderStatus
<1> DEFINE row == [status |-> Progress(received), received |-> received]
<1>2. order' = [order EXCEPT ![o] = row] /\ row.received = received /\ row.status = Progress(received)
  BY DEF Receive
<1> HIDE DEF row
<1>3. /\ order' \in [Order -> OrderRow] /\ order'[o] = row
      /\ \A p \in Order \ {o} : order'[p] = order[p]
  BY <1>1, <1>2 DEF TypeOK, row
<1> QED  BY <1>2, <1>3 DEF TypeOK

(* Dr inventory / Cr GRNI.                                                 *)
LEMMA ReceiptPosted ==
    ASSUME TypeOK, RefsHold, NEW g \in Receipt, PostReceipt(g), NEW o, o = receipt[g].order
    PROVE  /\ TypeOK' /\ UNCHANGED <<bill, txn, settings, booked, overtaken>>
           /\ \A h \in Receipt \ {g} : receipt'[h] = receipt[h]
           /\ receipt[g].status = "draft" /\ receipt'[g].status = "posted"
           /\ receipt'[g].order = o /\ receipt'[g].accepted = receipt[g].accepted
           /\ o \in Order /\ order[o].status \in Receivable
           /\ order'[o].received = [l \in Line |-> order[o].received[l] + receipt[g].accepted[l]]
           /\ order'[o].status = Progress(order'[o].received)
           /\ \A p \in Order \ {o} : order'[p] = order[p]
           /\ grni' = grni + receipt'[g].accrual
<1> DEFINE received == [l \in Line |-> order[o].received[l] + receipt[g].accepted[l]]
           accrual == IF settings.gl THEN Value(receipt[g].accepted) ELSE 0
<1>1. /\ receipt[g].status = "draft" /\ o \in Order /\ order[o].status \in Receivable
      /\ FitsOrder(o, receipt[g].accepted)
      /\ order' = Receive(o, received)
      /\ receipt' = [receipt EXCEPT ![g].status = "posted", ![g].accrual = accrual]
      /\ grni' = grni + accrual /\ UNCHANGED <<bill, txn, settings, booked, overtaken>>
  BY DEF PostReceipt, MayPost, RefsHold
<1>2. received \in [Line -> Nat] /\ accrual \in Nat
  BY <1>1, ReceiptRows, ValueNatural DEF TypeOK, OrderRow
<1>3. ASSUME NEW l \in Line PROVE received[l] <= MaxReceivable(l, Max(Tolerances))
  <2>1. received[l] <= MaxReceivable(l, settings.tolerance)
    BY <1>1 DEF FitsOrder
  <2>2. settings.tolerance \in Tolerances
    BY DEF TypeOK, Settings
  <2>3. received[l] \in Nat
    BY <1>2
  <2> HIDE DEF received
  <2> QED  BY <2>1, <2>2, <2>3, ReceivableGrows
<1> HIDE DEF received, accrual
<1>4. /\ order' \in [Order -> OrderRow]
      /\ \A p \in Order, l \in Line : order'[p].received[l] <= MaxReceivable(l, Max(Tolerances))
      /\ order'[o].received = received /\ order'[o].status = Progress(received)
      /\ \A p \in Order \ {o} : order'[p] = order[p]
  BY <1>1, <1>2, <1>3, OrderReceives
<1>5. /\ receipt' \in [Receipt -> ReceiptRow]
      /\ \A h \in Receipt \ {g} : receipt'[h] = receipt[h]
      /\ receipt'[g].status = "posted" /\ receipt'[g].order = o
      /\ receipt'[g].accepted = receipt[g].accepted /\ receipt'[g].accrual = accrual
  BY <1>1, <1>2 DEF TypeOK, ReceiptRow
<1>6. grni' \in Int /\ grni' = grni + accrual
  BY <1>1, <1>2 DEF TypeOK
<1>7. TypeOK'
  BY <1>1, <1>4, <1>5, <1>6 DEF TypeOK
<1> QED  BY <1>1, <1>4, <1>5, <1>6, <1>7 DEF received

(* The goods are given back: no more than the order was counted.           *)
LEMMA ReceiptReversed ==
    ASSUME TypeOK, RefsHold, NEW g \in Receipt, ReverseReceipt(g), NEW o, o = receipt[g].order,
           \A l \in Line : receipt[g].accepted[l] <= order[o].received[l]
    PROVE  /\ TypeOK' /\ UNCHANGED <<bill, txn, settings, booked, overtaken>>
           /\ \A h \in Receipt \ {g} : receipt'[h] = receipt[h]
           /\ receipt[g].status = "posted" /\ receipt'[g].status = "reversed"
           /\ receipt'[g].order = o /\ ReceiptBill(g) = {}
           /\ o \in Order /\ order[o].status \in Receivable \cup {"received"}
           /\ order'[o].received = [l \in Line |-> order[o].received[l] - receipt[g].accepted[l]]
           /\ order'[o].status = Progress(order'[o].received)
           /\ \A p \in Order \ {o} : order'[p] = order[p]
           /\ grni' = grni - receipt[g].accrual
<1> DEFINE received == [l \in Line |-> order[o].received[l] - receipt[g].accepted[l]]
<1>1. /\ receipt[g].status = "posted" /\ o \in Order
      /\ order[o].status \in Receivable \cup {"received"} /\ ReceiptBill(g) = {}
      /\ order' = Receive(o, received)
      /\ receipt' = [receipt EXCEPT ![g].status = "reversed"]
      /\ grni' = grni - receipt[g].accrual /\ UNCHANGED <<bill, txn, settings, booked, overtaken>>
  BY DEF ReverseReceipt, LeftWithOrder, RefsHold
<1>2. ASSUME NEW l \in Line
      PROVE  received[l] \in Nat /\ received[l] <= MaxReceivable(l, Max(Tolerances))
  <2>1. /\ order[o].received[l] \in Nat /\ receipt[g].accepted[l] \in Nat
        /\ order[o].received[l] <= MaxReceivable(l, Max(Tolerances))
    BY <1>1, ReceiptRows DEF TypeOK, OrderRow
  <2>2. 0 \in Tolerances
    BY BillAssumption
  <2>3. MaxReceivable(l, Max(Tolerances)) \in Nat
    BY <2>2, ReceivableGrows
  <2> QED  BY <2>1, <2>3
<1>3. received \in [Line -> Nat]
  BY <1>2
<1> HIDE DEF received
<1>4. /\ order' \in [Order -> OrderRow]
      /\ \A p \in Order, l \in Line : order'[p].received[l] <= MaxReceivable(l, Max(Tolerances))
      /\ order'[o].received = received /\ order'[o].status = Progress(received)
      /\ \A p \in Order \ {o} : order'[p] = order[p]
  BY <1>1, <1>2, <1>3, OrderReceives
<1>5. /\ receipt' \in [Receipt -> ReceiptRow]
      /\ \A h \in Receipt \ {g} : receipt'[h] = receipt[h]
      /\ receipt'[g].status = "reversed" /\ receipt'[g].order = o
  BY <1>1 DEF TypeOK, ReceiptRow
<1>6. grni' \in Int /\ grni' = grni - receipt[g].accrual
  BY <1>1, ReceiptRows DEF TypeOK
<1>7. TypeOK'
  BY <1>1, <1>4, <1>5, <1>6 DEF TypeOK
<1> QED  BY <1>1, <1>4, <1>5, <1>6, <1>7 DEF received

-----------------------------------------------------------------------------
(* What orders have received.                                              *)

Accepted(l) == [g \in Receipt |-> receipt[g].accepted[l]]

StatusFits(o) ==
    order[o].status # "closed" =>
        (order[o].status = Progress(order[o].received)
         \/ \A l \in Line : order[o].received[l] = 0 /\ order[o].status \notin {"partial", "received"})

LEMMA MatchParts ==
    OrdersMatchReceipts <=>
        \A o \in Order : /\ \A l \in Line : order[o].received[l] = SumFunctionOnSet(Accepted(l), PostedOn(o))
                         /\ StatusFits(o)
BY DEF OrdersMatchReceipts, Accepted, StatusFits

LEMMA AcceptedSum ==
    ASSUME TypeOK, TypeOK', NEW g \in Receipt, \A h \in Receipt \ {g} : receipt'[h] = receipt[h],
           NEW o \in Order, NEW l \in Line
    PROVE  SumFunctionOnSet(Accepted(l)', PostedOn(o)') = SumFunctionOnSet(Accepted(l), PostedOn(o))
              + ((IF g \in PostedOn(o)' THEN receipt'[g].accepted[l] ELSE 0)
                 - (IF g \in PostedOn(o) THEN receipt[g].accepted[l] ELSE 0))
<1> DEFINE f == Accepted(l)
           h == Accepted(l)'
           T == PostedOn(o)
           U == PostedOn(o)'
<1>1. T \in SUBSET Receipt /\ U \in SUBSET Receipt /\ IsFiniteSet(Receipt)
  BY BillAssumption DEF PostedOn
<1>2. ASSUME NEW x \in Receipt
      PROVE  /\ f[x] \in Int /\ h[x] \in Int
             /\ f[x] = receipt[x].accepted[l] /\ h[x] = receipt'[x].accepted[l]
  BY LineAssumption DEF TypeOK, ReceiptRow, Accepted
<1>3. ASSUME NEW x \in Receipt \ {g}
      PROVE  (x \in T <=> x \in U) /\ (x \in T => f[x] = h[x])
  BY <1>2 DEF PostedOn
<1> HIDE DEF f, h, T, U
<1>4. \A x \in Receipt : f[x] \in Int /\ h[x] \in Int
  BY <1>2
<1>5. SumFunctionOnSet(h, U) = SumFunctionOnSet(f, T)
         + ((IF g \in U THEN h[g] ELSE 0) - (IF g \in T THEN f[g] ELSE 0))
  BY <1>1, <1>3, <1>4, SumStep
<1> QED  BY <1>2, <1>5 DEF f, h, T, U

LEMMA AcceptedKnown ==
    ASSUME TypeOK, OrdersMatchReceipts, NEW g \in Receipt, receipt[g].status = "posted",
           receipt[g].order \in Order, NEW l \in Line
    PROVE  receipt[g].accepted[l] <= order[receipt[g].order].received[l]
<1> DEFINE o == receipt[g].order
<1>1. PostedOn(o) \subseteq Receipt /\ g \in PostedOn(o) /\ IsFiniteSet(PostedOn(o))
  BY BillAssumption, FS_Subset DEF PostedOn
<1>2. ASSUME NEW x \in Receipt PROVE Accepted(l)[x] \in Nat /\ Accepted(l)[x] = receipt[x].accepted[l]
  BY LineAssumption DEF TypeOK, ReceiptRow, Accepted
<1>3. order[o].received[l] = SumFunctionOnSet(Accepted(l), PostedOn(o))
  BY MatchParts
<1> HIDE DEF o
<1>4. Accepted(l)[g] <= SumFunctionOnSet(Accepted(l), PostedOn(o))
  BY <1>1, <1>2, SumMember
<1> QED  BY <1>2, <1>3, <1>4 DEF o

(* The status an order may be moved to by a step that writes no quantities. *)
LEMMA MoveMatches ==
    ASSUME TypeOK, OrdersMatchReceipts, OrderStep
    PROVE  OrdersMatchReceipts'
<1>1. ASSUME NEW o \in Order, NEW from, NEW to, Move(o, from, to),
             \/ to = "closed"
             \/ /\ to \notin {"partial", "received"}
                /\ \A l \in Line : order[o].received[l] = 0
             \/ from \cap {"issued", "partial", "received", "closed"} = {} /\ to \notin {"partial", "received"}
      PROVE  OrdersMatchReceipts'
  <2>1. /\ receipt' = receipt
        /\ \A p \in Order : order'[p].received = order[p].received
        /\ \A p \in Order \ {o} : order'[p] = order[p]
        /\ order'[o].status = to /\ order[o].status \in from
    BY <1>1 DEF Move, TypeOK, OrderRow
  <2>2. ASSUME NEW p \in Order PROVE StatusFits(p)'
    <3>1. StatusFits(p)
      BY MatchParts
    <3>2. CASE p # o
      BY <2>1, <3>1, <3>2 DEF StatusFits
    <3>3. CASE p = o /\ to # "closed"
      <4>1. \A l \in Line : order[o].received[l] = 0
        BY <1>1, <2>1, <3>1, <3>3, ProgressStatus DEF StatusFits
      <4> QED  BY <1>1, <2>1, <3>3, <4>1 DEF StatusFits
    <3>4. CASE p = o /\ to = "closed"
      BY <2>1, <3>4 DEF StatusFits
    <3> QED  BY <3>2, <3>3, <3>4
  <2>3. ASSUME NEW p \in Order, NEW l \in Line
        PROVE  order'[p].received[l] = SumFunctionOnSet(Accepted(l)', PostedOn(p)')
    <3>1. Accepted(l)' = Accepted(l) /\ PostedOn(p)' = PostedOn(p)
      BY <2>1 DEF Accepted, PostedOn
    <3>2. order[p].received[l] = SumFunctionOnSet(Accepted(l), PostedOn(p))
      BY MatchParts
    <3> QED  BY <2>1, <3>1, <3>2
  <2>4. \A p \in Order : /\ \A l \in Line : order'[p].received[l] = SumFunctionOnSet(Accepted(l)', PostedOn(p)')
                         /\ StatusFits(p)'
    BY <2>2, <2>3
  <2> QED  BY <2>4 DEF OrdersMatchReceipts, Accepted, StatusFits
<1>2. ASSUME NEW o \in Order,
             \/ CreateOrder(o) \/ SubmitOrder(o) \/ \E approve \in BOOLEAN : DecideOrder(o, approve)
             \/ IssueOrder(o) \/ DeleteOrder(o)
      PROVE  OrdersMatchReceipts'
  <2>1. \E from, to : /\ Move(o, from, to)
                      /\ from \cap {"issued", "partial", "received", "closed"} = {}
                      /\ to \notin {"partial", "received"}
    BY <1>2 DEF CreateOrder, SubmitOrder, DecideOrder, IssueOrder, DeleteOrder
  <2> QED  BY <1>1, <2>1
<1>3. ASSUME NEW o \in Order, CancelOrder(o) PROVE OrdersMatchReceipts'
  BY <1>1, <1>3 DEF CancelOrder
<1>4. ASSUME NEW o \in Order, CloseOrder(o) PROVE OrdersMatchReceipts'
  BY <1>1, <1>4 DEF CloseOrder
<1>5. ASSUME UNCHANGED <<order, receipt>> PROVE OrdersMatchReceipts'
  BY <1>5 DEF OrdersMatchReceipts, PostedOn, StatusFits, Progress
<1> QED  BY <1>2, <1>3, <1>4, <1>5 DEF OrderStep, SetTolerance, StartGl, vars

(* A draft that comes, changes or goes counts for nothing yet.             *)
LEMMA DraftsCountNothing ==
    ASSUME TypeOK, TypeOK', OrdersMatchReceipts, UNCHANGED order,
           NEW g \in Receipt, \A h \in Receipt \ {g} : receipt'[h] = receipt[h],
           receipt[g].status # "posted", receipt'[g].status # "posted"
    PROVE  OrdersMatchReceipts'
<1>1. ASSUME NEW o \in Order, NEW l \in Line
      PROVE  order'[o].received[l] = SumFunctionOnSet(Accepted(l)', PostedOn(o)')
  <2>1. g \notin PostedOn(o) /\ g \notin PostedOn(o)'
    BY DEF PostedOn
  <2>2. SumFunctionOnSet(Accepted(l)', PostedOn(o)') = SumFunctionOnSet(Accepted(l), PostedOn(o)) + (0 - 0)
    BY <2>1, AcceptedSum
  <2>3. order[o].received[l] = SumFunctionOnSet(Accepted(l), PostedOn(o)) /\ order[o].received[l] \in Nat
    BY MatchParts DEF TypeOK, OrderRow
  <2> QED  BY <2>2, <2>3
<1>2. ASSUME NEW o \in Order PROVE StatusFits(o)'
  BY MatchParts DEF StatusFits
<1>3. \A o \in Order : /\ \A l \in Line : order'[o].received[l] = SumFunctionOnSet(Accepted(l)', PostedOn(o)')
                       /\ StatusFits(o)'
  BY <1>1, <1>2
<1> QED  BY <1>3 DEF OrdersMatchReceipts, Accepted, StatusFits

(* The order counts exactly what the receipt adds or takes away.           *)
LEMMA OrderCounts ==
    ASSUME TypeOK, TypeOK', OrdersMatchReceipts,
           NEW g \in Receipt, \A h \in Receipt \ {g} : receipt'[h] = receipt[h],
           NEW o \in Order, receipt[g].order = o, receipt'[g].order = o,
           \A p \in Order \ {o} : order'[p] = order[p],
           order'[o].status = Progress(order'[o].received),
           \/ /\ receipt[g].status # "posted" /\ receipt'[g].status = "posted"
              /\ receipt'[g].accepted = receipt[g].accepted
              /\ order'[o].received = [l \in Line |-> order[o].received[l] + receipt[g].accepted[l]]
           \/ /\ receipt[g].status = "posted" /\ receipt'[g].status # "posted"
              /\ order'[o].received = [l \in Line |-> order[o].received[l] - receipt[g].accepted[l]]
    PROVE  OrdersMatchReceipts'
<1>1. ASSUME NEW p \in Order, NEW l \in Line
      PROVE  order'[p].received[l] = SumFunctionOnSet(Accepted(l)', PostedOn(p)')
  <2> DEFINE before == SumFunctionOnSet(Accepted(l), PostedOn(p))
             after == SumFunctionOnSet(Accepted(l)', PostedOn(p)')
  <2>1. after = before + ((IF g \in PostedOn(p)' THEN receipt'[g].accepted[l] ELSE 0)
                          - (IF g \in PostedOn(p) THEN receipt[g].accepted[l] ELSE 0))
    BY AcceptedSum
  <2>2. order[p].received[l] = before /\ before \in Int /\ receipt[g].accepted[l] \in Int
    BY MatchParts, ReceiptRows DEF TypeOK, OrderRow
  <2> HIDE DEF before, after
  <2>3. CASE p # o
    <3>1. g \notin PostedOn(p) /\ g \notin PostedOn(p)' /\ order'[p] = order[p]
      BY <2>3 DEF PostedOn
    <3> QED  BY <2>1, <2>2, <3>1 DEF after
  <2>4. CASE p = o /\ receipt[g].status # "posted"
    <3>1. g \notin PostedOn(p) /\ g \in PostedOn(p)' /\ receipt'[g].accepted = receipt[g].accepted
      BY <2>4 DEF PostedOn
    <3>2. order'[p].received[l] = order[p].received[l] + receipt[g].accepted[l]
      BY <2>4
    <3> QED  BY <2>1, <2>2, <3>1, <3>2 DEF after
  <2>5. CASE p = o /\ receipt[g].status = "posted"
    <3>1. g \in PostedOn(p) /\ g \notin PostedOn(p)'
      BY <2>5 DEF PostedOn
    <3>2. order'[p].received[l] = order[p].received[l] - receipt[g].accepted[l]
      BY <2>5
    <3> QED  BY <2>1, <2>2, <3>1, <3>2 DEF after
  <2> QED  BY <2>3, <2>4, <2>5
<1>2. ASSUME NEW p \in Order PROVE StatusFits(p)'
  <2>1. CASE p = o  BY <2>1 DEF StatusFits
  <2>2. CASE p # o
    <3>1. order'[p] = order[p]  BY <2>2
    <3> QED  BY <3>1, MatchParts DEF StatusFits
  <2> QED  BY <2>1, <2>2
<1>3. \A p \in Order : /\ \A l \in Line : order'[p].received[l] = SumFunctionOnSet(Accepted(l)', PostedOn(p)')
                       /\ StatusFits(p)'
  BY <1>1, <1>2
<1> QED  BY <1>3 DEF OrdersMatchReceipts, Accepted, StatusFits

-----------------------------------------------------------------------------
(* Goods received, not invoiced.                                           *)

Accrued == [g \in Receipt |-> receipt[g].accrual]
Open == Uncleared(Bill \ overtaken)
ClearedBy == [b \in Bill |-> booked[b].cleared]
Extra == SumFunctionOnSet(ClearedBy, overtaken)

LEMMA GrniParts == GrniExplained <=> grni + Extra = SumFunctionOnSet(Accrued, Open)
BY DEF GrniExplained, Accrued, Open, ClearedBy, Extra

LEMMA ExtraTyped == ASSUME TypeOK PROVE Extra \in Int
<1>1. IsFiniteSet(overtaken)
  BY BillAssumption, FS_Subset DEF TypeOK
<1>2. \A x \in overtaken : ClearedBy[x] \in Int
  BY DEF TypeOK, ClearedBy
<1> QED  BY <1>1, <1>2, SumInt DEF Extra

(* Only one bill is decided on at a time.                                  *)
LEMMA ExtraMoves ==
    ASSUME TypeOK, TypeOK', NEW b \in Bill, \A c \in Bill \ {b} : booked'[c] = booked[c],
           overtaken' = overtaken \/ overtaken' = overtaken \cup {b}
    PROVE  Extra' = Extra + ((IF b \in overtaken' THEN booked'[b].cleared ELSE 0)
                             - (IF b \in overtaken THEN booked[b].cleared ELSE 0))
<1> DEFINE f == ClearedBy
           h == ClearedBy'
           T == overtaken
           U == overtaken'
<1>1. T \in SUBSET Bill /\ U \in SUBSET Bill /\ IsFiniteSet(Bill)
  BY BillAssumption DEF TypeOK
<1>2. \A x \in Bill : f[x] = booked[x].cleared /\ h[x] = booked'[x].cleared
  BY DEF ClearedBy
<1>3. \A x \in Bill : f[x] \in Int /\ h[x] \in Int
  BY DEF ClearedBy, TypeOK
<1>4. \A x \in Bill \ {b} : (x \in T <=> x \in U) /\ (x \in T => f[x] = h[x])
  BY <1>2
<1>5. Extra = SumFunctionOnSet(f, T) /\ Extra' = SumFunctionOnSet(h, U)
  BY DEF Extra
<1> HIDE DEF f, h
<1>6. SumFunctionOnSet(h, U) = SumFunctionOnSet(f, T)
         + ((IF b \in U THEN h[b] ELSE 0) - (IF b \in T THEN f[b] ELSE 0))
  <2> HIDE DEF T, U
  <2> QED  BY <1>1, <1>3, <1>4, SumStep
<1> QED  BY <1>2, <1>5, <1>6

LEMMA ExtraStays == ASSUME UNCHANGED <<booked, overtaken>> PROVE Extra' = Extra
BY DEF Extra, ClearedBy

(* Only one receipt is posted, reversed or cleared at a time.              *)
LEMMA GrniMoves ==
    ASSUME TypeOK, TypeOK', GrniExplained, NEW g \in Receipt,
           \A h \in Receipt \ {g} : (h \in Open' <=> h \in Open) /\ receipt'[h].accrual = receipt[h].accrual,
           grni' + Extra' = (grni + Extra) + ((IF g \in Open' THEN receipt'[g].accrual ELSE 0)
                                              - (IF g \in Open THEN receipt[g].accrual ELSE 0))
    PROVE  GrniExplained'
<1> DEFINE f == Accrued
           h == Accrued'
           T == Open
           U == Open'
<1>1. T \in SUBSET Receipt /\ U \in SUBSET Receipt /\ IsFiniteSet(Receipt)
  BY BillAssumption DEF Open, Uncleared
<1>2. \A x \in Receipt : f[x] = receipt[x].accrual /\ h[x] = receipt'[x].accrual
  BY DEF Accrued
<1>3. \A x \in Receipt : f[x] \in Int /\ h[x] \in Int
  BY DEF Accrued, TypeOK, ReceiptRow
<1>4. \A x \in Receipt \ {g} : (x \in T <=> x \in U) /\ (x \in T => f[x] = h[x])
  BY <1>2
<1> HIDE DEF f, h
<1>5. SumFunctionOnSet(h, U) = SumFunctionOnSet(f, T)
         + ((IF g \in U THEN h[g] ELSE 0) - (IF g \in T THEN f[g] ELSE 0))
  <2> HIDE DEF T, U
  <2> QED  BY <1>1, <1>3, <1>4, SumStep
<1>6. grni + Extra = SumFunctionOnSet(f, T)
  BY GrniParts DEF f
<1>7. grni' + Extra' = SumFunctionOnSet(h, U)
  BY <1>2, <1>5, <1>6
<1> QED  BY <1>7 DEF GrniExplained, Accrued, Open, ClearedBy, Extra, h

LEMMA GrniStays ==
    ASSUME GrniExplained, grni' + Extra' = grni + Extra, Open' = Open,
           \A h \in Receipt : receipt'[h].accrual = receipt[h].accrual
    PROVE  GrniExplained'
<1>1. Accrued' = Accrued
  BY DEF Accrued
<1>2. grni + Extra = SumFunctionOnSet(Accrued, Open)
  BY GrniParts
<1>3. grni' + Extra' = SumFunctionOnSet(Accrued', Open')
  BY <1>1, <1>2
<1> QED  BY <1>3 DEF GrniExplained, Accrued, Open, ClearedBy, Extra

-----------------------------------------------------------------------------
(* The journals of a bill.                                                 *)

Clearing(b) ==
    IF bill[b].status \in Cleared /\ bill[b].receipt # None THEN receipt[bill[b].receipt].accrual ELSE 0

Owing(b) == IF bill[b].status = "approved" THEN bill[b].amount - bill[b].wht ELSE 0

Books == \A b \in Bill \ overtaken : booked[b].cleared = Clearing(b) /\ booked[b].owed = Owing(b)

LEMMA BooksParts == BillsPostOnce => Books
<1> SUFFICES ASSUME BillsPostOnce, NEW b \in Bill \ overtaken
             PROVE  booked[b].cleared = Clearing(b) /\ booked[b].owed = Owing(b)
  BY DEF Books
<1>1. booked[b] = [cleared |-> Clearing(b), owed |-> Owing(b)]
  BY DEF BillsPostOnce, Clearing, Owing
<1> QED  BY <1>1

LEMMA BooksPartsNext == ASSUME TypeOK', Books' PROVE BillsPostOnce'
<1>1. ASSUME NEW b \in Bill, NEW x, NEW y
      PROVE  booked'[b] = [cleared |-> x, owed |-> y] <=> booked'[b].cleared = x /\ booked'[b].owed = y
  BY DEF TypeOK
<1> QED  BY <1>1 DEF BillsPostOnce, Books, Clearing, Owing

LEMMA AmountsTyped ==
    ASSUME TypeOK, NEW b \in Bill
    PROVE  bill[b].amount \in Int /\ bill[b].wht \in Int
<1>1. bill[b] \in BillRow
  BY DEF TypeOK
<1>2. bill[b].amount \in Amounts \cup {0} /\ bill[b].wht \in Withheld \cup {0}
  BY <1>1 DEF BillRow
<1>3. Amounts \cup {0} \subseteq Int /\ Withheld \cup {0} \subseteq Int
  BY BillAssumption
<1> QED  BY <1>2, <1>3

(* Receipts come and go without touching what bills have booked.           *)
LEMMA ReceiptsBooked ==
    ASSUME BillInv, TypeOK, TypeOK', BillsPostOnce, UNCHANGED <<bill, booked, overtaken>>, ReceiptsKept
    PROVE  BillsPostOnce'
<1>1. ASSUME NEW b \in Bill \ overtaken, bill[b].status \in Cleared, bill[b].receipt # None
      PROVE  receipt'[bill[b].receipt].accrual = receipt[bill[b].receipt].accrual
  <2>1. bill[b].receipt \in Receipt
    BY <1>1 DEF BillInv, Rows, BillRow
  <2>2. receipt[bill[b].receipt].status = "posted"
    BY <1>1 DEF BillInv, ClearedPosted
  <2> QED  BY <2>1, <2>2 DEF ReceiptsKept, Settled
<1>2. Books
  BY BooksParts
<1>3. Books'
  BY <1>1, <1>2 DEF Books, Clearing, Owing
<1> QED  BY <1>3, BooksPartsNext

(* Which receipts are open, when bills do not change.                      *)
LEMMA OpenKept ==
    ASSUME UNCHANGED <<bill, overtaken>>, NEW h \in Receipt, receipt'[h].status = receipt[h].status
    PROVE  h \in Open' <=> h \in Open
BY DEF Open, Uncleared

-----------------------------------------------------------------------------
(* The steps.                                                              *)

LEMMA OrderStepBalances ==
    ASSUME PurchasingInv, OrderStep
    PROVE  PurchasingInv'
<1>1. UNCHANGED <<receipt, bill, txn, grni, booked, overtaken>>
  BY OrderStepWrites DEF PurchasingInv, BillInv, books
<1>2. BillInv' /\ TypeOK' /\ OrdersMatchReceipts'
  BY OrderStepKeeps, OrderStepTyped, MoveMatches DEF PurchasingInv, Balances
<1>3. RefsHold'
  BY <1>1 DEF PurchasingInv, RefsHold
<1>4. GrniExplained' /\ BillsPostOnce'
  BY <1>1 DEF PurchasingInv, Balances, GrniExplained, Uncleared, BillsPostOnce
<1> QED  BY <1>2, <1>3, <1>4 DEF PurchasingInv, Balances

LEMMA ReadStepRefs ==
    ASSUME PurchasingInv, NEW t \in Txn, ReadStep(t)
    PROVE  RefsHold'
<1>1. ASSUME NEW reads, Start(t, reads),
             reads.kind = "draft" => reads.order \in Order /\ reads.receipt \in Receipt
      PROVE  RefsHold'
  <2>1. /\ UNCHANGED receipt /\ txn'[t] = reads
        /\ \A u \in Txn \ {t} : txn'[u] = txn[u]
    BY <1>1 DEF Start, PurchasingInv, TypeOK
  <2> QED  BY <1>1, <2>1 DEF PurchasingInv, RefsHold
<1>2. ASSUME NEW o \in Order, NEW g \in Receipt, ReadToReceive(t, o, g) PROVE RefsHold'
  <2> DEFINE q == [Idle EXCEPT !.kind = "draft", !.order = o, !.receipt = g]
  <2>1. q.kind = "draft" /\ q.order = o /\ q.receipt = g
    BY DEF Idle
  <2>2. Start(t, q)
    BY <1>2 DEF ReadToReceive
  <2> HIDE DEF q
  <2> QED  BY <1>1, <2>1, <2>2
<1>3. ASSUME NEW b \in Bill, NEW g \in Receipt \cup {None}, ReadToRegister(t, b, g) PROVE RefsHold'
  <2> DEFINE q == [Idle EXCEPT !.kind = "register", !.bill = b, !.receipt = g]
  <2>1. q.kind = "register"
    BY DEF Idle
  <2>2. Start(t, q)
    BY <1>3 DEF ReadToRegister
  <2> HIDE DEF q
  <2> QED  BY <1>1, <2>1, <2>2
<1>4. ASSUME NEW b \in Bill, ReadToApprove(t, b) PROVE RefsHold'
  <2> DEFINE read == IF bill[b].receipt = None THEN 0 ELSE receipt[bill[b].receipt].accrual
             q == [Idle EXCEPT !.kind = "approve", !.bill = b, !.accrual = read]
  <2>1. q.kind = "approve"
    BY DEF Idle
  <2>2. Start(t, q)
    BY <1>4 DEF ReadToApprove
  <2> HIDE DEF q
  <2> QED  BY <1>1, <2>1, <2>2
<1>5. ASSUME NEW b \in Bill, ReadToPay(t, b) \/ ReadToVoid(t, b) PROVE RefsHold'
  <2>1. ASSUME NEW kind \in {"pay", "void"}, Start(t, [Idle EXCEPT !.kind = kind, !.bill = b]) PROVE RefsHold'
    <3> DEFINE q == [Idle EXCEPT !.kind = kind, !.bill = b]
    <3>1. q.kind = kind
      BY DEF Idle
    <3>2. Start(t, q)
      BY <2>1
    <3> HIDE DEF q
    <3> QED  BY <1>1, <2>1, <3>1, <3>2
  <2> QED  BY <1>5, <2>1 DEF ReadToPay, ReadToVoid
<1> QED  BY <1>2, <1>3, <1>4, <1>5 DEF ReadStep

LEMMA ReadStepBalances ==
    ASSUME PurchasingInv, NEW t \in Txn, ReadStep(t)
    PROVE  PurchasingInv'
<1>1. UNCHANGED <<order, receipt, bill, grni, booked, overtaken>>
  BY ReadStepWrites DEF PurchasingInv, BillInv, books
<1>2. BillInv' /\ TypeOK' /\ RefsHold'
  BY ReadStepKeeps, ReadStepTyped, ReadStepRefs DEF PurchasingInv
<1>3. OrdersMatchReceipts' /\ GrniExplained' /\ BillsPostOnce'
  BY <1>1 DEF PurchasingInv, Balances, OrdersMatchReceipts, PostedOn, Progress, GrniExplained,
              Uncleared, BillsPostOnce
<1> QED  BY <1>2, <1>3 DEF PurchasingInv, Balances

(* A draft, before and after, is no receipt to the accounts.               *)
LEMMA DraftBalances ==
    ASSUME PurchasingInv, BillInv', TypeOK', NEW g \in Receipt,
           \A h \in Receipt \ {g} : receipt'[h] = receipt[h],
           receipt[g].status # "posted", receipt'[g].status # "posted",
           receipt'[g].status # "absent" => receipt'[g].order \in Order,
           UNCHANGED <<order, bill, books>>, ReceiptsKept,
           \A u \in Txn : txn'[u] = txn[u] \/ txn'[u].kind = "none"
    PROVE  PurchasingInv'
<1>1. OrdersMatchReceipts'
  BY DraftsCountNothing DEF PurchasingInv, Balances
<1>2. UNCHANGED <<bill, grni, booked, overtaken>>
  BY DEF books
<1>3. g \notin Open /\ g \notin Open'
  BY DEF Open, Uncleared
<1>4. \A h \in Receipt \ {g} : (h \in Open' <=> h \in Open) /\ receipt'[h].accrual = receipt[h].accrual
  BY <1>2, OpenKept
<1>5. grni' + Extra' = (grni + Extra) + (0 - 0)
  BY <1>2, ExtraStays, ExtraTyped DEF PurchasingInv, TypeOK
<1>6. GrniExplained'
  BY <1>3, <1>4, <1>5, GrniMoves DEF PurchasingInv, Balances
<1>7. BillsPostOnce'
  BY <1>2, ReceiptsBooked DEF PurchasingInv, Balances
<1>8. RefsHold'
  BY DEF PurchasingInv, RefsHold
<1> QED  BY <1>1, <1>6, <1>7, <1>8 DEF PurchasingInv, Balances

LEMMA UpdateBalances ==
    ASSUME PurchasingInv, NEW g \in Receipt,
           (\E accepted \in Bodies : UpdateReceipt(g, accepted)) \/ DeleteReceipt(g)
    PROVE  PurchasingInv'
<1>1. /\ TypeOK' /\ UNCHANGED <<order, bill, txn, settings, books>>
      /\ \A h \in Receipt \ {g} : receipt'[h] = receipt[h]
      /\ receipt[g].status = "draft"
      /\ \/ receipt'[g].status = "draft" /\ receipt'[g].order = receipt[g].order
         \/ receipt'[g].status = "absent"
  BY DraftChanged DEF PurchasingInv
<1>2. BillInv'
  BY ReceiptStepKeeps DEF PurchasingInv, ReceiptStep
<1>3. receipt'[g].status # "absent" => receipt'[g].order \in Order
  BY <1>1 DEF PurchasingInv, RefsHold
<1>4. receipt[g].status # "posted" /\ receipt'[g].status # "posted"
  BY <1>1
<1>5. ReceiptsKept
  BY ReceiptStepWrites DEF PurchasingInv, BillInv, ReceiptStep
<1> QED  BY <1>1, <1>2, <1>3, <1>4, <1>5, DraftBalances

LEMMA CreateBalances ==
    ASSUME PurchasingInv, NEW t \in Txn, NEW accepted \in Bodies, CreateReceipt(t, accepted)
    PROVE  PurchasingInv'
<1>1. txn[t].kind = "draft" /\ txn[t].receipt \in Receipt /\ txn[t].order \in Order
  BY DEF CreateReceipt, PurchasingInv, RefsHold
<1> DEFINE g == txn[t].receipt
           row == [status |-> "draft", order |-> txn[t].order, accepted |-> accepted, accrual |-> 0]
<1>2. /\ receipt[g].status = "absent" /\ receipt' = [receipt EXCEPT ![g] = row]
      /\ Finish(t) /\ UNCHANGED <<order, bill, books>>
      /\ row.status = "draft" /\ row.order = txn[t].order
  BY DEF CreateReceipt
<1>3. TypeOK' /\ BillInv' /\ ReceiptsKept
  BY <1>1, DraftWritten, CreateReceiptKeeps, CreateReceiptWrites DEF PurchasingInv, BillInv
<1> HIDE DEF row, g
<1>4. g \in Receipt
  BY <1>1 DEF g
<1>5. receipt'[g] = row /\ \A h \in Receipt \ {g} : receipt'[h] = receipt[h]
  BY <1>2, <1>4 DEF PurchasingInv, TypeOK
<1>6. \A u \in Txn : txn'[u] = txn[u] \/ txn'[u].kind = "none"
  BY <1>2 DEF Finish, Idle, PurchasingInv, TypeOK
<1> QED  BY <1>1, <1>2, <1>3, <1>4, <1>5, <1>6, DraftBalances

(* No bill that stands is linked to a draft.                               *)
LEMMA PostBalances ==
    ASSUME PurchasingInv, NEW g \in Receipt, PostReceipt(g)
    PROVE  PurchasingInv'
<1> DEFINE o == receipt[g].order
<1>1. /\ TypeOK' /\ UNCHANGED <<bill, txn, settings, booked, overtaken>>
      /\ \A h \in Receipt \ {g} : receipt'[h] = receipt[h]
      /\ receipt[g].status = "draft" /\ receipt'[g].status = "posted"
      /\ receipt'[g].order = o /\ receipt'[g].accepted = receipt[g].accepted
      /\ o \in Order
      /\ order'[o].received = [l \in Line |-> order[o].received[l] + receipt[g].accepted[l]]
      /\ order'[o].status = Progress(order'[o].received)
      /\ \A p \in Order \ {o} : order'[p] = order[p]
      /\ grni' = grni + receipt'[g].accrual
  BY ReceiptPosted DEF PurchasingInv
<1> HIDE DEF o
<1>2. BillInv'
  BY ReceiptStepKeeps DEF PurchasingInv, ReceiptStep
<1>3. OrdersMatchReceipts'
  <2>1. receipt[g].order = o
    BY DEF o
  <2> QED  BY <1>1, <2>1, OrderCounts DEF PurchasingInv, Balances
<1>4. g \notin Open /\ g \in Open'
  <2>1. \A b \in Bill \ overtaken : bill[b].receipt = g => bill[b].status \notin Cleared
    BY <1>1, BillAssumption DEF PurchasingInv, BillInv, ClearedPosted
  <2> QED  BY <1>1, <2>1 DEF Open, Uncleared
<1>5. \A h \in Receipt \ {g} : (h \in Open' <=> h \in Open) /\ receipt'[h].accrual = receipt[h].accrual
  BY <1>1, OpenKept
<1>6. grni' + Extra' = (grni + Extra) + (receipt'[g].accrual - 0)
  <2>1. receipt'[g].accrual \in Int /\ grni \in Int /\ Extra \in Int /\ Extra' = Extra
    BY <1>1, ExtraStays, ExtraTyped DEF PurchasingInv, TypeOK, ReceiptRow
  <2> QED  BY <1>1, <2>1
<1>7. GrniExplained'
  BY <1>1, <1>4, <1>5, <1>6, GrniMoves DEF PurchasingInv, Balances
<1>8. ReceiptsKept
  BY ReceiptStepWrites DEF PurchasingInv, BillInv, ReceiptStep
<1>9. BillsPostOnce'
  BY <1>1, <1>8, ReceiptsBooked DEF PurchasingInv, Balances
<1>10. RefsHold'
  BY <1>1 DEF PurchasingInv, RefsHold
<1> QED  BY <1>1, <1>2, <1>3, <1>7, <1>9, <1>10 DEF PurchasingInv, Balances

LEMMA ReverseBalances ==
    ASSUME PurchasingInv, NEW g \in Receipt, ReverseReceipt(g)
    PROVE  PurchasingInv'
<1> DEFINE o == receipt[g].order
<1>1. receipt[g].status = "posted" /\ o \in Order
  BY DEF ReverseReceipt, PurchasingInv, RefsHold
<1>2. \A l \in Line : receipt[g].accepted[l] <= order[o].received[l]
  BY <1>1, AcceptedKnown DEF PurchasingInv, Balances
<1>3. /\ TypeOK' /\ UNCHANGED <<bill, txn, settings, booked, overtaken>>
      /\ \A h \in Receipt \ {g} : receipt'[h] = receipt[h]
      /\ receipt'[g].status = "reversed"
      /\ receipt'[g].order = o /\ ReceiptBill(g) = {}
      /\ order'[o].received = [l \in Line |-> order[o].received[l] - receipt[g].accepted[l]]
      /\ order'[o].status = Progress(order'[o].received)
      /\ \A p \in Order \ {o} : order'[p] = order[p]
      /\ grni' = grni - receipt[g].accrual
  BY <1>2, ReceiptReversed DEF PurchasingInv
<1> HIDE DEF o
<1>4. BillInv'
  BY ReceiptStepKeeps DEF PurchasingInv, ReceiptStep
<1>5. OrdersMatchReceipts'
  <2>1. receipt[g].order = o
    BY DEF o
  <2> QED  BY <1>1, <1>3, <2>1, OrderCounts DEF PurchasingInv, Balances
<1>6. g \in Open /\ g \notin Open'
  <2>1. \A b \in Bill : bill[b].receipt = g => bill[b].status \notin Cleared
    BY <1>3 DEF ReceiptBill, Cleared
  <2> QED  BY <1>1, <1>3, <2>1 DEF Open, Uncleared
<1>7. \A h \in Receipt \ {g} : (h \in Open' <=> h \in Open) /\ receipt'[h].accrual = receipt[h].accrual
  BY <1>3, OpenKept
<1>8. grni' + Extra' = (grni + Extra) + (0 - receipt[g].accrual)
  <2>1. receipt[g].accrual \in Int /\ grni \in Int /\ Extra \in Int /\ Extra' = Extra
    BY <1>3, ExtraStays, ExtraTyped DEF PurchasingInv, TypeOK, ReceiptRow
  <2> QED  BY <1>3, <2>1
<1>9. GrniExplained'
  BY <1>3, <1>6, <1>7, <1>8, GrniMoves DEF PurchasingInv, Balances
<1>10. ReceiptsKept
  BY ReceiptStepWrites DEF PurchasingInv, BillInv, ReceiptStep
<1>11. BillsPostOnce'
  BY <1>3, <1>10, ReceiptsBooked DEF PurchasingInv, Balances
<1>12. RefsHold'
  BY <1>1, <1>3 DEF PurchasingInv, RefsHold
<1> QED  BY <1>3, <1>4, <1>5, <1>9, <1>11, <1>12 DEF PurchasingInv, Balances

LEMMA FinishRefs ==
    ASSUME PurchasingInv, NEW t \in Txn, Finish(t), UNCHANGED receipt
    PROVE  RefsHold'
<1>1. \A u \in Txn : txn'[u] = txn[u] \/ txn'[u].kind = "none"
  BY DEF Finish, Idle, PurchasingInv, TypeOK
<1> QED  BY <1>1 DEF PurchasingInv, RefsHold

(* A bill that is registered has booked nothing yet.                       *)
LEMMA RegisterBalances ==
    ASSUME PurchasingInv, NEW t \in Txn, NEW amount \in Amounts, NEW wht \in Withheld,
           RegisterBill(t, amount, wht)
    PROVE  PurchasingInv'
<1>0. PICK b : b = txn[t].bill
  OBVIOUS
<1>1. /\ UNCHANGED <<order, receipt, settings, grni, booked, overtaken>> /\ Finish(t) /\ b \in Bill
      /\ bill' \in [Bill -> BillRow]
      /\ \A c \in Bill \ {b} : bill'[c] = bill[c]
      /\ bill[b].status = "absent" /\ bill'[b].status = "draft"
  BY <1>0, RegisterWrites DEF PurchasingInv, BillInv, books
<1>2. BillInv' /\ RefsHold'
  BY <1>1, RegisterKeeps, FinishRefs DEF PurchasingInv
<1>3. TypeOK'
  BY <1>1, FinishTyped DEF PurchasingInv, TypeOK
<1>4. OrdersMatchReceipts'
  BY <1>1 DEF PurchasingInv, Balances, OrdersMatchReceipts, PostedOn, Progress
<1>5. Open' = Open
  <2>1. ASSUME NEW h \in Receipt, NEW c \in Bill
        PROVE  (bill'[c].receipt = h => bill'[c].status \notin Cleared)
                   <=> (bill[c].receipt = h => bill[c].status \notin Cleared)
    BY <1>1 DEF Cleared
  <2> QED  BY <1>1, <2>1 DEF Open, Uncleared, Cleared
<1>6. GrniExplained'
  BY <1>1, <1>5, ExtraStays, GrniStays DEF PurchasingInv, Balances
<1>7. Books
  BY BooksParts DEF PurchasingInv, Balances
<1>8. Books'
  <2> SUFFICES ASSUME NEW c \in Bill \ overtaken
               PROVE  booked[c].cleared = Clearing(c)' /\ booked[c].owed = Owing(c)'
    BY <1>1 DEF Books
  <2>1. booked[c].cleared = Clearing(c) /\ booked[c].owed = Owing(c)
    BY <1>7 DEF Books
  <2>2. CASE c = b  BY <1>1, <2>1, <2>2 DEF Clearing, Owing, Cleared
  <2>3. CASE c # b  BY <1>1, <2>1, <2>3 DEF Clearing, Owing
  <2> QED  BY <2>2, <2>3
<1> QED  BY <1>2, <1>3, <1>4, <1>6, <1>8, BooksPartsNext DEF PurchasingInv, Balances

(* What a decision posts: an approval clears what it read of the receipt and *)
(* owes the net, a payment takes the net off.                              *)
Decided(t, b, from, to, cleared, owed) ==
    /\ UNCHANGED <<order, receipt, settings>> /\ Finish(t) /\ b \in Bill
    /\ bill' \in [Bill -> BillRow]
    /\ \A c \in Bill \ {b} : bill'[c] = bill[c]
    /\ bill'[b].status = to /\ bill'[b].receipt = bill[b].receipt
    /\ bill'[b].amount = bill[b].amount /\ bill'[b].wht = bill[b].wht
    /\ overtaken' = IF bill[b].status = from THEN overtaken ELSE overtaken \cup {b}
    /\ booked' \in [Bill -> [cleared : Nat, owed : Int]]
    /\ \A c \in Bill \ {b} : booked'[c] = booked[c]
    /\ booked'[b].cleared = booked[b].cleared + cleared
    /\ booked'[b].owed = booked[b].owed + owed
    /\ grni' = grni - cleared
    /\ \/ /\ from = "draft" /\ to = "approved" /\ ApprovalHolds(b, cleared)
          /\ owed = bill[b].amount - bill[b].wht
       \/ /\ from = "approved" /\ to = "paid" /\ cleared = 0
          /\ owed = 0 - (bill[b].amount - bill[b].wht)
       \/ from = "draft" /\ to = "void" /\ cleared = 0 /\ owed = 0

LEMMA DecideWritesBooks ==
    ASSUME PurchasingInv, NEW t \in Txn, ApproveBill(t) \/ PayBill(t) \/ VoidBill(t),
           NEW b, b = txn[t].bill
    PROVE  \E from, to : \E cleared, owed \in Int : Decided(t, b, from, to, cleared, owed)
<1>1. UNCHANGED <<order, receipt, settings>> /\ Handling(t)
  BY Decisions
<1>2. b \in Bill /\ (txn[t].kind = "approve" => ApprovalHolds(b, txn[t].accrual))
  BY <1>1 DEF PurchasingInv, BillInv, ReadsHold
<1>3. bill[b].amount \in Int /\ bill[b].wht \in Int
  BY <1>2, AmountsTyped DEF PurchasingInv
<1>4. /\ booked \in [Bill -> [cleared : Nat, owed : Int]] /\ grni \in Int /\ txn[t].accrual \in Nat
      /\ booked[b].cleared \in Nat /\ booked[b].owed \in Int
  BY <1>2 DEF PurchasingInv, TypeOK, Reads
<1>5. ASSUME NEW cleared \in Nat, NEW owed \in Int, NEW row,
             row = [cleared |-> booked[b].cleared + cleared, owed |-> booked[b].owed + owed],
             booked' = [booked EXCEPT ![b] = row]
      PROVE  /\ booked' \in [Bill -> [cleared : Nat, owed : Int]]
             /\ \A c \in Bill \ {b} : booked'[c] = booked[c]
             /\ booked'[b].cleared = booked[b].cleared + cleared
             /\ booked'[b].owed = booked[b].owed + owed
  <2>1. row \in [cleared : Nat, owed : Int]
    BY <1>4, <1>5
  <2>2. booked'[b] = row
    BY <1>2, <1>4, <1>5
  <2>3. booked' \in [Bill -> [cleared : Nat, owed : Int]] /\ \A c \in Bill \ {b} : booked'[c] = booked[c]
    BY <1>4, <1>5, <2>1
  <2> QED  BY <1>5, <2>2, <2>3
<1>6. CASE ApproveBill(t)
  <2> DEFINE owed == bill[b].amount - bill[b].wht
             row == [cleared |-> booked[b].cleared + txn[t].accrual, owed |-> booked[b].owed + owed]
  <2>1. /\ Decide(t, "draft", "approved") /\ txn[t].kind = "approve"
        /\ grni' = grni - txn[t].accrual
        /\ booked' = [booked EXCEPT ![b] = [cleared |-> booked[b].cleared + txn[t].accrual,
               owed |-> booked[b].owed + bill[b].amount - bill[b].wht]]
    BY <1>2, <1>4, <1>6 DEF ApproveBill
  <2>2. booked[b].owed + bill[b].amount - bill[b].wht = booked[b].owed + owed /\ owed \in Int
    BY <1>3, <1>4
  <2>3. booked' = [booked EXCEPT ![b] = row]
    BY <2>1, <2>2
  <2>4. <<"draft", "approved">> \in Pairs
    BY DEF Pairs
  <2> HIDE DEF owed
  <2>5. /\ booked' \in [Bill -> [cleared : Nat, owed : Int]]
        /\ \A c \in Bill \ {b} : booked'[c] = booked[c]
        /\ booked'[b].cleared = booked[b].cleared + txn[t].accrual
        /\ booked'[b].owed = booked[b].owed + owed
    BY <1>4, <1>5, <2>2, <2>3
  <2>6. /\ Finish(t) /\ bill' \in [Bill -> BillRow]
        /\ \A c \in Bill \ {b} : bill'[c] = bill[c]
        /\ bill'[b].status = "approved" /\ bill'[b].receipt = bill[b].receipt
        /\ bill'[b].amount = bill[b].amount /\ bill'[b].wht = bill[b].wht
        /\ overtaken' = IF bill[b].status = "draft" THEN overtaken ELSE overtaken \cup {b}
    BY <1>1, <2>1, <2>4, DecideWrites DEF PurchasingInv, BillInv
  <2>7. ApprovalHolds(b, txn[t].accrual) /\ txn[t].accrual \in Int
    BY <1>2, <1>4, <2>1
  <2>8. Decided(t, b, "draft", "approved", txn[t].accrual, owed)
    BY <1>1, <1>2, <2>1, <2>5, <2>6, <2>7 DEF Decided, owed
  <2> QED  BY <2>2, <2>7, <2>8
<1>7. CASE PayBill(t)
  <2> DEFINE owed == 0 - (bill[b].amount - bill[b].wht)
             row == [cleared |-> booked[b].cleared + 0, owed |-> booked[b].owed + owed]
  <2>1. /\ Decide(t, "approved", "paid") /\ grni' = grni
        /\ booked' = [booked EXCEPT ![b] = [cleared |-> booked[b].cleared,
               owed |-> booked[b].owed - NetPayable(b)]]
    BY <1>2, <1>4, <1>7 DEF PayBill
  <2>2. /\ booked[b].owed - NetPayable(b) = booked[b].owed + owed /\ owed \in Int
        /\ booked[b].cleared = booked[b].cleared + 0 /\ grni = grni - 0
    BY <1>3, <1>4 DEF NetPayable
  <2>3. booked' = [booked EXCEPT ![b] = row]
    BY <2>1, <2>2
  <2>4. <<"approved", "paid">> \in Pairs
    BY DEF Pairs
  <2> HIDE DEF owed
  <2>5. /\ booked' \in [Bill -> [cleared : Nat, owed : Int]]
        /\ \A c \in Bill \ {b} : booked'[c] = booked[c]
        /\ booked'[b].cleared = booked[b].cleared + 0
        /\ booked'[b].owed = booked[b].owed + owed
    BY <1>4, <1>5, <2>2, <2>3
  <2>6. /\ Finish(t) /\ bill' \in [Bill -> BillRow]
        /\ \A c \in Bill \ {b} : bill'[c] = bill[c]
        /\ bill'[b].status = "paid" /\ bill'[b].receipt = bill[b].receipt
        /\ bill'[b].amount = bill[b].amount /\ bill'[b].wht = bill[b].wht
        /\ overtaken' = IF bill[b].status = "approved" THEN overtaken ELSE overtaken \cup {b}
    BY <1>1, <2>1, <2>4, DecideWrites DEF PurchasingInv, BillInv
  <2>7. Decided(t, b, "approved", "paid", 0, owed)
    BY <1>1, <1>2, <2>1, <2>2, <2>5, <2>6 DEF Decided, owed
  <2> QED  BY <2>2, <2>7
<1>8. CASE VoidBill(t)
  <2>1. Decide(t, "draft", "void") /\ grni' = grni /\ booked' = booked
    BY <1>8 DEF VoidBill
  <2>2. <<"draft", "void">> \in Pairs
    BY DEF Pairs
  <2>3. /\ Finish(t) /\ bill' \in [Bill -> BillRow]
        /\ \A c \in Bill \ {b} : bill'[c] = bill[c]
        /\ bill'[b].status = "void" /\ bill'[b].receipt = bill[b].receipt
        /\ bill'[b].amount = bill[b].amount /\ bill'[b].wht = bill[b].wht
        /\ overtaken' = IF bill[b].status = "draft" THEN overtaken ELSE overtaken \cup {b}
    BY <1>1, <2>1, <2>2, DecideWrites DEF PurchasingInv, BillInv
  <2>4. /\ booked' \in [Bill -> [cleared : Nat, owed : Int]]
        /\ \A c \in Bill \ {b} : booked'[c] = booked[c]
        /\ booked'[b].cleared = booked[b].cleared + 0
        /\ booked'[b].owed = booked[b].owed + 0 /\ grni' = grni - 0
    BY <1>4, <2>1
  <2>5. Decided(t, b, "draft", "void", 0, 0)
    BY <1>1, <1>2, <2>3, <2>4 DEF Decided
  <2> QED  BY <2>5
<1> QED  BY <1>6, <1>7, <1>8

(* A decision on a bill nobody else has changed posts its status once; one  *)
(* on a bill that has been overtaken is what throws GRNI off.              *)
LEMMA DecideBalances ==
    ASSUME PurchasingInv, NEW t \in Txn, ApproveBill(t) \/ PayBill(t) \/ VoidBill(t)
    PROVE  PurchasingInv'
<1>0. PICK b, g : b = txn[t].bill /\ g = bill[b].receipt
  OBVIOUS
<1>1. PICK from, to : \E cleared, owed \in Int : Decided(t, b, from, to, cleared, owed)
  BY <1>0, DecideWritesBooks
<1>2. PICK cleared \in Int, owed \in Int : Decided(t, b, from, to, cleared, owed)
  BY <1>1
<1> USE DEF Decided
<1>3. BillInv' /\ RefsHold'
  BY <1>2, DecideKeeps, FinishRefs DEF PurchasingInv
<1>4. grni \in Int /\ grni' \in Int /\ booked[b].cleared \in Int /\ booked[b].owed \in Int
  BY <1>2 DEF PurchasingInv, TypeOK
<1>5. TypeOK'
  BY <1>2, <1>4, FinishTyped DEF PurchasingInv, TypeOK
<1>6. OrdersMatchReceipts'
  BY <1>2 DEF PurchasingInv, Balances, OrdersMatchReceipts, PostedOn, Progress
<1>7. Books
  BY BooksParts DEF PurchasingInv, Balances
<1>8. Books'
  <2> SUFFICES ASSUME NEW c \in Bill \ overtaken'
               PROVE  booked'[c].cleared = Clearing(c)' /\ booked'[c].owed = Owing(c)'
    BY DEF Books
  <2>1. c \in Bill \ overtaken
    BY <1>2
  <2>2. booked[c].cleared = Clearing(c) /\ booked[c].owed = Owing(c)
    BY <1>7, <2>1 DEF Books
  <2>3. CASE c # b
    BY <1>2, <2>1, <2>2, <2>3 DEF Clearing, Owing
  <2>4. CASE c = b
    <3>1. bill[b].status = from
      BY <1>2, <2>4
    <3>2. bill[b].amount \in Int /\ bill[b].wht \in Int
      BY <1>2, AmountsTyped DEF PurchasingInv
    <3>3. CASE to = "approved"
      <4>1. booked[b].cleared = 0 /\ booked[b].owed = 0
        BY <1>2, <2>2, <2>4, <3>1, <3>3 DEF Clearing, Owing, Cleared
      <4>2. cleared = (IF bill[b].receipt = None THEN 0 ELSE receipt[bill[b].receipt].accrual)
        BY <1>2, <3>3 DEF ApprovalHolds
      <4> QED  BY <1>2, <2>4, <3>2, <3>3, <4>1, <4>2 DEF Clearing, Owing, Cleared
    <3>4. CASE to = "paid"
      <4>1. booked[b].owed = bill[b].amount - bill[b].wht
        BY <1>2, <2>2, <2>4, <3>1, <3>4 DEF Owing
      <4>2. booked'[b].cleared = booked[b].cleared /\ booked'[b].owed = 0
        BY <1>2, <1>4, <3>2, <3>4, <4>1
      <4> QED  BY <1>2, <2>2, <2>4, <3>1, <3>4, <4>2 DEF Clearing, Owing, Cleared
    <3>5. CASE to = "void"
      BY <1>2, <2>2, <2>4, <3>1, <3>5 DEF Clearing, Owing, Cleared
    <3> QED  BY <1>2, <3>3, <3>4, <3>5
  <2> QED  BY <2>3, <2>4
<1>9. Extra \in Int
      /\ Extra' = Extra + ((IF b \in overtaken' THEN booked'[b].cleared ELSE 0)
                           - (IF b \in overtaken THEN booked[b].cleared ELSE 0))
  BY <1>2, <1>5, ExtraMoves, ExtraTyped DEF PurchasingInv
(* A receipt is open unless a bill outside overtaken has cleared it.       *)
<1> DEFINE Closes(c) == c \notin overtaken /\ bill[c].status \in Cleared
           ClosesNext(c) == c \notin overtaken' /\ bill'[c].status \in Cleared
<1>10. ASSUME NEW h \in Receipt, h = g => (ClosesNext(b) <=> Closes(b))
       PROVE  h \in Open' <=> h \in Open
  <2>1. ASSUME NEW c \in Bill
        PROVE  (c \notin overtaken' /\ bill'[c].receipt = h => bill'[c].status \notin Cleared)
                 <=> (c \notin overtaken /\ bill[c].receipt = h => bill[c].status \notin Cleared)
    <3>1. CASE c = b  BY <1>0, <1>2, <1>10, <3>1
    <3>2. CASE c # b  BY <1>2, <3>2
    <3> QED  BY <3>1, <3>2
  <2> QED  BY <1>2, <2>1 DEF Open, Uncleared
<1>11. \A h \in Receipt : receipt'[h].accrual = receipt[h].accrual
  BY <1>2
<1>12. ASSUME g = None \/ (ClosesNext(b) <=> Closes(b)) PROVE GrniExplained'
  <2>1. Open' = Open
    <3>1. \A h \in Receipt : h \in Open' <=> h \in Open
      BY <1>10, <1>12, BillAssumption
    <3> QED  BY <3>1 DEF Open, Uncleared
  <2>2. grni' + Extra' = grni + Extra
    <3>1. CASE b \in overtaken
      BY <1>2, <1>4, <1>9, <3>1
    <3>2. CASE b \notin overtaken /\ bill[b].status = from
      <4>1. Extra' = Extra
        BY <1>2, <1>9, <3>2
      <4>2. cleared = 0
        BY <1>0, <1>2, <1>12, <3>2 DEF ApprovalHolds, Cleared
      <4> QED  BY <1>2, <1>4, <1>9, <4>1, <4>2
    <3>3. CASE b \notin overtaken /\ bill[b].status # from
      <4>1. booked[b].cleared = 0
        BY <1>0, <1>2, <1>7, <1>12, <3>3 DEF Books, Clearing
      <4> QED  BY <1>2, <1>4, <1>9, <3>3, <4>1
    <3> QED  BY <3>1, <3>2, <3>3
  <2> QED  BY <1>11, <2>1, <2>2, GrniStays DEF PurchasingInv, Balances
<1>13. ASSUME g # None, ~(ClosesNext(b) <=> Closes(b)) PROVE GrniExplained'
  <2>1. g \in Receipt /\ receipt[g].accrual \in Int
    BY <1>0, <1>2, <1>13 DEF PurchasingInv, TypeOK, BillRow, ReceiptRow
  <2>2. b \notin overtaken
    BY <1>2, <1>13
  <2>3. Live(b)
    BY <1>2, <1>13, <2>2 DEF Live, Cleared
  <2>4. ASSUME NEW c \in Bill, c # b, bill[c].receipt = g PROVE bill[c].status \notin Cleared
    <3>1. bill[c].status \in Cleared => Live(c)
      BY DEF Live, Cleared
    <3> QED  BY <1>0, <1>2, <1>13, <2>3, <2>4, <3>1 DEF PurchasingInv, BillInv, OneLiveBill
  <2>5. receipt[g].status = "posted"
    <3>1. CASE bill[b].status \in Cleared
      BY <1>0, <1>2, <1>13, <2>2, <3>1 DEF PurchasingInv, BillInv, ClearedPosted
    <3>2. CASE bill[b].status \notin Cleared
      BY <1>0, <1>2, <1>13, <2>2, <3>2 DEF ApprovalHolds, Cleared
    <3> QED  BY <3>1, <3>2
  <2>6. (g \in Open <=> ~Closes(b)) /\ (g \in Open' <=> ~ClosesNext(b))
    BY <1>0, <1>2, <2>1, <2>4, <2>5 DEF Open, Uncleared
  <2>7. \A h \in Receipt \ {g} : (h \in Open' <=> h \in Open) /\ receipt'[h].accrual = receipt[h].accrual
    BY <1>10, <1>11
  <2>8. grni' + Extra' = (grni + Extra) + ((IF g \in Open' THEN receipt'[g].accrual ELSE 0)
                                           - (IF g \in Open THEN receipt[g].accrual ELSE 0))
    <3>1. CASE bill[b].status = from
      <4>1. Extra' = Extra /\ bill[b].status \notin Cleared /\ cleared = receipt[g].accrual
        BY <1>0, <1>2, <1>9, <1>13, <2>2, <3>1 DEF ApprovalHolds, Cleared
      <4>2. g \in Open /\ g \notin Open'
        BY <1>2, <1>13, <2>2, <2>6, <3>1, <4>1
      <4> QED  BY <1>2, <1>4, <1>9, <1>11, <2>1, <4>1, <4>2
    <3>2. CASE bill[b].status # from
      <4>1. b \in overtaken'
        BY <1>2, <3>2
      <4>2. g \notin Open /\ g \in Open' /\ bill[b].status \in Cleared
        BY <1>2, <1>13, <2>2, <2>6, <4>1
      <4>3. booked[b].cleared = receipt[g].accrual
        BY <1>0, <1>2, <1>7, <1>13, <2>2, <4>2 DEF Books, Clearing
      <4>4. Extra' = Extra + (booked[b].cleared + cleared)
        BY <1>2, <1>4, <1>9, <2>2, <4>1
      <4> QED  BY <1>2, <1>4, <1>9, <1>11, <2>1, <4>2, <4>3, <4>4
    <3> QED  BY <3>1, <3>2
  <2> QED  BY <1>5, <2>1, <2>7, <2>8, GrniMoves DEF PurchasingInv, Balances
<1> QED  BY <1>3, <1>5, <1>6, <1>8, <1>12, <1>13, BooksPartsNext DEF PurchasingInv, Balances

LEMMA AbortBalances == ASSUME PurchasingInv, NEW t \in Txn, Abort(t) PROVE PurchasingInv'
<1>1. UNCHANGED <<order, receipt, bill, settings, grni, booked, overtaken>> /\ Finish(t)
  BY DEF Abort, books
<1>2. BillInv' /\ TypeOK' /\ RefsHold'
  BY <1>1, AbortKeeps, FinishTyped, FinishRefs DEF PurchasingInv, TypeOK
<1>3. OrdersMatchReceipts' /\ GrniExplained' /\ BillsPostOnce'
  BY <1>1 DEF PurchasingInv, Balances, OrdersMatchReceipts, PostedOn, Progress, GrniExplained,
              Uncleared, BillsPostOnce
<1> QED  BY <1>2, <1>3 DEF PurchasingInv, Balances

LEMMA PurchasingInit == Init => PurchasingInv
<1> SUFFICES ASSUME Init PROVE PurchasingInv
  OBVIOUS
<1>1. BillInv
  BY BillInvInit
<1>2. /\ order \in [Order -> OrderRow] /\ receipt \in [Receipt -> ReceiptRow]
      /\ bill \in [Bill -> BillRow] /\ txn \in [Txn -> Reads] /\ settings \in Settings
      /\ grni = 0 /\ booked \in [Bill -> [cleared : Nat, owed : Int]] /\ overtaken = {}
  <2>1. \A o \in Order : order[o] \in OrderRow
    BY DEF Init, OrderRow, OrderStatus
  <2>2. [status |-> "absent", order |-> None, accepted |-> Ordered, accrual |-> 0] \in ReceiptRow
    BY DEF ReceiptRow
  <2>3. Idle \in Reads
    BY DEF Idle, Reads
  <2>4. /\ order \in [Order -> OrderRow] /\ receipt \in [Receipt -> ReceiptRow]
        /\ bill \in [Bill -> BillRow] /\ txn \in [Txn -> Reads]
    BY <2>1, <2>2, <2>3 DEF Init, BillRow
  <2> QED  BY <2>4 DEF Init
<1>3. \A o \in Order, l \in Line : order[o].received[l] = 0 /\ 0 <= MaxReceivable(l, Max(Tolerances))
  BY BillAssumption, ReceivableGrows DEF Init
<1>4. TypeOK
  BY <1>2, <1>3 DEF TypeOK
<1>5. RefsHold
  BY DEF Init, RefsHold, Idle
<1>6. (\A o \in Order : PostedOn(o) = {}) /\ Open = {}
  BY DEF Init, PostedOn, Open, Uncleared
<1>7. (\A l \in Line : SumFunctionOnSet(Accepted(l), {}) = 0)
      /\ SumFunctionOnSet(Accrued, {}) = 0 /\ SumFunctionOnSet(ClearedBy, {}) = 0
  BY SumEmpty
<1>8. grni + Extra = 0 /\ \A o \in Order : StatusFits(o)
  BY <1>2, <1>3, <1>7 DEF Init, StatusFits, Extra
<1>9. GrniExplained
  BY <1>6, <1>7, <1>8, GrniParts
<1>10. BillsPostOnce
  BY DEF Init, BillsPostOnce, Cleared
<1>11. OrdersMatchReceipts
  BY <1>3, <1>6, <1>7, <1>8, MatchParts
<1> QED  BY <1>1, <1>4, <1>5, <1>9, <1>10, <1>11 DEF PurchasingInv, Balances

LEMMA PurchasingStep == ASSUME PurchasingInv, [Next]_vars PROVE PurchasingInv'
<1>1. ASSUME ReceiptStep PROVE PurchasingInv'
  BY <1>1, UpdateBalances, PostBalances, ReverseBalances DEF ReceiptStep
<1>2. ASSUME NEW t \in Txn, WriteStep(t) PROVE PurchasingInv'
  BY <1>2, CreateBalances, RegisterBalances, DecideBalances, AbortBalances DEF WriteStep
<1> QED  BY <1>1, <1>2, OrderStepBalances, ReadStepBalances, StepKinds

(* Whatever is drafted, posted, reversed and billed in whatever order, the  *)
(* tables hold what they should; no order is ever received beyond what the  *)
(* widest tolerance allows (inventory_purchasing.py:428-440).               *)
THEOREM PurchasingTypes == Spec => []TypeOK
<1>1. PurchasingInv => TypeOK
  BY DEF PurchasingInv
<1> QED  BY <1>1, PurchasingInit, PurchasingStep, PTL DEF Spec

(* An order has received what its posted receipts accepted, however many    *)
(* receipts were drafted against what it could still take, and its status   *)
(* says how far that has got (inventory_purchasing.py:319-327, 548-699).    *)
THEOREM OrdersKeepCount == Spec => []OrdersMatchReceipts
<1>1. PurchasingInv => OrdersMatchReceipts
  BY DEF PurchasingInv, Balances
<1> QED  BY <1>1, PurchasingInit, PurchasingStep, PTL DEF Spec

(* Whatever reconciliation() finds amiss with GRNI is what bills cleared that *)
(* two transactions decided on at once (inventory_accounting.py:437-545,     *)
(* bills.py:70-126); although an approval posts the accrual it read earlier, *)
(* without a lock, nothing else puts the account out.                       *)
THEOREM GrniKept == Spec => []GrniExplained
<1>1. PurchasingInv => GrniExplained
  BY DEF PurchasingInv, Balances
<1> QED  BY <1>1, PurchasingInit, PurchasingStep, PTL DEF Spec

(* A bill that no two transactions decided on at once has posted what its   *)
(* status says, once: cleared its receipt's accrual when it was approved,   *)
(* and owed its net until it was paid (bills.py:70-138).                    *)
THEOREM BillsBookedOnce == Spec => []BillsPostOnce
<1>1. PurchasingInv => BillsPostOnce
  BY DEF PurchasingInv, Balances
<1> QED  BY <1>1, PurchasingInit, PurchasingStep, PTL DEF Spec
=============================================================================
