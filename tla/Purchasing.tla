----------------------------- MODULE Purchasing -----------------------------
(***************************************************************************)
(* Purchase orders, the goods receipts against them and the vendor bills   *)
(* that invoice the receipts, with the two accounts they meet in: goods    *)
(* received not invoiced (GRNI) and accounts payable. Orders and receipts  *)
(* are changed under row locks, a receipt's before its order's; bills, and *)
(* the drafting of a receipt, are read without a lock, decided on what was *)
(* read and written later, so these are two steps, and two transactions    *)
(* may decide on one bill at once.                                         *)
(*                                                                         *)
(* The steps of an approval are Approvals; the stock a receipt moves, the  *)
(* cost it moves at and the lock date are StockLedger. Here goods that     *)
(* were received can always be given back.                                 *)
(***************************************************************************)
EXTENDS Integers, FiniteSets, FiniteSetsExt

CONSTANTS
    Order, Line,
    Ordered,        \* quantity of each line of every order
    Net,            \* what a line costs in all, discount off
    Receipt, Bodies,    \* goods receipts, and the accepted quantities they may have
    Bill, Amounts,      \* bills and what they may be made out for
    Withheld,       \* what tax may be withheld from one
    Tolerances,     \* over-receipt tolerances the settings may take, in percent
    Txn,            \* open transactions that have read and not yet written
    None

ASSUME LineAssumption ==
    /\ Ordered \in [Line -> Nat \ {0}] /\ Net \in [Line -> Nat]
    /\ Bodies \subseteq [Line -> Nat] /\ IsFiniteSet(Line)
ASSUME BillAssumption ==
    /\ Amounts \subseteq Nat \ {0} /\ Withheld \subseteq Nat
    /\ Tolerances \subseteq 0..100 /\ 0 \in Tolerances
    /\ None \notin Order /\ None \notin Receipt
    /\ IsFiniteSet(Receipt) /\ IsFiniteSet(Bill)

VARIABLES
    order,      \* InventoryPurchaseOrder: status and received, by line
    receipt,    \* InventoryGoodsReceipt: status, order, accepted and its journal
    bill,       \* Bill
    txn,        \* what each open transaction has read
    settings,   \* over_receipt_tolerance_bp, post_to_gl
    grni,       \* credit balance of goods received not invoiced
    booked,     \* what the journals of a bill cleared from grni and left on payables
    overtaken   \* history: bills decided on after another transaction had changed them

vars == <<order, receipt, bill, txn, settings, grni, booked, overtaken>>
books == <<grni, booked, overtaken>>

OrderStatus == {"absent", "draft", "pending", "approved", "rejected", "issued",
                "partial", "received", "closed", "cancelled"}
Receivable == {"issued", "partial"}
Cleared == {"approved", "paid"}
OrderRow == [status : OrderStatus, received : [Line -> Nat]]
ReceiptRow == [status : {"absent", "draft", "posted", "reversed"}, order : Order \cup {None},
               accepted : Bodies \cup {Ordered}, accrual : Nat]
BillRow == [status : {"absent", "draft", "approved", "paid", "void"},
            receipt : Receipt \cup {None}, amount : Amounts \cup {0}, wht : Withheld \cup {0}]
Reads == [kind : {"none", "draft", "register", "approve", "pay", "void"},
          bill : Bill \cup {None}, receipt : Receipt \cup {None}, order : Order \cup {None},
          accrual : Nat]
Settings == [tolerance : Tolerances, gl : BOOLEAN]
Idle == [kind |-> "none", bill |-> None, receipt |-> None, order |-> None, accrual |-> 0]

\* Rounded down, so that a tolerance never allows more than it says.
MaxReceivable(l, tolerance) == (Ordered[l] * (100 + tolerance)) \div 100

\* Half to even.
Round(a, b) ==
    LET q == a \div b r == a % b IN
    IF 2 * r > b \/ (2 * r = b /\ q % 2 = 1) THEN q + 1 ELSE q

\* What goods enter stock at: their share of the line's net value.
Value(accepted) ==
    SumFunctionOnSet([l \in Line |-> Round(accepted[l] * Net[l], Ordered[l])], Line)

TypeOK ==
    /\ order \in [Order -> OrderRow]
    /\ \A o \in Order, l \in Line : order[o].received[l] <= MaxReceivable(l, Max(Tolerances))
    /\ receipt \in [Receipt -> ReceiptRow]
    /\ bill \in [Bill -> BillRow]
    /\ txn \in [Txn -> Reads]
    /\ settings \in Settings
    /\ grni \in Int
    /\ booked \in [Bill -> [cleared : Nat, owed : Int]]
    /\ overtaken \subseteq Bill

Init ==
    /\ order = [o \in Order |-> [status |-> "absent", received |-> [l \in Line |-> 0]]]
    /\ receipt = [g \in Receipt |->
          [status |-> "absent", order |-> None, accepted |-> Ordered, accrual |-> 0]]
    /\ bill = [b \in Bill |-> [status |-> "absent", receipt |-> None, amount |-> 0, wht |-> 0]]
    /\ txn = [t \in Txn |-> Idle]
    /\ settings \in Settings
    /\ grni = 0
    /\ booked = [b \in Bill |-> [cleared |-> 0, owed |-> 0]]
    /\ overtaken = {}

-----------------------------------------------------------------------------
(* Purchase orders.                                                        *)

HasDrafts(o) == \E g \in Receipt : receipt[g].order = o /\ receipt[g].status = "draft"

Move(o, from, to) ==
    /\ order[o].status \in from
    /\ order' = [order EXCEPT ![o].status = to]
    /\ UNCHANGED <<receipt, bill, txn, settings, books>>

CreateOrder(o) == Move(o, {"absent"}, "draft")
SubmitOrder(o) == Move(o, {"draft"}, "pending")
DecideOrder(o, approve) == Move(o, {"pending"}, IF approve THEN "approved" ELSE "rejected")
IssueOrder(o) == Move(o, {"approved"}, "issued")
DeleteOrder(o) == Move(o, {"draft", "rejected"}, "absent")

CancelOrder(o) ==
    /\ \A l \in Line : order[o].received[l] = 0
    /\ ~HasDrafts(o)
    /\ Move(o, {"draft", "pending", "approved", "issued"}, "cancelled")

CloseOrder(o) == ~HasDrafts(o) /\ Move(o, {"partial"}, "closed")

-----------------------------------------------------------------------------
(* Goods receipts.                                                         *)

FitsOrder(o, accepted) ==
    \A l \in Line : order[o].received[l] + accepted[l] <= MaxReceivable(l, settings.tolerance)

Start(t, reads) ==
    /\ txn[t] = Idle
    /\ txn' = [txn EXCEPT ![t] = reads]
    /\ UNCHANGED <<order, receipt, bill, settings, books>>

Finish(t) == txn' = [txn EXCEPT ![t] = Idle]

\* The order is read without a lock; what it allows is only advice here.
ReadToReceive(t, o, g) ==
    /\ order[o].status \in Receivable /\ receipt[g].status = "absent"
    /\ Start(t, [Idle EXCEPT !.kind = "draft", !.order = o, !.receipt = g])

CreateReceipt(t, accepted) ==
    LET g == txn[t].receipt IN
    /\ txn[t].kind = "draft" /\ receipt[g].status = "absent"
    /\ FitsOrder(txn[t].order, accepted)
    /\ receipt' = [receipt EXCEPT ![g] =
          [status |-> "draft", order |-> txn[t].order, accepted |-> accepted, accrual |-> 0]]
    /\ Finish(t)
    /\ UNCHANGED <<order, bill, settings, books>>

UpdateReceipt(g, accepted) ==
    /\ receipt[g].status = "draft" /\ FitsOrder(receipt[g].order, accepted)
    /\ receipt' = [receipt EXCEPT ![g].accepted = accepted]
    /\ UNCHANGED <<order, bill, txn, settings, books>>

DeleteReceipt(g) ==
    /\ receipt[g].status = "draft"
    /\ receipt' = [receipt EXCEPT ![g].status = "absent", ![g].order = None]
    /\ UNCHANGED <<order, bill, txn, settings, books>>

Progress(received) ==
    IF \A l \in Line : received[l] = 0 THEN "issued"
    ELSE IF \A l \in Line : received[l] >= Ordered[l] THEN "received" ELSE "partial"

Receive(o, received) == [order EXCEPT ![o] = [status |-> Progress(received), received |-> received]]

\* Mutant: the quantities were checked when the receipt was drafted.
FitsWhenDrafted(g) == order[receipt[g].order].status \in Receivable

\* Mutant: whatever became of the order.
FitsWhateverTheStatus(g) == FitsOrder(receipt[g].order, receipt[g].accepted)

\* Checked again, on fresh lines, under the order's lock.
MayPost(g) ==
    /\ order[receipt[g].order].status \in Receivable
    /\ FitsOrder(receipt[g].order, receipt[g].accepted)

\* Dr inventory / Cr GRNI, once the organisation keeps inventory accounts.
PostReceipt(g) ==
    LET o == receipt[g].order
        accrual == IF settings.gl THEN Value(receipt[g].accepted) ELSE 0
    IN
    /\ receipt[g].status = "draft" /\ MayPost(g)
    /\ order' = Receive(o, [l \in Line |-> order[o].received[l] + receipt[g].accepted[l]])
    /\ receipt' = [receipt EXCEPT ![g].status = "posted", ![g].accrual = accrual]
    /\ grni' = grni + accrual
    /\ UNCHANGED <<bill, txn, settings, booked, overtaken>>

\* Mutant: only a draft bill invoices a receipt.
DraftBill(g) == {b \in Bill : bill[b].receipt = g /\ bill[b].status = "draft"}

\* Bills that invoice a receipt: an unlocked read, but a bill being inserted holds
\* the receipt's row until it commits, and a receipt being reversed keeps it out.
ReceiptBill(g) == {b \in Bill : bill[b].receipt = g /\ bill[b].status \notin {"absent", "void"}}

\* Mutant: the order keeps what was given back.
KeptByOrder(g) == order[receipt[g].order].received

LeftWithOrder(g) ==
    [l \in Line |-> order[receipt[g].order].received[l] - receipt[g].accepted[l]]

\* The receipt's journal is mirrored, whatever the goods leave stock at.
ReverseReceipt(g) ==
    /\ receipt[g].status = "posted"
    /\ order[receipt[g].order].status \in Receivable \cup {"received"}
    /\ ReceiptBill(g) = {}
    /\ order' = Receive(receipt[g].order, LeftWithOrder(g))
    /\ receipt' = [receipt EXCEPT ![g].status = "reversed"]
    /\ grni' = grni - receipt[g].accrual
    /\ UNCHANGED <<bill, txn, settings, booked, overtaken>>

-----------------------------------------------------------------------------
(* Bills.                                                                  *)

\* A receipt that is not posted, or accrued nothing, or has a bill, is refused.
Billable(g, b) ==
    g # None =>
        receipt[g].status = "posted" /\ receipt[g].accrual > 0 /\ ReceiptBill(g) \subseteq {b}

\* Mutant: what the registration checked is not checked again.
BillableSinceRegistered(g, b) == TRUE

\* The unique index on the receipt: one bill that is not void.
OneBill(b, g) == g # None => ReceiptBill(g) \subseteq {b}

ReadToRegister(t, b, g) ==
    /\ bill[b].status = "absent" /\ Billable(g, b)
    /\ Start(t, [Idle EXCEPT !.kind = "register", !.bill = b, !.receipt = g])

\* What will be withheld follows from the category and the rules of the bill's date.
RegisterBill(t, amount, wht) ==
    LET b == txn[t].bill g == txn[t].receipt IN
    /\ txn[t].kind = "register" /\ bill[b].status = "absent" /\ OneBill(b, g)
    /\ bill' = [bill EXCEPT ![b] =
          [status |-> "draft", receipt |-> g, amount |-> amount, wht |-> wht]]
    /\ Finish(t)
    /\ UNCHANGED <<order, receipt, settings, books>>

\* The status a transaction read decided whether it may write the next one: what
\* the row says by now is not looked at again, nor is it locked.
Decide(t, from, to) ==
    LET b == txn[t].bill IN
    /\ to # "void" => OneBill(b, bill[b].receipt)
    /\ bill' = [bill EXCEPT ![b].status = to]
    /\ overtaken' = IF bill[b].status = from THEN overtaken ELSE overtaken \cup {b}
    /\ Finish(t)

\* What the receipt is checked against when its bill is approved.
BillableAtApproval(g, b) == Billable(g, b)

ReadToApprove(t, b) ==
    LET g == bill[b].receipt IN
    /\ bill[b].status = "draft" /\ BillableAtApproval(g, b)
    /\ Start(t, [Idle EXCEPT !.kind = "approve", !.bill = b,
                             !.accrual = IF g = None THEN 0 ELSE receipt[g].accrual])

\* Dr GRNI and expense / Cr payable, less the tax withheld: the journal names no
\* source, so nothing keeps a second one out.
ApproveBill(t) ==
    LET b == txn[t].bill IN
    /\ txn[t].kind = "approve"
    /\ Decide(t, "draft", "approved")
    /\ grni' = grni - txn[t].accrual
    /\ booked' = [booked EXCEPT ![b] =
          [cleared |-> @.cleared + txn[t].accrual, owed |-> @.owed + bill[b].amount - bill[b].wht]]
    /\ UNCHANGED <<order, receipt, settings>>

\* Mutant: the vendor is paid what the tax authority is owed.
GrossPayable(b) == bill[b].amount

NetPayable(b) == bill[b].amount - bill[b].wht

ReadToPay(t, b) ==
    /\ bill[b].status = "approved"
    /\ Start(t, [Idle EXCEPT !.kind = "pay", !.bill = b])

PayBill(t) ==
    LET b == txn[t].bill IN
    /\ txn[t].kind = "pay"
    /\ Decide(t, "approved", "paid")
    /\ booked' = [booked EXCEPT ![b] =
          [cleared |-> @.cleared, owed |-> @.owed - NetPayable(b)]]
    /\ UNCHANGED <<order, receipt, settings, grni>>

ReadToVoid(t, b) ==
    /\ bill[b].status = "draft"
    /\ Start(t, [Idle EXCEPT !.kind = "void", !.bill = b])

VoidBill(t) ==
    /\ txn[t].kind = "void"
    /\ Decide(t, "draft", "void")
    /\ UNCHANGED <<order, receipt, settings, grni, booked>>

Abort(t) == txn[t] # Idle /\ Finish(t) /\ UNCHANGED <<order, receipt, bill, settings, books>>

-----------------------------------------------------------------------------

SetTolerance(tolerance) ==
    /\ settings.tolerance # tolerance
    /\ settings' = [settings EXCEPT !.tolerance = tolerance]
    /\ UNCHANGED <<order, receipt, bill, txn, books>>

StartGl ==
    /\ ~settings.gl
    /\ settings' = [settings EXCEPT !.gl = TRUE]
    /\ UNCHANGED <<order, receipt, bill, txn, books>>

Next ==
    \/ \E o \in Order :
        \/ CreateOrder(o) \/ SubmitOrder(o) \/ \E approve \in BOOLEAN : DecideOrder(o, approve)
        \/ IssueOrder(o) \/ DeleteOrder(o) \/ CancelOrder(o) \/ CloseOrder(o)
    \/ \E g \in Receipt :
        \/ \E accepted \in Bodies : UpdateReceipt(g, accepted)
        \/ DeleteReceipt(g) \/ PostReceipt(g) \/ ReverseReceipt(g)
    \/ \E t \in Txn :
        \/ \E o \in Order, g \in Receipt : ReadToReceive(t, o, g)
        \/ \E accepted \in Bodies : CreateReceipt(t, accepted)
        \/ \E b \in Bill :
            \/ \E g \in Receipt \cup {None} : ReadToRegister(t, b, g)
            \/ ReadToApprove(t, b) \/ ReadToPay(t, b) \/ ReadToVoid(t, b)
        \/ \E amount \in Amounts, wht \in Withheld : RegisterBill(t, amount, wht)
        \/ ApproveBill(t) \/ PayBill(t) \/ VoidBill(t) \/ Abort(t)
    \/ \E tolerance \in Tolerances : SetTolerance(tolerance)
    \/ StartGl

Spec == Init /\ [][Next]_vars

-----------------------------------------------------------------------------
(* Properties.                                                             *)

PostedOn(o) == {g \in Receipt : receipt[g].order = o /\ receipt[g].status = "posted"}

Uncleared(bills) ==
    {g \in Receipt : /\ receipt[g].status = "posted"
                     /\ \A b \in bills : bill[b].receipt = g => bill[b].status \notin Cleared}

\* An order has received what its posted receipts accepted, however many were
\* drafted against it, and its status says how far that has got: a cancelled or
\* undecided order has nothing (inventory_purchasing.py:319-327, 548-699).
OrdersMatchReceipts ==
    \A o \in Order :
        /\ \A l \in Line :
            order[o].received[l] = SumFunctionOnSet([g \in Receipt |-> receipt[g].accepted[l]], PostedOn(o))
        /\ order[o].status # "closed" =>
            (order[o].status = Progress(order[o].received)
             \/ \A l \in Line : order[o].received[l] = 0 /\ order[o].status \notin {"partial", "received"})

\* A draft receipt may outlive its order (it is created without the order's lock)
\* but nothing arrives on an order that was cancelled or closed
\* (inventory_purchasing.py:555-556).
EndedOrdersStand ==
    [][\A o \in Order : order[o].status \in {"closed", "cancelled"} => order'[o] = order[o]]_vars

\* GRNI holds what posted receipts accrued and no approved bill cleared: the
\* difference reconciliation() reports is zero (inventory_accounting.py:502-545).
\* The code does not keep it: two approvals that both read a bill as a draft clear
\* its accrual twice (bills.py:70-126).
GrniReconciles ==
    grni = SumFunctionOnSet([g \in Receipt |-> receipt[g].accrual], Uncleared(Bill))

\* Only bills two transactions decided on at once throw GRNI off, by what they
\* cleared: not a receipt reversed while its bill is being registered or approved,
\* nor a bill paid, voided or billed again (inventory_accounting.py:437-545).
GrniExplained ==
    grni + SumFunctionOnSet([b \in Bill |-> booked[b].cleared], overtaken)
        = SumFunctionOnSet([g \in Receipt |-> receipt[g].accrual], Uncleared(Bill \ overtaken))

\* The journals of a bill are those its status says, once each: approval clears
\* what its receipt accrued and leaves its net on payables, payment takes that
\* net off. Only for a bill two transactions decided on at once may they not be,
\* whatever happens to the others (bills.py:70-138).
BillsPostOnce ==
    \A b \in Bill \ overtaken :
        booked[b] = [cleared |-> IF bill[b].status \in Cleared /\ bill[b].receipt # None
                                 THEN receipt[bill[b].receipt].accrual ELSE 0,
                     owed |-> IF bill[b].status = "approved" THEN bill[b].amount - bill[b].wht ELSE 0]

\* A receipt that a bill has cleared is there for good, and no other bill clears
\* it: the receipt is checked at registration and again at approval, a reversal
\* waits for bills being inserted, and the unique index keeps a second bill out
\* (bills.py:48-50, 83-92, inventory_purchasing.py:654-659). An approval that
\* overtakes a void and the reversal it allowed is the one way around it.
BilledReceiptsStand ==
    \A b \in Bill \ overtaken : bill[b].status \in Cleared /\ bill[b].receipt # None =>
        /\ receipt[bill[b].receipt].status = "posted"
        /\ ReceiptBill(bill[b].receipt) = {b}
=============================================================================
