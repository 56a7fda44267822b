------------------------------- MODULE Books --------------------------------
(***************************************************************************)
(* The small books beside payroll and stock: customer invoices and their   *)
(* credit notes, fixed assets from purchase to disposal and who holds      *)
(* them, and the bank statement matched with the cash account they all     *)
(* post to. What relates them is the general ledger: the receivable, the   *)
(* two accounts of fixed assets and cash. The other side of each journal   *)
(* is left out: it is whatever makes the journal balance.                  *)
(*                                                                         *)
(* A request is one transaction and one step. No row is locked here; two   *)
(* requests on one document at once are not modelled.                      *)
(***************************************************************************)
EXTENDS Integers, Sequences, FiniteSets, FiniteSetsExt

CONSTANTS
    Invoice, Price,     \* invoices and their amounts
    Credits,            \* amounts a credit note may be made out for
    Asset, Shapes,      \* assets, and the terms they may be registered on
    Values,             \* what an asset may be revalued to
    Proceeds,           \* what a disposal may bring
    MaxRevaluations,    \* bounds the revaluations of an asset
    Employee,
    StatementLine, Amounts,     \* lines of the bank statement and their amounts
    Nobody

Terms == [cost : Nat \ {0}, salvage : Nat, life : Nat \ {0}, builtUp : Nat, owned : BOOLEAN]

ASSUME BooksAssumption ==
    /\ Price \in [Invoice -> Nat \ {0}] /\ Credits \subseteq Nat \ {0}
    /\ \A s \in Shapes : /\ s \in Terms
                         /\ s.salvage < s.cost /\ s.builtUp <= s.cost - s.salvage
                         /\ s.builtUp > 0 => s.owned
    /\ Values \subseteq Nat \ {0} /\ Proceeds \subseteq Nat /\ MaxRevaluations \in Nat
    /\ Amounts \subseteq Int \ {0} /\ Nobody \notin Employee
    /\ IsFiniteSet(Invoice) /\ IsFiniteSet(Asset) /\ IsFiniteSet(StatementLine)

VARIABLES
    invoice,    \* Invoice: status, and the total of its credit notes
    asset,      \* FixedAsset
    custody,    \* FixedAssetAssignment rows not returned
    history,    \* an asset's linked journals and revaluations, in time
    statement,  \* BankStatementLine: amount and the ledger entry it matches
    gl,         \* balances of accounts_receivable, fixed_assets, accumulated_depreciation
    cash,       \* ledger entries on the cash account, debit less credit
    locked      \* whether today is on or before the lock date

vars == <<invoice, asset, custody, history, statement, gl, cash, locked>>

InvoiceRow == [status : {"absent", "draft", "sent", "paid", "void"}, credited : Nat]
AssetRow == [status : {"absent", "active", "disposed"}, cost : Nat, salvage : Nat, life : Nat \ {0},
             accumulated : Nat, assignment : {"untracked", "available", "assigned"},
             holder : Employee \cup {Nobody}]
Assignments == Asset \X Employee
Event == [kind : {"opening", "depreciation", "revaluation"}, amount : Nat]
LineRow == [amount : Int, matched : Nat]
NoAsset == [status |-> "absent", cost |-> 0, salvage |-> 0, life |-> 1, accumulated |-> 0,
            assignment |-> "untracked", holder |-> Nobody]

Depreciable(a) == asset[a].cost - asset[a].salvage
BookValue(a) == asset[a].cost - asset[a].accumulated

TypeOK ==
    /\ invoice \in [Invoice -> InvoiceRow]
    /\ \A i \in Invoice : invoice[i].credited <= Price[i]
    /\ asset \in [Asset -> AssetRow]
    /\ \A a \in Asset : asset[a].accumulated <= Max({0, Depreciable(a)})
    /\ custody \subseteq Assignments
    /\ history \in [Asset -> Seq(Event)]
    /\ statement \in [StatementLine -> LineRow]
    /\ \A l \in StatementLine : statement[l].matched <= Len(cash)
    /\ gl \in [receivable : Int, fixedAssets : Int, accumulated : Int]
    /\ cash \in Seq(Int) /\ locked \in BOOLEAN

Init ==
    /\ invoice = [i \in Invoice |-> [status |-> "absent", credited |-> 0]]
    /\ asset = [a \in Asset |-> NoAsset]
    /\ custody = {}
    /\ history = [a \in Asset |-> <<>>]
    /\ statement = [l \in StatementLine |-> [amount |-> 0, matched |-> 0]]
    /\ gl = [receivable |-> 0, fixedAssets |-> 0, accumulated |-> 0]
    /\ cash = <<>>
    /\ locked \in BOOLEAN

\* Every journal is dated today and refused in a locked period.
Post(receivable, fixedAssets, accumulated) ==
    /\ ~locked
    /\ gl' = [receivable |-> gl.receivable + receivable,
              fixedAssets |-> gl.fixedAssets + fixedAssets,
              accumulated |-> gl.accumulated + accumulated]

\* A journal line cannot be nought.
PostCash(amount) == cash' = IF amount = 0 THEN cash ELSE Append(cash, amount)

-----------------------------------------------------------------------------
(* Invoices and credit notes.                                              *)

InvoiceStep(i, from, to) ==
    /\ invoice[i].status \in from
    /\ invoice' = [invoice EXCEPT ![i].status = to]
    /\ UNCHANGED <<asset, custody, history, statement, locked>>

RegisterInvoice(i) == InvoiceStep(i, {"absent"}, "draft") /\ UNCHANGED <<gl, cash>>

SendInvoice(i) ==
    /\ InvoiceStep(i, {"draft"}, "sent")
    /\ Post(Price[i], 0, 0) /\ UNCHANGED cash

\* In full, whatever was credited.
PayInvoice(i) ==
    /\ InvoiceStep(i, {"sent"}, "paid")
    /\ Post(-Price[i], 0, 0) /\ PostCash(Price[i])

\* Mutant: an invoice can be voided once it is sent.
VoidableOnceSent == {"draft", "sent"}

Voidable == {"draft"}

VoidInvoice(i) == InvoiceStep(i, Voidable, "void") /\ UNCHANGED <<gl, cash>>

IssueCreditNote(i, amount) ==
    /\ invoice[i].status \in {"sent", "paid"}
    /\ invoice[i].credited + amount <= Price[i]
    /\ invoice' = [invoice EXCEPT ![i].credited = @ + amount]
    /\ Post(-amount, 0, 0)
    /\ UNCHANGED <<asset, custody, history, statement, cash, locked>>

-----------------------------------------------------------------------------
(* Fixed assets.                                                           *)

\* One already owned comes with its depreciation and moves no cash. A laptop is
\* handed to somebody at once, a desk can be, a building never is.
RegisterAsset(a, s, assignment, holder) ==
    /\ asset[a].status = "absent"
    /\ (assignment = "assigned") = (holder # Nobody)
    /\ asset' = [asset EXCEPT ![a] = [status |-> "active", cost |-> s.cost,
          salvage |-> s.salvage, life |-> s.life, accumulated |-> s.builtUp,
          assignment |-> assignment, holder |-> holder]]
    /\ custody' = custody \cup ({a} \X ({holder} \ {Nobody}))
    /\ history' = IF s.builtUp = 0 THEN history
                  ELSE [history EXCEPT ![a] = <<[kind |-> "opening", amount |-> s.builtUp]>>]
    /\ Post(0, s.cost, s.builtUp) /\ PostCash(IF s.owned THEN 0 ELSE -s.cost)
    /\ UNCHANGED <<invoice, statement, locked>>

AssignAsset(a, e) ==
    /\ asset[a].assignment = "available"
    /\ asset' = [asset EXCEPT ![a].assignment = "assigned", ![a].holder = e]
    /\ custody' = custody \cup {<<a, e>>}
    /\ UNCHANGED <<invoice, history, statement, gl, cash, locked>>

ReturnAsset(a, e) ==
    /\ <<a, e>> \in custody
    /\ asset' = [asset EXCEPT ![a].assignment = "available", ![a].holder = Nobody]
    /\ custody' = custody \ {<<a, e>>}
    /\ UNCHANGED <<invoice, history, statement, gl, cash, locked>>

\* Mutant: the last month is charged like any other.
ChargeInFull(a) == Depreciable(a) \div asset[a].life

\* The month's part, rounded down, or what is left.
Charge(a) ==
    LET remaining == Depreciable(a) - asset[a].accumulated IN
    Min({Depreciable(a) \div asset[a].life, remaining})

\* Fully depreciated, or so little that a month's part is nought: refused.
MayDepreciate(a) ==
    asset[a].status = "active" /\ asset[a].accumulated < Depreciable(a) /\ Charge(a) > 0

Depreciate(due) ==
    /\ due # {}
    /\ asset' = [a \in Asset |->
          IF a \in due THEN [asset[a] EXCEPT !.accumulated = @ + Charge(a)] ELSE asset[a]]
    /\ history' = [a \in Asset |->
          IF a \in due THEN Append(history[a], [kind |-> "depreciation", amount |-> Charge(a)])
          ELSE history[a]]
    /\ Post(0, 0, SumFunctionOnSet([a \in Asset |-> Charge(a)], due))
    /\ UNCHANGED <<invoice, custody, statement, cash, locked>>

RecordDepreciation(a) == MayDepreciate(a) /\ Depreciate({a})

\* Assets that cannot be depreciated are passed over.
RunBatchDepreciation == Depreciate({a \in Asset : MayDepreciate(a)})

\* Mutant: the new value is compared with what the asset cost.
SurplusOverCost(a, value) == value - asset[a].cost

Surplus(a, value) == value - BookValue(a)

\* Mutant: the gross value is raised and what was written off stays.
RevaluedGross(row, value) == [row EXCEPT !.cost = value + row.accumulated]

\* The asset starts again at its new value; the ledger's accumulated
\* depreciation keeps what it had.
Revalued(row, value) == [row EXCEPT !.cost = value, !.accumulated = 0]

RevalueAsset(a, value) ==
    /\ asset[a].status = "active" /\ Surplus(a, value) # 0
    /\ Cardinality({n \in DOMAIN history[a] : history[a][n].kind = "revaluation"}) < MaxRevaluations
    /\ asset' = [asset EXCEPT ![a] = Revalued(@, value)]
    /\ history' = [history EXCEPT ![a] = Append(@, [kind |-> "revaluation", amount |-> 0])]
    /\ Post(0, Surplus(a, value), 0)
    /\ UNCHANGED <<invoice, custody, statement, cash, locked>>

\* Mutant: whoever holds the asset keeps holding it.
StillHeld(a) == custody

Surrendered(a) == {c \in custody : c[1] # a}

DisposeAsset(a, proceeds) ==
    /\ asset[a].status = "active"
    /\ asset' = [asset EXCEPT ![a].status = "disposed", ![a].assignment = "untracked",
                              ![a].holder = Nobody]
    /\ custody' = Surrendered(a)
    /\ Post(0, -asset[a].cost, -asset[a].accumulated) /\ PostCash(proceeds)
    /\ UNCHANGED <<invoice, history, statement, locked>>

-----------------------------------------------------------------------------
(* The bank statement.                                                     *)

CreateStatementLine(l, amount) ==
    /\ statement[l].amount = 0
    /\ statement' = [statement EXCEPT ![l].amount = amount]
    /\ UNCHANGED <<invoice, asset, custody, history, gl, cash, locked>>

\* Mutant: two lines can be matched with one entry.
FreeAlways(n) == TRUE

Free(n) == \A l \in StatementLine : statement[l].matched # n

MatchLine(l, n) ==
    /\ statement[l].amount # 0 /\ statement[l].matched = 0
    /\ Free(n) /\ cash[n] = statement[l].amount
    /\ statement' = [statement EXCEPT ![l].matched = n]
    /\ UNCHANGED <<invoice, asset, custody, history, gl, cash, locked>>

UnmatchLine(l) ==
    /\ statement[l].matched # 0
    /\ statement' = [statement EXCEPT ![l].matched = 0]
    /\ UNCHANGED <<invoice, asset, custody, history, gl, cash, locked>>

-----------------------------------------------------------------------------

UpdateLockDate ==
    /\ locked' = ~locked
    /\ UNCHANGED <<invoice, asset, custody, history, statement, gl, cash>>

Next ==
    \/ \E i \in Invoice :
        \/ RegisterInvoice(i) \/ SendInvoice(i) \/ PayInvoice(i) \/ VoidInvoice(i)
        \/ \E amount \in Credits : IssueCreditNote(i, amount)
    \/ \E a \in Asset :
        \/ \E s \in Shapes, assignment \in {"untracked", "available", "assigned"},
              holder \in Employee \cup {Nobody} : RegisterAsset(a, s, assignment, holder)
        \/ \E e \in Employee : AssignAsset(a, e) \/ ReturnAsset(a, e)
        \/ RecordDepreciation(a)
        \/ \E value \in Values : RevalueAsset(a, value)
        \/ \E proceeds \in Proceeds : DisposeAsset(a, proceeds)
    \/ RunBatchDepreciation
    \/ \E l \in StatementLine :
        \/ \E amount \in Amounts : CreateStatementLine(l, amount)
        \/ \E n \in DOMAIN cash : MatchLine(l, n)
        \/ UnmatchLine(l)
    \/ UpdateLockDate

Spec == Init /\ [][Next]_vars

-----------------------------------------------------------------------------
(* Properties.                                                             *)

\* What ar_aging_report says of an invoice.
Outstanding(i) == Max({0, Price[i] - invoice[i].credited})

InvoicesIn(status) == {i \in Invoice : invoice[i].status = status}

\* The receivable is what the ageing report adds up to, less what was credited on
\* invoices that were paid in full: credits and payments in any order, voids only
\* before anything was posted (invoices.py:55-116, credit_notes.py:24-65,
\* reports.py:143-183).
ReceivablesReconcile ==
    gl.receivable = SumFunctionOnSet([i \in Invoice |-> Outstanding(i)], InvoicesIn("sent"))
                  - SumFunctionOnSet([i \in Invoice |-> invoice[i].credited], InvoicesIn("paid"))

InUse == {a \in Asset : asset[a].status = "active"}

\* Purchased, owned before, depreciated, revalued up or down and disposed of at a
\* gain or a loss: the two accounts together are the book value of the assets
\* still held. Each alone is not: a revaluation moves one and resets the row
\* (fixed_assets.py:96-147, 205-316, 346-425).
AssetsReconcile ==
    gl.fixedAssets - gl.accumulated =
        SumFunctionOnSet([a \in Asset |-> BookValue(a)], InUse)

\* The running total of depreciation_history: a revaluation starts it again.
SinceRevalued(events) ==
    {n \in DOMAIN events : \A m \in n..Len(events) : events[m].kind # "revaluation"}

Running(events) ==
    SumFunctionOnSet([n \in DOMAIN events |-> events[n].amount], SinceRevalued(events))

\* The history read from journals and revaluations explains the asset's
\* accumulated depreciation: unexplained_minor is zero, and what is reported of a
\* disposed asset is what it had (fixed_assets.py:428-548).
HistoryExplains == \A a \in Asset : asset[a].accumulated = Running(history[a])

\* The row and the assignments say the same of who holds an asset, one person at
\* most, and nobody once it is disposed of (fixed_assets.py:158-202, 297-311).
CustodyMatches ==
    \A a \in Asset :
        /\ (asset[a].assignment = "assigned") = (asset[a].holder # Nobody)
        /\ {c \in custody : c[1] = a} = {a} \X ({asset[a].holder} \ {Nobody})

\* The difference the reconciliation reports is explained by the lines and the
\* entries it lists as unmatched (bank_reconciliation.py:46-149).
DifferenceExplained ==
    LET amount == [l \in StatementLine |-> statement[l].amount]
        matched == {statement[l].matched : l \in StatementLine}
    IN  SumFunctionOnSet(amount, StatementLine) - SumFunctionOnSet(cash, DOMAIN cash) =
          SumFunctionOnSet(amount, {l \in StatementLine : statement[l].matched = 0})
          - SumFunctionOnSet(cash, DOMAIN cash \ matched)
=============================================================================
