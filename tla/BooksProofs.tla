---------------------------- MODULE BooksProofs -----------------------------
(***************************************************************************)
(* What Books promises, for any invoices, assets, employees, amounts and   *)
(* any statement: who holds an asset first, then the balances. A sum over  *)
(* invoices or assets moves by the share of the one that changed; a batch  *)
(* of depreciation moves it by the total that is posted.                   *)
(***************************************************************************)
EXTENDS Books, SumTheorems, TLAPS

(* Every asset has its row; amounts are left out.                          *)
AssetRows ==
    /\ DOMAIN asset = Asset /\ asset = [a \in Asset |-> asset[a]]
    /\ \A a \in Asset : DOMAIN asset[a] = DOMAIN NoAsset
    /\ custody \subseteq Asset \X Employee

(* What CustodyMatches says of one asset, person by person; and what was not *)
(* bought yet cannot be handed out: registering it would do so again.        *)
Settled(a) ==
    /\ (asset[a].assignment = "assigned") = (asset[a].holder # Nobody)
    /\ \A e \in Employee : <<a, e>> \in custody <=> asset[a].holder = e
    /\ asset[a].holder \in Employee \cup {Nobody}
    /\ asset[a].status = "absent" => asset[a].assignment = "untracked"

CustodyInv == AssetRows /\ \A a \in Asset : Settled(a)

LEMMA CustodyInvImplies == CustodyInv => CustodyMatches
<1> SUFFICES ASSUME CustodyInv, NEW a \in Asset
             PROVE  /\ (asset[a].assignment = "assigned") = (asset[a].holder # Nobody)
                    /\ {c \in custody : c[1] = a} = {a} \X ({asset[a].holder} \ {Nobody})
  BY DEF CustodyMatches
<1>1. Settled(a) /\ custody \subseteq Asset \X Employee
  BY DEF CustodyInv, AssetRows
<1>2. CASE asset[a].holder = Nobody
  BY <1>1, <1>2, BooksAssumption DEF Settled
<1>3. CASE asset[a].holder \in Employee
  BY <1>1, <1>3, BooksAssumption DEF Settled
<1> QED  BY <1>1, <1>2, <1>3 DEF Settled

LEMMA InitCustody == Init => CustodyInv
<1> SUFFICES ASSUME Init PROVE CustodyInv
  OBVIOUS
<1>1. AssetRows
  BY DEF Init, AssetRows
<1>2. ASSUME NEW a \in Asset PROVE Settled(a)
  BY BooksAssumption DEF Init, NoAsset, Settled
<1> QED  BY <1>1, <1>2 DEF CustodyInv

(* A step that leaves holders, assignments and statuses alone.              *)
LEMMA HoldersKept ==
    ASSUME CustodyInv, AssetRows', custody' = custody,
           \A a \in Asset : /\ asset'[a].holder = asset[a].holder
                            /\ asset'[a].assignment = asset[a].assignment
                            /\ asset'[a].status = asset[a].status
    PROVE  CustodyInv'
BY DEF CustodyInv, Settled

(* A step that changes one row and assignments of that asset alone.         *)
LEMMA OthersKept ==
    ASSUME CustodyInv, AssetRows', NEW a \in Asset, Settled(a)',
           \A b \in Asset \ {a} : asset'[b] = asset[b],
           \A b \in Asset \ {a}, e \in Employee : <<b, e>> \in custody' <=> <<b, e>> \in custody
    PROVE  CustodyInv'
BY DEF CustodyInv, Settled

LEMMA RegisterKeepsCustody ==
    ASSUME CustodyInv, NEW a \in Asset, NEW s \in Shapes,
           NEW assignment \in {"untracked", "available", "assigned"},
           NEW holder \in Employee \cup {Nobody}, RegisterAsset(a, s, assignment, holder)
    PROVE  CustodyInv'
<1> DEFINE row == [status |-> "active", cost |-> s.cost, salvage |-> s.salvage, life |-> s.life,
                   accumulated |-> s.builtUp, assignment |-> assignment, holder |-> holder]
<1>1. /\ asset' = [asset EXCEPT ![a] = row]
      /\ custody' = custody \cup ({a} \X ({holder} \ {Nobody}))
      /\ asset[a].status = "absent" /\ (assignment = "assigned") = (holder # Nobody)
  BY DEF RegisterAsset
<1>2. DOMAIN row = DOMAIN NoAsset
  BY DEF NoAsset
<1>3. row.assignment = assignment /\ row.holder = holder /\ row.status = "active"
  OBVIOUS
<1> HIDE DEF row
<1>4. AssetRows'
  BY <1>1, <1>2 DEF CustodyInv, AssetRows
<1>5. Settled(a)'
  BY <1>1, <1>3, BooksAssumption DEF CustodyInv, AssetRows, Settled
<1>6. /\ \A b \in Asset \ {a} : asset'[b] = asset[b]
      /\ \A b \in Asset \ {a}, e \in Employee : <<b, e>> \in custody' <=> <<b, e>> \in custody
  BY <1>1 DEF CustodyInv, AssetRows
<1> QED  BY <1>4, <1>5, <1>6, OthersKept

LEMMA HandOverKeepsCustody ==
    ASSUME CustodyInv, NEW a \in Asset, NEW e \in Employee, AssignAsset(a, e) \/ ReturnAsset(a, e)
    PROVE  CustodyInv'
<1>1. CASE AssignAsset(a, e)
  <2>1. /\ asset[a].assignment = "available" /\ custody' = custody \cup {<<a, e>>}
        /\ asset' = [asset EXCEPT ![a].assignment = "assigned", ![a].holder = e]
    BY <1>1 DEF AssignAsset
  <2>2. AssetRows'
    BY <2>1 DEF CustodyInv, AssetRows
  <2>3. /\ asset'[a].assignment = "assigned" /\ asset'[a].holder = e
        /\ asset'[a].status = asset[a].status
    BY <2>1 DEF CustodyInv, AssetRows, NoAsset
  <2>4. asset[a].holder = Nobody /\ asset[a].status # "absent"
    BY <2>1 DEF CustodyInv, Settled
  <2>5. Settled(a)'
    BY <2>1, <2>3, <2>4, BooksAssumption DEF CustodyInv, Settled
  <2>6. /\ \A b \in Asset \ {a} : asset'[b] = asset[b]
        /\ \A b \in Asset \ {a}, f \in Employee : <<b, f>> \in custody' <=> <<b, f>> \in custody
    BY <2>1 DEF CustodyInv, AssetRows
  <2> QED  BY <2>2, <2>5, <2>6, OthersKept
<1>2. CASE ReturnAsset(a, e)
  <2>1. /\ <<a, e>> \in custody /\ custody' = custody \ {<<a, e>>}
        /\ asset' = [asset EXCEPT ![a].assignment = "available", ![a].holder = Nobody]
    BY <1>2 DEF ReturnAsset
  <2>2. AssetRows'
    BY <2>1 DEF CustodyInv, AssetRows
  <2>3. /\ asset'[a].assignment = "available" /\ asset'[a].holder = Nobody
        /\ asset'[a].status = asset[a].status
    BY <2>1 DEF CustodyInv, AssetRows, NoAsset
  <2>4. asset[a].holder = e /\ e # Nobody /\ asset[a].status # "absent"
    <3>1. asset[a].holder = e /\ e # Nobody
      BY <2>1, BooksAssumption DEF CustodyInv, Settled
    <3> QED  BY <3>1 DEF CustodyInv, Settled
  <2>5. Settled(a)'
    <3>1. \A f \in Employee : <<a, f>> \notin custody'
      BY <2>1, <2>4 DEF CustodyInv, Settled
    <3> QED  BY <2>3, <2>4, <3>1, BooksAssumption DEF Settled
  <2>6. /\ \A b \in Asset \ {a} : asset'[b] = asset[b]
        /\ \A b \in Asset \ {a}, f \in Employee : <<b, f>> \in custody' <=> <<b, f>> \in custody
    BY <2>1 DEF CustodyInv, AssetRows
  <2> QED  BY <2>2, <2>5, <2>6, OthersKept
<1> QED  BY <1>1, <1>2

LEMMA DisposalKeepsCustody ==
    ASSUME CustodyInv, NEW a \in Asset, NEW proceeds \in Proceeds, DisposeAsset(a, proceeds)
    PROVE  CustodyInv'
<1>1. /\ asset' = [asset EXCEPT ![a].status = "disposed", ![a].assignment = "untracked",
                                ![a].holder = Nobody]
      /\ custody' = {c \in custody : c[1] # a}
  BY DEF DisposeAsset, Surrendered
<1>2. AssetRows'
  BY <1>1 DEF CustodyInv, AssetRows
<1>3. asset'[a].assignment = "untracked" /\ asset'[a].holder = Nobody
  BY <1>1 DEF CustodyInv, AssetRows, NoAsset
<1>4. Settled(a)'
  BY <1>1, <1>3, BooksAssumption DEF CustodyInv, Settled
<1>5. /\ \A b \in Asset \ {a} : asset'[b] = asset[b]
      /\ \A b \in Asset \ {a}, f \in Employee : <<b, f>> \in custody' <=> <<b, f>> \in custody
  BY <1>1 DEF CustodyInv, AssetRows
<1> QED  BY <1>2, <1>4, <1>5, OthersKept

(* A charge for one asset or for all of them, and a new value.              *)
LEMMA AmountsKeepCustody ==
    ASSUME CustodyInv,
           \/ \E due \in SUBSET Asset : Depreciate(due)
           \/ \E a \in Asset, value \in Values : RevalueAsset(a, value)
    PROVE  CustodyInv'
<1>1. ASSUME NEW due \in SUBSET Asset, Depreciate(due)
      PROVE  CustodyInv'
  <2>1. /\ custody' = custody
        /\ asset' = [a \in Asset |->
              IF a \in due THEN [asset[a] EXCEPT !.accumulated = @ + Charge(a)] ELSE asset[a]]
    BY <1>1 DEF Depreciate
  <2> HIDE DEF Charge
  <2>2. AssetRows'
    BY <2>1 DEF CustodyInv, AssetRows
  <2>3. \A a \in Asset : /\ asset'[a].holder = asset[a].holder
                         /\ asset'[a].assignment = asset[a].assignment
                         /\ asset'[a].status = asset[a].status
    BY <2>1 DEF CustodyInv, AssetRows, NoAsset
  <2> QED  BY <2>1, <2>2, <2>3, HoldersKept
<1>2. ASSUME NEW a \in Asset, NEW value \in Values, RevalueAsset(a, value)
      PROVE  CustodyInv'
  <2>1. /\ custody' = custody
        /\ asset' = [asset EXCEPT ![a] = [asset[a] EXCEPT !.cost = value, !.accumulated = 0]]
    BY <1>2 DEF RevalueAsset, Revalued
  <2>2. AssetRows'
    BY <2>1 DEF CustodyInv, AssetRows
  <2>3. \A b \in Asset : /\ asset'[b].holder = asset[b].holder
                         /\ asset'[b].assignment = asset[b].assignment
                         /\ asset'[b].status = asset[b].status
    BY <2>1 DEF CustodyInv, AssetRows, NoAsset
  <2> QED  BY <2>1, <2>2, <2>3, HoldersKept
<1> QED  BY <1>1, <1>2

LEMMA NextKeepsCustody == CustodyInv /\ [Next]_vars => CustodyInv'
<1> SUFFICES ASSUME CustodyInv, [Next]_vars PROVE CustodyInv'
  OBVIOUS
<1>1. CASE asset' = asset /\ custody' = custody
  BY <1>1 DEF CustodyInv, AssetRows, Settled
<1>2. ASSUME NEW i \in Invoice,
             \/ RegisterInvoice(i) \/ SendInvoice(i) \/ PayInvoice(i) \/ VoidInvoice(i)
             \/ \E amount \in Credits : IssueCreditNote(i, amount)
      PROVE  CustodyInv'
  BY <1>1, <1>2 DEF RegisterInvoice, SendInvoice, PayInvoice, VoidInvoice, InvoiceStep, IssueCreditNote
<1>3. ASSUME NEW a \in Asset, NEW s \in Shapes,
             NEW assignment \in {"untracked", "available", "assigned"},
             NEW holder \in Employee \cup {Nobody}, RegisterAsset(a, s, assignment, holder)
      PROVE  CustodyInv'
  BY <1>3, RegisterKeepsCustody
<1>4. ASSUME NEW a \in Asset, NEW e \in Employee, AssignAsset(a, e) \/ ReturnAsset(a, e)
      PROVE  CustodyInv'
  BY <1>4, HandOverKeepsCustody
<1>5. ASSUME NEW a \in Asset, RecordDepreciation(a)
      PROVE  CustodyInv'
  BY <1>5, AmountsKeepCustody DEF RecordDepreciation
<1>6. CASE RunBatchDepreciation
  <2>1. \E due \in SUBSET Asset : Depreciate(due)
    BY <1>6 DEF RunBatchDepreciation
  <2> QED  BY <2>1, AmountsKeepCustody
<1>7. ASSUME NEW a \in Asset, NEW value \in Values, RevalueAsset(a, value)
      PROVE  CustodyInv'
  BY <1>7, AmountsKeepCustody
<1>8. ASSUME NEW a \in Asset, NEW proceeds \in Proceeds, DisposeAsset(a, proceeds)
      PROVE  CustodyInv'
  BY <1>8, DisposalKeepsCustody
<1>9. ASSUME NEW l \in StatementLine,
             \/ \E amount \in Amounts : CreateStatementLine(l, amount)
             \/ \E n \in DOMAIN cash : MatchLine(l, n)
             \/ UnmatchLine(l)
      PROVE  CustodyInv'
  BY <1>1, <1>9 DEF CreateStatementLine, MatchLine, UnmatchLine
<1>10. CASE UpdateLockDate
  BY <1>1, <1>10 DEF UpdateLockDate
<1>11. CASE UNCHANGED vars
  BY <1>1, <1>11 DEF vars
<1> QED  BY <1>2, <1>3, <1>4, <1>5, <1>6, <1>7, <1>8, <1>9, <1>10, <1>11 DEF Next

(* The row and the assignments always say the same of who holds an asset,    *)
(* whatever is registered, handed over, revalued or disposed of, and nobody  *)
(* holds what is disposed of (fixed_assets.py:158-202, 297-311).             *)
THEOREM CustodyFollowsAssignments == Spec => []CustodyMatches
<1>1. CustodyInv => CustodyMatches
  BY CustodyInvImplies
<1> QED  BY InitCustody, NextKeepsCustody, <1>1, PTL DEF Spec

GlRow == [receivable : Int, fixedAssets : Int, accumulated : Int]

LEMMA LargerOfTwo ==
    ASSUME NEW x \in Int, NEW y \in Int
    PROVE  Max({x, y}) = IF x >= y THEN x ELSE y
<1>1. \E z \in {x, y} : \A w \in {x, y} : z >= w
  OBVIOUS
<1>2. Max({x, y}) \in {x, y} /\ \A w \in {x, y} : Max({x, y}) >= w
  BY <1>1 DEF Max
<1> QED  BY <1>2

LEMMA SmallerOfTwo ==
    ASSUME NEW x \in Int, NEW y \in Int
    PROVE  Min({x, y}) = IF x <= y THEN x ELSE y
<1>1. \E z \in {x, y} : \A w \in {x, y} : z <= w
  OBVIOUS
<1>2. Min({x, y}) \in {x, y} /\ \A w \in {x, y} : Min({x, y}) <= w
  BY <1>1 DEF Min
<1> QED  BY <1>2

-----------------------------------------------------------------------------
(* Invoices and credit notes.                                              *)

(* Nothing is credited before an invoice is sent.                          *)
InvoiceInv ==
    /\ invoice \in [Invoice -> InvoiceRow]
    /\ \A i \in Invoice : /\ invoice[i].credited <= Price[i]
                          /\ invoice[i].status \in {"absent", "draft", "void"} => invoice[i].credited = 0
    /\ ReceivablesReconcile

Outstandings == [i \in Invoice |-> Outstanding(i)]
Credited == [i \in Invoice |-> invoice[i].credited]

LEMMA OutstandingIs ==
    ASSUME InvoiceInv, NEW i \in Invoice
    PROVE  /\ Price[i] \in Nat /\ invoice[i].credited \in Nat /\ Outstanding(i) \in Nat
           /\ Outstanding(i) = Price[i] - invoice[i].credited
<1>1. Price[i] \in Nat /\ invoice[i].credited \in Nat /\ invoice[i].credited <= Price[i]
  BY BooksAssumption DEF InvoiceInv, InvoiceRow
<1>2. Price[i] - invoice[i].credited \in Nat
  BY <1>1
<1>3. Outstanding(i) = Price[i] - invoice[i].credited
  BY <1>2, LargerOfTwo DEF Outstanding
<1> QED  BY <1>1, <1>2, <1>3

(* One invoice changes: its share of the two sums does.                    *)
LEMMA ReceivableMoves ==
    ASSUME InvoiceInv, gl \in GlRow, NEW i \in Invoice,
           invoice' \in [Invoice -> InvoiceRow], \A j \in Invoice \ {i} : invoice'[j] = invoice[j],
           invoice'[i].credited <= Price[i],
           invoice'[i].status \in {"absent", "draft", "void"} => invoice'[i].credited = 0,
           gl'.receivable = gl.receivable
               + ((IF invoice'[i].status = "sent" THEN Price[i] - invoice'[i].credited ELSE 0)
                  - (IF invoice[i].status = "sent" THEN Price[i] - invoice[i].credited ELSE 0))
               - ((IF invoice'[i].status = "paid" THEN invoice'[i].credited ELSE 0)
                  - (IF invoice[i].status = "paid" THEN invoice[i].credited ELSE 0))
    PROVE  InvoiceInv'
<1> DEFINE S == InvoicesIn("sent")
           T == InvoicesIn("sent")'
           P == InvoicesIn("paid")
           Q == InvoicesIn("paid")'
<1>1. /\ S \in SUBSET Invoice /\ T \in SUBSET Invoice /\ P \in SUBSET Invoice /\ Q \in SUBSET Invoice
      /\ IsFiniteSet(Invoice)
  BY BooksAssumption DEF InvoicesIn
<1>2. \A j \in Invoice : /\ Outstandings[j] = Price[j] - invoice[j].credited
                         /\ Outstandings[j] \in Int /\ Credited[j] = invoice[j].credited
                         /\ Credited[j] \in Int
  BY OutstandingIs DEF Outstandings, Credited
<1>3. \A j \in Invoice : /\ Price[j] \in Nat /\ invoice'[j].credited \in Nat
                         /\ invoice'[j].credited <= Price[j]
  BY BooksAssumption DEF InvoiceInv, InvoiceRow
<1>4. \A j \in Invoice : Outstanding(j)' = Price[j] - invoice'[j].credited
  <2> SUFFICES ASSUME NEW j \in Invoice PROVE Outstanding(j)' = Price[j] - invoice'[j].credited
    OBVIOUS
  <2>1. Price[j] - invoice'[j].credited \in Nat
    BY <1>3
  <2> QED  BY <2>1, LargerOfTwo DEF Outstanding
<1>5. \A j \in Invoice : /\ Outstandings'[j] = Price[j] - invoice'[j].credited
                         /\ Outstandings'[j] \in Int /\ Credited'[j] = invoice'[j].credited
                         /\ Credited'[j] \in Int
  BY <1>3, <1>4 DEF Outstandings, Credited
<1>6. \A j \in Invoice \ {i} : /\ (j \in S <=> j \in T) /\ (j \in P <=> j \in Q)
                               /\ Outstandings[j] = Outstandings'[j] /\ Credited[j] = Credited'[j]
  BY <1>2, <1>5 DEF InvoicesIn
<1>7. /\ (i \in S <=> invoice[i].status = "sent") /\ (i \in T <=> invoice'[i].status = "sent")
      /\ (i \in P <=> invoice[i].status = "paid") /\ (i \in Q <=> invoice'[i].status = "paid")
  BY DEF InvoicesIn
<1> DEFINE s == SumFunctionOnSet(Outstandings, S)
           p == SumFunctionOnSet(Credited, P)
<1>8. gl.receivable = s - p /\ gl.receivable \in Int
  BY DEF InvoiceInv, ReceivablesReconcile, Outstandings, Credited, GlRow
<1>9. s \in Int /\ p \in Int
  <2>1. IsFiniteSet(S) /\ IsFiniteSet(P)
    BY <1>1, FS_Subset
  <2>2. SumFunctionOnSet(Outstandings, S) \in Int
    BY <1>1, <1>2, <2>1, SumInt
  <2>3. SumFunctionOnSet(Credited, P) \in Int
    BY <1>1, <1>2, <2>1, SumInt
  <2> QED  BY <2>2, <2>3
<1> HIDE DEF S, T, P, Q
<1>10. SumFunctionOnSet(Outstandings', T) = s
          + ((IF i \in T THEN Outstandings'[i] ELSE 0) - (IF i \in S THEN Outstandings[i] ELSE 0))
  <2>1. \A j \in Invoice : Outstandings[j] \in Int /\ Outstandings'[j] \in Int
    BY <1>2, <1>5
  <2>2. \A j \in Invoice \ {i} : (j \in S <=> j \in T) /\ (j \in S => Outstandings[j] = Outstandings'[j])
    BY <1>6
  <2> QED  BY <1>1, <2>1, <2>2, SumStep
<1>11. SumFunctionOnSet(Credited', Q) = p
          + ((IF i \in Q THEN Credited'[i] ELSE 0) - (IF i \in P THEN Credited[i] ELSE 0))
  <2>1. \A j \in Invoice : Credited[j] \in Int /\ Credited'[j] \in Int
    BY <1>2, <1>5
  <2>2. \A j \in Invoice \ {i} : (j \in P <=> j \in Q) /\ (j \in P => Credited[j] = Credited'[j])
    BY <1>6
  <2> QED  BY <1>1, <2>1, <2>2, SumStep
<1> HIDE DEF s, p
<1>12. gl'.receivable = SumFunctionOnSet(Outstandings', T) - SumFunctionOnSet(Credited', Q)
  <2>1. /\ Price[i] \in Int /\ invoice[i].credited \in Int /\ invoice'[i].credited \in Int
    BY <1>3, OutstandingIs
  <2>2. /\ Outstandings[i] = Price[i] - invoice[i].credited
        /\ Outstandings'[i] = Price[i] - invoice'[i].credited
        /\ Credited[i] = invoice[i].credited /\ Credited'[i] = invoice'[i].credited
    BY <1>2, <1>5
  <2> QED  BY <1>7, <1>8, <1>9, <1>10, <1>11, <2>1, <2>2
<1>13. ReceivablesReconcile'
  BY <1>12 DEF ReceivablesReconcile, Outstandings, Credited, T, Q
<1> QED  BY <1>13 DEF InvoiceInv

LEMMA ReceivableStays ==
    ASSUME InvoiceInv, invoice' = invoice, gl'.receivable = gl.receivable
    PROVE  InvoiceInv'
BY DEF InvoiceInv, ReceivablesReconcile, Outstanding, InvoicesIn

InvoiceAction(i) ==
    \/ RegisterInvoice(i) \/ SendInvoice(i) \/ PayInvoice(i) \/ VoidInvoice(i)
    \/ \E amount \in Credits : IssueCreditNote(i, amount)

LEMMA InvoiceActionKeeps ==
    ASSUME InvoiceInv, gl \in GlRow, NEW i \in Invoice, InvoiceAction(i)
    PROVE  /\ InvoiceInv' /\ gl' \in GlRow
           /\ gl'.fixedAssets = gl.fixedAssets /\ gl'.accumulated = gl.accumulated
           /\ UNCHANGED <<asset, custody, history, statement, locked>>
           /\ cash' = cash \/ \E amount \in Int : cash' = Append(cash, amount)
<1>1. /\ Price[i] \in Nat /\ invoice[i].credited \in Nat /\ invoice[i].credited <= Price[i]
      /\ invoice[i].status \in {"absent", "draft", "void"} => invoice[i].credited = 0
      /\ gl.receivable \in Int /\ gl.fixedAssets \in Int /\ gl.accumulated \in Int
  BY OutstandingIs DEF InvoiceInv, GlRow
<1>2. ASSUME NEW from, NEW to \in {"draft", "sent", "paid", "void"}, InvoiceStep(i, from, to)
      PROVE  /\ invoice' \in [Invoice -> InvoiceRow] /\ \A j \in Invoice \ {i} : invoice'[j] = invoice[j]
             /\ invoice'[i].status = to /\ invoice'[i].credited = invoice[i].credited
             /\ invoice[i].status \in from
             /\ UNCHANGED <<asset, custody, history, statement, locked>>
  BY <1>2 DEF InvoiceStep, InvoiceInv, InvoiceRow
<1>3. CASE RegisterInvoice(i) \/ VoidInvoice(i)
  <2>1. /\ InvoiceStep(i, {"absent"}, "draft") \/ InvoiceStep(i, {"draft"}, "void")
        /\ UNCHANGED <<gl, cash>>
    BY <1>3 DEF RegisterInvoice, VoidInvoice, Voidable
  <2>2. /\ invoice' \in [Invoice -> InvoiceRow] /\ \A j \in Invoice \ {i} : invoice'[j] = invoice[j]
        /\ invoice'[i].status \in {"draft", "void"} /\ invoice'[i].credited = 0
        /\ invoice[i].status \in {"absent", "draft"}
        /\ UNCHANGED <<asset, custody, history, statement, locked>>
    BY <1>1, <1>2, <2>1
  <2>3. gl'.receivable = gl.receivable + (0 - 0) - (0 - 0)
    BY <1>1, <2>1
  <2> QED  BY <1>1, <2>1, <2>2, <2>3, ReceivableMoves
<1>4. CASE SendInvoice(i)
  <2>1. InvoiceStep(i, {"draft"}, "sent") /\ Post(Price[i], 0, 0) /\ cash' = cash
    BY <1>4 DEF SendInvoice
  <2>2. /\ invoice' \in [Invoice -> InvoiceRow] /\ \A j \in Invoice \ {i} : invoice'[j] = invoice[j]
        /\ invoice'[i].status = "sent" /\ invoice'[i].credited = 0 /\ invoice[i].status = "draft"
        /\ UNCHANGED <<asset, custody, history, statement, locked>>
    BY <1>1, <1>2, <2>1
  <2>3. /\ gl' \in GlRow /\ gl'.receivable = gl.receivable + Price[i]
        /\ gl'.fixedAssets = gl.fixedAssets + 0 /\ gl'.accumulated = gl.accumulated + 0
    BY <1>1, <2>1 DEF Post, GlRow
  <2>4. gl'.receivable = gl.receivable + ((Price[i] - 0) - 0) - (0 - 0)
    BY <1>1, <2>3
  <2> QED  BY <1>1, <2>1, <2>2, <2>3, <2>4, ReceivableMoves
<1>5. CASE PayInvoice(i)
  <2>1. InvoiceStep(i, {"sent"}, "paid") /\ Post(-Price[i], 0, 0) /\ PostCash(Price[i])
    BY <1>5 DEF PayInvoice
  <2>2. /\ invoice' \in [Invoice -> InvoiceRow] /\ \A j \in Invoice \ {i} : invoice'[j] = invoice[j]
        /\ invoice'[i].status = "paid" /\ invoice'[i].credited = invoice[i].credited
        /\ invoice[i].status = "sent"
        /\ UNCHANGED <<asset, custody, history, statement, locked>>
    BY <1>2, <2>1
  <2>3. /\ gl' \in GlRow /\ gl'.receivable = gl.receivable + (-Price[i])
        /\ gl'.fixedAssets = gl.fixedAssets + 0 /\ gl'.accumulated = gl.accumulated + 0
    BY <1>1, <2>1 DEF Post, GlRow
  <2>4. gl'.receivable = gl.receivable + (0 - (Price[i] - invoice[i].credited)) - (invoice[i].credited - 0)
    BY <1>1, <2>3
  <2>5. cash' = cash \/ \E amount \in Int : cash' = Append(cash, amount)
    BY <1>1, <2>1 DEF PostCash
  <2>6. InvoiceInv'
    BY <1>1, <2>2, <2>4, ReceivableMoves
  <2>7. gl'.fixedAssets = gl.fixedAssets /\ gl'.accumulated = gl.accumulated
    BY <1>1, <2>3
  <2> QED  BY <2>2, <2>3, <2>5, <2>6, <2>7
<1>6. ASSUME NEW amount \in Credits, IssueCreditNote(i, amount)
      PROVE  /\ InvoiceInv' /\ gl' \in GlRow
             /\ gl'.fixedAssets = gl.fixedAssets /\ gl'.accumulated = gl.accumulated
             /\ UNCHANGED <<asset, custody, history, statement, locked>> /\ cash' = cash
  <2>1. amount \in Nat
    BY BooksAssumption
  <2>2. /\ invoice[i].status \in {"sent", "paid"} /\ invoice[i].credited + amount <= Price[i]
        /\ invoice' = [invoice EXCEPT ![i].credited = @ + amount] /\ Post(-amount, 0, 0)
        /\ UNCHANGED <<asset, custody, history, statement, cash, locked>>
    BY <1>6 DEF IssueCreditNote
  <2>3. /\ invoice' \in [Invoice -> InvoiceRow] /\ \A j \in Invoice \ {i} : invoice'[j] = invoice[j]
        /\ invoice'[i].status = invoice[i].status /\ invoice'[i].credited = invoice[i].credited + amount
    BY <1>1, <2>1, <2>2 DEF InvoiceInv, InvoiceRow
  <2>4. /\ gl' \in GlRow /\ gl'.receivable = gl.receivable + (-amount)
        /\ gl'.fixedAssets = gl.fixedAssets + 0 /\ gl'.accumulated = gl.accumulated + 0
    BY <1>1, <2>1, <2>2 DEF Post, GlRow
  <2>5. gl'.receivable = gl.receivable
            + ((IF invoice'[i].status = "sent" THEN Price[i] - invoice'[i].credited ELSE 0)
               - (IF invoice[i].status = "sent" THEN Price[i] - invoice[i].credited ELSE 0))
            - ((IF invoice'[i].status = "paid" THEN invoice'[i].credited ELSE 0)
               - (IF invoice[i].status = "paid" THEN invoice[i].credited ELSE 0))
    BY <1>1, <2>1, <2>2, <2>3, <2>4
  <2> QED  BY <1>1, <2>1, <2>2, <2>3, <2>4, <2>5, ReceivableMoves
<1> QED  BY <1>3, <1>4, <1>5, <1>6 DEF InvoiceAction

-----------------------------------------------------------------------------
(* The depreciation history.                                               *)

LEMMA RunningEmpty == Running(<<>>) = 0
<1>1. SinceRevalued(<<>>) = {}
  BY DEF SinceRevalued
<1> DEFINE f == [n \in DOMAIN <<>> |-> <<>>[n].amount]
<1>2. Running(<<>>) = SumFunctionOnSet(f, {})
  BY <1>1 DEF Running
<1> HIDE DEF f
<1> QED  BY <1>2, SumEmpty

LEMMA RunningAppend ==
    ASSUME NEW events \in Seq(Event), NEW e \in Event
    PROVE  Running(Append(events, e)) =
               IF e.kind = "revaluation" THEN 0 ELSE Running(events) + e.amount
<1> DEFINE more == Append(events, e)
           k == Len(events) + 1
<1>1. /\ more \in Seq(Event) /\ DOMAIN more = 1..k /\ DOMAIN events = 1..(k - 1)
      /\ Len(more) = k /\ Len(events) = k - 1 /\ k \in Nat \ {0} /\ more[k] = e
      /\ \A n \in 1..(k - 1) : more[n] = events[n]
  OBVIOUS
<1>2. e.amount \in Int /\ \A n \in 1..(k - 1) : events[n].amount \in Int
  <2>1. \A n \in DOMAIN events : events[n] \in Event
    OBVIOUS
  <2>2. \A n \in 1..(k - 1) : events[n] \in Event
    BY <1>1, <2>1
  <2>3. \A any \in Event : any.amount \in Int
    BY DEF Event
  <2> QED  BY <2>2, <2>3
<1> DEFINE S == SinceRevalued(events)
           T == SinceRevalued(more)
           f == [n \in DOMAIN events |-> events[n].amount]
           g == [n \in DOMAIN more |-> more[n].amount]
<1> HIDE DEF more, k
<1>3. /\ \A n \in 1..(k - 1) : f[n] = events[n].amount /\ g[n] = events[n].amount
      /\ g[k] = e.amount
  BY <1>1
<1>4. Running(events) = SumFunctionOnSet(f, S) /\ Running(more) = SumFunctionOnSet(g, T)
  BY DEF Running
<1>5. S \subseteq 1..(k - 1)
  BY <1>1 DEF SinceRevalued
<1>6. CASE e.kind = "revaluation"
  <2>1. ASSUME NEW n \in T PROVE FALSE
    <3>1. n \in 1..k /\ k \in n..k
      BY <1>1 DEF SinceRevalued
    <3>2. more[k].kind # "revaluation"
      BY <1>1, <3>1 DEF SinceRevalued
    <3> QED  BY <1>1, <1>6, <3>2
  <2>2. T = {}
    BY <2>1
  <2> HIDE DEF T, g
  <2> QED  BY <1>4, <1>6, <2>2, SumEmpty DEF more
<1>7. CASE e.kind # "revaluation"
  <2>1. ASSUME NEW n \in 1..(k - 1) PROVE n \in S <=> n \in T
    <3>1. n..(k - 1) \subseteq 1..(k - 1) /\ n..k = n..(k - 1) \cup {k}
      BY <1>1
    <3>2. \A m \in n..(k - 1) : more[m].kind = events[m].kind
      BY <1>1, <3>1
    <3>3. n \in S <=> \A m \in n..(k - 1) : events[m].kind # "revaluation"
      BY <1>1 DEF SinceRevalued
    <3>4. n \in T <=> \A m \in n..k : more[m].kind # "revaluation"
      <4>1. n \in 1..k
        BY <1>1
      <4> QED  BY <1>1, <4>1 DEF SinceRevalued
    <3> QED  BY <1>1, <1>7, <3>1, <3>2, <3>3, <3>4
  <2>2. k \in T
    <3>1. k \in 1..k /\ k..k = {k}
      BY <1>1
    <3> QED  BY <1>1, <1>7, <3>1 DEF SinceRevalued
  <2>3. T \subseteq 1..k /\ 1..k = 1..(k - 1) \cup {k} /\ k \notin 1..(k - 1)
    BY <1>1 DEF SinceRevalued
  <2> HIDE DEF S, T, f, g
  <2>4. T = S \cup {k} /\ k \notin S
    BY <1>5, <2>1, <2>2, <2>3
  <2>5. IsFiniteSet(S)
    <3>1. IsFiniteSet(1..(k - 1))
      BY <1>1, FS_Interval
    <3> QED  BY <1>5, <3>1, FS_Subset
  <2>6. \A n \in S \cup {k} : g[n] \in Int
    BY <1>2, <1>3, <1>5
  <2>7. SumFunctionOnSet(g, S \cup {k}) = g[k] + SumFunctionOnSet(g, S)
    BY <2>4, <2>5, <2>6, SumAdd
  <2>8. SumFunctionOnSet(g, S) = SumFunctionOnSet(f, S)
    <3>1. \A n \in S : g[n] = f[n]
      BY <1>3, <1>5
    <3> QED  BY <2>5, <3>1, SumEqual
  <2>9. SumFunctionOnSet(f, S) \in Int
    <3>1. \A n \in S : f[n] \in Int
      BY <1>2, <1>3, <1>5
    <3> QED  BY <2>5, <3>1, SumInt
  <2>10. SumFunctionOnSet(g, T) = SumFunctionOnSet(f, S) + e.amount
    BY <1>2, <1>3, <2>4, <2>7, <2>8, <2>9
  <2> QED  BY <1>4, <1>7, <2>10 DEF more
<1> QED  BY <1>6, <1>7

-----------------------------------------------------------------------------
(* Fixed assets.                                                           *)

(* What was not bought yet has no history.                                 *)
AssetInv ==
    /\ asset \in [Asset -> AssetRow] /\ custody \subseteq Assignments
    /\ history \in [Asset -> Seq(Event)]
    /\ \A a \in Asset : /\ asset[a].accumulated <= Max({0, Depreciable(a)})
                        /\ asset[a].status = "absent" => history[a] = <<>>
    /\ AssetsReconcile /\ HistoryExplains

LEMMA AssetNumbers ==
    ASSUME asset \in [Asset -> AssetRow], NEW a \in Asset
    PROVE  /\ asset[a].cost \in Nat /\ asset[a].salvage \in Nat /\ asset[a].life \in Nat \ {0}
           /\ asset[a].accumulated \in Nat
           /\ Depreciable(a) \in Int /\ BookValue(a) \in Int
           /\ asset[a].accumulated <= Max({0, Depreciable(a)}) <=>
                 asset[a].accumulated = 0 \/ asset[a].accumulated <= Depreciable(a)
<1>1. /\ asset[a].cost \in Nat /\ asset[a].salvage \in Nat /\ asset[a].life \in Nat \ {0}
      /\ asset[a].accumulated \in Nat
  BY DEF AssetRow
<1>2. Depreciable(a) \in Int /\ BookValue(a) \in Int
  BY <1>1 DEF Depreciable, BookValue
<1>3. Max({0, Depreciable(a)}) = IF 0 >= Depreciable(a) THEN 0 ELSE Depreciable(a)
  BY <1>2, LargerOfTwo
<1> QED  BY <1>1, <1>2, <1>3

BookValues == [a \in Asset |-> BookValue(a)]

(* The book values that change and the accounts that follow them.          *)
LEMMA AssetsMove ==
    ASSUME AssetInv, gl \in GlRow, gl' \in GlRow, asset' \in [Asset -> AssetRow], NEW a \in Asset,
           \A b \in Asset \ {a} : asset'[b] = asset[b],
           NEW before, before = (IF asset[a].status = "active" THEN BookValue(a) ELSE 0),
           NEW after, after = (IF asset'[a].status = "active" THEN BookValue(a)' ELSE 0),
           gl'.fixedAssets - gl'.accumulated = gl.fixedAssets - gl.accumulated + (after - before)
    PROVE  AssetsReconcile'
<1> DEFINE f == BookValues
           h == BookValues'
           T == InUse
           U == InUse'
<1>1. T \in SUBSET Asset /\ U \in SUBSET Asset /\ IsFiniteSet(Asset)
  BY BooksAssumption DEF InUse
<1>2. \A b \in Asset : f[b] = BookValue(b) /\ h[b] = BookValue(b)'
  BY DEF BookValues
<1>3. \A b \in Asset : BookValue(b) \in Int /\ BookValue(b)' \in Int
  <2> SUFFICES ASSUME NEW b \in Asset PROVE BookValue(b) \in Int /\ BookValue(b)' \in Int
    OBVIOUS
  <2>1. /\ asset[b].cost \in Nat /\ asset[b].accumulated \in Nat
        /\ asset'[b].cost \in Nat /\ asset'[b].accumulated \in Nat
    BY DEF AssetInv, AssetRow
  <2> QED  BY <2>1 DEF BookValue
<1>4. \A b \in Asset \ {a} : (b \in T <=> b \in U) /\ (b \in T => f[b] = h[b])
  BY <1>2 DEF InUse, BookValue
<1>5. (a \in T <=> asset[a].status = "active") /\ (a \in U <=> asset'[a].status = "active")
  BY DEF InUse
<1>6. gl.fixedAssets - gl.accumulated = SumFunctionOnSet(f, T)
  BY DEF AssetInv, AssetsReconcile, BookValues
<1>7. \A b \in Asset : f[b] \in Int /\ h[b] \in Int
  BY <1>2, <1>3
<1> HIDE DEF f, h, T, U
<1>8. SumFunctionOnSet(h, U) = SumFunctionOnSet(f, T)
         + ((IF a \in U THEN h[a] ELSE 0) - (IF a \in T THEN f[a] ELSE 0))
  BY <1>1, <1>4, <1>7, SumStep
<1>9. SumFunctionOnSet(h, U) = SumFunctionOnSet(f, T) + (after - before)
  BY <1>2, <1>5, <1>8
<1>10. gl'.fixedAssets - gl'.accumulated = SumFunctionOnSet(h, U)
  BY <1>6, <1>9
<1> QED  BY <1>10 DEF AssetsReconcile, BookValues, h, U

LEMMA AssetsStay ==
    ASSUME AssetInv, UNCHANGED <<asset, custody, history>>,
           gl'.fixedAssets = gl.fixedAssets, gl'.accumulated = gl.accumulated
    PROVE  AssetInv'
BY DEF AssetInv, AssetsReconcile, HistoryExplains, BookValue, Depreciable, InUse

LEMMA RegisterKeepsAssets ==
    ASSUME AssetInv, gl \in GlRow, NEW a \in Asset, NEW s \in Shapes,
           NEW assignment \in {"untracked", "available", "assigned"},
           NEW holder \in Employee \cup {Nobody}, RegisterAsset(a, s, assignment, holder)
    PROVE  AssetInv' /\ gl' \in GlRow /\ gl'.receivable = gl.receivable
<1> DEFINE row == [status |-> "active", cost |-> s.cost, salvage |-> s.salvage, life |-> s.life,
                   accumulated |-> s.builtUp, assignment |-> assignment, holder |-> holder]
           opening == [kind |-> "opening", amount |-> s.builtUp]
<1>1. /\ s.cost \in Nat \ {0} /\ s.salvage \in Nat /\ s.life \in Nat \ {0} /\ s.builtUp \in Nat
      /\ s.salvage < s.cost /\ s.builtUp <= s.cost - s.salvage
  <2>1. s \in Terms
    BY BooksAssumption
  <2> QED  BY <2>1, BooksAssumption DEF Terms
<1>2. /\ asset[a].status = "absent" /\ asset' = [asset EXCEPT ![a] = row]
      /\ custody' = custody \cup ({a} \X ({holder} \ {Nobody}))
      /\ history' = IF s.builtUp = 0 THEN history ELSE [history EXCEPT ![a] = <<opening>>]
      /\ Post(0, s.cost, s.builtUp)
  BY DEF RegisterAsset
<1>3. row \in AssetRow /\ opening \in Event
  BY <1>1 DEF AssetRow, Event
<1>4. /\ row.status = "active" /\ row.cost = s.cost /\ row.salvage = s.salvage
      /\ row.accumulated = s.builtUp /\ opening.kind = "opening" /\ opening.amount = s.builtUp
  OBVIOUS
<1> HIDE DEF row, opening
<1>5. /\ asset' \in [Asset -> AssetRow] /\ asset'[a] = row
      /\ \A b \in Asset \ {a} : asset'[b] = asset[b]
  BY <1>2, <1>3 DEF AssetInv
<1>6. custody' \subseteq Assignments
  BY <1>2 DEF AssetInv, Assignments
<1>7. history[a] = <<>>
  BY <1>2 DEF AssetInv
<1>8. /\ history' \in [Asset -> Seq(Event)] /\ \A b \in Asset \ {a} : history'[b] = history[b]
      /\ Running(history'[a]) = s.builtUp
  <2>1. CASE s.builtUp = 0
    BY <1>2, <1>7, <2>1, RunningEmpty DEF AssetInv
  <2>2. CASE s.builtUp # 0
    <3>1. /\ history' = [history EXCEPT ![a] = <<opening>>] /\ <<opening>> \in Seq(Event)
          /\ <<opening>> = Append(<<>>, opening) /\ <<>> \in Seq(Event)
      BY <1>2, <1>3, <2>2
    <3>2. Running(Append(<<>>, opening)) = 0 + s.builtUp
      BY <1>3, <1>4, <3>1, RunningAppend, RunningEmpty
    <3> QED  BY <1>1, <3>1, <3>2 DEF AssetInv
  <2> QED  BY <2>1, <2>2
<1>9. HistoryExplains'
  BY <1>4, <1>5, <1>8 DEF AssetInv, HistoryExplains
<1>10. \A b \in Asset : /\ asset'[b].accumulated <= Max({0, Depreciable(b)'})
                        /\ asset'[b].status = "absent" => history'[b] = <<>>
  <2>1. ASSUME NEW b \in Asset \ {a}
        PROVE  /\ asset'[b].accumulated <= Max({0, Depreciable(b)'})
               /\ asset'[b].status = "absent" => history'[b] = <<>>
    BY <1>5, <1>8 DEF AssetInv, Depreciable
  <2>2. asset'[a].accumulated <= Max({0, Depreciable(a)'})
    <3>1. Depreciable(a)' = s.cost - s.salvage /\ s.cost - s.salvage \in Nat
      BY <1>1, <1>4, <1>5 DEF Depreciable
    <3> QED  BY <1>1, <1>4, <1>5, <3>1, LargerOfTwo
  <2> QED  BY <1>4, <1>5, <2>1, <2>2
<1>11. /\ gl' \in GlRow /\ gl'.receivable = gl.receivable
       /\ gl'.fixedAssets = gl.fixedAssets + s.cost /\ gl'.accumulated = gl.accumulated + s.builtUp
       /\ gl.fixedAssets \in Int /\ gl.accumulated \in Int
  BY <1>1, <1>2 DEF Post, GlRow
<1>12. AssetsReconcile'
  <2>1. BookValue(a)' = s.cost - s.builtUp /\ asset'[a].status = "active"
    BY <1>4, <1>5 DEF BookValue
  <2>2. gl'.fixedAssets - gl'.accumulated = gl.fixedAssets - gl.accumulated + ((s.cost - s.builtUp) - 0)
    BY <1>1, <1>11
  <2>3. 0 = (IF asset[a].status = "active" THEN BookValue(a) ELSE 0)
    BY <1>2
  <2>4. s.cost - s.builtUp = (IF asset'[a].status = "active" THEN BookValue(a)' ELSE 0)
    BY <2>1
  <2> HIDE DEF BookValue
  <2> QED  BY <1>5, <1>11, <2>2, <2>3, <2>4, AssetsMove
<1> QED  BY <1>5, <1>6, <1>8, <1>9, <1>10, <1>11, <1>12 DEF AssetInv

(* A step that hands an asset over moves no amount.                        *)
LEMMA HandOverKeepsAssets ==
    ASSUME AssetInv, gl \in GlRow, NEW a \in Asset, NEW e \in Employee,
           AssignAsset(a, e) \/ ReturnAsset(a, e)
    PROVE  AssetInv' /\ gl' \in GlRow /\ gl'.receivable = gl.receivable
<1>1. gl' = gl /\ history' = history
  BY DEF AssignAsset, ReturnAsset
<1>2. /\ asset' \in [Asset -> AssetRow] /\ custody' \subseteq Assignments
      /\ \A b \in Asset : /\ asset'[b].status = asset[b].status /\ asset'[b].cost = asset[b].cost
                          /\ asset'[b].salvage = asset[b].salvage
                          /\ asset'[b].accumulated = asset[b].accumulated
  <2>1. PICK assignment \in {"available", "assigned"}, holder \in Employee \cup {Nobody} :
             asset' = [asset EXCEPT ![a].assignment = assignment, ![a].holder = holder]
    BY DEF AssignAsset, ReturnAsset
  <2> DEFINE row == [asset[a] EXCEPT !.assignment = assignment, !.holder = holder]
  <2>2. asset' = [asset EXCEPT ![a] = row] /\ asset \in [Asset -> AssetRow]
    BY <2>1 DEF AssetInv
  <2>3. /\ row \in AssetRow /\ row.status = asset[a].status /\ row.cost = asset[a].cost
        /\ row.salvage = asset[a].salvage /\ row.accumulated = asset[a].accumulated
    BY <2>2 DEF AssetRow
  <2>4. custody' \subseteq Assignments
    BY DEF AssignAsset, ReturnAsset, AssetInv, Assignments
  <2> HIDE DEF row
  <2> QED  BY <2>2, <2>3, <2>4
<1>3. /\ \A b \in Asset : Depreciable(b)' = Depreciable(b) /\ BookValue(b)' = BookValue(b)
      /\ InUse' = InUse
  BY <1>2 DEF Depreciable, BookValue, InUse
<1>4. BookValues' = BookValues
  BY <1>3 DEF BookValues
<1>5. AssetsReconcile'
  BY <1>1, <1>3, <1>4 DEF AssetInv, AssetsReconcile, BookValues
<1>6. HistoryExplains'
  BY <1>1, <1>2 DEF AssetInv, HistoryExplains
<1> QED  BY <1>1, <1>2, <1>3, <1>5, <1>6 DEF AssetInv

LEMMA RevaluationKeepsAssets ==
    ASSUME AssetInv, gl \in GlRow, NEW a \in Asset, NEW value \in Values, RevalueAsset(a, value)
    PROVE  AssetInv' /\ gl' \in GlRow /\ gl'.receivable = gl.receivable
<1> DEFINE event == [kind |-> "revaluation", amount |-> 0]
<1>1. /\ value \in Nat /\ asset[a].status = "active"
      /\ asset' = [asset EXCEPT ![a] = [asset[a] EXCEPT !.cost = value, !.accumulated = 0]]
      /\ history' = [history EXCEPT ![a] = Append(@, event)]
      /\ Post(0, value - BookValue(a), 0) /\ custody' = custody
  BY BooksAssumption DEF RevalueAsset, Revalued, Surplus
<1>2. event \in Event /\ event.kind = "revaluation"
  BY DEF Event
<1> HIDE DEF event
<1>3. /\ asset' \in [Asset -> AssetRow] /\ asset'[a].status = "active"
      /\ asset'[a].cost = value /\ asset'[a].accumulated = 0
      /\ \A b \in Asset \ {a} : asset'[b] = asset[b]
  BY <1>1 DEF AssetInv, AssetRow
<1>4. history[a] \in Seq(Event)
  BY DEF AssetInv
<1>5. /\ history' \in [Asset -> Seq(Event)] /\ history'[a] = Append(history[a], event)
      /\ \A b \in Asset \ {a} : history'[b] = history[b]
  BY <1>1, <1>2, <1>4 DEF AssetInv
<1>6. Running(history'[a]) = 0
  BY <1>2, <1>4, <1>5, RunningAppend
<1>7. HistoryExplains'
  BY <1>3, <1>5, <1>6 DEF AssetInv, HistoryExplains
<1>8. \A b \in Asset : /\ asset'[b].accumulated <= Max({0, Depreciable(b)'})
                       /\ asset'[b].status = "absent" => history'[b] = <<>>
  <2>1. ASSUME NEW b \in Asset \ {a}
        PROVE  /\ asset'[b].accumulated <= Max({0, Depreciable(b)'})
               /\ asset'[b].status = "absent" => history'[b] = <<>>
    BY <1>3, <1>5 DEF AssetInv, Depreciable
  <2>2. asset'[a].accumulated <= Max({0, Depreciable(a)'})
    <3>1. Depreciable(a)' \in Int
      BY <1>3 DEF AssetRow, Depreciable
    <3> QED  BY <1>3, <3>1, LargerOfTwo
  <2> QED  BY <1>3, <2>1, <2>2
<1>9. BookValue(a) \in Int
  BY AssetNumbers DEF AssetInv
<1>10. /\ gl' \in GlRow /\ gl'.receivable = gl.receivable
       /\ gl'.fixedAssets = gl.fixedAssets + (value - BookValue(a))
       /\ gl'.accumulated = gl.accumulated
       /\ gl.fixedAssets \in Int /\ gl.accumulated \in Int
  BY <1>1, <1>9 DEF Post, GlRow
<1>11. AssetsReconcile'
  <2>1. BookValue(a)' = value
    BY <1>1, <1>3 DEF BookValue
  <2>2. gl'.fixedAssets - gl'.accumulated = gl.fixedAssets - gl.accumulated + (value - BookValue(a))
    BY <1>1, <1>9, <1>10
  <2>3. BookValue(a) = (IF asset[a].status = "active" THEN BookValue(a) ELSE 0)
    BY <1>1
  <2>4. value = (IF asset'[a].status = "active" THEN BookValue(a)' ELSE 0)
    BY <1>3, <2>1
  <2> HIDE DEF BookValue
  <2> QED  BY <1>3, <1>10, <2>2, <2>3, <2>4, AssetsMove
<1> QED  BY <1>1, <1>3, <1>5, <1>7, <1>8, <1>10, <1>11 DEF AssetInv

LEMMA DisposalKeepsAssets ==
    ASSUME AssetInv, gl \in GlRow, NEW a \in Asset, NEW proceeds \in Proceeds, DisposeAsset(a, proceeds)
    PROVE  AssetInv' /\ gl' \in GlRow /\ gl'.receivable = gl.receivable
<1>1. /\ asset[a].status = "active" /\ history' = history
      /\ asset' = [asset EXCEPT ![a].status = "disposed", ![a].assignment = "untracked",
                                ![a].holder = Nobody]
      /\ custody' \subseteq custody
      /\ Post(0, -asset[a].cost, -asset[a].accumulated)
  BY DEF DisposeAsset, Surrendered
<1>2. /\ asset' \in [Asset -> AssetRow] /\ asset'[a].status = "disposed"
      /\ \A b \in Asset \ {a} : asset'[b] = asset[b]
      /\ \A b \in Asset : /\ asset'[b].cost = asset[b].cost /\ asset'[b].salvage = asset[b].salvage
                          /\ asset'[b].accumulated = asset[b].accumulated
                          /\ asset'[b].status = "absent" => asset[b].status = "absent"
  <2> DEFINE row == [asset[a] EXCEPT !.status = "disposed", !.assignment = "untracked", !.holder = Nobody]
  <2>1. asset' = [asset EXCEPT ![a] = row] /\ asset \in [Asset -> AssetRow]
    BY <1>1 DEF AssetInv
  <2>2. /\ row \in AssetRow /\ row.status = "disposed" /\ row.cost = asset[a].cost
        /\ row.salvage = asset[a].salvage /\ row.accumulated = asset[a].accumulated
    BY <2>1 DEF AssetRow
  <2> HIDE DEF row
  <2> QED  BY <2>1, <2>2
<1>3. HistoryExplains'
  BY <1>1, <1>2 DEF AssetInv, HistoryExplains
<1>4. \A b \in Asset : Depreciable(b)' = Depreciable(b)
  BY <1>2 DEF Depreciable
<1>5. /\ asset[a].cost \in Nat /\ asset[a].accumulated \in Nat
  BY AssetNumbers DEF AssetInv
<1>6. /\ gl' \in GlRow /\ gl'.receivable = gl.receivable
      /\ gl'.fixedAssets = gl.fixedAssets - asset[a].cost
      /\ gl'.accumulated = gl.accumulated - asset[a].accumulated
      /\ gl.fixedAssets \in Int /\ gl.accumulated \in Int
  BY <1>1, <1>5 DEF Post, GlRow
<1>7. AssetsReconcile'
  <2>1. BookValue(a) = asset[a].cost - asset[a].accumulated
    BY DEF BookValue
  <2>2. gl'.fixedAssets - gl'.accumulated = gl.fixedAssets - gl.accumulated + (0 - BookValue(a))
    BY <1>5, <1>6, <2>1
  <2>3. BookValue(a) = (IF asset[a].status = "active" THEN BookValue(a) ELSE 0)
    BY <1>1
  <2>4. 0 = (IF asset'[a].status = "active" THEN BookValue(a)' ELSE 0)
    BY <1>2
  <2> HIDE DEF BookValue
  <2> QED  BY <1>2, <1>6, <2>2, <2>3, <2>4, AssetsMove
<1> QED  BY <1>1, <1>2, <1>3, <1>4, <1>6, <1>7 DEF AssetInv

(* A charge is a part of what is left to write off.                        *)
LEMMA ChargePart ==
    ASSUME AssetInv, NEW a \in Asset
    PROVE  /\ Charge(a) \in Int
           /\ MayDepreciate(a) => /\ Charge(a) \in Nat /\ asset[a].status = "active"
                                  /\ asset[a].accumulated + Charge(a) <= Depreciable(a)
<1>1. /\ asset[a].life \in Nat \ {0} /\ asset[a].accumulated \in Nat /\ Depreciable(a) \in Int
  BY AssetNumbers DEF AssetInv
<1> DEFINE part == Depreciable(a) \div asset[a].life
           rest == Depreciable(a) - asset[a].accumulated
<1>2. part \in Int /\ rest \in Int
  BY <1>1
<1>3. Charge(a) = Min({part, rest})
  BY DEF Charge
<1>4. Charge(a) = IF part <= rest THEN part ELSE rest
  <2> HIDE DEF part, rest
  <2> QED  BY <1>2, <1>3, SmallerOfTwo
<1>5. Charge(a) \in Int /\ Charge(a) <= rest
  <2> HIDE DEF part, rest
  <2> QED  BY <1>2, <1>4
<1>6. ASSUME MayDepreciate(a)
      PROVE  /\ Charge(a) \in Nat /\ asset[a].status = "active"
             /\ asset[a].accumulated + Charge(a) <= Depreciable(a)
  <2>1. Charge(a) > 0 /\ asset[a].status = "active"
    BY <1>6 DEF MayDepreciate
  <2> HIDE DEF Charge
  <2> QED  BY <1>1, <1>5, <2>1
<1> QED  BY <1>5, <1>6

Charges == [a \in Asset |-> Charge(a)]

(* Every asset that is due is charged its part, and the ledger the total.  *)
LEMMA DepreciationKeepsAssets ==
    ASSUME AssetInv, gl \in GlRow, NEW due \in SUBSET Asset, \A a \in due : MayDepreciate(a),
           Depreciate(due)
    PROVE  AssetInv' /\ gl' \in GlRow /\ gl'.receivable = gl.receivable
<1> DEFINE total == SumFunctionOnSet(Charges, due)
           event(a) == [kind |-> "depreciation", amount |-> Charge(a)]
<1>1. /\ asset' = [a \in Asset |->
             IF a \in due THEN [asset[a] EXCEPT !.accumulated = @ + Charge(a)] ELSE asset[a]]
      /\ history' = [a \in Asset |-> IF a \in due THEN Append(history[a], event(a)) ELSE history[a]]
      /\ Post(0, 0, total) /\ custody' = custody
  BY DEF Depreciate, Charges
<1>2. \A a \in Asset : Charge(a) \in Int /\ Charges[a] = Charge(a)
  BY ChargePart DEF Charges
<1>3. \A a \in due : /\ Charge(a) \in Nat /\ asset[a].status = "active"
                     /\ asset[a].accumulated + Charge(a) <= Depreciable(a)
  BY ChargePart
<1>4. IsFiniteSet(Asset) /\ IsFiniteSet(due) /\ IsFiniteSet(InUse) /\ due \subseteq InUse /\ InUse \subseteq Asset
  BY <1>3, BooksAssumption, FS_Subset DEF InUse
<1>5. total \in Int
  BY <1>2, <1>4, SumInt
<1> HIDE DEF total, Charge
<1>6. /\ asset' \in [Asset -> AssetRow]
      /\ \A a \in Asset : /\ asset'[a].status = asset[a].status /\ asset'[a].cost = asset[a].cost
                          /\ asset'[a].salvage = asset[a].salvage
                          /\ asset'[a].accumulated =
                                asset[a].accumulated + (IF a \in due THEN Charge(a) ELSE 0)
  <2>1. ASSUME NEW a \in Asset
        PROVE  /\ asset'[a] \in AssetRow
               /\ asset'[a].status = asset[a].status /\ asset'[a].cost = asset[a].cost
               /\ asset'[a].salvage = asset[a].salvage
               /\ asset'[a].accumulated = asset[a].accumulated + (IF a \in due THEN Charge(a) ELSE 0)
    <3>1. asset[a] \in AssetRow /\ asset[a].accumulated \in Nat
      BY AssetNumbers DEF AssetInv
    <3>2. CASE a \in due
      <4>1. asset'[a] = [asset[a] EXCEPT !.accumulated = @ + Charge(a)] /\ asset[a].accumulated + Charge(a) \in Nat
        BY <1>1, <1>3, <3>1, <3>2
      <4> QED  BY <3>1, <3>2, <4>1 DEF AssetRow
    <3>3. CASE a \notin due
      BY <1>1, <3>1, <3>3
    <3> QED  BY <3>2, <3>3
  <2> QED  BY <1>1, <2>1
<1>7. \A a \in Asset : /\ Depreciable(a)' = Depreciable(a)
                       /\ BookValue(a)' = BookValue(a) - (IF a \in due THEN Charge(a) ELSE 0)
                       /\ BookValue(a) \in Int
  <2> SUFFICES ASSUME NEW a \in Asset
               PROVE  /\ Depreciable(a)' = Depreciable(a)
                      /\ BookValue(a)' = BookValue(a) - (IF a \in due THEN Charge(a) ELSE 0)
                      /\ BookValue(a) \in Int
    OBVIOUS
  <2>1. asset[a].cost \in Nat /\ asset[a].accumulated \in Nat /\ BookValue(a) \in Int
    BY AssetNumbers DEF AssetInv
  <2> QED  BY <1>2, <1>6, <2>1 DEF Depreciable, BookValue
<1>8. \A a \in Asset : /\ asset'[a].accumulated <= Max({0, Depreciable(a)'})
                       /\ asset'[a].status = "absent" => history'[a] = <<>>
  <2>1. ASSUME NEW a \in Asset \ due
        PROVE  /\ asset'[a].accumulated <= Max({0, Depreciable(a)'})
               /\ asset'[a].status = "absent" => history'[a] = <<>>
    <3>1. asset[a].accumulated \in Nat /\ Depreciable(a)' = Depreciable(a)
      BY <1>7, AssetNumbers DEF AssetInv
    <3>2. asset'[a].accumulated = asset[a].accumulated
      BY <1>6, <3>1
    <3> QED  BY <1>1, <1>6, <3>1, <3>2 DEF AssetInv
  <2>2. ASSUME NEW a \in due
        PROVE  /\ asset'[a].accumulated <= Max({0, Depreciable(a)'})
               /\ asset'[a].status # "absent"
    <3>1. asset'[a].accumulated = asset[a].accumulated + Charge(a) /\ asset'[a].status = "active"
      BY <1>3, <1>6
    <3>2. Depreciable(a) \in Int
      BY AssetNumbers DEF AssetInv
    <3>3. Max({0, Depreciable(a)}) = IF 0 >= Depreciable(a) THEN 0 ELSE Depreciable(a)
      BY <3>2, LargerOfTwo
    <3>4. asset[a].accumulated \in Nat /\ Depreciable(a)' = Depreciable(a)
      BY <1>7, AssetNumbers DEF AssetInv
    <3> QED  BY <1>3, <3>1, <3>2, <3>3, <3>4
  <2> QED  BY <2>1, <2>2
<1>9. \A a \in due : event(a) \in Event /\ event(a).kind = "depreciation" /\ event(a).amount = Charge(a)
  BY <1>3 DEF Event
<1> HIDE DEF event
<1>10. history' \in [Asset -> Seq(Event)] /\ \A a \in Asset :
          Running(history'[a]) = asset'[a].accumulated
  <2>1. ASSUME NEW a \in Asset
        PROVE  history'[a] \in Seq(Event) /\ Running(history'[a]) = asset'[a].accumulated
    <3>1. history[a] \in Seq(Event) /\ Running(history[a]) = asset[a].accumulated /\ asset[a].accumulated \in Nat
      BY AssetNumbers DEF AssetInv, HistoryExplains
    <3>2. CASE a \in due
      <4>1. history'[a] = Append(history[a], event(a)) /\ event(a) \in Event
        BY <1>1, <1>9, <3>2
      <4>2. Running(Append(history[a], event(a))) = Running(history[a]) + Charge(a)
        BY <1>9, <3>1, <3>2, RunningAppend
      <4> QED  BY <1>6, <3>1, <3>2, <4>1, <4>2
    <3>3. CASE a \notin due
      BY <1>1, <1>6, <3>1, <3>3
    <3> QED  BY <3>2, <3>3
  <2> QED  BY <1>1, <2>1
<1>11. HistoryExplains'
  BY <1>10 DEF HistoryExplains
<1>12. /\ gl' \in GlRow /\ gl'.receivable = gl.receivable
       /\ gl'.fixedAssets = gl.fixedAssets /\ gl'.accumulated = gl.accumulated + total
       /\ gl.fixedAssets \in Int /\ gl.accumulated \in Int
  BY <1>1, <1>5 DEF Post, GlRow
<1>13. AssetsReconcile'
  <2> DEFINE part == [a \in Asset |-> IF a \in due THEN Charges[a] ELSE 0]
             f == BookValues
             h == BookValues'
  <2>1. \A a \in InUse : part[a] = (IF a \in due THEN Charges[a] ELSE 0)
    BY <1>4
  <2>2. \A a \in InUse : Charges[a] \in Int
    BY <1>2, <1>4
  <2>3. \A a \in InUse : f[a] \in Int /\ part[a] \in Int /\ h[a] = f[a] - part[a]
    BY <1>2, <1>4, <1>7, <2>1 DEF BookValues
  <2>4. InUse' = InUse
    BY <1>6 DEF InUse
  <2>5. gl.fixedAssets - gl.accumulated = SumFunctionOnSet(f, InUse)
    BY DEF AssetInv, AssetsReconcile, BookValues
  <2> HIDE DEF part, f, h
  <2>6. total = SumFunctionOnSet(part, InUse)
    <3>1. due \in SUBSET InUse
      BY <1>4
    <3> QED  BY <1>4, <2>1, <2>2, <3>1, SumUnder DEF total
  <2>7. SumFunctionOnSet(h, InUse) = SumFunctionOnSet(f, InUse) - SumFunctionOnSet(part, InUse)
    BY <1>4, <2>3, SumMinus
  <2>8. gl'.fixedAssets - gl'.accumulated = SumFunctionOnSet(h, InUse)
    BY <1>5, <1>12, <2>5, <2>6, <2>7
  <2> QED  BY <2>4, <2>8 DEF AssetsReconcile, BookValues, h
<1> QED  BY <1>1, <1>6, <1>8, <1>10, <1>11, <1>12, <1>13 DEF AssetInv

-----------------------------------------------------------------------------
(* The bank statement.                                                     *)

(* A matched line is for what its entry is for, and the only one of it.     *)
StatementInv ==
    /\ statement \in [StatementLine -> LineRow] /\ cash \in Seq(Int)
    /\ \A l \in StatementLine : statement[l].matched # 0 =>
          /\ statement[l].matched \in 1..Len(cash) /\ statement[l].amount # 0
          /\ cash[statement[l].matched] = statement[l].amount
    /\ \A l, k \in StatementLine :
          statement[l].matched # 0 /\ statement[l].matched = statement[k].matched => l = k

LEMMA CashGrows ==
    ASSUME StatementInv, statement' = statement,
           cash' = cash \/ \E amount \in Int : cash' = Append(cash, amount)
    PROVE  StatementInv'
<1>1. cash \in Seq(Int) /\ Len(cash) \in Nat
  BY DEF StatementInv
<1>2. /\ cash' \in Seq(Int) /\ Len(cash) <= Len(cash') /\ Len(cash') \in Nat
      /\ \A n \in 1..Len(cash) : cash'[n] = cash[n]
  BY <1>1
<1>3. ASSUME NEW l \in StatementLine, statement[l].matched # 0
      PROVE  /\ statement[l].matched \in 1..Len(cash') /\ statement[l].amount # 0
             /\ cash'[statement[l].matched] = statement[l].amount
  BY <1>1, <1>2, <1>3 DEF StatementInv
<1> QED  BY <1>2, <1>3 DEF StatementInv

StatementAction(l) ==
    \/ \E amount \in Amounts : CreateStatementLine(l, amount)
    \/ \E n \in DOMAIN cash : MatchLine(l, n)
    \/ UnmatchLine(l)

LEMMA StatementActionKeeps ==
    ASSUME StatementInv, NEW l \in StatementLine, StatementAction(l)
    PROVE  StatementInv' /\ UNCHANGED <<invoice, asset, custody, history, gl, locked>>
<1>1. cash \in Seq(Int) /\ DOMAIN cash = 1..Len(cash) /\ Len(cash) \in Nat
      /\ statement \in [StatementLine -> LineRow]
  BY DEF StatementInv
<1>2. ASSUME NEW amount \in Amounts, CreateStatementLine(l, amount) PROVE StatementInv'
  <2>1. /\ statement[l].amount = 0 /\ statement' = [statement EXCEPT ![l].amount = amount]
        /\ cash' = cash /\ amount \in Int
    BY <1>2, BooksAssumption DEF CreateStatementLine
  <2>2. /\ statement' \in [StatementLine -> LineRow]
        /\ statement'[l].matched = statement[l].matched
        /\ \A k \in StatementLine \ {l} : statement'[k] = statement[k]
    BY <1>1, <2>1 DEF LineRow
  <2>3. statement[l].matched = 0
    BY <2>1 DEF StatementInv
  <2> QED  BY <2>1, <2>2, <2>3 DEF StatementInv
<1>3. ASSUME NEW n \in DOMAIN cash, MatchLine(l, n) PROVE StatementInv'
  <2>1. /\ statement[l].amount # 0 /\ Free(n) /\ cash[n] = statement[l].amount
        /\ statement' = [statement EXCEPT ![l].matched = n] /\ cash' = cash
        /\ n \in 1..Len(cash) /\ n \in Nat
    BY <1>1, <1>3 DEF MatchLine
  <2>2. /\ statement' \in [StatementLine -> LineRow]
        /\ statement'[l].matched = n /\ statement'[l].amount = statement[l].amount
        /\ \A k \in StatementLine \ {l} : statement'[k] = statement[k] /\ statement[k].matched # n
    BY <1>1, <2>1 DEF LineRow, Free
  <2> QED  BY <2>1, <2>2 DEF StatementInv
<1>4. ASSUME UnmatchLine(l) PROVE StatementInv'
  <2>1. statement' = [statement EXCEPT ![l].matched = 0] /\ cash' = cash
    BY <1>4 DEF UnmatchLine
  <2>2. /\ statement' \in [StatementLine -> LineRow] /\ statement'[l].matched = 0
        /\ \A k \in StatementLine \ {l} : statement'[k] = statement[k]
    BY <1>1, <2>1 DEF LineRow
  <2> QED  BY <2>1, <2>2 DEF StatementInv
<1> QED  BY <1>2, <1>3, <1>4 DEF StatementAction, CreateStatementLine, MatchLine, UnmatchLine

(* Entry for line, what is matched cancels.                                *)
LEMMA MatchesExplain == ASSUME StatementInv PROVE DifferenceExplained
<1> DEFINE amount == [l \in StatementLine |-> statement[l].amount]
           number == [l \in StatementLine |-> statement[l].matched]
           matched == {statement[l].matched : l \in StatementLine}
           open == {l \in StatementLine : statement[l].matched = 0}
           L == StatementLine \ open
           entries == {number[l] : l \in L}
<1>1. /\ cash \in Seq(Int) /\ DOMAIN cash = 1..Len(cash) /\ Len(cash) \in Nat
      /\ statement \in [StatementLine -> LineRow]
      /\ IsFiniteSet(StatementLine) /\ IsFiniteSet(DOMAIN cash)
  <2>1. cash \in Seq(Int) /\ DOMAIN cash = 1..Len(cash) /\ Len(cash) \in Nat
    BY DEF StatementInv
  <2> QED  BY <2>1, FS_Interval, BooksAssumption DEF StatementInv
<1>2. \A l \in StatementLine : amount[l] = statement[l].amount /\ amount[l] \in Int
  BY <1>1 DEF LineRow
<1>3. \A n \in DOMAIN cash : cash[n] \in Int
  BY <1>1
<1>4. \A l \in L : /\ number[l] \in DOMAIN cash /\ amount[l] \in Int /\ amount[l] = cash[number[l]]
  BY <1>1, <1>2 DEF StatementInv
<1>5. \A l \in L, k \in L : number[l] = number[k] => l = k
  BY DEF StatementInv
<1>6. entries \subseteq DOMAIN cash /\ DOMAIN cash \ matched = DOMAIN cash \ entries
  <2>1. entries \subseteq DOMAIN cash
    BY <1>4
  <2>2. \A n \in DOMAIN cash : n \in matched <=> n \in entries
    BY <1>1
  <2> QED  BY <2>1, <2>2
<1>7. open \in SUBSET StatementLine /\ L \in SUBSET StatementLine /\ StatementLine \ L = open
      /\ entries \in SUBSET DOMAIN cash /\ IsFiniteSet(L)
  BY <1>1, <1>6, FS_Subset
<1> HIDE DEF amount, number, open, L, entries
<1>8. SumFunctionOnSet(amount, L) = SumFunctionOnSet(cash, entries)
  BY <1>4, <1>5, <1>7, SumRenamed DEF entries
<1>9. SumFunctionOnSet(amount, open) = SumFunctionOnSet(amount, StatementLine) - SumFunctionOnSet(amount, L)
  BY <1>1, <1>2, <1>7, SumRest
<1>10. SumFunctionOnSet(cash, DOMAIN cash \ entries)
           = SumFunctionOnSet(cash, DOMAIN cash) - SumFunctionOnSet(cash, entries)
  BY <1>1, <1>3, <1>7, SumRest
<1>11. /\ SumFunctionOnSet(amount, StatementLine) \in Int /\ SumFunctionOnSet(cash, DOMAIN cash) \in Int
       /\ SumFunctionOnSet(amount, L) \in Int
  <2>1. \A l \in L : amount[l] \in Int
    BY <1>4
  <2> QED  BY <1>1, <1>2, <1>3, <1>7, <2>1, SumInt
<1>12. SumFunctionOnSet(cash, DOMAIN cash \ matched)
          = SumFunctionOnSet(cash, DOMAIN cash) - SumFunctionOnSet(amount, L)
  BY <1>6, <1>8, <1>10
<1> DEFINE lines == SumFunctionOnSet(amount, StatementLine)
           book == SumFunctionOnSet(cash, DOMAIN cash)
           both == SumFunctionOnSet(amount, L)
           opened == SumFunctionOnSet(amount, open)
           uncleared == SumFunctionOnSet(cash, DOMAIN cash \ matched)
<1>13. /\ lines \in Int /\ book \in Int /\ both \in Int
       /\ opened = lines - both /\ uncleared = book - both
  BY <1>9, <1>11, <1>12
<1>14. lines - book = opened - uncleared
  <2> HIDE DEF lines, book, both, opened, uncleared
  <2> QED  BY <1>13
<1> QED  BY <1>14 DEF DifferenceExplained, amount, open

-----------------------------------------------------------------------------
(* The books together.                                                     *)

BooksInv ==
    /\ gl \in GlRow /\ locked \in BOOLEAN
    /\ InvoiceInv /\ AssetInv /\ StatementInv

LEMMA BooksInvImplies ==
    BooksInv => TypeOK /\ ReceivablesReconcile /\ AssetsReconcile /\ HistoryExplains /\ DifferenceExplained
<1> SUFFICES ASSUME BooksInv
             PROVE  TypeOK /\ ReceivablesReconcile /\ AssetsReconcile /\ HistoryExplains /\ DifferenceExplained
  OBVIOUS
<1>1. \A l \in StatementLine : statement[l].matched <= Len(cash)
  BY DEF BooksInv, StatementInv
<1>2. TypeOK
  BY <1>1 DEF BooksInv, GlRow, InvoiceInv, AssetInv, StatementInv, TypeOK
<1> QED  BY <1>2, MatchesExplain DEF BooksInv, InvoiceInv, AssetInv

LEMMA InitBooks == Init => BooksInv
<1> SUFFICES ASSUME Init PROVE BooksInv
  OBVIOUS
<1>1. gl \in GlRow /\ locked \in BOOLEAN /\ gl.receivable = 0 /\ gl.fixedAssets = 0 /\ gl.accumulated = 0
  BY DEF Init, GlRow
<1>2. InvoiceInv
  <2>1. /\ invoice \in [Invoice -> InvoiceRow]
        /\ \A i \in Invoice : invoice[i].credited = 0 /\ invoice[i].status = "absent" /\ Price[i] \in Nat
    BY BooksAssumption DEF Init, InvoiceRow
  <2>2. InvoicesIn("sent") = {} /\ InvoicesIn("paid") = {}
    BY <2>1 DEF InvoicesIn
  <2>3. /\ SumFunctionOnSet(Outstandings, {}) = 0 /\ SumFunctionOnSet(Credited, {}) = 0
    BY SumEmpty
  <2>4. ReceivablesReconcile
    <3> DEFINE f == Outstandings
               h == Credited
    <3>1. SumFunctionOnSet(f, {}) = 0 /\ SumFunctionOnSet(h, {}) = 0
      BY <2>3
    <3>2. gl.receivable = SumFunctionOnSet(f, InvoicesIn("sent")) - SumFunctionOnSet(h, InvoicesIn("paid"))
      <4> HIDE DEF f, h
      <4> QED  BY <1>1, <2>2, <3>1
    <3> QED  BY <3>2 DEF ReceivablesReconcile, Outstandings, Credited
  <2> QED  BY <2>1, <2>4 DEF InvoiceInv
<1>3. AssetInv
  <2>1. /\ asset \in [Asset -> AssetRow] /\ custody \subseteq Assignments
        /\ history \in [Asset -> Seq(Event)]
        /\ \A a \in Asset : asset[a].accumulated = 0 /\ asset[a].status = "absent" /\ history[a] = <<>>
    BY DEF Init, NoAsset, AssetRow
  <2>2. InUse = {}
    BY <2>1 DEF InUse
  <2>3. SumFunctionOnSet(BookValues, {}) = 0
    BY SumEmpty
  <2>4. AssetsReconcile
    BY <1>1, <2>2, <2>3 DEF AssetsReconcile, BookValues
  <2>5. HistoryExplains
    BY <2>1, RunningEmpty DEF HistoryExplains
  <2>6. \A a \in Asset : asset[a].accumulated <= Max({0, Depreciable(a)})
    BY <2>1, AssetNumbers
  <2> QED  BY <2>1, <2>4, <2>5, <2>6 DEF AssetInv
<1>4. StatementInv
  <2>1. statement \in [StatementLine -> LineRow] /\ \A l \in StatementLine : statement[l].matched = 0
    BY DEF Init, LineRow
  <2> QED  BY <2>1 DEF Init, StatementInv
<1> QED  BY <1>1, <1>2, <1>3, <1>4 DEF BooksInv

AssetAction(a) ==
    \/ \E s \in Shapes, assignment \in {"untracked", "available", "assigned"},
          holder \in Employee \cup {Nobody} : RegisterAsset(a, s, assignment, holder)
    \/ \E e \in Employee : AssignAsset(a, e) \/ ReturnAsset(a, e)
    \/ RecordDepreciation(a)
    \/ \E value \in Values : RevalueAsset(a, value)
    \/ \E proceeds \in Proceeds : DisposeAsset(a, proceeds)

(* What buying brings to the cash account, and selling.                     *)
LEMMA AssetActionElsewhere ==
    ASSUME NEW a \in Asset, AssetAction(a)
    PROVE  /\ UNCHANGED <<invoice, statement, locked>>
           /\ cash' = cash \/ \E amount \in Int : cash' = Append(cash, amount)
<1>1. ASSUME NEW s \in Shapes, NEW assignment, NEW holder, RegisterAsset(a, s, assignment, holder)
      PROVE  /\ UNCHANGED <<invoice, statement, locked>>
             /\ cash' = cash \/ \E amount \in Int : cash' = Append(cash, amount)
  <2>1. s.cost \in Int
    <3>1. s \in Terms
      BY BooksAssumption
    <3> QED  BY <3>1 DEF Terms
  <2>2. -s.cost \in Int
    BY <2>1
  <2>3. PostCash(IF s.owned THEN 0 ELSE -s.cost) /\ UNCHANGED <<invoice, statement, locked>>
    BY <1>1 DEF RegisterAsset
  <2>4. cash' = cash \/ cash' = Append(cash, -s.cost)
    BY <2>3 DEF PostCash
  <2> QED  BY <2>2, <2>3, <2>4
<1>2. ASSUME NEW proceeds \in Proceeds, DisposeAsset(a, proceeds)
      PROVE  /\ UNCHANGED <<invoice, statement, locked>>
             /\ cash' = cash \/ \E amount \in Int : cash' = Append(cash, amount)
  <2>1. proceeds \in Int
    BY BooksAssumption
  <2> QED  BY <1>2, <2>1 DEF DisposeAsset, PostCash
<1>3. CASE RecordDepreciation(a)
  BY <1>3 DEF RecordDepreciation, Depreciate
<1>4. ASSUME NEW e \in Employee, AssignAsset(a, e) \/ ReturnAsset(a, e)
      PROVE  UNCHANGED <<invoice, statement, locked, cash>>
  BY <1>4 DEF AssignAsset, ReturnAsset
<1>5. ASSUME NEW value \in Values, RevalueAsset(a, value)
      PROVE  UNCHANGED <<invoice, statement, locked, cash>>
  BY <1>5 DEF RevalueAsset
<1> QED  BY <1>1, <1>2, <1>3, <1>4, <1>5 DEF AssetAction

LEMMA AssetActionKeeps ==
    ASSUME BooksInv, NEW a \in Asset, AssetAction(a)
    PROVE  BooksInv'
<1>1. AssetInv /\ gl \in GlRow
  BY DEF BooksInv
<1>2. AssetInv' /\ gl' \in GlRow /\ gl'.receivable = gl.receivable
  <2>1. ASSUME RecordDepreciation(a)
        PROVE  AssetInv' /\ gl' \in GlRow /\ gl'.receivable = gl.receivable
    <3>1. {a} \in SUBSET Asset /\ (\A b \in {a} : MayDepreciate(b)) /\ Depreciate({a})
      BY <2>1 DEF RecordDepreciation
    <3> QED  BY <1>1, <3>1, DepreciationKeepsAssets
  <2> QED  BY <1>1, <2>1, RegisterKeepsAssets, HandOverKeepsAssets, RevaluationKeepsAssets,
              DisposalKeepsAssets DEF AssetAction
<1>3. /\ invoice' = invoice /\ statement' = statement /\ locked' = locked
      /\ cash' = cash \/ \E amount \in Int : cash' = Append(cash, amount)
  BY AssetActionElsewhere
<1>4. InvoiceInv' /\ StatementInv'
  BY <1>2, <1>3, ReceivableStays, CashGrows DEF BooksInv
<1> QED  BY <1>2, <1>3, <1>4 DEF BooksInv

LEMMA NextKeepsBooks == BooksInv /\ [Next]_vars => BooksInv'
<1> SUFFICES ASSUME BooksInv, [Next]_vars PROVE BooksInv'
  OBVIOUS
<1>1. /\ gl \in GlRow /\ InvoiceInv /\ AssetInv /\ StatementInv /\ locked \in BOOLEAN
  BY DEF BooksInv
<1>2. ASSUME NEW i \in Invoice, InvoiceAction(i) PROVE BooksInv'
  <2>1. /\ InvoiceInv' /\ gl' \in GlRow
        /\ gl'.fixedAssets = gl.fixedAssets /\ gl'.accumulated = gl.accumulated
        /\ UNCHANGED <<asset, custody, history, statement, locked>>
        /\ cash' = cash \/ \E amount \in Int : cash' = Append(cash, amount)
    BY <1>1, <1>2, InvoiceActionKeeps
  <2>2. AssetInv' /\ StatementInv'
    BY <1>1, <2>1, AssetsStay, CashGrows
  <2> QED  BY <1>1, <2>1, <2>2 DEF BooksInv
<1>3. ASSUME NEW a \in Asset, AssetAction(a) PROVE BooksInv'
  BY <1>3, AssetActionKeeps
<1>4. CASE RunBatchDepreciation
  <2> DEFINE due == {a \in Asset : MayDepreciate(a)}
  <2>1. due \in SUBSET Asset /\ (\A a \in due : MayDepreciate(a)) /\ Depreciate(due)
    BY <1>4 DEF RunBatchDepreciation
  <2>2. UNCHANGED <<invoice, statement, cash, locked>>
    BY <2>1 DEF Depreciate
  <2> HIDE DEF due
  <2>3. AssetInv' /\ gl' \in GlRow /\ gl'.receivable = gl.receivable
    BY <1>1, <2>1, DepreciationKeepsAssets
  <2>4. InvoiceInv' /\ StatementInv'
    BY <1>1, <2>2, <2>3, ReceivableStays, CashGrows
  <2> QED  BY <1>1, <2>2, <2>3, <2>4 DEF BooksInv
<1>5. ASSUME NEW l \in StatementLine, StatementAction(l) PROVE BooksInv'
  <2>1. StatementInv' /\ UNCHANGED <<invoice, asset, custody, history, gl, locked>>
    BY <1>1, <1>5, StatementActionKeeps
  <2>2. InvoiceInv' /\ AssetInv'
    BY <1>1, <2>1, ReceivableStays, AssetsStay
  <2> QED  BY <1>1, <2>1, <2>2 DEF BooksInv
<1>6. ASSUME UNCHANGED <<invoice, asset, custody, history, statement, gl, cash>>, locked' \in BOOLEAN
      PROVE  BooksInv'
  <2>1. InvoiceInv' /\ AssetInv' /\ StatementInv'
    BY <1>1, <1>6, ReceivableStays, AssetsStay, CashGrows
  <2> QED  BY <1>1, <1>6, <2>1 DEF BooksInv
<1>7. CASE UpdateLockDate
  BY <1>1, <1>6, <1>7 DEF UpdateLockDate
<1>8. CASE UNCHANGED vars
  BY <1>1, <1>6, <1>8 DEF vars
<1> QED  BY <1>2, <1>3, <1>4, <1>5, <1>7, <1>8 DEF Next, InvoiceAction, AssetAction, StatementAction

LEMMA BooksInvHolds == Spec => []BooksInv
BY InitBooks, NextKeepsBooks, PTL DEF Spec

(* Every row, amount and journal stays of its type: no invoice is credited   *)
(* more than it is for, no asset written off further than to its salvage     *)
(* value, no line matched with an entry that is not there.                   *)
THEOREM BooksTypes == Spec => []TypeOK
<1>1. BooksInv => TypeOK
  BY BooksInvImplies
<1> QED  BY BooksInvHolds, <1>1, PTL

(* The receivable is what the ageing report adds up to less the credits on   *)
(* paid invoices, for any invoices, prices and credits (invoices.py:55-116,  *)
(* credit_notes.py:24-65, reports.py:143-183).                               *)
THEOREM ReceivablesKept == Spec => []ReceivablesReconcile
<1>1. BooksInv => ReceivablesReconcile
  BY BooksInvImplies
<1> QED  BY BooksInvHolds, <1>1, PTL

(* The two accounts of fixed assets are the book value of what is held, for  *)
(* any cost, life and salvage value, any revaluations and any batch          *)
(* (fixed_assets.py:96-147, 205-316, 346-425).                               *)
THEOREM AssetsKept == Spec => []AssetsReconcile
<1>1. BooksInv => AssetsReconcile
  BY BooksInvImplies
<1> QED  BY BooksInvHolds, <1>1, PTL

(* The events since the last revaluation add up to what is accumulated, for  *)
(* a history of any length (fixed_assets.py:428-548).                        *)
THEOREM HistoryKept == Spec => []HistoryExplains
<1>1. BooksInv => HistoryExplains
  BY BooksInvImplies
<1> QED  BY BooksInvHolds, <1>1, PTL

(* The unmatched lines and entries explain the difference, for a statement   *)
(* and a ledger of any length (bank_reconciliation.py:46-149).               *)
THEOREM DifferenceKept == Spec => []DifferenceExplained
<1>1. BooksInv => DifferenceExplained
  BY BooksInvImplies
<1> QED  BY BooksInvHolds, <1>1, PTL

=============================================================================
