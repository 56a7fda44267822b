------------------------- MODULE StockLedgerProofs -------------------------
(***************************************************************************)
(* What holds of the stock documents for any items, warehouses, documents  *)
(* and settings.                                                           *)
(***************************************************************************)
EXTENDS StockLedger, SumTheorems, TLAPS

(* The tables the approval rule reads have a row for each document. *)
Rows == /\ status \in [Doc -> Status]
        /\ DOMAIN lines = Doc
        /\ DOMAIN sheet = Doc

(* Past its approval, a document that removes stock was signed off: the    *)
(* strengthening of RemovalsApproved to the moment it may still be posted. *)
ApprovedRemovals ==
    \A d \in Adjustment \cup Stocktake :
        status[d] \in {"approved", "posted", "reversed"} /\ Removes(d) => d \in signedOff

ApprovalInv == Rows /\ ApprovedRemovals

-----------------------------------------------------------------------------
(* A removal always requires approval, with any settings. *)
LEMMA RemovalNeedsApproval ==
    ASSUME NEW d, Removes(d)
    PROVE  RequiresApproval(d)
BY DEF Removes, RequiresApproval

(* Whether a document removes stock is a matter of its lines, its sheet    *)
(* and nothing else: not of the stock, the prices or the settings.         *)
LEMMA RemovesDepends ==
    ASSUME NEW d, lines'[d] = lines[d], sheet'[d] = sheet[d]
    PROVE  Removes(d)' = Removes(d)
BY DEF Removes, Qty, Variance

(* A step that leaves a document where it is, or takes it somewhere short  *)
(* of approval, keeps the promise about it.                                *)
LEMMA Elsewhere ==
    ASSUME ApprovedRemovals,
           NEW d \in Adjustment \cup Stocktake,
           lines'[d] = lines[d], sheet'[d] = sheet[d], signedOff \subseteq signedOff',
           status'[d] = status[d] \/ status[d] \in {"approved", "posted", "reversed"}
                                  \/ status'[d] \notin {"approved", "posted", "reversed"}
    PROVE  status'[d] \in {"approved", "posted", "reversed"} /\ Removes(d)' => d \in signedOff'
<1>1. Removes(d)' = Removes(d)  BY RemovesDepends
<1> QED  BY <1>1 DEF ApprovedRemovals

LEMMA RowsStep == ASSUME Rows, [Next]_vars PROVE Rows'
<1> USE DEF Rows, Status
<1>1. ASSUME NEW d \in Doc, NEW w \in Warehouse, NEW day \in Days,
             NEW to \in Destinations(d, w), NEW body \in Bodies(d), WriteDraft(d, w, to, day, body)
      PROVE  Rows'
  BY <1>1 DEF WriteDraft, count
<1>2. ASSUME NEW d \in Doc, Delete(d) \/ Submit(d) \/ Cancel(d) \/ \E a \in BOOLEAN : Decide(d, a)
      PROVE  Rows'
  BY <1>2 DEF Delete, Submit, Cancel, Decide, header, count
<1>3. ASSUME NEW d \in Doc, PostAdjustment(d) \/ PostIssue(d) \/ Reverse(d) \/ PostStocktake(d)
      PROVE  Rows'
  BY <1>3 DEF PostAdjustment, PostIssue, Reverse, PostStocktake, header, count
<1>4. ASSUME NEW d \in Doc, NEW day, Dispatch(d, day) \/ \E arrived : Receive(d, day, arrived)
      PROVE  Rows'
  BY <1>4 DEF Dispatch, Receive, header, count
<1>5. ASSUME NEW d \in Doc, NEW i,
             StartCount(d) \/ RemoveLine(d, i)
                \/ \E counted : RecordCount(d, i, counted) \/ AddLine(d, i, counted)
      PROVE  Rows'
  BY <1>5 DEF StartCount, RemoveLine, RecordCount, AddLine, header
<1>6. CASE StartGl \/ (\E a \in Policies : UpdateInventorySettings(a))
                   \/ (\E day \in LockDates : UpdateLockDate(day))
  BY <1>6 DEF StartGl, UpdateInventorySettings, UpdateLockDate, header, count
<1>7. CASE UNCHANGED vars
  BY <1>7 DEF vars, header, count
<1> QED  BY <1>1, <1>2, <1>3, <1>4, <1>5, <1>6, <1>7 DEF Next, Doc

LEMMA ApprovedRemovalsStep == ASSUME ApprovalInv, [Next]_vars PROVE ApprovedRemovals'
<1> USE DEF ApprovalInv
<1> SUFFICES ASSUME NEW e \in Adjustment \cup Stocktake
             PROVE  status'[e] \in {"approved", "posted", "reversed"} /\ Removes(e)'
                        => e \in signedOff'
  BY DEF ApprovedRemovals
<1>0. e \in Doc  BY DEF Doc
<1>1. ASSUME NEW d \in Doc, NEW w \in Warehouse, NEW day \in Days,
             NEW to \in Destinations(d, w), NEW body \in Bodies(d), WriteDraft(d, w, to, day, body)
      PROVE  status'[e] \in {"approved", "posted", "reversed"} /\ Removes(e)' => e \in signedOff'
  <2>1. CASE d = e  BY <1>0, <1>1, <2>1 DEF WriteDraft, Rows
  <2>2. CASE d # e  BY <1>0, <1>1, <2>2, Elsewhere DEF WriteDraft, Rows, count
  <2> QED  BY <2>1, <2>2
<1>2. ASSUME NEW d \in Doc, Delete(d) \/ Cancel(d)
      PROVE  status'[e] \in {"approved", "posted", "reversed"} /\ Removes(e)' => e \in signedOff'
  <2>1. CASE d = e  BY <1>0, <1>2, <2>1 DEF Delete, Cancel, Rows
  <2>2. CASE d # e  BY <1>0, <1>2, <2>2, Elsewhere DEF Delete, Cancel, Rows, header, count
  <2> QED  BY <2>1, <2>2
<1>3. ASSUME NEW d \in Doc, Submit(d)
      PROVE  status'[e] \in {"approved", "posted", "reversed"} /\ Removes(e)' => e \in signedOff'
  <2>1. lines' = lines /\ sheet' = sheet /\ signedOff' = signedOff
    BY <1>3 DEF Submit, header, count
  <2>2. CASE d = e /\ Removes(e)
    BY <1>0, <1>3, <2>2, RemovalNeedsApproval DEF Submit, Rows
  <2>3. CASE d = e /\ ~Removes(e)
    BY <2>1, <2>3, RemovesDepends
  <2>4. CASE d # e
    BY <1>0, <1>3, <2>1, <2>4, Elsewhere DEF Submit, Rows
  <2> QED  BY <2>2, <2>3, <2>4
<1>4. ASSUME NEW d \in Doc, NEW approve \in BOOLEAN, Decide(d, approve)
      PROVE  status'[e] \in {"approved", "posted", "reversed"} /\ Removes(e)' => e \in signedOff'
  <2>1. CASE d = e  BY <1>0, <1>4, <2>1 DEF Decide, Rows
  <2>2. CASE d # e  BY <1>0, <1>4, <2>2, Elsewhere DEF Decide, Rows, header, count
  <2> QED  BY <2>1, <2>2
<1>5. ASSUME NEW d \in Doc, PostAdjustment(d) \/ PostIssue(d)
      PROVE  status'[e] \in {"approved", "posted", "reversed"} /\ Removes(e)' => e \in signedOff'
  <2>1. /\ lines' = lines /\ sheet' = sheet /\ signedOff' = signedOff
        /\ status' = [status EXCEPT ![d] = "posted"]
        /\ MayGoAhead(d)
    BY <1>5 DEF PostAdjustment, PostIssue, header, count
  <2>2. CASE status[d] = "approved" \/ d # e
    BY <1>0, <2>1, <2>2, Elsewhere DEF Rows
  <2>3. CASE d = e /\ ~RequiresApproval(d)
    BY <2>1, <2>3, RemovalNeedsApproval, RemovesDepends
  <2> QED  BY <2>1, <2>2, <2>3 DEF MayGoAhead
<1>6. ASSUME NEW d \in Doc, Reverse(d) \/ PostStocktake(d)
      PROVE  status'[e] \in {"approved", "posted", "reversed"} /\ Removes(e)' => e \in signedOff'
  <2>1. /\ lines' = lines /\ sheet' = sheet /\ signedOff' = signedOff
        /\ status[d] \in {"approved", "posted"}
        /\ \E s : status' = [status EXCEPT ![d] = s]
    BY <1>6 DEF Reverse, PostStocktake, header, count
  <2> QED  BY <1>0, <2>1, Elsewhere DEF Rows
<1>7. ASSUME NEW d \in Doc, NEW day, Dispatch(d, day) \/ \E arrived : Receive(d, day, arrived)
      PROVE  status'[e] \in {"approved", "posted", "reversed"} /\ Removes(e)' => e \in signedOff'
  <2>1. /\ lines' = lines /\ sheet' = sheet /\ signedOff' = signedOff
        /\ \E s \in {"in_transit", "received"} : status' = [status EXCEPT ![d] = s]
    BY <1>7 DEF Dispatch, Receive, header, count
  <2> QED  BY <1>0, <2>1, Elsewhere DEF Rows
<1>8. ASSUME NEW d \in Doc, StartCount(d)
      PROVE  status'[e] \in {"approved", "posted", "reversed"} /\ Removes(e)' => e \in signedOff'
  <2>1. CASE d = e  BY <1>0, <1>8, <2>1 DEF StartCount, Rows
  <2>2. CASE d # e  BY <1>0, <1>8, <2>2, Elsewhere DEF StartCount, Rows, header
  <2> QED  BY <2>1, <2>2
<1>9. ASSUME NEW d \in Doc, NEW i,
             RemoveLine(d, i) \/ \E counted : RecordCount(d, i, counted) \/ AddLine(d, i, counted)
      PROVE  status'[e] \in {"approved", "posted", "reversed"} /\ Removes(e)' => e \in signedOff'
  <2>1. /\ lines' = lines /\ status' = status /\ signedOff' = signedOff
        /\ status[d] = "counting"
        /\ d # e => sheet'[e] = sheet[e]
    BY <1>0, <1>9 DEF RemoveLine, RecordCount, AddLine, Rows, header
  <2>2. CASE d = e  BY <2>1, <2>2
  <2>3. CASE d # e  BY <2>1, <2>3, Elsewhere
  <2> QED  BY <2>2, <2>3
<1>10. CASE StartGl \/ (\E a \in Policies : UpdateInventorySettings(a))
                    \/ (\E day \in LockDates : UpdateLockDate(day))
  BY <1>10, Elsewhere DEF StartGl, UpdateInventorySettings, UpdateLockDate, header, count
<1>11. CASE UNCHANGED vars
  BY <1>11, Elsewhere DEF vars, header, count
<1> QED
  BY <1>1, <1>2, <1>3, <1>4, <1>5, <1>6, <1>7, <1>8, <1>9, <1>10, <1>11 DEF Next, Doc

(* No adjustment or count takes stock off the books unapproved, for any    *)
(* number of documents and whatever the settings become (requires_approval *)
(* at submission and at posting, lines fixed from then on).                *)
THEOREM RemovalsAreApproved == Spec => []RemovalsApproved
<1>1. Init => ApprovalInv
  BY DEF Init, ApprovalInv, Rows, ApprovedRemovals, Status, Doc
<1>2. ApprovalInv /\ [Next]_vars => ApprovalInv'
  BY RowsStep, ApprovedRemovalsStep DEF ApprovalInv
<1>3. ApprovalInv => RemovalsApproved
  BY DEF ApprovalInv, ApprovedRemovals, RemovalsApproved
<1> QED  BY <1>1, <1>2, <1>3, PTL DEF Spec

-----------------------------------------------------------------------------
(* Rows and what they add up to.                                           *)

Qtys == [r \in Movement |-> r.qty]
Values == [r \in Movement |-> r.value]

LEMMA RowTypes ==
    \A r \in Movement : /\ r.qty \in Int /\ r.value \in Int /\ r.place \in Place /\ r.item \in Item
                        /\ Qtys[r] = r.qty /\ Values[r] = r.value
                        /\ Qtys[r] \in Int /\ Values[r] \in Int
<1>1. \A r \in Movement : r.qty \in Int /\ r.value \in Int /\ r.place \in Place /\ r.item \in Item
  BY DEF Movement
<1> QED  BY <1>1 DEF Qtys, Values

LEMMA RowSums ==
    ASSUME NEW S \in SUBSET Movement, IsFiniteSet(S)
    PROVE  /\ QtyOf(S) = SumFunctionOnSet(Qtys, S) /\ ValueOf(S) = SumFunctionOnSet(Values, S)
           /\ QtyOf(S) \in Int /\ ValueOf(S) \in Int
<1> DEFINE f == [r \in S |-> r.qty]
           g == [r \in S |-> r.value]
<1>1. \A r \in S : f[r] = Qtys[r] /\ g[r] = Values[r] /\ Qtys[r] \in Int /\ Values[r] \in Int
  BY RowTypes
<1>2. SumFunctionOnSet(Qtys, S) \in Int /\ SumFunctionOnSet(Values, S) \in Int
  BY <1>1, SumInt
<1> HIDE DEF f, g
<1>3. SumFunctionOnSet(f, S) = SumFunctionOnSet(Qtys, S) /\ SumFunctionOnSet(g, S) = SumFunctionOnSet(Values, S)
  BY <1>1, SumEqual
<1> QED  BY <1>2, <1>3 DEF QtyOf, ValueOf, f, g

LEMMA NoRows == QtyOf({}) = 0 /\ ValueOf({}) = 0
BY SumEmpty DEF QtyOf, ValueOf

LEMMA OneMoreRow ==
    ASSUME NEW S \in SUBSET Movement, IsFiniteSet(S), NEW r \in Movement, r \notin S
    PROVE  QtyOf(S \cup {r}) = QtyOf(S) + r.qty /\ ValueOf(S \cup {r}) = ValueOf(S) + r.value
<1>1. S \cup {r} \in SUBSET Movement /\ IsFiniteSet(S \cup {r})
  BY FS_AddElement
<1>2. \A x \in S \cup {r} : Qtys[x] \in Int /\ Values[x] \in Int
  BY RowTypes
<1>3. /\ SumFunctionOnSet(Qtys, S \cup {r}) = Qtys[r] + SumFunctionOnSet(Qtys, S)
      /\ SumFunctionOnSet(Values, S \cup {r}) = Values[r] + SumFunctionOnSet(Values, S)
  BY <1>2, SumAdd
<1>4. /\ QtyOf(S) = SumFunctionOnSet(Qtys, S) /\ ValueOf(S) = SumFunctionOnSet(Values, S)
      /\ QtyOf(S) \in Int /\ ValueOf(S) \in Int
  BY RowSums
<1>5. QtyOf(S \cup {r}) = SumFunctionOnSet(Qtys, S \cup {r}) /\ ValueOf(S \cup {r}) = SumFunctionOnSet(Values, S \cup {r})
  BY <1>1, RowSums
<1>6. r.qty \in Int /\ r.value \in Int /\ Qtys[r] = r.qty /\ Values[r] = r.value
  BY RowTypes
<1> QED  BY <1>3, <1>4, <1>5, <1>6

LEMMA OneRow ==
    ASSUME NEW r \in Movement
    PROVE  QtyOf({r}) = r.qty /\ ValueOf({r}) = r.value
<1>1. {} \in SUBSET Movement /\ IsFiniteSet({}) /\ {} \cup {r} = {r}
  BY FS_EmptySet
<1>2. QtyOf({r}) = 0 + r.qty /\ ValueOf({r}) = 0 + r.value
  BY <1>1, OneMoreRow, NoRows
<1> QED  BY <1>2, RowTypes

LEMMA RowsSplit ==
    ASSUME NEW S \in SUBSET Movement, IsFiniteSet(S), NEW T \in SUBSET S
    PROVE  QtyOf(S \ T) = QtyOf(S) - QtyOf(T)
<1>1. \A r \in S : Qtys[r] \in Int
  BY RowTypes
<1>2. SumFunctionOnSet(Qtys, S \ T) = SumFunctionOnSet(Qtys, S) - SumFunctionOnSet(Qtys, T)
  BY <1>1, SumRest
<1>3. S \ T \in SUBSET Movement /\ T \in SUBSET Movement /\ IsFiniteSet(S \ T) /\ IsFiniteSet(T)
  BY FS_Subset
<1> QED  BY <1>2, <1>3, RowSums

-----------------------------------------------------------------------------
(* The value a decrease takes.                                             *)

LEMMA RoundedPart ==
    ASSUME NEW v \in Nat, NEW n \in Nat, NEW q \in Nat, q < n
    PROVE  RoundHalfEven(v * q, n) \in 0..v
<1> DEFINE N == v * q
           low == N \div n
           rest == N % n
<1>1. N \in Nat /\ n \in Nat \ {0} /\ N <= v * n /\ v * n = n * v /\ n * v \in Nat
  <2>1. v * q <= v * n
    BY ProductGrows
  <2> QED  BY <2>1, ProductNatural
<1> HIDE DEF N
<1>2. low \in Nat /\ rest \in 0..(n - 1) /\ N = n * low + rest
  <2>1. N \div n \in Nat /\ N % n \in 0..(n - 1) /\ N = n * (N \div n) + (N % n)
    BY <1>1
  <2> QED  BY <2>1
<1>3. RoundHalfEven(N, n) = IF 2 * rest > n \/ (2 * rest = n /\ low % 2 = 1) THEN low + 1 ELSE low
  BY DEF RoundHalfEven
<1> HIDE DEF low, rest
<1>4. n * low \in Nat
  BY <1>1, <1>2
<1>5. low <= v
  <2> SUFFICES ASSUME v < low PROVE FALSE
    BY <1>2
  <2>1. n * (v + 1) <= n * low
    BY <1>1, <1>2, ProductGrows
  <2>2. n * (v + 1) = n * v + n
    BY <1>1
  <2> QED  BY <1>1, <1>2, <1>4, <2>1, <2>2
<1>6. rest > 0 => low < v
  <2> SUFFICES ASSUME rest > 0, v <= low PROVE FALSE
    BY <1>2
  <2>1. n * v <= n * low
    BY <1>1, <1>2, ProductGrows
  <2> QED  BY <1>1, <1>2, <1>4, <2>1
<1>7. RoundHalfEven(N, n) \in 0..v
  <2>1. CASE rest = 0
    <3>1. RoundHalfEven(N, n) = low
      BY <1>1, <1>3, <2>1
    <3> QED  BY <1>2, <1>5, <3>1
  <2>2. CASE rest > 0
    <3>1. RoundHalfEven(N, n) = low \/ RoundHalfEven(N, n) = low + 1
      BY <1>3
    <3> QED  BY <1>2, <1>6, <2>2, <3>1
  <2> QED  BY <1>2, <2>1, <2>2
<1> QED  BY <1>7 DEF N

LEMMA DecreasePart ==
    ASSUME NEW p \in [qty : Nat, value : Nat], NEW q \in Nat
    PROVE  /\ DecreaseValue(p, q) \in 0..p.value
           /\ q >= p.qty => DecreaseValue(p, q) = p.value
<1>1. p.qty \in Nat /\ p.value \in Nat
  OBVIOUS
<1>2. CASE q >= p.qty
  BY <1>1, <1>2 DEF DecreaseValue
<1>3. CASE q < p.qty
  <2>1. RoundHalfEven(p.value * q, p.qty) \in 0..p.value
    BY <1>1, <1>3, RoundedPart
  <2>2. DecreaseValue(p, q) = RoundHalfEven(p.value * q, p.qty)
    BY <1>1, <1>3 DEF DecreaseValue
  <2> QED  BY <1>1, <1>3, <2>1, <2>2
<1> QED  BY <1>1, <1>2, <1>3

LEMMA RoundedInt ==
    ASSUME NEW v \in Nat, NEW n \in Nat \ {0}
    PROVE  RoundHalfEven(v, n) \in Nat
<1>1. v \div n \in Nat
  BY QuotientNatural
<1> DEFINE low == v \div n
<1>2. RoundHalfEven(v, n) \in {low, low + 1}
  BY DEF RoundHalfEven
<1> QED  BY <1>1, <1>2

-----------------------------------------------------------------------------
(* Books that agree with their rows.                                       *)

RowsIn(rows, place, i) == {r \in rows : r.place = place /\ r.item = i}
RowsOf(rows, i) == {r \in rows : r.item = i}
TotalAt(bal, i) == SumFunctionOnSet([place \in Place |-> bal[place][i]], Place)
PoolValue(p) == SumFunctionOnSet([i \in Item |-> p[i].value], Item)

(* Balances and pools are what the rows add up to; a row moves something,  *)
(* and its value has the sign of its quantity.                             *)
Whole(bal, p, rows) ==
    /\ bal \in [Place -> [Item -> Nat]]
    /\ p \in [Item -> [qty : Nat, value : Nat]]
    /\ rows \in SUBSET Movement /\ IsFiniteSet(rows)
    /\ \A i \in Item : \A place \in Place : bal[place][i] = QtyOf(RowsIn(rows, place, i))
    /\ \A i \in Item : /\ p[i].qty = TotalAt(bal, i)
                       /\ p[i].value = ValueOf(RowsOf(rows, i))
                       /\ p[i].qty = 0 => p[i].value = 0
    /\ \A r \in rows : /\ r.qty # 0
                       /\ r.qty < 0 => r.value <= 0
                       /\ r.qty > 0 => r.value >= 0

LEMMA FiniteTables == IsFiniteSet(Item) /\ IsFiniteSet(Place) /\ IsFiniteSet(Doc)
<1>1. IsFiniteSet(Item)  BY TableAssumption
<1>2. IsFiniteSet(Place)  BY TableAssumption, FS_AddElement DEF Place
<1>3. IsFiniteSet(Doc)  BY TableAssumption, FS_Union DEF Doc
<1> QED  BY <1>1, <1>2, <1>3

(* What rows are worth is what the rows of each item are worth. *)
LEMMA RowsByItem ==
    ASSUME NEW rows \in SUBSET Movement, IsFiniteSet(rows)
    PROVE  ValueOf(rows) = SumFunctionOnSet([i \in Item |-> ValueOf(RowsOf(rows, i))], Item)
<1> DEFINE Parts(S) == [i \in Item |-> ValueOf(RowsOf(S, i))]
           Wrong == {S \in SUBSET rows : ValueOf(S) # SumFunctionOnSet(Parts(S), Item)}
<1> SUFFICES ASSUME Wrong # {} PROVE FALSE
  OBVIOUS
<1>1. \A S \in SUBSET rows : IsFiniteSet(S) /\ \A i \in Item : IsFiniteSet(RowsOf(S, i)) /\ RowsOf(S, i) \in SUBSET Movement
  BY FS_Subset DEF RowsOf
<1>2. PICK S \in Wrong : \A t \in Wrong : ~(t \subseteq S /\ t # S)
  <2>1. \A s \in Wrong : IsFiniteSet(s)
    BY <1>1
  <2> HIDE DEF Wrong
  <2> QED  BY <2>1, MinimalSet
<1>3. S # {}
  <2> SUFFICES ASSUME S = {} PROVE FALSE
    OBVIOUS
  <2>1. \A i \in Item : Parts({})[i] = 0
    <3>1. \A i \in Item : RowsOf({}, i) = {}
      BY DEF RowsOf
    <3> QED  BY <3>1, NoRows
  <2>2. SumFunctionOnSet(Parts({}), Item) = 0
    <3> HIDE DEF Parts
    <3> QED  BY <2>1, FiniteTables, SumZero
  <2> QED  BY <2>2, NoRows
<1>4. PICK r \in S : TRUE
  BY <1>3
<1> DEFINE T == S \ {r}
<1>5. T \notin Wrong /\ T \in SUBSET rows /\ r \in Movement /\ r \notin T /\ T \cup {r} = S
  BY <1>2
<1>6. ValueOf(T) = SumFunctionOnSet(Parts(T), Item)
  BY <1>5
<1>7. ValueOf(S) = ValueOf(T) + r.value
  BY <1>1, <1>5, OneMoreRow
<1>8. \A i \in Item : /\ Parts(S)[i] = ValueOf(RowsOf(S, i)) /\ Parts(T)[i] = ValueOf(RowsOf(T, i))
                      /\ Parts(S)[i] \in Int /\ Parts(T)[i] \in Int
  <2>1. \A i \in Item : ValueOf(RowsOf(S, i)) \in Int /\ ValueOf(RowsOf(T, i)) \in Int
    BY <1>1, <1>2, <1>5, RowSums
  <2> QED  BY <2>1
<1>9. \A i \in Item \ {r.item} : Parts(S)[i] = Parts(T)[i]
  <2>1. \A i \in Item \ {r.item} : RowsOf(S, i) = RowsOf(T, i)
    BY DEF RowsOf
  <2> QED  BY <2>1
<1>10. r.item \in Item /\ Parts(S)[r.item] = Parts(T)[r.item] + r.value /\ r.value \in Int
  <2>1. r.item \in Item /\ r.value \in Int
    BY <1>5, RowTypes
  <2>2. RowsOf(S, r.item) = RowsOf(T, r.item) \cup {r} /\ r \notin RowsOf(T, r.item)
    BY <1>5 DEF RowsOf
  <2>3. ValueOf(RowsOf(S, r.item)) = ValueOf(RowsOf(T, r.item)) + r.value
    BY <1>1, <1>5, <2>1, <2>2, OneMoreRow
  <2> QED  BY <2>1, <2>3
<1>11. ValueOf(T) \in Int
  BY <1>1, <1>5, RowSums
<1>12. ValueOf(S) # SumFunctionOnSet(Parts(S), Item)
  BY <1>2
<1> DEFINE f == Parts(S)
           g == Parts(T)
<1> HIDE DEF Wrong, T, Parts, f, g
<1>13. SumFunctionOnSet(f, Item) = SumFunctionOnSet(g, Item) + (f[r.item] - g[r.item])
  <2>1. \A i \in Item : g[i] \in Int /\ f[i] \in Int
    BY <1>8 DEF f, g
  <2>2. \A i \in Item \ {r.item} : g[i] = f[i]
    BY <1>9 DEF f, g
  <2> QED  BY <1>10, <2>1, <2>2, FiniteTables, SumChange
<1>14. f[r.item] = g[r.item] + r.value /\ g[r.item] \in Int
  BY <1>8, <1>10 DEF f, g
<1> QED  BY <1>6, <1>7, <1>10, <1>11, <1>12, <1>13, <1>14 DEF f, g

LEMMA WholeValue ==
    ASSUME NEW bal, NEW p, NEW rows, Whole(bal, p, rows)
    PROVE  ValueOf(rows) = PoolValue(p) /\ PoolValue(p) \in Nat
<1> DEFINE f == [i \in Item |-> p[i].value]
           g == [i \in Item |-> ValueOf(RowsOf(rows, i))]
<1>1. \A i \in Item : f[i] = g[i] /\ f[i] \in Nat
  <2>1. \A i \in Item : p[i].value = ValueOf(RowsOf(rows, i)) /\ p[i].value \in Nat
    BY DEF Whole
  <2> QED  BY <2>1
<1>2. ValueOf(rows) = SumFunctionOnSet(g, Item)
  BY RowsByItem DEF Whole
<1> HIDE DEF f, g
<1>3. SumFunctionOnSet(f, Item) = SumFunctionOnSet(g, Item)
  BY <1>1, FiniteTables, SumEqual
<1>4. SumFunctionOnSet(f, Item) \in Nat
  BY <1>1, FiniteTables, SumNat
<1> QED  BY <1>2, <1>3, <1>4 DEF PoolValue, f

(* Rows added to whole books are worth what the stock has gained.          *)
LEMMA NewRowsValue ==
    ASSUME NEW bal, NEW p, NEW rows, Whole(bal, p, rows),
           NEW bal2, NEW p2, NEW rows2, Whole(bal2, p2, rows2), rows \subseteq rows2
    PROVE  ValueOf(rows2 \ rows) = PoolValue(p2) - PoolValue(p)
<1>1. rows2 \in SUBSET Movement /\ IsFiniteSet(rows2) /\ rows \in SUBSET Movement /\ IsFiniteSet(rows)
  BY DEF Whole
<1>2. SumFunctionOnSet(Values, rows2 \ rows) = SumFunctionOnSet(Values, rows2) - SumFunctionOnSet(Values, rows)
  <2>1. \A r \in rows2 : Values[r] \in Int
    BY <1>1, RowTypes
  <2> QED  BY <1>1, <2>1, SumRest
<1>3. rows2 \ rows \in SUBSET Movement /\ IsFiniteSet(rows2 \ rows)
  BY <1>1, FS_Subset
<1>4. ValueOf(rows2 \ rows) = ValueOf(rows2) - ValueOf(rows)
  BY <1>1, <1>2, <1>3, RowSums
<1> QED  BY <1>4, WholeValue

-----------------------------------------------------------------------------
(* A batch keeps the books whole.                                          *)

Entered(b, q, v, i) == IF q[i] < 0 THEN -DecreaseValue(b.pool[i], -q[i]) ELSE v[i]
NewRow(b, d, type, place, q, v, i) ==
    [doc |-> d, type |-> type, place |-> place, item |-> i, qty |-> q[i],
     value |-> Entered(b, q, v, i)]
Entries(b, d, type, place, q, v) ==
    {NewRow(b, d, type, place, q, v, i) : i \in {j \in Item : q[j] # 0}}

Shelf(b, place, q) == [i \in Item |-> b.balance[place][i] + q[i]]
Shelves(b, place, q) == [b.balance EXCEPT ![place] = Shelf(b, place, q)]
Pools(b, q, v) == [i \in Item |-> [qty |-> b.pool[i].qty + q[i],
                                  value |-> b.pool[i].value + Entered(b, q, v, i)]]

(* What a request may hand to the engine: stock added has a value, and the *)
(* document has no rows of this type at this place yet.                    *)
Batch(b, d, type, place, q, v) ==
    /\ Whole(b.balance, b.pool, b.rows)
    /\ d \in Doc /\ type \in MovementType /\ place \in Place
    /\ q \in [Item -> Int] /\ v \in [Item -> Int]
    /\ \A i \in Item : (q[i] = 0 => v[i] = 0) /\ (q[i] > 0 => v[i] >= 0)
    /\ \A r \in b.rows : ~(r.doc = d /\ r.type = type /\ r.place = place)

LEMMA MovedFields ==
    ASSUME NEW b, NEW d, NEW type, NEW place, NEW q, NEW v
    PROVE  /\ Moved(b, d, type, place, q, v).balance = Shelves(b, place, q)
           /\ Moved(b, d, type, place, q, v).pool = Pools(b, q, v)
           /\ Moved(b, d, type, place, q, v).rows = b.rows \cup Entries(b, d, type, place, q, v)
<1> DEFINE value == [i \in Item |-> IF q[i] < 0 THEN -DecreaseValue(b.pool[i], -q[i]) ELSE v[i]]
           after == Moved(b, d, type, place, q, v)
<1>1. \A i \in Item : value[i] = Entered(b, q, v, i)
  BY DEF Entered
<1>2. /\ after.balance = [b.balance EXCEPT ![place] = [i \in Item |-> @[i] + q[i]]]
      /\ after.pool = [i \in Item |-> PoolAfter(b.pool[i], q[i], value[i])]
      /\ after.rows = b.rows \cup {[doc |-> d, type |-> type, place |-> place, item |-> i,
                               qty |-> q[i], value |-> value[i]] : i \in {j \in Item : q[j] # 0}}
  BY DEF Moved
<1> HIDE DEF value, after
<1>3. after.pool = Pools(b, q, v)
  BY <1>1, <1>2 DEF PoolAfter, Pools
<1>4. after.rows = b.rows \cup Entries(b, d, type, place, q, v)
  BY <1>1, <1>2 DEF Entries, NewRow
<1>5. after.balance = Shelves(b, place, q)
  BY <1>2 DEF Shelf, Shelves
<1> QED  BY <1>3, <1>4, <1>5 DEF after

LEMMA EnteredSign ==
    ASSUME NEW b, NEW d, NEW type, NEW place, NEW q, NEW v, Batch(b, d, type, place, q, v),
           NEW i \in Item
    PROVE  /\ Entered(b, q, v, i) \in Int /\ b.pool[i].value + Entered(b, q, v, i) \in Nat
           /\ q[i] = 0 => Entered(b, q, v, i) = 0
           /\ q[i] > 0 => Entered(b, q, v, i) = v[i] /\ v[i] >= 0
           /\ q[i] < 0 => Entered(b, q, v, i) <= 0
           /\ q[i] < 0 /\ b.pool[i].qty + q[i] <= 0 => b.pool[i].value + Entered(b, q, v, i) = 0
           /\ q[i] \in Int /\ b.pool[i].qty \in Nat /\ b.pool[i].value \in Nat
<1>1. q[i] \in Int /\ v[i] \in Int /\ b.pool[i] \in [qty : Nat, value : Nat]
  BY DEF Batch, Whole
<1>2. (q[i] = 0 => v[i] = 0) /\ (q[i] > 0 => v[i] >= 0)
  BY DEF Batch
<1>3. b.pool[i].qty \in Nat /\ b.pool[i].value \in Nat
  BY <1>1
<1> DEFINE p == b.pool[i]
           n == q[i]
           w == DecreaseValue(p, -n)
<1>4. CASE n < 0
  <2>1. Entered(b, q, v, i) = -w
    BY <1>4 DEF Entered
  <2>2. -n \in Nat
    BY <1>1, <1>4
  <2>3. w \in 0..p.value /\ (-n >= p.qty => w = p.value)
    BY <1>1, <2>2, DecreasePart
  <2> HIDE DEF w
  <2> QED  BY <1>1, <1>3, <1>4, <2>1, <2>3
<1>5. CASE n >= 0
  <2>1. Entered(b, q, v, i) = v[i]
    BY <1>1, <1>5 DEF Entered
  <2> QED  BY <1>1, <1>2, <1>3, <1>5, <2>1
<1> QED  BY <1>1, <1>4, <1>5

LEMMA EntriesSound ==
    ASSUME NEW b, NEW d, NEW type, NEW place, NEW q, NEW v, Batch(b, d, type, place, q, v)
    PROVE  /\ Entries(b, d, type, place, q, v) \in SUBSET Movement
           /\ IsFiniteSet(Entries(b, d, type, place, q, v))
           /\ Entries(b, d, type, place, q, v) \cap b.rows = {}
           /\ \A r \in Entries(b, d, type, place, q, v) :
                 /\ r.doc = d /\ r.type = type /\ r.place = place
                 /\ r.qty # 0 /\ (r.qty < 0 => r.value <= 0) /\ (r.qty > 0 => r.value >= 0)
<1> DEFINE N(i) == NewRow(b, d, type, place, q, v, i)
           some == {j \in Item : q[j] # 0}
           E == Entries(b, d, type, place, q, v)
<1>1. E = {N(i) : i \in some}
  BY DEF Entries
<1>2. \A i \in Item : /\ q[i] \in Int /\ Entered(b, q, v, i) \in Int
                      /\ q[i] < 0 => Entered(b, q, v, i) <= 0
                      /\ q[i] > 0 => Entered(b, q, v, i) >= 0
  BY EnteredSign
<1>3. \A i \in some : /\ N(i) \in Movement /\ N(i).doc = d /\ N(i).type = type /\ N(i).place = place
                      /\ N(i).qty # 0 /\ (N(i).qty < 0 => N(i).value <= 0)
                      /\ (N(i).qty > 0 => N(i).value >= 0)
  BY <1>2 DEF Batch, NewRow, Movement
<1>4. IsFiniteSet(E)
  <2> DEFINE f == [i \in some |-> N(i)]
  <2>1. IsFiniteSet(some)
    BY FiniteTables, FS_Subset
  <2>2. f \in Surjection(some, E)
    BY <1>1 DEF Surjection
  <2> HIDE DEF f, some, E
  <2> QED  BY <2>1, <2>2, FS_Surjection
<1> HIDE DEF N, E
<1>5. E \cap b.rows = {}
  BY <1>1, <1>3 DEF Batch
<1> QED  BY <1>1, <1>3, <1>4, <1>5 DEF E

(* The batch's rows of one item at its place are at most one.              *)
LEMMA EntriesOfItem ==
    ASSUME NEW b, NEW d, NEW type, NEW place, NEW q, NEW v, Batch(b, d, type, place, q, v),
           NEW i \in Item, NEW where
    PROVE  LET E == Entries(b, d, type, place, q, v)
               r == NewRow(b, d, type, place, q, v, i)
           IN /\ RowsOf(E, i) = IF q[i] = 0 THEN {} ELSE {r}
              /\ RowsIn(E, where, i) = IF q[i] = 0 \/ where # place THEN {} ELSE {r}
              /\ q[i] # 0 => r \in Movement
              /\ r.qty = q[i] /\ r.value = Entered(b, q, v, i) /\ r.doc = d /\ r.type = type
<1> DEFINE N(k) == NewRow(b, d, type, place, q, v, k)
           E == Entries(b, d, type, place, q, v)
<1>1. \A r : r \in E <=> \E k \in Item : q[k] # 0 /\ r = N(k)
  BY DEF Entries
<1>2. \A k : N(k).item = k /\ N(k).place = place /\ N(k).qty = q[k] /\ N(k).value = Entered(b, q, v, k)
             /\ N(k).doc = d /\ N(k).type = type
  BY DEF NewRow
<1>3. E \in SUBSET Movement
  BY EntriesSound
<1> HIDE DEF N, E
<1>4. RowsOf(E, i) = IF q[i] = 0 THEN {} ELSE {N(i)}
  BY <1>1, <1>2 DEF RowsOf
<1>5. RowsIn(E, where, i) = IF q[i] = 0 \/ where # place THEN {} ELSE {N(i)}
  BY <1>1, <1>2 DEF RowsIn
<1> QED  BY <1>1, <1>2, <1>3, <1>4, <1>5 DEF N, E

(* What a batch changes: the balances of one place, the pools, and rows    *)
(* that are only ever added.                                               *)
LEMMA MovedChanges ==
    ASSUME NEW b, NEW d, NEW type, NEW place, NEW q, NEW v, Batch(b, d, type, place, q, v),
           NEW i \in Item
    PROVE  LET after == Moved(b, d, type, place, q, v)
               E == Entries(b, d, type, place, q, v)
           IN /\ \A where \in Place : after.balance[where][i] =
                     b.balance[where][i] + (IF where = place THEN q[i] ELSE 0)
              /\ \A where \in Place : b.balance[where][i] \in Nat
              /\ after.pool[i].qty = b.pool[i].qty + q[i]
              /\ after.pool[i].value = b.pool[i].value + Entered(b, q, v, i)
              /\ after.rows = b.rows \cup E
<1> DEFINE after == Moved(b, d, type, place, q, v)
<1>1. /\ after.balance = Shelves(b, place, q)
      /\ after.pool = Pools(b, q, v)
      /\ after.rows = b.rows \cup Entries(b, d, type, place, q, v)
  BY MovedFields
<1>2. b.balance \in [Place -> [Item -> Nat]] /\ place \in Place /\ q[i] \in Int
  BY DEF Batch, Whole
<1> HIDE DEF after
<1>3. \A where \in Place : after.balance[where][i] = b.balance[where][i] + (IF where = place THEN q[i] ELSE 0)
  <2> TAKE where \in Place
  <2>1. b.balance[where][i] \in Nat
    BY <1>2
  <2>2. CASE where = place
    BY <1>1, <1>2, <2>1, <2>2 DEF Shelf, Shelves
  <2>3. CASE where # place
    <3>1. after.balance[where] = b.balance[where]
      BY <1>1, <1>2, <2>3 DEF Shelves
    <3> QED  BY <2>1, <2>3, <3>1
  <2> QED  BY <2>2, <2>3
<1>4. after.pool[i].qty = b.pool[i].qty + q[i] /\ after.pool[i].value = b.pool[i].value + Entered(b, q, v, i)
  BY <1>1 DEF Pools
<1>5. \A where \in Place : b.balance[where][i] \in Nat
  BY <1>2
<1> QED  BY <1>1, <1>3, <1>4, <1>5 DEF after

(* The rows of an item after a batch.                                      *)
LEMMA RowsGrow ==
    ASSUME NEW b, NEW d, NEW type, NEW place, NEW q, NEW v, Batch(b, d, type, place, q, v),
           NEW i \in Item, NEW where
    PROVE  LET rows == b.rows \cup Entries(b, d, type, place, q, v)
           IN /\ QtyOf(RowsIn(rows, where, i)) =
                     QtyOf(RowsIn(b.rows, where, i)) + (IF where = place THEN q[i] ELSE 0)
              /\ ValueOf(RowsOf(rows, i)) = ValueOf(RowsOf(b.rows, i)) + Entered(b, q, v, i)
<1> DEFINE E == Entries(b, d, type, place, q, v)
           rows == b.rows \cup E
           r == NewRow(b, d, type, place, q, v, i)
           in == RowsIn(b.rows, where, i)
           of == RowsOf(b.rows, i)
<1>1. /\ RowsOf(E, i) = IF q[i] = 0 THEN {} ELSE {r}
      /\ RowsIn(E, where, i) = IF q[i] = 0 \/ where # place THEN {} ELSE {r}
      /\ q[i] # 0 => r \in Movement
      /\ r.qty = q[i] /\ r.value = Entered(b, q, v, i)
  BY EntriesOfItem
<1>2. E \cap b.rows = {}
  BY EntriesSound
<1>3. /\ in \in SUBSET Movement /\ IsFiniteSet(in) /\ of \in SUBSET Movement /\ IsFiniteSet(of)
  <2>1. b.rows \in SUBSET Movement /\ IsFiniteSet(b.rows)
    BY DEF Batch, Whole
  <2>2. in \subseteq b.rows /\ of \subseteq b.rows
    BY DEF RowsIn, RowsOf
  <2> QED  BY <2>1, <2>2, FS_Subset
<1>4. q[i] \in Int /\ Entered(b, q, v, i) \in Int /\ (q[i] = 0 => Entered(b, q, v, i) = 0)
  BY EnteredSign
<1>5. RowsOf(rows, i) = of \cup RowsOf(E, i) /\ RowsIn(rows, where, i) = in \cup RowsIn(E, where, i)
  BY DEF RowsOf, RowsIn
<1>6. RowsOf(E, i) \cap of = {} /\ RowsIn(E, where, i) \cap in = {}
  BY <1>2 DEF RowsOf, RowsIn
<1> HIDE DEF E, rows, r, in, of
<1>7. QtyOf(in) \in Int /\ ValueOf(of) \in Int
  BY <1>3, RowSums
<1>8. QtyOf(RowsIn(rows, where, i)) = QtyOf(in) + (IF where = place THEN q[i] ELSE 0)
  <2>1. CASE q[i] = 0 \/ where # place
    <3>1. RowsIn(rows, where, i) = in
      BY <1>1, <1>5, <2>1
    <3> QED  BY <1>4, <1>7, <2>1, <3>1
  <2>2. CASE q[i] # 0 /\ where = place
    <3>1. RowsIn(rows, where, i) = in \cup {r} /\ r \notin in /\ r \in Movement
      BY <1>1, <1>5, <1>6, <2>2
    <3>2. QtyOf(in \cup {r}) = QtyOf(in) + r.qty
      BY <1>3, <3>1, OneMoreRow
    <3> QED  BY <1>1, <2>2, <3>1, <3>2
  <2> QED  BY <2>1, <2>2
<1>9. ValueOf(RowsOf(rows, i)) = ValueOf(of) + Entered(b, q, v, i)
  <2>1. CASE q[i] = 0
    <3>1. RowsOf(rows, i) = of
      BY <1>1, <1>5, <2>1
    <3> QED  BY <1>4, <1>7, <2>1, <3>1
  <2>2. CASE q[i] # 0
    <3>1. RowsOf(rows, i) = of \cup {r} /\ r \notin of /\ r \in Movement
      BY <1>1, <1>5, <1>6, <2>2
    <3>2. ValueOf(of \cup {r}) = ValueOf(of) + r.value
      BY <1>3, <3>1, OneMoreRow
    <3> QED  BY <1>1, <3>1, <3>2
  <2> QED  BY <2>1, <2>2
<1> QED  BY <1>8, <1>9 DEF E, rows, in, of

LEMMA MovedWhole ==
    ASSUME NEW b, NEW d, NEW type, NEW place, NEW q, NEW v, Batch(b, d, type, place, q, v),
           Fits(Moved(b, d, type, place, q, v))
    PROVE  LET after == Moved(b, d, type, place, q, v)
           IN Whole(after.balance, after.pool, after.rows)
<1> DEFINE after == Moved(b, d, type, place, q, v)
           E == Entries(b, d, type, place, q, v)
           bal == after.balance
<1>1. Whole(b.balance, b.pool, b.rows) /\ place \in Place
  BY DEF Batch
<1>2. \A i \in Item :
         /\ \A where \in Place : bal[where][i] = b.balance[where][i] + (IF where = place THEN q[i] ELSE 0)
         /\ \A where \in Place : b.balance[where][i] \in Nat
         /\ after.pool[i].qty = b.pool[i].qty + q[i]
         /\ after.pool[i].value = b.pool[i].value + Entered(b, q, v, i)
         /\ after.rows = b.rows \cup E
  BY MovedChanges
<1>3. \A i \in Item : /\ Entered(b, q, v, i) \in Int /\ b.pool[i].value + Entered(b, q, v, i) \in Nat
                      /\ q[i] \in Int /\ b.pool[i].qty \in Nat /\ b.pool[i].value \in Nat
                      /\ q[i] = 0 => Entered(b, q, v, i) = 0
                      /\ q[i] < 0 /\ b.pool[i].qty + q[i] <= 0 => b.pool[i].value + Entered(b, q, v, i) = 0
  BY EnteredSign
<1>4. /\ bal = Shelves(b, place, q)
      /\ after.pool = Pools(b, q, v)
      /\ after.rows = b.rows \cup E
  BY MovedFields
<1>5. \A where \in Place, i \in Item : bal[where][i] >= 0
  BY DEF Fits
<1> HIDE DEF after, E, bal
<1>6. bal \in [Place -> [Item -> Nat]]
  <2>1. b.balance \in [Place -> [Item -> Nat]]
    BY <1>1 DEF Whole
  <2>2. bal \in [Place -> [Item -> Int]]
    BY <1>1, <1>3, <1>4, <2>1 DEF Shelf, Shelves
  <2>3. \A where \in Place, i \in Item : bal[where][i] \in Nat
    BY <1>5, <2>2
  <2>4. \A where \in Place : bal[where] \in [Item -> Nat]
    BY <2>2, <2>3
  <2> QED  BY <2>2, <2>4
<1>7. \A i \in Item : after.pool[i].qty = TotalAt(bal, i) /\ after.pool[i].qty \in Nat
  <2> TAKE i \in Item
  <2> DEFINE f == [where \in Place |-> b.balance[where][i]]
             g == [where \in Place |-> bal[where][i]]
  <2>1. \A where \in Place : /\ f[where] = b.balance[where][i] /\ g[where] = bal[where][i]
                             /\ f[where] \in Int /\ g[where] \in Nat
    BY <1>2, <1>6
  <2>2. \A where \in Place \ {place} : f[where] = g[where]
    BY <1>2, <2>1
  <2>3. g[place] = f[place] + q[i]
    BY <1>1, <1>2, <2>1
  <2>4. b.pool[i].qty = SumFunctionOnSet(f, Place) /\ TotalAt(bal, i) = SumFunctionOnSet(g, Place)
    BY <1>1 DEF Whole, TotalAt
  <2> HIDE DEF f, g
  <2>5. SumFunctionOnSet(g, Place) = SumFunctionOnSet(f, Place) + (g[place] - f[place])
    <3>1. \A where \in Place : f[where] \in Int /\ g[where] \in Int
      BY <2>1
    <3> QED  BY <1>1, <2>2, <3>1, FiniteTables, SumChange
  <2>6. SumFunctionOnSet(g, Place) \in Nat
    <3>1. \A where \in Place : g[where] \in Nat
      BY <2>1
    <3> QED  BY <3>1, FiniteTables, SumNat
  <2>7. f[place] \in Int /\ q[i] \in Int /\ b.pool[i].qty \in Nat
    BY <1>1, <1>3, <2>1
  <2> QED  BY <1>2, <2>3, <2>4, <2>5, <2>6, <2>7
<1>8. after.pool \in [Item -> [qty : Nat, value : Nat]]
  <2> DEFINE row(i) == [qty |-> b.pool[i].qty + q[i], value |-> b.pool[i].value + Entered(b, q, v, i)]
  <2>1. \A i \in Item : row(i) \in [qty : Nat, value : Nat]
    <3>1. \A i \in Item : b.pool[i].qty + q[i] \in Nat /\ b.pool[i].value + Entered(b, q, v, i) \in Nat
      BY <1>2, <1>3, <1>7
    <3> QED  BY <3>1
  <2>2. after.pool = [i \in Item |-> row(i)]
    BY <1>4 DEF Pools
  <2> HIDE DEF row
  <2> QED  BY <2>1, <2>2
<1>9. after.rows \in SUBSET Movement /\ IsFiniteSet(after.rows)
  <2>1. E \in SUBSET Movement /\ IsFiniteSet(E)
    BY EntriesSound DEF E
  <2>2. b.rows \in SUBSET Movement /\ IsFiniteSet(b.rows)
    BY <1>1 DEF Whole
  <2>3. IsFiniteSet(b.rows \cup E)
    BY <2>1, <2>2, FS_Union
  <2>4. after.rows = b.rows \cup E
    BY <1>4
  <2> QED  BY <2>1, <2>2, <2>3, <2>4
<1>10. \A i \in Item : /\ \A where \in Place : bal[where][i] = QtyOf(RowsIn(after.rows, where, i))
                       /\ after.pool[i].value = ValueOf(RowsOf(after.rows, i))
  <2> TAKE i \in Item
  <2>1. \A where : /\ QtyOf(RowsIn(after.rows, where, i)) =
                         QtyOf(RowsIn(b.rows, where, i)) + (IF where = place THEN q[i] ELSE 0)
                   /\ ValueOf(RowsOf(after.rows, i)) = ValueOf(RowsOf(b.rows, i)) + Entered(b, q, v, i)
    BY <1>4, RowsGrow DEF E
  <2>2. ValueOf(RowsOf(after.rows, i)) = ValueOf(RowsOf(b.rows, i)) + Entered(b, q, v, i)
    BY <2>1
  <2>3. /\ \A where \in Place : b.balance[where][i] = QtyOf(RowsIn(b.rows, where, i))
        /\ b.pool[i].value = ValueOf(RowsOf(b.rows, i))
    BY <1>1 DEF Whole
  <2> QED  BY <1>2, <2>1, <2>2, <2>3
<1>11. \A i \in Item : after.pool[i].qty = 0 => after.pool[i].value = 0
  <2> TAKE i \in Item
  <2>1. b.pool[i].qty = 0 => b.pool[i].value = 0
    BY <1>1 DEF Whole
  <2>2. /\ after.pool[i].qty = b.pool[i].qty + q[i]
        /\ after.pool[i].value = b.pool[i].value + Entered(b, q, v, i)
    BY <1>2
  <2>3. /\ q[i] \in Int /\ b.pool[i].qty \in Nat /\ b.pool[i].value \in Nat
        /\ q[i] = 0 => Entered(b, q, v, i) = 0
        /\ q[i] < 0 /\ b.pool[i].qty + q[i] <= 0 => b.pool[i].value + Entered(b, q, v, i) = 0
    BY <1>3
  <2> DEFINE n == q[i]
             m == b.pool[i].qty
  <2>4. CASE n < 0
    BY <2>2, <2>3, <2>4
  <2>5. CASE n = 0
    BY <2>1, <2>2, <2>3, <2>5
  <2>6. CASE n > 0
    BY <2>2, <2>3, <2>6
  <2> QED  BY <2>3, <2>4, <2>5, <2>6
<1>12. \A r \in after.rows : r.qty # 0 /\ (r.qty < 0 => r.value <= 0) /\ (r.qty > 0 => r.value >= 0)
  <2>1. \A r \in E : r.qty # 0 /\ (r.qty < 0 => r.value <= 0) /\ (r.qty > 0 => r.value >= 0)
    BY EntriesSound DEF E
  <2>2. \A r \in b.rows : r.qty # 0 /\ (r.qty < 0 => r.value <= 0) /\ (r.qty > 0 => r.value >= 0)
    BY <1>1 DEF Whole
  <2> QED  BY <1>4, <2>1, <2>2
<1>13. Whole(bal, after.pool, after.rows)
  BY <1>6, <1>7, <1>8, <1>9, <1>10, <1>11, <1>12 DEF Whole
<1> QED  BY <1>13 DEF after, bal

Fresh(rows, d, type, place) == \A r \in rows : ~(r.doc = d /\ r.type = type /\ r.place = place)

(* A move between two places keeps the books whole and the stock's value.  *)
LEMMA PairsWhole ==
    ASSUME NEW b, Whole(b.balance, b.pool, b.rows),
           NEW d \in Doc, NEW from \in Place, NEW to \in Place, from # to,
           NEW q, q \in [Item -> Nat],
           Fresh(b.rows, d, "transfer_out", from), Fresh(b.rows, d, "transfer_in", to),
           Fits(MovePairs(b, d, from, to, q))
    PROVE  LET after == MovePairs(b, d, from, to, q)
           IN /\ Whole(after.balance, after.pool, after.rows)
              /\ \A i \in Item : after.pool[i].value = b.pool[i].value
              /\ \A where \in Place, i \in Item : after.balance[where][i] =
                    b.balance[where][i] + (IF where = to THEN q[i] ELSE 0)
                                        - (IF where = from THEN q[i] ELSE 0)
              /\ b.rows \subseteq after.rows
              /\ \A r \in after.rows \ b.rows :
                    r.doc = d /\ \/ r.type = "transfer_out" /\ r.place = from
                                 \/ r.type = "transfer_in" /\ r.place = to
<1> DEFINE nq == [i \in Item |-> -q[i]]
           out == Moved(b, d, "transfer_out", from, nq, Nothing)
           v == [i \in Item |-> b.pool[i].value - out.pool[i].value]
           after == Moved(out, d, "transfer_in", to, q, v)
<1>0. MovePairs(b, d, from, to, q) = after
  BY DEF MovePairs
<1>1. \A i \in Item : nq[i] = -q[i] /\ q[i] \in Nat /\ Nothing[i] = 0
  BY DEF Nothing
<1>2. Batch(b, d, "transfer_out", from, nq, Nothing)
  <2>1. nq \in [Item -> Int] /\ Nothing \in [Item -> Int]
    BY <1>1 DEF Nothing
  <2>2. "transfer_out" \in MovementType
    BY DEF MovementType
  <2> HIDE DEF nq
  <2> QED  BY <1>1, <2>1, <2>2 DEF Batch, Fresh
<1> HIDE DEF nq, out
<1>3. \A i \in Item :
         /\ \A where \in Place : out.balance[where][i] = b.balance[where][i] + (IF where = from THEN nq[i] ELSE 0)
         /\ \A where \in Place : b.balance[where][i] \in Nat
         /\ out.pool[i].value = b.pool[i].value + Entered(b, nq, Nothing, i)
         /\ out.rows = b.rows \cup Entries(b, d, "transfer_out", from, nq, Nothing)
  BY <1>2, MovedChanges DEF out
<1>4. \A i \in Item : /\ Entered(b, nq, Nothing, i) \in Int /\ b.pool[i].value \in Nat
                      /\ q[i] = 0 => Entered(b, nq, Nothing, i) = 0
                      /\ q[i] > 0 => Entered(b, nq, Nothing, i) <= 0
  <2> TAKE i \in Item
  <2>1. /\ Entered(b, nq, Nothing, i) \in Int /\ b.pool[i].value \in Nat
        /\ nq[i] = 0 => Entered(b, nq, Nothing, i) = 0
        /\ nq[i] < 0 => Entered(b, nq, Nothing, i) <= 0
    BY <1>2, EnteredSign
  <2>2. nq[i] = -q[i] /\ q[i] \in Nat
    BY <1>1
  <2> QED  BY <2>1, <2>2
<1>5. Fits(out)
  <2> SUFFICES ASSUME NEW where \in Place, NEW i \in Item PROVE out.balance[where][i] >= 0
    BY DEF Fits
  <2>1. after.balance = Shelves(out, to, q)
    BY MovedFields
  <2>2. out.balance = Shelves(b, from, nq)
    BY MovedFields DEF out
  <2>3. b.balance \in [Place -> [Item -> Nat]]
    BY DEF Whole
  <2>4. DOMAIN out.balance = Place
    BY <2>2, <2>3 DEF Shelves
  <2>5. CASE where = from
    <3>1. after.balance[from] = out.balance[from]
      BY <2>1, <2>4 DEF Shelves
    <3>2. after.balance[from][i] >= 0
      BY <1>0 DEF Fits
    <3> QED  BY <2>5, <3>1, <3>2
  <2>6. CASE where # from
    BY <1>3, <2>6
  <2> QED  BY <2>5, <2>6
<1>6. Whole(out.balance, out.pool, out.rows)
  BY <1>2, <1>5, MovedWhole DEF out
<1>7. \A i \in Item : v[i] = -Entered(b, nq, Nothing, i) /\ v[i] = b.pool[i].value - out.pool[i].value
  BY <1>3, <1>4
<1>8. v \in [Item -> Int]
  BY <1>4, <1>7
<1> HIDE DEF v
<1>9. \A r \in Entries(b, d, "transfer_out", from, nq, Nothing) :
          r.doc = d /\ r.type = "transfer_out" /\ r.place = from
  BY <1>2, EntriesSound
<1>10. Batch(out, d, "transfer_in", to, q, v)
  <2>1. "transfer_in" \in MovementType /\ q \in [Item -> Int]
    BY DEF MovementType
  <2>2. \A i \in Item : (q[i] = 0 => v[i] = 0) /\ (q[i] > 0 => v[i] >= 0)
    BY <1>1, <1>4, <1>7
  <2>3. out.rows = b.rows \cup Entries(b, d, "transfer_out", from, nq, Nothing)
    BY MovedFields DEF out
  <2>4. \A r \in out.rows : ~(r.doc = d /\ r.type = "transfer_in" /\ r.place = to)
    BY <1>9, <2>3 DEF Fresh
  <2> QED  BY <1>6, <1>8, <2>1, <2>2, <2>4 DEF Batch
<1>11. Fits(after)
  BY <1>0
<1> HIDE DEF after
<1>12. Whole(after.balance, after.pool, after.rows)
  BY <1>10, <1>11, MovedWhole DEF after
<1>13. \A i \in Item :
         /\ \A where \in Place : after.balance[where][i] = out.balance[where][i] + (IF where = to THEN q[i] ELSE 0)
         /\ after.pool[i].value = out.pool[i].value + Entered(out, q, v, i)
  BY <1>10, MovedChanges DEF after
<1>14. \A i \in Item : /\ q[i] = 0 => Entered(out, q, v, i) = 0
                       /\ q[i] > 0 => Entered(out, q, v, i) = v[i]
  BY <1>10, EnteredSign
<1>15. \A i \in Item : after.pool[i].value = b.pool[i].value
  <2> TAKE i \in Item
  <2>1. after.pool[i].value = out.pool[i].value + Entered(out, q, v, i)
    BY <1>13
  <2>2. out.pool[i].value = b.pool[i].value + Entered(b, nq, Nothing, i) /\ Entered(b, nq, Nothing, i) \in Int
    BY <1>3, <1>4
  <2>3. v[i] = -Entered(b, nq, Nothing, i) /\ q[i] \in Nat /\ b.pool[i].value \in Nat
    BY <1>1, <1>4, <1>7
  <2>4. CASE q[i] = 0
    BY <1>4, <1>14, <2>1, <2>2, <2>3, <2>4
  <2>5. CASE q[i] > 0
    BY <1>14, <2>1, <2>2, <2>3, <2>5
  <2> QED  BY <2>3, <2>4, <2>5
<1>16. \A where \in Place, i \in Item : after.balance[where][i] =
                    b.balance[where][i] + (IF where = to THEN q[i] ELSE 0)
                                        - (IF where = from THEN q[i] ELSE 0)
  BY <1>1, <1>3, <1>13
<1>17. after.rows = out.rows \cup Entries(out, d, "transfer_in", to, q, v)
  BY MovedFields DEF after
<1>18. \A r \in Entries(out, d, "transfer_in", to, q, v) : r.doc = d /\ r.type = "transfer_in" /\ r.place = to
  BY <1>10, EntriesSound
<1>19. out.rows = b.rows \cup Entries(b, d, "transfer_out", from, nq, Nothing)
  BY MovedFields DEF out
<1> QED  BY <1>0, <1>9, <1>12, <1>15, <1>16, <1>17, <1>18, <1>19

LEMMA SameValue ==
    ASSUME NEW p, NEW p2, \A i \in Item : p2[i].value = p[i].value
    PROVE  PoolValue(p2) = PoolValue(p)
<1> DEFINE f == [i \in Item |-> p[i].value]
           g == [i \in Item |-> p2[i].value]
<1>1. \A i \in Item : g[i] = f[i]
  OBVIOUS
<1> HIDE DEF f, g
<1>2. SumFunctionOnSet(g, Item) = SumFunctionOnSet(f, Item)
  BY <1>1, FiniteTables, SumEqual
<1> QED  BY <1>2 DEF PoolValue, f, g

-----------------------------------------------------------------------------
(* The invariant.                                                          *)

(* The statuses of a document that has moved stock.                        *)
Done == {"posted", "reversed", "in_transit", "received"}

Shapes ==
    /\ status \in [Doc -> Status]
    /\ site \in [Doc -> Warehouse \cup {None}]
    /\ dest \in [Doc -> Warehouse \cup {None}]
    /\ dated \in [Doc -> Nat]
    /\ received \in [Doc -> [Item -> Nat]]
    /\ DOMAIN lines = Doc /\ DOMAIN sheet = Doc /\ DOMAIN cutoff = Doc
    /\ signedOff \subseteq Doc
    /\ postToGl \in BOOLEAN /\ policy \in Policies /\ lockDate \in Nat

(* What a document says; a transfer never a negative quantity.             *)
Written ==
    \A d \in Doc :
        /\ DOMAIN lines[d] \subseteq Item
        /\ \A i \in DOMAIN lines[d] : lines[d][i] \in Line /\ (d \in Transfer => lines[d][i].qty >= 0)
        /\ status[d] \notin {"none", "deleted"} =>
              site[d] \in Warehouse /\ (d \in Transfer => dest[d] \in Warehouse)

(* What a count is compared with is what its cutoff has seen, until it     *)
(* posts, and from its submission every line is counted.                   *)
Counted ==
    \A d \in Doc : \A i \in DOMAIN sheet[d] :
        /\ i \in Item /\ sheet[d][i] \in [expected : Nat, counted : Nat \cup {None}]
        /\ d \in Stocktake /\ status[d] \in {"counting", "pending_approval", "approved"} =>
              sheet[d][i].expected = HeldAtCutoff(d, i)
        /\ d \in Stocktake /\ status[d] \in {"pending_approval", "approved"} =>
              sheet[d][i].counted # None

Snapshots == \A d \in Doc : cutoff[d] \subseteq movements

(* Only documents that went ahead have rows, and only those their status   *)
(* stands for: this is what keeps a posting from happening twice.          *)
Traced ==
    \A r \in movements :
        /\ status[r.doc] \in Done
        /\ r.type = "reversal" => status[r.doc] = "reversed"
        /\ status[r.doc] = "in_transit" => \/ r.type = "transfer_out" /\ r.place # Transit
                                           \/ r.type = "transfer_in" /\ r.place = Transit

(* The quantity a posted adjustment or issue moved of an item.             *)
Signed(d, i) == IF d \in Issue THEN -Qty(d, i) ELSE Qty(d, i)

(* What a reversal takes back is what the document said.                   *)
Reversible ==
    \A d \in Adjustment \cup Issue : status[d] = "posted" =>
        \A i \in Item :
            IF Signed(d, i) = 0 THEN Originals(d, i) = {}
            ELSE \E r \in movements : Originals(d, i) = {r} /\ r.qty = Signed(d, i)

(* Journals of which no document has two for one event.                    *)
JournalEntry == [doc : Doc \cup {None}, event : Event, amount : Int]
WellBooked(js) ==
    /\ IsFiniteSet(js) /\ js \subseteq JournalEntry
    /\ \A j \in js : \A k \in js : j.doc = k.doc /\ j.event = k.event => j = k
    /\ \A j \in js : j.event # "opening" => j.doc \in Doc

(* The statuses in which a document's event has happened.                  *)
Happened(event, s) ==
    /\ event = "posted" => s \in {"posted", "reversed"}
    /\ event \in {"reversal", "reversal_variance", "reversed"} => s = "reversed"
    /\ event = "transit_loss" => s = "received"

(* At most one journal for each event of a document, when it has happened. *)
Journaled == WellBooked(journals) /\ \A j \in journals : Happened(j.event, status[j.doc])

StockInv ==
    /\ Shapes /\ Written /\ Counted /\ Snapshots
    /\ Whole(balance, pool, movements)
    /\ Traced /\ Reversible /\ Journaled /\ GlMatchesStock
    /\ StockFollowsDocuments

-----------------------------------------------------------------------------
(* The documents.                                                          *)

LEMMA BodyTypes ==
    ASSUME NEW d \in Doc, NEW body \in Bodies(d)
    PROVE  /\ DOMAIN body \subseteq Item
           /\ \A i \in DOMAIN body : body[i] \in Line /\ (d \in Transfer => body[i].qty >= 0)
<1>1. \A q \in Quantities : q \in Nat /\ q > 0 /\ 1 * q = q /\ -1 * q \in Int
  BY LineAssumption
<1>2. \A l \in Added \cup Taken(-1) : l \in Line
  BY <1>1, LineAssumption DEF Added, Taken, Line
<1>3. \A l \in Taken(1) : l \in Line /\ l.qty >= 0
  BY <1>1 DEF Taken, Line
<1>4. d \in Transfer => d \notin Adjustment /\ d \notin Stocktake
  BY TableAssumption
<1>5. CASE d \in Stocktake
  <2>1. body = <<>>
    BY <1>5 DEF Bodies
  <2> QED  BY <2>1
<1>6. CASE d \notin Stocktake /\ d \in Adjustment
  <2>1. \E items \in SUBSET Item : body \in [items -> Added \cup Taken(-1)]
    BY <1>6 DEF Bodies, PerItem
  <2> QED  BY <1>2, <1>4, <1>6, <2>1
<1>7. CASE d \notin Stocktake /\ d \notin Adjustment
  <2>1. \E items \in SUBSET Item : body \in [items -> Taken(1)]
    BY <1>7 DEF Bodies, PerItem
  <2> QED  BY <1>3, <2>1
<1> QED  BY <1>5, <1>6, <1>7

LEMMA ShapesStep == ASSUME Shapes, [Next]_vars PROVE Shapes'
<1> USE DEF Shapes
<1>1. ASSUME NEW d \in Doc, NEW w \in Warehouse, NEW day \in Days,
             NEW to \in Destinations(d, w), NEW body \in Bodies(d), WriteDraft(d, w, to, day, body)
      PROVE  Shapes'
  <2>1. to \in Warehouse \cup {None} /\ day \in Nat
    BY DayAssumption DEF Destinations
  <2> QED  BY <1>1, <2>1 DEF WriteDraft, count, books, settings, Status
<1>2. ASSUME NEW d \in Doc, Delete(d)
      PROVE  Shapes'
  BY <1>2 DEF Delete, count, books, settings, Status
<1>3. ASSUME NEW d \in Doc, Submit(d) \/ Cancel(d)
      PROVE  Shapes'
  BY <1>3 DEF Submit, Cancel, header, count, books, settings, Status
<1>4. ASSUME NEW d \in Doc, NEW approve \in BOOLEAN, Decide(d, approve)
      PROVE  Shapes'
  BY <1>4 DEF Decide, header, count, books, settings, Status
<1>5. ASSUME NEW d \in Doc, PostAdjustment(d) \/ PostIssue(d) \/ Reverse(d) \/ PostStocktake(d)
      PROVE  Shapes'
  BY <1>5 DEF PostAdjustment, PostIssue, Reverse, PostStocktake, header, count, settings, Status
<1>6. ASSUME NEW d \in Doc, NEW day, Dispatch(d, day)
      PROVE  Shapes'
  BY <1>6 DEF Dispatch, header, count, settings, Status
<1>7. ASSUME NEW d \in Doc, NEW day, NEW arrived \in [Item -> {0} \cup Quantities], Receive(d, day, arrived)
      PROVE  Shapes'
  <2>1. {0} \cup Quantities \subseteq Nat
    BY LineAssumption
  <2>2. arrived \in [Item -> Nat]
    BY <2>1
  <2> QED  BY <1>7, <2>2 DEF Receive, header, count, settings, Status
<1>8. ASSUME NEW d \in Doc, NEW i,
             StartCount(d) \/ RemoveLine(d, i)
                \/ \E counted : RecordCount(d, i, counted) \/ AddLine(d, i, counted)
      PROVE  Shapes'
  BY <1>8 DEF StartCount, RemoveLine, RecordCount, AddLine, header, books, settings, Status
<1>9. CASE StartGl \/ (\E a \in Policies : UpdateInventorySettings(a))
                   \/ (\E day \in LockDates : UpdateLockDate(day))
  BY <1>9, DayAssumption DEF StartGl, UpdateInventorySettings, UpdateLockDate, header, count
<1>10. CASE UNCHANGED vars
  BY <1>10 DEF vars, header, count, settings
<1> QED  BY <1>1, <1>2, <1>3, <1>4, <1>5, <1>6, <1>7, <1>8, <1>9, <1>10 DEF Next, Doc

(* Nothing about the document changes. *)
Same(e) == /\ status'[e] = status[e] /\ site'[e] = site[e] /\ dest'[e] = dest[e]
           /\ lines'[e] = lines[e] /\ received'[e] = received[e]
           /\ sheet'[e] = sheet[e] /\ cutoff'[e] = cutoff[e]

(* A step that only concerns the document's papers, or the settings.       *)
Paper(d) == /\ \A e \in Doc \ {d} : Same(e)
            /\ status[d] \notin Done /\ status'[d] \notin Done
            /\ UNCHANGED <<balance, pool, movements, journals, postToGl>>

(* A step that moves the document's stock: what it says stays as it is.    *)
Moves(d, from, to) ==
    /\ \A e \in Doc \ {d} : Same(e)
    /\ status[d] \in from /\ status'[d] = to
    /\ site'[d] = site[d] /\ dest'[d] = dest[d] /\ lines'[d] = lines[d]
    /\ sheet'[d] = sheet[d] /\ cutoff'[d] = cutoff[d]

LEMMA PaperSteps ==
    ASSUME Shapes, NEW d \in Doc
    PROVE  /\ \A w, to, day, body : WriteDraft(d, w, to, day, body) => Paper(d)
           /\ Delete(d) \/ Submit(d) \/ Cancel(d) \/ StartCount(d) => Paper(d)
           /\ \A approve \in BOOLEAN : Decide(d, approve) => Paper(d)
           /\ \A i, counted : RecordCount(d, i, counted) \/ AddLine(d, i, counted) => Paper(d)
           /\ \A i : RemoveLine(d, i) => Paper(d)
<1> USE DEF Shapes, Paper, Same, Done, header, count, books, settings
<1>1. ASSUME NEW w, NEW to, NEW day, NEW body, WriteDraft(d, w, to, day, body) PROVE Paper(d)
  BY <1>1 DEF WriteDraft
<1>2. ASSUME Delete(d) PROVE Paper(d)
  BY <1>2 DEF Delete
<1>3. ASSUME Submit(d) PROVE Paper(d)
  BY <1>3 DEF Submit, Complete
<1>4. ASSUME Cancel(d) PROVE Paper(d)
  BY <1>4 DEF Cancel
<1>5. ASSUME StartCount(d) PROVE Paper(d)
  BY <1>5 DEF StartCount
<1>6. ASSUME NEW approve \in BOOLEAN, Decide(d, approve) PROVE Paper(d)
  BY <1>6 DEF Decide
<1>7. ASSUME NEW i, NEW counted, RecordCount(d, i, counted) PROVE Paper(d)
  BY <1>7 DEF RecordCount
<1>8. ASSUME NEW i, NEW counted, AddLine(d, i, counted) PROVE Paper(d)
  BY <1>8 DEF AddLine
<1>9. ASSUME NEW i, RemoveLine(d, i) PROVE Paper(d)
  BY <1>9 DEF RemoveLine
<1> QED  BY <1>1, <1>2, <1>3, <1>4, <1>5, <1>6, <1>7, <1>8, <1>9

LEMMA MovingSteps ==
    ASSUME Shapes, NEW d \in Doc
    PROVE  /\ PostAdjustment(d) \/ PostIssue(d) => Moves(d, {"draft", "approved"}, "posted")
           /\ PostStocktake(d) => Moves(d, {"approved"}, "posted")
           /\ Reverse(d) => Moves(d, {"posted"}, "reversed")
           /\ \A day : Dispatch(d, day) => Moves(d, {"draft", "approved"}, "in_transit")
           /\ \A day, arrived : Receive(d, day, arrived) =>
                 Moves(d, {"in_transit"}, "received") /\ received'[d] = arrived
<1> USE DEF Shapes, Moves, Same, header, count, settings
<1>1. ASSUME PostAdjustment(d) PROVE Moves(d, {"draft", "approved"}, "posted")
  BY <1>1 DEF PostAdjustment, MayGoAhead
<1>2. ASSUME PostIssue(d) PROVE Moves(d, {"draft", "approved"}, "posted")
  BY <1>2 DEF PostIssue, MayGoAhead
<1>3. ASSUME PostStocktake(d) PROVE Moves(d, {"approved"}, "posted")
  BY <1>3 DEF PostStocktake
<1>4. ASSUME Reverse(d) PROVE Moves(d, {"posted"}, "reversed")
  BY <1>4 DEF Reverse
<1>5. ASSUME NEW day, Dispatch(d, day) PROVE Moves(d, {"draft", "approved"}, "in_transit")
  BY <1>5 DEF Dispatch, MayGoAhead
<1>6. ASSUME NEW day, NEW arrived, Receive(d, day, arrived)
      PROVE  Moves(d, {"in_transit"}, "received") /\ received'[d] = arrived
  BY <1>6 DEF Receive
<1> QED  BY <1>1, <1>2, <1>3, <1>4, <1>5, <1>6

(* Settings, the start of the ledger, and nothing at all.                  *)
LEMMA OtherSteps ==
    ASSUME StartGl \/ (\E a \in Policies : UpdateInventorySettings(a))
                   \/ (\E day \in LockDates : UpdateLockDate(day)) \/ UNCHANGED vars
    PROVE  /\ \A e \in Doc : Same(e)
           /\ UNCHANGED <<balance, pool, movements>>
           /\ UNCHANGED <<journals, postToGl>> \/ StartGl
<1> USE DEF header, count, books, Same
<1>1. CASE StartGl  BY <1>1 DEF StartGl
<1>2. CASE \E a \in Policies : UpdateInventorySettings(a)  BY <1>2 DEF UpdateInventorySettings
<1>3. CASE \E day \in LockDates : UpdateLockDate(day)  BY <1>3 DEF UpdateLockDate
<1>4. CASE UNCHANGED vars  BY <1>4 DEF vars, settings
<1> QED  BY <1>1, <1>2, <1>3, <1>4

LEMMA WrittenStays ==
    ASSUME Written, NEW e \in Doc,
           lines'[e] = lines[e], site'[e] = site[e], dest'[e] = dest[e],
           status[e] \notin {"none", "deleted"} \/ status'[e] = status[e]
    PROVE  /\ DOMAIN lines'[e] \subseteq Item
           /\ \A i \in DOMAIN lines'[e] : lines'[e][i] \in Line /\ (e \in Transfer => lines'[e][i].qty >= 0)
           /\ status'[e] \notin {"none", "deleted"} =>
                 site'[e] \in Warehouse /\ (e \in Transfer => dest'[e] \in Warehouse)
BY DEF Written

LEMMA WrittenStep == ASSUME Shapes, Written, [Next]_vars PROVE Written'
<1> DEFINE Ok(e) == /\ DOMAIN lines'[e] \subseteq Item
                    /\ \A i \in DOMAIN lines'[e] : lines'[e][i] \in Line /\ (e \in Transfer => lines'[e][i].qty >= 0)
                    /\ status'[e] \notin {"none", "deleted"} =>
                          site'[e] \in Warehouse /\ (e \in Transfer => dest'[e] \in Warehouse)
<1> SUFFICES \A e \in Doc : Ok(e)
  BY DEF Written
<1>0. \A e \in Doc : Same(e) => Ok(e)
  BY WrittenStays DEF Same
<1>0a. ASSUME NEW d \in Doc, \A e \in Doc \ {d} : Same(e), Ok(d) PROVE \A e \in Doc : Ok(e)
  BY <1>0, <1>0a
<1>1. ASSUME NEW d \in Doc, NEW w \in Warehouse, NEW day \in Days,
             NEW to \in Destinations(d, w), NEW body \in Bodies(d), WriteDraft(d, w, to, day, body)
      PROVE  \A e \in Doc : Ok(e)
  <2>1. \A e \in Doc \ {d} : Same(e)
    BY <1>1, PaperSteps DEF Paper
  <2>2. lines'[d] = body /\ site'[d] = w /\ dest'[d] = to
    BY <1>1 DEF WriteDraft, Shapes
  <2>3. d \in Transfer => to \in Warehouse
    BY DEF Destinations
  <2>4. DOMAIN body \subseteq Item /\ \A i \in DOMAIN body : body[i] \in Line /\ (d \in Transfer => body[i].qty >= 0)
    BY BodyTypes
  <2>5. Ok(d)
    BY <2>2, <2>3, <2>4
  <2> HIDE DEF Ok
  <2> QED  BY <1>0a, <2>1, <2>5
<1>2. ASSUME NEW d \in Doc, Delete(d) PROVE \A e \in Doc : Ok(e)
  <2>1. \A e \in Doc \ {d} : Same(e)
    BY <1>2, PaperSteps DEF Paper
  <2>2. lines'[d] = <<>> /\ status'[d] = "deleted"
    BY <1>2 DEF Delete, Shapes
  <2>3. Ok(d)
    BY <2>2
  <2> HIDE DEF Ok
  <2> QED  BY <1>0a, <2>1, <2>3
<1>3. ASSUME NEW d \in Doc, NEW i,
             \/ Submit(d) \/ Cancel(d) \/ StartCount(d)
             \/ \E approve \in BOOLEAN : Decide(d, approve)
             \/ RemoveLine(d, i) \/ \E counted : RecordCount(d, i, counted) \/ AddLine(d, i, counted)
      PROVE \A e \in Doc : Ok(e)
  <2>1. \A e \in Doc \ {d} : Same(e)
    BY <1>3, PaperSteps DEF Paper
  <2>2. /\ lines'[d] = lines[d] /\ site'[d] = site[d] /\ dest'[d] = dest[d]
        /\ status[d] \notin {"none", "deleted"}
    BY <1>3 DEF Submit, Complete, Cancel, StartCount, Decide, RecordCount, AddLine, RemoveLine, header
  <2>3. Ok(d)
    BY <2>2, WrittenStays
  <2> HIDE DEF Ok
  <2> QED  BY <1>0a, <2>1, <2>3
<1>4. ASSUME NEW d \in Doc, NEW from \in SUBSET (Status \ {"none", "deleted"}), NEW s, Moves(d, from, s)
      PROVE \A e \in Doc : Ok(e)
  <2>1. Ok(d)
    BY <1>4, WrittenStays DEF Moves
  <2>2. \A e \in Doc \ {d} : Same(e)
    BY <1>4 DEF Moves
  <2> HIDE DEF Ok
  <2> QED  BY <1>0a, <2>1, <2>2
<1>5. ASSUME NEW d \in Doc,
             \/ PostAdjustment(d) \/ PostIssue(d) \/ PostStocktake(d) \/ Reverse(d)
             \/ \E day : Dispatch(d, day) \/ \E arrived : Receive(d, day, arrived)
      PROVE \A e \in Doc : Ok(e)
  <2> DEFINE S == Status \ {"none", "deleted"}
  <2>1. {"draft", "approved"} \in SUBSET S /\ {"approved"} \in SUBSET S /\ {"posted"} \in SUBSET S
        /\ {"in_transit"} \in SUBSET S
    BY DEF Status
  <2>2. \E from \in SUBSET S : \E s : Moves(d, from, s)
    BY <1>5, <2>1, MovingSteps
  <2> HIDE DEF Ok
  <2> QED  BY <1>4, <2>2
<1>6. CASE StartGl \/ (\E a \in Policies : UpdateInventorySettings(a))
                   \/ (\E day \in LockDates : UpdateLockDate(day)) \/ UNCHANGED vars
  BY <1>0, <1>6, OtherSteps
<1> HIDE DEF Ok
<1> QED  BY <1>1, <1>2, <1>3, <1>5, <1>6 DEF Next, Doc

(* What a sheet promises of one document. *)
SheetOf(e) ==
    \A i \in DOMAIN sheet[e] :
        /\ i \in Item /\ sheet[e][i] \in [expected : Nat, counted : Nat \cup {None}]
        /\ e \in Stocktake /\ status[e] \in {"counting", "pending_approval", "approved"} =>
              sheet[e][i].expected = HeldAtCutoff(e, i)
        /\ e \in Stocktake /\ status[e] \in {"pending_approval", "approved"} =>
              sheet[e][i].counted # None

LEMMA HeldStays ==
    ASSUME NEW e, NEW i, cutoff'[e] = cutoff[e], site'[e] = site[e]
    PROVE  HeldAtCutoff(e, i)' = HeldAtCutoff(e, i)
BY DEF HeldAtCutoff, QtyOf

LEMMA SheetStays ==
    ASSUME NEW e \in Doc, SheetOf(e), sheet'[e] = sheet[e],
           \/ status'[e] \notin {"counting", "pending_approval", "approved"}
           \/ status'[e] = status[e] /\ cutoff'[e] = cutoff[e] /\ site'[e] = site[e]
    PROVE  SheetOf(e)'
<1>1. CASE status'[e] \notin {"counting", "pending_approval", "approved"}
  BY <1>1 DEF SheetOf
<1>2. CASE status'[e] = status[e] /\ cutoff'[e] = cutoff[e] /\ site'[e] = site[e]
  <2>1. \A i : HeldAtCutoff(e, i)' = HeldAtCutoff(e, i)
    BY <1>2, HeldStays
  <2> QED  BY <1>2, <2>1 DEF SheetOf
<1> QED  BY <1>1, <1>2

LEMMA CountStarts ==
    ASSUME Shapes, Written, Whole(balance, pool, movements), NEW d \in Stocktake, StartCount(d)
    PROVE  SheetOf(d)'
<1> DEFINE w == site[d]
           held == {j \in Item : balance[w][j] # 0}
<1>1. d \in Doc /\ status[d] = "draft"
  BY DEF StartCount, Doc
<1>2. w \in Place
  BY <1>1 DEF Written, Place
<1>3. /\ sheet'[d] = [i \in held |-> [expected |-> balance[w][i], counted |-> None]]
      /\ cutoff'[d] = movements /\ site'[d] = w /\ status'[d] = "counting"
  BY <1>1 DEF StartCount, Shapes, header
<1>4. \A i \in Item : balance[w][i] \in Nat /\ balance[w][i] = QtyOf(RowsIn(movements, w, i))
  BY <1>2 DEF Whole
<1>5. \A i : HeldAtCutoff(d, i)' = QtyOf(RowsIn(movements, w, i))
  <2> TAKE i
  <2>1. HeldAtCutoff(d, i)' = QtyOf({r \in cutoff'[d] : r.item = i /\ r.place = site'[d]})
    BY DEF HeldAtCutoff, QtyOf
  <2>2. {r \in cutoff'[d] : r.item = i /\ r.place = site'[d]} = RowsIn(movements, w, i)
    BY <1>3 DEF RowsIn
  <2> QED  BY <2>1, <2>2
<1> HIDE DEF w, held
<1>6. \A i \in DOMAIN sheet'[d] :
          i \in held /\ sheet'[d][i] = [expected |-> balance[w][i], counted |-> None]
  BY <1>3
<1>7. \A i \in held : i \in Item
  BY DEF held
<1>8. \A i \in DOMAIN sheet'[d] :
          /\ i \in Item /\ sheet'[d][i] \in [expected : Nat, counted : Nat \cup {None}]
          /\ sheet'[d][i].expected = HeldAtCutoff(d, i)'
  <2> TAKE i \in DOMAIN sheet'[d]
  <2>1. i \in Item /\ sheet'[d][i] = [expected |-> balance[w][i], counted |-> None]
    BY <1>6, <1>7
  <2>2. sheet'[d][i].expected = balance[w][i] /\ balance[w][i] \in Nat
    BY <1>4, <2>1
  <2>3. HeldAtCutoff(d, i)' = balance[w][i]
    BY <1>4, <1>5, <2>1
  <2> QED  BY <2>1, <2>2, <2>3
<1> QED  BY <1>3, <1>8 DEF SheetOf

LEMMA CountSubmitted ==
    ASSUME Shapes, NEW d \in Doc, SheetOf(d), Submit(d)
    PROVE  SheetOf(d)'
<1>1. \A i : HeldAtCutoff(d, i)' = HeldAtCutoff(d, i)
  BY HeldStays DEF Submit, header, count
<1>2. d \in Stocktake => status[d] = "counting" /\ \A i \in DOMAIN sheet[d] : sheet[d][i].counted # None
  BY DEF Submit, Complete
<1>3. sheet' = sheet
  BY DEF Submit, count
<1> QED  BY <1>1, <1>2, <1>3 DEF SheetOf

LEMMA CountDecided ==
    ASSUME Shapes, NEW d \in Doc, SheetOf(d), NEW approve \in BOOLEAN, Decide(d, approve)
    PROVE  SheetOf(d)'
<1>1. \A i : HeldAtCutoff(d, i)' = HeldAtCutoff(d, i)
  BY HeldStays DEF Decide, header, count
<1>2. sheet' = sheet /\ status[d] = "pending_approval"
  BY DEF Decide, count
<1> QED  BY <1>1, <1>2 DEF SheetOf

LEMMA CountRecorded ==
    ASSUME Shapes, NEW d \in Doc, SheetOf(d), NEW i, NEW counted \in {0, None} \cup Quantities,
           RecordCount(d, i, counted)
    PROVE  SheetOf(d)'
<1>1. \A j : HeldAtCutoff(d, j)' = HeldAtCutoff(d, j)
  BY HeldStays DEF RecordCount, header
<1>2. i \in DOMAIN sheet[d] /\ status' = status /\ status[d] = "counting"
  BY DEF RecordCount
<1>3. sheet'[d] = [sheet[d] EXCEPT ![i].counted = counted]
  BY DEF RecordCount, Shapes
<1>4. counted \in Nat \cup {None}
  BY LineAssumption
<1>5. \A j \in DOMAIN sheet'[d] :
          /\ j \in DOMAIN sheet[d] /\ sheet'[d][j].expected = sheet[d][j].expected
          /\ sheet'[d][j] \in [expected : Nat, counted : Nat \cup {None}]
  <2>1. DOMAIN sheet'[d] = DOMAIN sheet[d]
    BY <1>3
  <2> TAKE j \in DOMAIN sheet'[d]
  <2>2. sheet[d][j] \in [expected : Nat, counted : Nat \cup {None}]
    BY <2>1 DEF SheetOf
  <2>3. CASE j = i
    <3>1. sheet'[d][i] = [sheet[d][i] EXCEPT !.counted = counted]
      BY <1>2, <1>3
    <3> QED  BY <1>4, <2>1, <2>2, <2>3, <3>1
  <2>4. CASE j # i
    <3>1. sheet'[d][j] = sheet[d][j]
      BY <1>3, <2>1, <2>4
    <3> QED  BY <2>1, <2>2, <3>1
  <2> QED  BY <2>3, <2>4
<1> QED  BY <1>1, <1>2, <1>5 DEF SheetOf

LEMMA CountAdded ==
    ASSUME Shapes, NEW d \in Doc, SheetOf(d), NEW i \in Item, NEW counted \in {0} \cup Quantities,
           AddLine(d, i, counted)
    PROVE  SheetOf(d)'
<1>1. \A j : HeldAtCutoff(d, j)' = HeldAtCutoff(d, j)
  BY HeldStays DEF AddLine, header
<1>2. status' = status /\ status[d] = "counting" /\ HeldAtCutoff(d, i) = 0
  BY DEF AddLine
<1>3. sheet'[d] = [j \in DOMAIN sheet[d] \cup {i} |->
                      IF j = i THEN [expected |-> 0, counted |-> counted] ELSE sheet[d][j]]
  BY DEF AddLine, Shapes
<1>4. counted \in Nat
  BY LineAssumption
<1>5. \A j \in DOMAIN sheet'[d] :
          IF j = i THEN sheet'[d][j] = [expected |-> 0, counted |-> counted]
          ELSE j \in DOMAIN sheet[d] /\ sheet'[d][j] = sheet[d][j]
  BY <1>3
<1>6. \A j \in DOMAIN sheet'[d] :
          /\ j \in Item /\ sheet'[d][j] \in [expected : Nat, counted : Nat \cup {None}]
          /\ d \in Stocktake => sheet'[d][j].expected = HeldAtCutoff(d, j)'
  <2> TAKE j \in DOMAIN sheet'[d]
  <2>1. CASE j = i
    <3>1. sheet'[d][j] = [expected |-> 0, counted |-> counted]
      BY <1>5, <2>1
    <3>2. sheet'[d][j].expected = 0
      BY <3>1
    <3> QED  BY <1>1, <1>2, <1>4, <2>1, <3>1, <3>2
  <2>2. CASE j # i
    <3>1. j \in DOMAIN sheet[d] /\ sheet'[d][j] = sheet[d][j]
      BY <1>5, <2>2
    <3> QED  BY <1>1, <1>2, <3>1 DEF SheetOf
  <2> QED  BY <2>1, <2>2
<1> QED  BY <1>2, <1>6 DEF SheetOf

LEMMA CountRemoved ==
    ASSUME Shapes, NEW d \in Doc, SheetOf(d), NEW i, RemoveLine(d, i)
    PROVE  SheetOf(d)'
<1>1. \A j : HeldAtCutoff(d, j)' = HeldAtCutoff(d, j)
  BY HeldStays DEF RemoveLine, header
<1>2. status' = status /\ status[d] = "counting"
  BY DEF RemoveLine
<1>3. sheet'[d] = [j \in DOMAIN sheet[d] \ {i} |-> sheet[d][j]]
  BY DEF RemoveLine, Shapes
<1>4. \A j \in DOMAIN sheet'[d] : j \in DOMAIN sheet[d] /\ sheet'[d][j] = sheet[d][j]
  BY <1>3
<1> QED  BY <1>1, <1>2, <1>4 DEF SheetOf

LEMMA CountedStep ==
    ASSUME Shapes, Written, Counted, Whole(balance, pool, movements), [Next]_vars
    PROVE  Counted'
<1> SUFFICES \A e \in Doc : SheetOf(e)'
  BY DEF Counted, SheetOf
<1>0. \A e \in Doc : SheetOf(e) /\ (Same(e) => SheetOf(e)')
  <2>1. \A e \in Doc : SheetOf(e)
    BY DEF Counted, SheetOf
  <2> QED  BY <2>1, SheetStays DEF Same
<1>1. ASSUME NEW d \in Doc, \A e \in Doc \ {d} : Same(e), SheetOf(d)' PROVE \A e \in Doc : SheetOf(e)'
  <2> TAKE e \in Doc
  <2>1. CASE e = d  BY <1>1, <2>1
  <2>2. CASE e # d  BY <1>0, <1>1, <2>2
  <2> QED  BY <2>1, <2>2
<1>2. ASSUME NEW d \in Doc,
             \/ \E w, to, day, body : WriteDraft(d, w, to, day, body)
             \/ Delete(d) \/ Cancel(d) 
      PROVE  \A e \in Doc : SheetOf(e)'
  <2>1. \A e \in Doc \ {d} : Same(e)
    BY <1>2, PaperSteps DEF Paper
  <2>2. sheet' = sheet /\ status'[d] \in {"draft", "deleted", "cancelled"}
    BY <1>2 DEF WriteDraft, Delete, Cancel, count, Shapes
  <2>3. SheetOf(d)'
    BY <1>0, <2>2, SheetStays
  <2> QED  BY <1>1, <2>1, <2>3
<1>3. ASSUME NEW d \in Doc, Submit(d) PROVE \A e \in Doc : SheetOf(e)'
  BY <1>0, <1>1, <1>3, PaperSteps, CountSubmitted DEF Paper
<1>4. ASSUME NEW d \in Doc, NEW approve \in BOOLEAN, Decide(d, approve) PROVE \A e \in Doc : SheetOf(e)'
  BY <1>0, <1>1, <1>4, PaperSteps, CountDecided DEF Paper
<1>5. ASSUME NEW d \in Stocktake, StartCount(d) PROVE \A e \in Doc : SheetOf(e)'
  <2>1. d \in Doc
    BY DEF Doc
  <2> QED  BY <1>1, <1>5, <2>1, PaperSteps, CountStarts DEF Paper
<1>6. ASSUME NEW d \in Doc, NEW i \in Item, NEW counted \in {0, None} \cup Quantities, RecordCount(d, i, counted)
      PROVE \A e \in Doc : SheetOf(e)'
  BY <1>0, <1>1, <1>6, PaperSteps, CountRecorded DEF Paper
<1>7. ASSUME NEW d \in Doc, NEW i \in Item, NEW counted \in {0} \cup Quantities, AddLine(d, i, counted)
      PROVE \A e \in Doc : SheetOf(e)'
  BY <1>0, <1>1, <1>7, PaperSteps, CountAdded DEF Paper
<1>8. ASSUME NEW d \in Doc, NEW i \in Item, RemoveLine(d, i)
      PROVE \A e \in Doc : SheetOf(e)'
  BY <1>0, <1>1, <1>8, PaperSteps, CountRemoved DEF Paper
<1>9. ASSUME NEW d \in Doc, NEW from, NEW s \in Done, Moves(d, from, s)
      PROVE \A e \in Doc : SheetOf(e)'
  <2>1. SheetOf(d)'
    BY <1>0, <1>9, SheetStays DEF Moves, Done
  <2> QED  BY <1>1, <1>9, <2>1 DEF Moves
<1>10. ASSUME NEW d \in Doc,
              \/ PostAdjustment(d) \/ PostIssue(d) \/ PostStocktake(d) \/ Reverse(d)
              \/ \E day : Dispatch(d, day) \/ \E arrived : Receive(d, day, arrived)
       PROVE \A e \in Doc : SheetOf(e)'
  <2>1. \E from : \E s \in Done : Moves(d, from, s)
    BY <1>10, MovingSteps DEF Done
  <2> QED  BY <1>9, <2>1
<1>11. CASE StartGl \/ (\E a \in Policies : UpdateInventorySettings(a))
                   \/ (\E day \in LockDates : UpdateLockDate(day)) \/ UNCHANGED vars
  BY <1>0, <1>11, OtherSteps
<1> QED  BY <1>2, <1>3, <1>4, <1>5, <1>6, <1>7, <1>8, <1>10, <1>11 DEF Next, Doc

-----------------------------------------------------------------------------
(* What the moving steps do to the books.                                  *)

(* A batch of the document's went into the books. *)
Posted(d, type, place, q) ==
    /\ Whole(balance', pool', movements')
    /\ movements \subseteq movements'
    /\ \A r \in movements' \ movements : r.doc = d /\ r.type = type /\ r.place = place
    /\ \A w \in Place, i \in Item :
          balance'[w][i] = balance[w][i] + (IF w = place THEN q[i] ELSE 0)
    /\ \A i \in Item :
          IF q[i] = 0 THEN RowsOf(movements' \ movements, i) = {}
          ELSE \E r \in movements' : RowsOf(movements' \ movements, i) = {r} /\ r.qty = q[i]

BooksWhole == Whole(balance, pool, movements)

LEMMA BooksFields ==
    Books.balance = balance /\ Books.pool = pool /\ Books.rows = movements
BY DEF Books

LEMMA BatchPosted ==
    ASSUME BooksWhole, NEW d, NEW type, NEW place, NEW q, NEW v, Batch(Books, d, type, place, q, v),
           NEW day, Book(day, Moved(Books, d, type, place, q, v))
    PROVE  /\ Posted(d, type, place, q)
           /\ ValueOf(Moved(Books, d, type, place, q, v).rows \ movements) = PoolValue(pool') - PoolValue(pool)
<1> DEFINE after == Moved(Books, d, type, place, q, v)
           E == Entries(Books, d, type, place, q, v)
<1>1. Fits(after) /\ balance' = after.balance /\ pool' = after.pool /\ movements' = after.rows
  BY DEF Book
<1> HIDE DEF after
<1>2. Whole(balance', pool', movements')
  BY <1>1, MovedWhole DEF after
<1>3. movements' = movements \cup E
  BY <1>1, MovedFields, BooksFields DEF after
<1>4. E \cap movements = {} /\ \A r \in E : r.doc = d /\ r.type = type /\ r.place = place
  BY EntriesSound, BooksFields
<1>5. movements' \ movements = E
  BY <1>3, <1>4
<1>6. \A w \in Place, i \in Item :
          balance'[w][i] = balance[w][i] + (IF w = place THEN q[i] ELSE 0)
  BY <1>1, MovedChanges, BooksFields DEF after
<1>7. \A i \in Item :
          IF q[i] = 0 THEN RowsOf(E, i) = {}
          ELSE \E r \in movements' : RowsOf(E, i) = {r} /\ r.qty = q[i]
  <2> TAKE i \in Item
  <2> DEFINE r == NewRow(Books, d, type, place, q, v, i)
  <2>1. /\ RowsOf(E, i) = IF q[i] = 0 THEN {} ELSE {r}
        /\ r.qty = q[i]
    BY EntriesOfItem
  <2> HIDE DEF r
  <2>2. CASE q[i] # 0
    <3>1. RowsOf(E, i) = {r} /\ r \in RowsOf(E, i)
      BY <2>1, <2>2
    <3>2. r \in movements'
      BY <1>3, <3>1 DEF RowsOf
    <3> QED  BY <2>1, <2>2, <3>1, <3>2
  <2> QED  BY <2>1, <2>2
<1> HIDE DEF E
<1>8. Posted(d, type, place, q)
  BY <1>2, <1>3, <1>4, <1>5, <1>6, <1>7 DEF Posted
<1>9. ValueOf(movements' \ movements) = PoolValue(pool') - PoolValue(pool)
  BY <1>2, <1>3, NewRowsValue DEF BooksWhole
<1> QED  BY <1>1, <1>8, <1>9 DEF after

LEMMA Untouched ==
    ASSUME Traced, NEW d, status[d] \notin Done
    PROVE  \A r \in movements : r.doc # d
BY DEF Traced

LEMMA QtyTypes ==
    ASSUME Written, NEW d \in Doc, NEW i \in Item
    PROVE  /\ Qty(d, i) \in Int /\ (d \in Transfer => Qty(d, i) \in Nat)
           /\ GainValue(d, i) \in Nat /\ (Qty(d, i) = 0 => GainValue(d, i) = 0)
<1>1. CASE i \in DOMAIN lines[d]
  <2>1. lines[d][i].qty \in Int /\ lines[d][i].cost \in Nat /\ (d \in Transfer => lines[d][i].qty >= 0)
    BY <1>1 DEF Written, Line
  <2>2. Qty(d, i) = lines[d][i].qty
    BY <1>1 DEF Qty
  <2>3. CASE Qty(d, i) > 0
    <3>1. GainValue(d, i) = lines[d][i].qty * lines[d][i].cost
      BY <2>2, <2>3 DEF GainValue
    <3>2. lines[d][i].qty * lines[d][i].cost \in Nat
      <4> DEFINE m == lines[d][i].qty
                 c == lines[d][i].cost
      <4>1. m \in Nat /\ c \in Nat
        BY <2>1, <2>2, <2>3
      <4> HIDE DEF m, c
      <4>2. m * c \in Nat
        BY <4>1, ProductNatural
      <4> QED  BY <4>2 DEF m, c
    <3> QED  BY <2>1, <2>2, <2>3, <3>1, <3>2
  <2>4. CASE ~(Qty(d, i) > 0)
    BY <2>1, <2>2, <2>4 DEF GainValue
  <2> QED  BY <2>3, <2>4
<1>2. CASE i \notin DOMAIN lines[d]
  BY <1>2 DEF Qty, GainValue
<1> QED  BY <1>1, <1>2

LEMMA VarianceTypes ==
    ASSUME Counted, BooksWhole, NEW d \in Doc, NEW i \in Item
    PROVE  /\ Variance(d, i) \in Int
           /\ FoundValue(d, i) \in Nat
           /\ Variance(d, i) <= 0 => FoundValue(d, i) = 0
<1>1. Variance(d, i) \in Int
  BY DEF Variance, Counted
<1>2. pool[i].qty \in Nat /\ pool[i].value \in Nat
  BY DEF BooksWhole, Whole
<1>3. CASE Variance(d, i) > 0 /\ CanValue(d, i)
  <2> DEFINE n == Variance(d, i)
             m == pool[i].qty
             w == pool[i].value
  <2>1. n \in Nat /\ m \in Nat /\ w \in Nat
    BY <1>1, <1>2, <1>3
  <2>2. FoundValue(d, i) = IF m > 0 THEN RoundHalfEven(w * n, m) ELSE n * DefaultCost[i]
    BY <1>1, <1>3 DEF FoundValue
  <2>3. m > 0 \/ DefaultCost[i] \in Nat
    BY <1>3, LineAssumption DEF CanValue
  <2>4. n > 0
    BY <1>3
  <2> HIDE DEF n, m, w
  <2>5. CASE m > 0
    <3>1. w * n \in Nat
      BY <2>1, ProductNatural
    <3>2. RoundHalfEven(w * n, m) \in Nat
      BY <2>1, <2>5, <3>1, RoundedInt
    <3> QED  BY <1>1, <2>1, <2>2, <2>4, <2>5, <3>2 DEF n
  <2>6. CASE ~(m > 0)
    <3>1. n * DefaultCost[i] \in Nat
      BY <2>1, <2>3, <2>6, ProductNatural
    <3> QED  BY <1>1, <2>1, <2>2, <2>4, <2>6, <3>1 DEF n
  <2> QED  BY <2>5, <2>6
<1>4. CASE Variance(d, i) <= 0 \/ ~CanValue(d, i)
  <2>1. FoundValue(d, i) = 0
    BY <1>4 DEF FoundValue
  <2> QED  BY <1>1, <2>1
<1> QED  BY <1>1, <1>3, <1>4

Core == Shapes /\ Written /\ Counted /\ BooksWhole /\ Traced /\ Reversible

LEMMA AdjustmentPosts ==
    ASSUME Core, NEW d \in Adjustment, PostAdjustment(d)
    PROVE  /\ Posted(d, "adjustment", site[d], [i \in Item |-> Qty(d, i)])
           /\ journals' = journals \cup Journal(d, "posted", PoolValue(pool') - PoolValue(pool))
<1> DEFINE q == [i \in Item |-> Qty(d, i)]
           v == [i \in Item |-> GainValue(d, i)]
           after == Moved(Books, d, "adjustment", site[d], q, v)
<1>0. d \in Doc
  BY DEF Doc
<1>1. Book(dated[d], after) /\ journals' = journals \cup Journal(d, "posted", ValueOf(after.rows \ movements))
  BY DEF PostAdjustment, PostBatch
<1>2. status[d] \in {"draft", "approved"}
  BY DEF PostAdjustment, MayGoAhead
<1>3. site[d] \in Place
  BY <1>0, <1>2 DEF Core, Written, Place
<1>4. \A i \in Item : q[i] = Qty(d, i) /\ v[i] = GainValue(d, i) /\ q[i] \in Int /\ v[i] \in Nat
                      /\ (q[i] = 0 => v[i] = 0)
  BY <1>0, QtyTypes DEF Core
<1>5. q \in [Item -> Int] /\ v \in [Item -> Int]
  BY <1>4
<1> HIDE DEF q, v
<1>6. \A r \in movements : r.doc # d
  BY <1>2, Untouched DEF Core, Done
<1>7. Batch(Books, d, "adjustment", site[d], q, v)
  BY <1>0, <1>3, <1>4, <1>5, <1>6, BooksFields DEF Core, BooksWhole, Batch, MovementType
<1>8. Posted(d, "adjustment", site[d], q) /\ ValueOf(after.rows \ movements) = PoolValue(pool') - PoolValue(pool)
  BY <1>1, <1>7, BatchPosted DEF Core
<1> QED  BY <1>1, <1>8 DEF q

LEMMA IssuePosts ==
    ASSUME Core, NEW d \in Issue, PostIssue(d)
    PROVE  /\ Posted(d, "issue", site[d], [i \in Item |-> -Qty(d, i)])
           /\ journals' = journals \cup Journal(d, "posted", PoolValue(pool') - PoolValue(pool))
<1> DEFINE q == [i \in Item |-> -Qty(d, i)]
           after == Moved(Books, d, "issue", site[d], q, Nothing)
<1>0. d \in Doc
  BY DEF Doc
<1>1. Book(dated[d], after) /\ journals' = journals \cup Journal(d, "posted", ValueOf(after.rows \ movements))
  BY DEF PostIssue, PostBatch
<1>2. status[d] \in {"draft", "approved"}
  BY DEF PostIssue, MayGoAhead
<1>3. site[d] \in Place
  BY <1>0, <1>2 DEF Core, Written, Place
<1>4. \A i \in Item : q[i] = -Qty(d, i) /\ q[i] \in Int /\ Nothing[i] = 0
  BY <1>0, QtyTypes DEF Core, Nothing
<1>5. q \in [Item -> Int] /\ Nothing \in [Item -> Int]
  BY <1>4 DEF Nothing
<1> HIDE DEF q
<1>6. \A r \in movements : r.doc # d
  BY <1>2, Untouched DEF Core, Done
<1>7. Batch(Books, d, "issue", site[d], q, Nothing)
  BY <1>0, <1>3, <1>4, <1>5, <1>6, BooksFields DEF Core, BooksWhole, Batch, MovementType
<1>8. Posted(d, "issue", site[d], q) /\ ValueOf(after.rows \ movements) = PoolValue(pool') - PoolValue(pool)
  BY <1>1, <1>7, BatchPosted DEF Core
<1> QED  BY <1>1, <1>8 DEF q

LEMMA StocktakePosts ==
    ASSUME Core, NEW d \in Stocktake, PostStocktake(d)
    PROVE  /\ Posted(d, "count", site[d], [i \in Item |-> Variance(d, i)])
           /\ journals' = journals \cup Journal(d, "posted", PoolValue(pool') - PoolValue(pool))
<1> DEFINE q == [i \in Item |-> Variance(d, i)]
           v == [i \in Item |-> FoundValue(d, i)]
           after == Moved(Books, d, "count", site[d], q, v)
<1>0. d \in Doc
  BY DEF Doc
<1>1. Book(dated[d], after) /\ journals' = journals \cup Journal(d, "posted", ValueOf(after.rows \ movements))
  BY DEF PostStocktake, PostBatch
<1>2. status[d] = "approved"
  BY DEF PostStocktake
<1>3. site[d] \in Place
  BY <1>0, <1>2 DEF Core, Written, Place
<1>4. \A i \in Item : q[i] = Variance(d, i) /\ v[i] = FoundValue(d, i) /\ q[i] \in Int /\ v[i] \in Nat
                      /\ (q[i] = 0 => v[i] = 0)
  BY <1>0, VarianceTypes DEF Core
<1>5. q \in [Item -> Int] /\ v \in [Item -> Int]
  BY <1>4
<1> HIDE DEF q, v
<1>6. \A r \in movements : r.doc # d
  BY <1>2, Untouched DEF Core, Done
<1>7. Batch(Books, d, "count", site[d], q, v)
  BY <1>0, <1>3, <1>4, <1>5, <1>6, BooksFields DEF Core, BooksWhole, Batch, MovementType
<1>8. Posted(d, "count", site[d], q) /\ ValueOf(after.rows \ movements) = PoolValue(pool') - PoolValue(pool)
  BY <1>1, <1>7, BatchPosted DEF Core
<1> QED  BY <1>1, <1>8 DEF q

LEMMA OriginalsSum ==
    ASSUME Core, NEW d \in Adjustment \cup Issue, status[d] = "posted", NEW i \in Item
    PROVE  /\ Signed(d, i) \in Int
           /\ QtyOf(Originals(d, i)) = Signed(d, i)
           /\ ValueOf(Originals(d, i)) \in Int
           /\ Signed(d, i) = 0 => ValueOf(Originals(d, i)) = 0
           /\ Signed(d, i) < 0 => ValueOf(Originals(d, i)) <= 0
<1>0. d \in Doc
  BY DEF Doc
<1>1. Signed(d, i) \in Int
  BY <1>0, QtyTypes DEF Core, Signed
<1>2. CASE Signed(d, i) = 0
  <2>1. Originals(d, i) = {}
    BY <1>2 DEF Core, Reversible
  <2>2. QtyOf(Originals(d, i)) = 0 /\ ValueOf(Originals(d, i)) = 0
    BY <2>1, NoRows
  <2> QED  BY <1>2, <2>2
<1>3. CASE Signed(d, i) # 0
  <2>1. PICK r \in movements : Originals(d, i) = {r} /\ r.qty = Signed(d, i)
    BY <1>3 DEF Core, Reversible
  <2>2. r \in Movement /\ (r.qty < 0 => r.value <= 0)
    BY DEF Core, BooksWhole, Whole
  <2>3. QtyOf({r}) = r.qty /\ ValueOf({r}) = r.value /\ r.value \in Int
    BY <2>2, OneRow, RowTypes
  <2>4. QtyOf(Originals(d, i)) = r.qty /\ ValueOf(Originals(d, i)) = r.value
    BY <2>1, <2>3
  <2>5. r.qty = Signed(d, i)
    BY <2>1
  <2> QED  BY <1>1, <1>3, <2>2, <2>3, <2>4, <2>5
<1> QED  BY <1>1, <1>2, <1>3

LEMMA ReversePosts ==
    ASSUME Core, NEW d \in Adjustment \cup Issue, Reverse(d)
    PROVE  /\ Posted(d, "reversal", site[d], [i \in Item |-> -Signed(d, i)])
           /\ journals' = journals \cup ReversalJournals(d, PoolValue(pool') - PoolValue(pool))
<1> DEFINE q == [i \in Item |-> -QtyOf(Originals(d, i))]
           v == [i \in Item |-> -ValueOf(Originals(d, i))]
           after == Moved(Books, d, "reversal", site[d], q, v)
<1>0. d \in Doc
  BY DEF Doc
<1>1. Book(Today, after) /\ journals' = journals \cup ReversalJournals(d, ValueOf(after.rows \ movements))
  BY DEF Reverse
<1>2. status[d] = "posted"
  BY DEF Reverse
<1>3. site[d] \in Place
  BY <1>0, <1>2 DEF Core, Written, Place
<1>4. \A i \in Item : q[i] = -Signed(d, i) /\ q[i] \in Int /\ v[i] \in Int
                      /\ (q[i] = 0 => v[i] = 0) /\ (q[i] > 0 => v[i] >= 0)
  <2> TAKE i \in Item
  <2>1. q[i] = -QtyOf(Originals(d, i)) /\ v[i] = -ValueOf(Originals(d, i))
    OBVIOUS
  <2> HIDE DEF q, v
  <2> QED  BY <1>2, <2>1, OriginalsSum
<1>5. q \in [Item -> Int] /\ v \in [Item -> Int] /\ q = [i \in Item |-> -Signed(d, i)]
  BY <1>4
<1> HIDE DEF q, v
<1>6. \A r \in movements : ~(r.doc = d /\ r.type = "reversal")
  BY <1>2 DEF Core, Traced
<1>7. Batch(Books, d, "reversal", site[d], q, v)
  BY <1>0, <1>3, <1>4, <1>5, <1>6, BooksFields DEF Core, BooksWhole, Batch, MovementType
<1>8. Posted(d, "reversal", site[d], q) /\ ValueOf(after.rows \ movements) = PoolValue(pool') - PoolValue(pool)
  BY <1>1, <1>7, BatchPosted DEF Core
<1> QED  BY <1>1, <1>5, <1>8

(* The stock went from one place to another.                               *)
Shifted(d, from, to, q) ==
    /\ Whole(balance', pool', movements')
    /\ movements \subseteq movements'
    /\ \A r \in movements' \ movements :
          r.doc = d /\ \/ r.type = "transfer_out" /\ r.place = from
                       \/ r.type = "transfer_in" /\ r.place = to
    /\ \A w \in Place, i \in Item : balance'[w][i] =
          balance[w][i] + (IF w = to THEN q[i] ELSE 0) - (IF w = from THEN q[i] ELSE 0)

LEMMA DispatchShifts ==
    ASSUME Core, NEW d \in Transfer, NEW day, Dispatch(d, day)
    PROVE  /\ Shifted(d, site[d], Transit, [i \in Item |-> Qty(d, i)])
           /\ journals' = journals /\ PoolValue(pool') = PoolValue(pool)
<1> DEFINE q == [i \in Item |-> Qty(d, i)]
           after == MovePairs(Books, d, site[d], Transit, q)
<1>0. d \in Doc
  BY DEF Doc
<1>1. /\ Fits(after) /\ balance' = after.balance /\ pool' = after.pool /\ movements' = after.rows
      /\ journals' = journals /\ status[d] \in {"draft", "approved"}
  BY DEF Dispatch, Book, MayGoAhead
<1>2. site[d] \in Place /\ Transit \in Place /\ site[d] # Transit
  <2>1. site[d] \in Warehouse
    BY <1>0, <1>1 DEF Core, Written
  <2> QED  BY <2>1, PlaceAssumption DEF Place
<1>3. q \in [Item -> Nat]
  BY <1>0, QtyTypes DEF Core
<1>4. \A r \in movements : r.doc # d
  BY <1>1, Untouched DEF Core, Done
<1>5. Whole(Books.balance, Books.pool, Books.rows) /\ Fresh(Books.rows, d, "transfer_out", site[d])
      /\ Fresh(Books.rows, d, "transfer_in", Transit)
  BY <1>4, BooksFields DEF Core, BooksWhole, Fresh
<1> HIDE DEF q, after
<1>6. /\ Whole(after.balance, after.pool, after.rows)
      /\ \A i \in Item : after.pool[i].value = Books.pool[i].value
      /\ \A where \in Place, i \in Item : after.balance[where][i] =
            Books.balance[where][i] + (IF where = Transit THEN q[i] ELSE 0)
                                - (IF where = site[d] THEN q[i] ELSE 0)
      /\ Books.rows \subseteq after.rows
      /\ \A r \in after.rows \ Books.rows :
            r.doc = d /\ \/ r.type = "transfer_out" /\ r.place = site[d]
                         \/ r.type = "transfer_in" /\ r.place = Transit
  BY <1>0, <1>1, <1>2, <1>3, <1>5, PairsWhole DEF after
<1>7. PoolValue(pool') = PoolValue(pool)
  BY <1>1, <1>6, BooksFields, SameValue
<1>8. Shifted(d, site[d], Transit, q)
  BY <1>1, <1>6, BooksFields DEF Shifted
<1> QED  BY <1>1, <1>7, <1>8 DEF q

(* What came of a transfer: its losses written off, the rest at its        *)
(* destination, and nothing left in transit.                               *)
Arrived(d, arrived) ==
    /\ Whole(balance', pool', movements')
    /\ movements \subseteq movements'
    /\ \A r \in movements' \ movements : r.doc = d /\ r.type # "reversal"
    /\ \A w \in Place, i \in Item : balance'[w][i] =
          balance[w][i] + (IF w = dest[d] THEN arrived[i] ELSE 0)
                        - (IF w = Transit THEN Qty(d, i) ELSE 0)

InTransitOnly(d) ==
    \A r \in movements : r.doc = d => \/ r.type = "transfer_out" /\ r.place # Transit
                                      \/ r.type = "transfer_in" /\ r.place = Transit

LEMMA TransitRows ==
    ASSUME Traced, NEW d, status[d] = "in_transit"
    PROVE  InTransitOnly(d)
BY DEF Traced, InTransitOnly

LEMMA ReceiveArrives ==
    ASSUME Core, NEW d \in Transfer, NEW day, NEW arrived \in [Item -> {0} \cup Quantities],
           Receive(d, day, arrived)
    PROVE  /\ Arrived(d, arrived)
           /\ journals' = journals \cup Journal(d, "transit_loss", PoolValue(pool') - PoolValue(pool))
<1> DEFINE q == [i \in Item |-> arrived[i] - Qty(d, i)]
           lost == Moved(Books, d, "transit_loss", Transit, q, Nothing)
           after == MovePairs(lost, d, Transit, dest[d], arrived)
           nq == [i \in Item |-> -arrived[i]]
           out == Moved(lost, d, "transfer_out", Transit, nq, Nothing)
           v == [i \in Item |-> lost.pool[i].value - out.pool[i].value]
<1>0. d \in Doc
  BY DEF Doc
<1>1. lost = LossesOf(d, arrived)
  BY DEF LossesOf
<1>2. /\ Fits(after) /\ balance' = after.balance /\ pool' = after.pool /\ movements' = after.rows
      /\ journals' = journals \cup Journal(d, "transit_loss", ValueOf(lost.rows \ movements))
      /\ status[d] = "in_transit" /\ \A i \in Item : arrived[i] <= Qty(d, i)
  <2> HIDE DEF lost
  <2>1. /\ status[d] = "in_transit" /\ \A i \in Item : arrived[i] <= Qty(d, i)
        /\ Book(day, after)
        /\ journals' = journals \cup Journal(d, "transit_loss", ValueOf(lost.rows \ movements))
    BY <1>1 DEF Receive
  <2> HIDE DEF after
  <2> QED  BY <2>1 DEF Book
<1>3. dest[d] \in Place /\ Transit \in Place /\ dest[d] # Transit
  <2>1. dest[d] \in Warehouse
    BY <1>0, <1>2 DEF Core, Written
  <2> QED  BY <2>1, PlaceAssumption DEF Place
<1>4. arrived \in [Item -> Nat]
  <2>1. {0} \cup Quantities \subseteq Nat
    BY LineAssumption
  <2> QED  BY <2>1
<1>5. \A i \in Item : /\ q[i] = arrived[i] - Qty(d, i) /\ Qty(d, i) \in Nat /\ arrived[i] \in Nat
                      /\ q[i] \in Int /\ q[i] <= 0 /\ Nothing[i] = 0
  <2> TAKE i \in Item
  <2>1. Qty(d, i) \in Nat
    BY <1>0, QtyTypes DEF Core
  <2> QED  BY <1>2, <1>4, <2>1 DEF Nothing
<1>6. q \in [Item -> Int] /\ Nothing \in [Item -> Int]
  BY <1>5 DEF Nothing
<1>7. InTransitOnly(d)
  BY <1>2, TransitRows DEF Core
<1> HIDE DEF q
<1>8. Batch(Books, d, "transit_loss", Transit, q, Nothing)
  BY <1>0, <1>3, <1>5, <1>6, <1>7, BooksFields DEF Core, BooksWhole, Batch, MovementType, InTransitOnly
<1> HIDE DEF lost
<1>9. /\ \A w \in Place, i \in Item :
            /\ lost.balance[w][i] = balance[w][i] + (IF w = Transit THEN q[i] ELSE 0)
            /\ balance[w][i] \in Nat
  BY <1>8, MovedChanges, BooksFields DEF lost
<1>10. Fits(lost)
  <2> SUFFICES ASSUME NEW w \in Place, NEW i \in Item PROVE lost.balance[w][i] >= 0
    BY DEF Fits
  <2>1. CASE w # Transit
    BY <1>9, <2>1
  <2>2. CASE w = Transit
    <3>1. after = Moved(out, d, "transfer_in", dest[d], arrived, v)
      BY DEF MovePairs
    <3> HIDE DEF after
    <3>2. after.balance = Shelves(out, dest[d], arrived)
      BY <3>1, MovedFields
    <3>3. out.balance = Shelves(lost, Transit, nq)
      BY MovedFields
    <3>4. lost.balance = Shelves(Books, Transit, q)
      BY MovedFields DEF lost
    <3>5. balance \in [Place -> [Item -> Nat]] /\ Books.balance = balance
      BY BooksFields DEF Core, BooksWhole, Whole
    <3> HIDE DEF nq, out
    <3>6. DOMAIN lost.balance = Place
      BY <3>4, <3>5 DEF Shelves
    <3>7. DOMAIN out.balance = Place /\ out.balance[Transit] = Shelf(lost, Transit, nq)
      BY <1>3, <3>3, <3>6 DEF Shelves
    <3>8. after.balance[Transit] = Shelf(lost, Transit, nq)
      BY <1>3, <3>2, <3>7 DEF Shelves
    <3>9. after.balance[Transit][i] = lost.balance[Transit][i] - arrived[i]
      <4>1. nq[i] = -arrived[i]
        BY DEF nq
      <4>2. after.balance[Transit][i] = lost.balance[Transit][i] + nq[i]
        BY <3>8 DEF Shelf
      <4>3. lost.balance[Transit][i] \in Int /\ arrived[i] \in Int
        BY <1>3, <1>5, <1>9
      <4> QED  BY <4>1, <4>2, <4>3
    <3>10. after.balance[Transit][i] >= 0
      BY <1>2, <1>3 DEF Fits
    <3>11. lost.balance[Transit][i] \in Int /\ arrived[i] \in Nat
      BY <1>3, <1>5, <1>9
    <3> QED  BY <2>2, <3>9, <3>10, <3>11
  <2> QED  BY <2>1, <2>2
<1>11. Whole(lost.balance, lost.pool, lost.rows)
  BY <1>8, <1>10, MovedWhole DEF lost
<1>12. lost.rows = movements \cup Entries(Books, d, "transit_loss", Transit, q, Nothing)
  BY MovedFields, BooksFields DEF lost
<1>13. \A r \in Entries(Books, d, "transit_loss", Transit, q, Nothing) : r.doc = d /\ r.type = "transit_loss"
  BY <1>8, EntriesSound
<1>14. Fresh(lost.rows, d, "transfer_out", Transit) /\ Fresh(lost.rows, d, "transfer_in", dest[d])
  BY <1>3, <1>7, <1>12, <1>13 DEF Fresh, InTransitOnly
<1> HIDE DEF after
<1>15. /\ Whole(after.balance, after.pool, after.rows)
       /\ \A i \in Item : after.pool[i].value = lost.pool[i].value
       /\ \A where \in Place, i \in Item : after.balance[where][i] =
             lost.balance[where][i] + (IF where = dest[d] THEN arrived[i] ELSE 0)
                                 - (IF where = Transit THEN arrived[i] ELSE 0)
       /\ lost.rows \subseteq after.rows
       /\ \A r \in after.rows \ lost.rows :
             r.doc = d /\ \/ r.type = "transfer_out" /\ r.place = Transit
                          \/ r.type = "transfer_in" /\ r.place = dest[d]
  BY <1>0, <1>2, <1>3, <1>4, <1>11, <1>14, PairsWhole DEF after
<1>16. PoolValue(pool') = PoolValue(lost.pool)
  BY <1>2, <1>15, SameValue
<1>17. ValueOf(lost.rows \ movements) = PoolValue(pool') - PoolValue(pool)
  <2>1. ValueOf(lost.rows \ movements) = PoolValue(lost.pool) - PoolValue(pool)
    BY <1>11, <1>12, NewRowsValue DEF Core, BooksWhole
  <2> QED  BY <1>16, <2>1
<1>18. \A w \in Place, i \in Item : balance'[w][i] =
          balance[w][i] + (IF w = dest[d] THEN arrived[i] ELSE 0)
                        - (IF w = Transit THEN Qty(d, i) ELSE 0)
  <2> TAKE w \in Place, i \in Item
  <2>1. balance'[w][i] = lost.balance[w][i] + (IF w = dest[d] THEN arrived[i] ELSE 0)
                                            - (IF w = Transit THEN arrived[i] ELSE 0)
    BY <1>2, <1>15
  <2>2. lost.balance[w][i] = balance[w][i] + (IF w = Transit THEN q[i] ELSE 0) /\ balance[w][i] \in Nat
    BY <1>9
  <2>3. q[i] = arrived[i] - Qty(d, i) /\ Qty(d, i) \in Nat /\ arrived[i] \in Nat
    BY <1>5
  <2> QED  BY <1>3, <2>1, <2>2, <2>3
<1>19. Arrived(d, arrived)
  BY <1>2, <1>12, <1>13, <1>15, <1>18 DEF Arrived
<1> QED  BY <1>2, <1>17, <1>19

-----------------------------------------------------------------------------
(* Every step is one of these.                                             *)

Quiet == /\ \A e \in Doc : Same(e)
         /\ UNCHANGED <<balance, pool, movements>>
         /\ UNCHANGED <<journals, postToGl>> \/ StartGl

LEMMA StepKinds ==
    ASSUME Shapes, [Next]_vars
    PROVE  \/ \E d \in Doc : Paper(d)
           \/ Quiet
           \/ \E d \in Adjustment : PostAdjustment(d)
           \/ \E d \in Issue : PostIssue(d)
           \/ \E d \in Stocktake : PostStocktake(d)
           \/ \E d \in Adjustment \cup Issue : Reverse(d)
           \/ \E d \in Transfer, day \in Days : Dispatch(d, day)
           \/ \E d \in Transfer, day \in Days : \E arrived \in [Item -> {0} \cup Quantities] :
                 Receive(d, day, arrived)
<1>1. ASSUME NEW d \in Doc, NEW w \in Warehouse, NEW day \in Days,
             NEW to \in Destinations(d, w), NEW body \in Bodies(d), WriteDraft(d, w, to, day, body)
      PROVE  Paper(d)
  BY <1>1, PaperSteps
<1>2. ASSUME NEW d \in Doc, Delete(d) \/ Submit(d) \/ Cancel(d) \/ \E approve \in BOOLEAN : Decide(d, approve)
      PROVE  Paper(d)
  BY <1>2, PaperSteps
<1>3. ASSUME NEW d \in Doc, NEW i, 
             StartCount(d) \/ RemoveLine(d, i) \/ \E counted : RecordCount(d, i, counted) \/ AddLine(d, i, counted)
      PROVE  Paper(d)
  BY <1>3, PaperSteps
<1>4. ASSUME StartGl \/ (\E a \in Policies : UpdateInventorySettings(a))
                     \/ (\E day \in LockDates : UpdateLockDate(day)) \/ UNCHANGED vars
      PROVE  Quiet
  BY <1>4, OtherSteps DEF Quiet
<1>5. Stocktake \subseteq Doc
  BY DEF Doc
<1> QED  BY <1>1, <1>2, <1>3, <1>4, <1>5 DEF Next

(* The documents that move, and how.                                       *)
LEMMA MovingDocs ==
    ASSUME Core
    PROVE  /\ \A d \in Adjustment : PostAdjustment(d) =>
                 /\ d \in Doc /\ d \notin Issue /\ Moves(d, {"draft", "approved"}, "posted")
                 /\ Posted(d, "adjustment", site[d], [i \in Item |-> Signed(d, i)])
           /\ \A d \in Issue : PostIssue(d) =>
                 /\ d \in Doc /\ Moves(d, {"draft", "approved"}, "posted")
                 /\ Posted(d, "issue", site[d], [i \in Item |-> Signed(d, i)])
           /\ \A d \in Stocktake : PostStocktake(d) =>
                 /\ d \in Doc /\ d \notin Adjustment \cup Issue /\ Moves(d, {"approved"}, "posted")
                 /\ Posted(d, "count", site[d], [i \in Item |-> Variance(d, i)])
           /\ \A d \in Adjustment \cup Issue : Reverse(d) =>
                 /\ d \in Doc /\ Moves(d, {"posted"}, "reversed")
                 /\ Posted(d, "reversal", site[d], [i \in Item |-> -Signed(d, i)])
           /\ \A d \in Transfer : \A day : Dispatch(d, day) =>
                 /\ d \in Doc /\ d \notin Adjustment \cup Issue /\ Moves(d, {"draft", "approved"}, "in_transit")
                 /\ site[d] \in Warehouse
                 /\ Shifted(d, site[d], Transit, [i \in Item |-> Qty(d, i)])
           /\ \A d \in Transfer : \A day : \A arrived \in [Item -> {0} \cup Quantities] :
                 Receive(d, day, arrived) =>
                    /\ d \in Doc /\ d \notin Adjustment \cup Issue /\ Moves(d, {"in_transit"}, "received")
                    /\ received'[d] = arrived /\ dest[d] \in Warehouse
                    /\ Arrived(d, arrived)
<1>1. ASSUME NEW d \in Adjustment, PostAdjustment(d)
      PROVE  /\ d \in Doc /\ d \notin Issue /\ Moves(d, {"draft", "approved"}, "posted")
             /\ Posted(d, "adjustment", site[d], [i \in Item |-> Signed(d, i)])
  <2>1. d \in Doc /\ d \notin Issue
    BY TableAssumption DEF Doc
  <2>2. [i \in Item |-> Signed(d, i)] = [i \in Item |-> Qty(d, i)]
    BY <2>1 DEF Signed
  <2> QED  BY <1>1, <2>1, <2>2, MovingSteps, AdjustmentPosts DEF Core
<1>2. ASSUME NEW d \in Issue, PostIssue(d)
      PROVE  /\ d \in Doc /\ Moves(d, {"draft", "approved"}, "posted")
             /\ Posted(d, "issue", site[d], [i \in Item |-> Signed(d, i)])
  <2>1. d \in Doc
    BY DEF Doc
  <2>2. [i \in Item |-> Signed(d, i)] = [i \in Item |-> -Qty(d, i)]
    BY DEF Signed
  <2> QED  BY <1>2, <2>1, <2>2, MovingSteps, IssuePosts DEF Core
<1>3. ASSUME NEW d \in Stocktake, PostStocktake(d)
      PROVE  /\ d \in Doc /\ d \notin Adjustment \cup Issue /\ Moves(d, {"approved"}, "posted")
             /\ Posted(d, "count", site[d], [i \in Item |-> Variance(d, i)])
  <2>1. d \in Doc /\ d \notin Adjustment \cup Issue
    BY TableAssumption DEF Doc
  <2> QED  BY <1>3, <2>1, MovingSteps, StocktakePosts DEF Core
<1>4. ASSUME NEW d \in Adjustment \cup Issue, Reverse(d)
      PROVE  /\ d \in Doc /\ Moves(d, {"posted"}, "reversed")
             /\ Posted(d, "reversal", site[d], [i \in Item |-> -Signed(d, i)])
  <2>1. d \in Doc
    BY DEF Doc
  <2> QED  BY <1>4, <2>1, MovingSteps, ReversePosts DEF Core
<1>5. ASSUME NEW d \in Transfer, NEW day, Dispatch(d, day)
      PROVE  /\ d \in Doc /\ d \notin Adjustment \cup Issue /\ Moves(d, {"draft", "approved"}, "in_transit")
             /\ site[d] \in Warehouse
             /\ Shifted(d, site[d], Transit, [i \in Item |-> Qty(d, i)])
  <2>1. d \in Doc /\ d \notin Adjustment \cup Issue
    BY TableAssumption DEF Doc
  <2>2. Moves(d, {"draft", "approved"}, "in_transit")
    BY <1>5, <2>1, MovingSteps DEF Core
  <2>3. site[d] \in Warehouse
    BY <2>1, <2>2 DEF Core, Written, Moves
  <2> QED  BY <1>5, <2>1, <2>2, <2>3, DispatchShifts
<1>6. ASSUME NEW d \in Transfer, NEW day, NEW arrived \in [Item -> {0} \cup Quantities], Receive(d, day, arrived)
      PROVE  /\ d \in Doc /\ d \notin Adjustment \cup Issue /\ Moves(d, {"in_transit"}, "received")
             /\ received'[d] = arrived /\ dest[d] \in Warehouse
             /\ Arrived(d, arrived)
  <2>1. d \in Doc /\ d \notin Adjustment \cup Issue
    BY TableAssumption DEF Doc
  <2>2. Moves(d, {"in_transit"}, "received") /\ received'[d] = arrived
    BY <1>6, <2>1, MovingSteps DEF Core
  <2>3. dest[d] \in Warehouse
    BY <2>1, <2>2 DEF Core, Written, Moves
  <2> QED  BY <1>6, <2>1, <2>2, <2>3, ReceiveArrives
<1> QED  BY <1>1, <1>2, <1>3, <1>4, <1>5, <1>6

-----------------------------------------------------------------------------
(* The rows.                                                               *)

LEMMA WholeStep ==
    ASSUME Core, [Next]_vars
    PROVE  BooksWhole' /\ movements \subseteq movements'
<1>0. BooksWhole
  BY DEF Core
<1>1. CASE (\E d \in Doc : Paper(d)) \/ Quiet
  BY <1>0, <1>1 DEF Paper, Quiet, BooksWhole
<1>2. ASSUME NEW d, NEW type, NEW place, NEW q, Posted(d, type, place, q)
      PROVE  BooksWhole' /\ movements \subseteq movements'
  BY <1>2 DEF Posted, BooksWhole
<1>3. ASSUME NEW d, NEW from, NEW to, NEW q, Shifted(d, from, to, q)
      PROVE  BooksWhole' /\ movements \subseteq movements'
  BY <1>3 DEF Shifted, BooksWhole
<1>4. ASSUME NEW d, NEW arrived, Arrived(d, arrived)
      PROVE  BooksWhole' /\ movements \subseteq movements'
  BY <1>4 DEF Arrived, BooksWhole
<1>5. Shapes
  BY DEF Core
<1> QED  BY <1>1, <1>2, <1>3, <1>4, <1>5, StepKinds, MovingDocs

LEMMA SnapshotsStep ==
    ASSUME Core, Snapshots, [Next]_vars
    PROVE  Snapshots'
<1>0. Shapes /\ movements \subseteq movements'
  BY WholeStep DEF Core
<1>1. ASSUME NEW d \in Stocktake, StartCount(d) PROVE Snapshots'
  <2>1. d \in Doc /\ cutoff' = [cutoff EXCEPT ![d] = movements]
    BY <1>1 DEF StartCount, Doc
  <2> QED  BY <1>0, <2>1 DEF Snapshots, Shapes
<1>2. CASE cutoff' = cutoff
  BY <1>0, <1>2 DEF Snapshots
<1>3. cutoff' = cutoff \/ \E d \in Stocktake : StartCount(d)
  BY DEF Next, vars, count, WriteDraft, Delete, Submit, Cancel, Decide, PostAdjustment, PostIssue,
         Reverse, Dispatch, Receive, PostStocktake, RecordCount, AddLine, RemoveLine, StartGl,
         UpdateInventorySettings, UpdateLockDate
<1> QED  BY <1>1, <1>2, <1>3

TracedRow(r) ==
    /\ status[r.doc] \in Done
    /\ r.type = "reversal" => status[r.doc] = "reversed"
    /\ status[r.doc] = "in_transit" => \/ r.type = "transfer_out" /\ r.place # Transit
                                       \/ r.type = "transfer_in" /\ r.place = Transit

(* Rows of other documents stay traced; so it is enough to look at the     *)
(* document that moved.                                                    *)
LEMMA TracedMoves ==
    ASSUME Core, NEW d \in Doc, NEW from, NEW to, Moves(d, from, to), movements \subseteq movements',
           BooksWhole',
           \A r \in movements' : r.doc = d =>
               /\ to \in Done
               /\ r.type = "reversal" => to = "reversed"
               /\ to = "in_transit" => \/ r.type = "transfer_out" /\ r.place # Transit
                                       \/ r.type = "transfer_in" /\ r.place = Transit,
           \A r \in movements' \ movements : r.doc = d
    PROVE  Traced'
<1> SUFFICES ASSUME NEW r \in movements' PROVE TracedRow(r)'
  BY DEF Traced, TracedRow
<1>1. CASE r.doc = d
  BY <1>1 DEF TracedRow, Moves
<1>2. CASE r.doc # d
  <2>1. r \in movements /\ TracedRow(r)
    BY <1>2 DEF Core, Traced, TracedRow
  <2>2. r.doc \in Doc
    <3>1. r \in Movement
      BY <2>1 DEF Core, BooksWhole, Whole
    <3> QED  BY <3>1 DEF Movement
  <2>3. status'[r.doc] = status[r.doc]
    BY <1>2, <2>2 DEF Moves, Same
  <2> QED  BY <2>1, <2>3 DEF TracedRow
<1> QED  BY <1>1, <1>2

LEMMA TracedStep == ASSUME Core, [Next]_vars PROVE Traced'
<1>0. Shapes /\ Traced /\ movements \subseteq movements' /\ BooksWhole' /\ BooksWhole
  BY WholeStep DEF Core
<1>1. CASE (\E d \in Doc : Paper(d)) \/ Quiet
  <2>1. movements' = movements
    BY <1>1 DEF Paper, Quiet
  <2> SUFFICES ASSUME NEW r \in movements PROVE TracedRow(r)'
    BY <2>1 DEF Traced, TracedRow
  <2>2. r.doc \in Doc
    <3>1. r \in Movement
      BY <1>0 DEF BooksWhole, Whole
    <3> QED  BY <3>1 DEF Movement
  <2>3. TracedRow(r)
    BY <1>0 DEF Traced, TracedRow
  <2>4. status'[r.doc] = status[r.doc]
    BY <1>1, <2>2, <2>3 DEF Paper, Quiet, Same, TracedRow
  <2> QED  BY <2>3, <2>4 DEF TracedRow
<1>2. ASSUME NEW d \in Doc, NEW from \in SUBSET {"draft", "approved"}, Moves(d, from, "posted"),
             NEW type \in {"adjustment", "issue", "count"}, NEW place, NEW q, Posted(d, type, place, q)
      PROVE  Traced'
  <2>1. \A r \in movements : r.doc # d
    BY <1>0, <1>2, Untouched DEF Moves, Done
  <2>2. \A r \in movements' \ movements : r.doc = d /\ r.type # "reversal"
    BY <1>2 DEF Posted
  <2> QED  BY <1>0, <1>2, <2>1, <2>2, TracedMoves DEF Done
<1>3. ASSUME NEW d \in Doc, Moves(d, {"posted"}, "reversed"), NEW place, NEW q, Posted(d, "reversal", place, q)
      PROVE  Traced'
  <2>1. \A r \in movements' \ movements : r.doc = d
    BY <1>3 DEF Posted
  <2> QED  BY <1>0, <1>3, <2>1, TracedMoves DEF Done
<1>4. ASSUME NEW d \in Doc, Moves(d, {"draft", "approved"}, "in_transit"), NEW place \in Warehouse, NEW q,
             Shifted(d, place, Transit, q)
      PROVE  Traced'
  <2>1. \A r \in movements : r.doc # d
    BY <1>0, <1>4, Untouched DEF Moves, Done
  <2>2. \A r \in movements' \ movements :
            r.doc = d /\ \/ r.type = "transfer_out" /\ r.place = place
                         \/ r.type = "transfer_in" /\ r.place = Transit
    BY <1>4 DEF Shifted
  <2>3. place # Transit
    BY PlaceAssumption
  <2> QED  BY <1>0, <1>4, <2>1, <2>2, <2>3, TracedMoves DEF Done
<1>5. ASSUME NEW d \in Doc, Moves(d, {"in_transit"}, "received"), NEW arrived, Arrived(d, arrived)
      PROVE  Traced'
  <2>1. \A r \in movements : r.doc = d => r.type # "reversal"
    BY <1>0, <1>5 DEF Moves, Traced
  <2>2. \A r \in movements' \ movements : r.doc = d /\ r.type # "reversal"
    BY <1>5 DEF Arrived
  <2> QED  BY <1>0, <1>5, <2>1, <2>2, TracedMoves DEF Done
<1> QED  BY <1>0, <1>1, <1>2, <1>3, <1>4, <1>5, StepKinds, MovingDocs

LEMMA SignedStays ==
    ASSUME NEW e, NEW i, lines'[e] = lines[e]
    PROVE  Signed(e, i)' = Signed(e, i)
BY DEF Signed, Qty

(* What a reversal would find of one posted document.                      *)
ReversibleDoc(e) ==
    status[e] = "posted" =>
        \A i \in Item :
            IF Signed(e, i) = 0 THEN Originals(e, i) = {}
            ELSE \E r \in movements : Originals(e, i) = {r} /\ r.qty = Signed(e, i)

LEMMA ReversibleStays ==
    ASSUME NEW e, ReversibleDoc(e), Same(e), movements \subseteq movements',
           \A r \in movements' \ movements : r.doc # e
    PROVE  ReversibleDoc(e)'
<1>1. \A i : Originals(e, i)' = Originals(e, i)
  BY DEF Originals
<1>2. \A i : Signed(e, i)' = Signed(e, i)
  BY SignedStays DEF Same
<1>3. status'[e] = status[e]
  BY DEF Same
<1> QED  BY <1>1, <1>2, <1>3 DEF ReversibleDoc

LEMMA ReversibleStep == ASSUME Core, [Next]_vars PROVE Reversible'
<1>0. Shapes /\ Traced /\ movements \subseteq movements' /\ Adjustment \cup Issue \subseteq Doc
  BY WholeStep DEF Core, Doc
<1> SUFFICES ASSUME NEW e \in Adjustment \cup Issue PROVE ReversibleDoc(e)'
  BY DEF Reversible, ReversibleDoc
<1>a. ReversibleDoc(e) /\ e \in Doc
  BY <1>0 DEF Core, Reversible, ReversibleDoc
<1>1. CASE \E d \in Doc : Paper(d)
  <2>1. PICK d \in Doc : Paper(d)
    BY <1>1
  <2>2. CASE e = d
    BY <2>1, <2>2 DEF Paper, ReversibleDoc, Done
  <2>3. CASE e # d
    BY <1>a, <2>1, <2>3, ReversibleStays DEF Paper
  <2> QED  BY <2>2, <2>3
<1>2. CASE Quiet
  BY <1>a, <1>2, ReversibleStays DEF Quiet
<1>3. ASSUME NEW d \in Doc, d # e, NEW from, NEW to, Moves(d, from, to),
             \A r \in movements' \ movements : r.doc = d
      PROVE  ReversibleDoc(e)'
  BY <1>0, <1>a, <1>3, ReversibleStays DEF Moves
<1>4. ASSUME Moves(e, {"draft", "approved"}, "posted"), NEW type \in {"adjustment", "issue"}, NEW place,
             Posted(e, type, place, [i \in Item |-> Signed(e, i)])
      PROVE  ReversibleDoc(e)'
  <2>1. \A r \in movements : r.doc # e
    BY <1>0, <1>4, Untouched DEF Moves, Done
  <2>2. \A i \in Item : Originals(e, i)' = RowsOf(movements' \ movements, i)
    <3>1. \A r \in movements' \ movements : r.doc = e /\ r.type # "reversal"
      BY <1>4 DEF Posted
    <3> QED  BY <1>0, <2>1, <3>1 DEF Originals, RowsOf
  <2>3. \A i \in Item : Signed(e, i)' = Signed(e, i)
    BY <1>4, SignedStays DEF Moves
  <2>4. \A i \in Item :
          IF Signed(e, i) = 0 THEN RowsOf(movements' \ movements, i) = {}
          ELSE \E r \in movements' : RowsOf(movements' \ movements, i) = {r} /\ r.qty = Signed(e, i)
    BY <1>4 DEF Posted
  <2> QED  BY <2>2, <2>3, <2>4 DEF ReversibleDoc
<1>5. ASSUME Moves(e, {"posted"}, "reversed") PROVE ReversibleDoc(e)'
  BY <1>5 DEF Moves, ReversibleDoc
<1>6. ASSUME NEW d, NEW type, NEW place, NEW q, Posted(d, type, place, q)
      PROVE  \A r \in movements' \ movements : r.doc = d
  BY <1>6 DEF Posted
<1>7. ASSUME NEW d, NEW from, NEW to, NEW q, Shifted(d, from, to, q)
      PROVE  \A r \in movements' \ movements : r.doc = d
  BY <1>7 DEF Shifted
<1>8. ASSUME NEW d, NEW arrived, Arrived(d, arrived)
      PROVE  \A r \in movements' \ movements : r.doc = d
  BY <1>8 DEF Arrived
<1>9. ASSUME NEW d \in Adjustment, PostAdjustment(d) PROVE ReversibleDoc(e)'
  <2>1. /\ d \in Doc /\ Moves(d, {"draft", "approved"}, "posted")
        /\ Posted(d, "adjustment", site[d], [i \in Item |-> Signed(d, i)])
    BY <1>9, MovingDocs
  <2>2. \A r \in movements' \ movements : r.doc = d
    BY <1>6, <2>1
  <2>3. CASE d # e  BY <1>3, <2>1, <2>2, <2>3
  <2>4. CASE d = e  BY <1>4, <2>1, <2>4
  <2> QED  BY <2>3, <2>4
<1>10. ASSUME NEW d \in Issue, PostIssue(d) PROVE ReversibleDoc(e)'
  <2>1. /\ d \in Doc /\ Moves(d, {"draft", "approved"}, "posted")
        /\ Posted(d, "issue", site[d], [i \in Item |-> Signed(d, i)])
    BY <1>10, MovingDocs
  <2>2. \A r \in movements' \ movements : r.doc = d
    BY <1>6, <2>1
  <2>3. CASE d # e  BY <1>3, <2>1, <2>2, <2>3
  <2>4. CASE d = e  BY <1>4, <2>1, <2>4
  <2> QED  BY <2>3, <2>4
<1>11. ASSUME NEW d \in Stocktake, PostStocktake(d) PROVE ReversibleDoc(e)'
  <2>1. /\ d \in Doc /\ d # e /\ Moves(d, {"approved"}, "posted")
        /\ Posted(d, "count", site[d], [i \in Item |-> Variance(d, i)])
    BY <1>11, MovingDocs
  <2>2. \A r \in movements' \ movements : r.doc = d
    BY <1>6, <2>1
  <2> QED  BY <1>3, <2>1, <2>2
<1>12. ASSUME NEW d \in Adjustment \cup Issue, Reverse(d) PROVE ReversibleDoc(e)'
  <2>1. /\ d \in Doc /\ Moves(d, {"posted"}, "reversed")
        /\ Posted(d, "reversal", site[d], [i \in Item |-> -Signed(d, i)])
    BY <1>12, MovingDocs
  <2>2. \A r \in movements' \ movements : r.doc = d
    BY <1>6, <2>1
  <2>3. CASE d # e  BY <1>3, <2>1, <2>2, <2>3
  <2>4. CASE d = e  BY <1>5, <2>1, <2>4
  <2> QED  BY <2>3, <2>4
<1>13. ASSUME NEW d \in Transfer, NEW day, Dispatch(d, day) PROVE ReversibleDoc(e)'
  <2>1. /\ d \in Doc /\ d # e /\ Moves(d, {"draft", "approved"}, "in_transit")
        /\ Shifted(d, site[d], Transit, [i \in Item |-> Qty(d, i)])
    BY <1>13, MovingDocs
  <2>2. \A r \in movements' \ movements : r.doc = d
    BY <1>7, <2>1
  <2> QED  BY <1>3, <2>1, <2>2
<1>14. ASSUME NEW d \in Transfer, NEW day, NEW arrived \in [Item -> {0} \cup Quantities], Receive(d, day, arrived)
       PROVE ReversibleDoc(e)'
  <2>1. /\ d \in Doc /\ d # e /\ Moves(d, {"in_transit"}, "received") /\ Arrived(d, arrived)
    BY <1>14, MovingDocs
  <2>2. \A r \in movements' \ movements : r.doc = d
    BY <1>8, <2>1
  <2> QED  BY <1>3, <2>1, <2>2
<1> QED  BY <1>0, <1>1, <1>2, <1>9, <1>10, <1>11, <1>12, <1>13, <1>14, StepKinds

-----------------------------------------------------------------------------
(* The stock follows the documents.                                        *)

LEMMA StandingInt ==
    ASSUME Core, NEW d \in Doc, NEW place \in Place, NEW i \in Item
    PROVE  Standing(d, place, i) \in Int
<1>1. Qty(d, i) \in Int
  BY QtyTypes DEF Core
<1>2. Variance(d, i) \in Int
  BY VarianceTypes DEF Core
<1>3. received[d][i] \in Int
  BY DEF Core, Shapes
<1> QED  BY <1>1, <1>2, <1>3 DEF Standing

AllStandingsInt == \A d \in Doc, place \in Place, i \in Item : Standing(d, place, i) \in Int

LEMMA StandingsInt == Core => AllStandingsInt
BY StandingInt DEF AllStandingsInt

LEMMA StandingStays ==
    ASSUME NEW e, NEW place, NEW i, Same(e)
    PROVE  Standing(e, place, i)' = Standing(e, place, i)
<1>1. Qty(e, i)' = Qty(e, i)
  BY DEF Same, Qty
<1>2. Variance(e, i)' = Variance(e, i)
  BY DEF Same, Variance
<1> QED  BY <1>1, <1>2 DEF Same, Standing

LEMMA StandingNone ==
    ASSUME NEW d, NEW place, NEW i, status[d] \notin {"posted", "in_transit", "received"}
    PROVE  Standing(d, place, i) = 0
BY DEF Standing

LEMMA FollowsMove ==
    ASSUME Core, Core', StockFollowsDocuments, NEW d \in Doc, \A e \in Doc \ {d} : Same(e),
           \A place \in Place, i \in Item : balance'[place][i] =
               balance[place][i] + (Standing(d, place, i)' - Standing(d, place, i))
    PROVE  StockFollowsDocuments'
<1> SUFFICES ASSUME NEW place \in Place, NEW i \in Item
             PROVE  balance'[place][i] = SumFunctionOnSet([e \in Doc |-> Standing(e, place, i)'], Doc)
  BY DEF StockFollowsDocuments
<1> DEFINE f == [e \in Doc |-> Standing(e, place, i)]
<1>0. PICK g : g = [e \in Doc |-> Standing(e, place, i)']
  OBVIOUS
<1>1. \A e \in Doc : f[e] = Standing(e, place, i) /\ g[e] = Standing(e, place, i)'
  BY <1>0
<1>2. \A e \in Doc : f[e] \in Int /\ g[e] \in Int
  <2>0. AllStandingsInt /\ AllStandingsInt'
    BY StandingsInt, PTL
  <2> TAKE e \in Doc
  <2>1. Standing(e, place, i) \in Int
    BY <2>0 DEF AllStandingsInt
  <2>2. Standing(e, place, i)' \in Int
    BY <2>0 DEF AllStandingsInt
  <2> QED  BY <1>1, <2>1, <2>2
<1>3. \A e \in Doc \ {d} : f[e] = g[e]
  BY <1>1, StandingStays
<1>4. balance[place][i] = SumFunctionOnSet(f, Doc)
  BY DEF StockFollowsDocuments
<1> HIDE DEF f
<1>5. SumFunctionOnSet(g, Doc) = SumFunctionOnSet(f, Doc) + (g[d] - f[d])
  BY <1>2, <1>3, FiniteTables, SumChange
<1>6. balance'[place][i] = balance[place][i] + (g[d] - f[d])
  BY <1>1
<1>7. balance'[place][i] = SumFunctionOnSet(g, Doc)
  BY <1>4, <1>5, <1>6
<1> QED  BY <1>0, <1>7

LEMMA CoreStep == ASSUME Core, [Next]_vars PROVE Core'
<1>1. Shapes'
  BY ShapesStep DEF Core
<1>2. Written'
  BY WrittenStep DEF Core
<1>3. Counted'
  BY CountedStep DEF Core, BooksWhole
<1>4. BooksWhole'
  BY WholeStep
<1>5. Traced' /\ Reversible'
  BY TracedStep, ReversibleStep
<1> QED  BY <1>1, <1>2, <1>3, <1>4, <1>5 DEF Core

(* What a document stands for, in the statuses it may move stock from or to. *)
LEMMA StandingPosted ==
    ASSUME NEW d \in Adjustment \cup Issue, NEW place, NEW i \in Item, Core, status[d] = "posted"
    PROVE  Standing(d, place, i) = IF place = site[d] THEN Signed(d, i) ELSE 0
<1>1. d \in Doc /\ d \notin Stocktake
  BY TableAssumption DEF Doc
<1>2. Qty(d, i) \in Int
  BY <1>1, QtyTypes DEF Core
<1> QED  BY <1>1, <1>2 DEF Standing, Signed

LEMMA StandingCounted ==
    ASSUME NEW d \in Stocktake, NEW place, NEW i \in Item, Core, status[d] = "posted"
    PROVE  Standing(d, place, i) = IF place = site[d] THEN Variance(d, i) ELSE 0
<1>1. d \in Doc /\ d \notin Issue
  BY TableAssumption DEF Doc
<1>2. Variance(d, i) \in Int
  BY <1>1, VarianceTypes DEF Core
<1> QED  BY <1>1, <1>2 DEF Standing

LEMMA StandingShipped ==
    ASSUME NEW d \in Transfer, NEW place, NEW i \in Item, Core, status[d] = "in_transit"
    PROVE  Standing(d, place, i) = (IF place = Transit THEN Qty(d, i) ELSE 0)
                                   - (IF place = site[d] THEN Qty(d, i) ELSE 0)
<1>1. d \in Doc
  BY DEF Doc
<1>2. Qty(d, i) \in Int
  BY <1>1, QtyTypes DEF Core
<1> QED  BY <1>1, <1>2 DEF Standing

LEMMA StandingReceived ==
    ASSUME NEW d \in Transfer, NEW place, NEW i \in Item, Core, status[d] = "received"
    PROVE  Standing(d, place, i) = (IF place = dest[d] THEN received[d][i] ELSE 0)
                                   - (IF place = site[d] THEN Qty(d, i) ELSE 0)
<1>1. d \in Doc
  BY DEF Doc
<1>2. Qty(d, i) \in Int /\ received[d][i] \in Int
  BY <1>1, QtyTypes DEF Core, Shapes
<1> QED  BY <1>1, <1>2 DEF Standing

(* All of them at once, as a fact of a state. *)
Standings ==
    \A place \in Place, i \in Item :
        /\ \A d \in Doc : status[d] \notin {"posted", "in_transit", "received"} => Standing(d, place, i) = 0
        /\ \A d \in Doc : Signed(d, i) \in Int /\ Qty(d, i) \in Int /\ Variance(d, i) \in Int
                          /\ received[d][i] \in Int
        /\ \A d \in Adjustment \cup Issue : status[d] = "posted" =>
              Standing(d, place, i) = IF place = site[d] THEN Signed(d, i) ELSE 0
        /\ \A d \in Stocktake : status[d] = "posted" =>
              Standing(d, place, i) = IF place = site[d] THEN Variance(d, i) ELSE 0
        /\ \A d \in Transfer : status[d] = "in_transit" =>
              Standing(d, place, i) = (IF place = Transit THEN Qty(d, i) ELSE 0)
                                      - (IF place = site[d] THEN Qty(d, i) ELSE 0)
        /\ \A d \in Transfer : status[d] = "received" =>
              Standing(d, place, i) = (IF place = dest[d] THEN received[d][i] ELSE 0)
                                      - (IF place = site[d] THEN Qty(d, i) ELSE 0)

LEMMA StandingsHold == Core => Standings
<1> SUFFICES ASSUME Core, NEW place \in Place, NEW i \in Item
             PROVE
        /\ \A d \in Doc : status[d] \notin {"posted", "in_transit", "received"} => Standing(d, place, i) = 0
        /\ \A d \in Doc : Signed(d, i) \in Int /\ Qty(d, i) \in Int /\ Variance(d, i) \in Int
                          /\ received[d][i] \in Int
        /\ \A d \in Adjustment \cup Issue : status[d] = "posted" =>
              Standing(d, place, i) = IF place = site[d] THEN Signed(d, i) ELSE 0
        /\ \A d \in Stocktake : status[d] = "posted" =>
              Standing(d, place, i) = IF place = site[d] THEN Variance(d, i) ELSE 0
        /\ \A d \in Transfer : status[d] = "in_transit" =>
              Standing(d, place, i) = (IF place = Transit THEN Qty(d, i) ELSE 0)
                                      - (IF place = site[d] THEN Qty(d, i) ELSE 0)
        /\ \A d \in Transfer : status[d] = "received" =>
              Standing(d, place, i) = (IF place = dest[d] THEN received[d][i] ELSE 0)
                                      - (IF place = site[d] THEN Qty(d, i) ELSE 0)
  BY DEF Standings
<1>1. \A d \in Doc : status[d] \notin {"posted", "in_transit", "received"} => Standing(d, place, i) = 0
  BY StandingNone
<1>2. \A d \in Doc : Signed(d, i) \in Int /\ Qty(d, i) \in Int /\ Variance(d, i) \in Int
                     /\ received[d][i] \in Int
  <2> TAKE d \in Doc
  <2>1. Qty(d, i) \in Int /\ Variance(d, i) \in Int
    BY QtyTypes, VarianceTypes DEF Core
  <2>2. received[d][i] \in Int
    BY DEF Core, Shapes
  <2> QED  BY <2>1, <2>2 DEF Signed
<1> QED  BY <1>1, <1>2, StandingPosted, StandingCounted, StandingShipped, StandingReceived

LEMMA MovedStanding ==
    ASSUME Core, Core', NEW d \in Doc, NEW from, NEW to, Moves(d, from, to),
           NEW place \in Place, NEW i \in Item
    PROVE  /\ status[d] \in from /\ status'[d] = to
           /\ site'[d] = site[d] /\ dest'[d] = dest[d]
           /\ Signed(d, i)' = Signed(d, i) /\ Qty(d, i)' = Qty(d, i) /\ Variance(d, i)' = Variance(d, i)
BY DEF Moves, Signed, Qty, Variance

LEMMA FollowsStep ==
    ASSUME Core, StockFollowsDocuments, [Next]_vars
    PROVE  StockFollowsDocuments'
<1>0. Core' /\ Shapes
  BY CoreStep DEF Core
<1>1. Standings /\ Standings'
  BY <1>0, StandingsHold, PTL
<1>2. ASSUME balance' = balance, \A e \in Doc : \A place \in Place, i \in Item :
                 Standing(e, place, i)' = Standing(e, place, i)
      PROVE  StockFollowsDocuments'
  <2> SUFFICES ASSUME NEW place \in Place, NEW i \in Item
               PROVE  balance'[place][i] = SumFunctionOnSet([e \in Doc |-> Standing(e, place, i)'], Doc)
    BY DEF StockFollowsDocuments
  <2>1. [e \in Doc |-> Standing(e, place, i)'] = [e \in Doc |-> Standing(e, place, i)]
    BY <1>2
  <2> QED  BY <1>2, <2>1 DEF StockFollowsDocuments
<1>3. CASE \E d \in Doc : Paper(d)
  <2>1. PICK d \in Doc : Paper(d)
    BY <1>3
  <2>2. \A place \in Place, i \in Item : Standing(d, place, i) = 0 /\ Standing(d, place, i)' = 0
    <3>1. status[d] \notin Done /\ status'[d] \notin Done
      BY <2>1 DEF Paper
    <3> QED  BY <1>1, <3>1 DEF Standings, Done
  <2>3. \A e \in Doc : \A place \in Place, i \in Item : Standing(e, place, i)' = Standing(e, place, i)
    BY <2>1, <2>2, StandingStays DEF Paper
  <2> QED  BY <1>2, <2>1, <2>3 DEF Paper
<1>4. CASE Quiet
  <2>1. \A e \in Doc : \A place \in Place, i \in Item : Standing(e, place, i)' = Standing(e, place, i)
    BY <1>4, StandingStays DEF Quiet
  <2> QED  BY <1>2, <1>4, <2>1 DEF Quiet
<1>5. ASSUME NEW d \in Adjustment \cup Issue, d \in Doc, Moves(d, {"draft", "approved"}, "posted"), NEW type,
             Posted(d, type, site[d], [i \in Item |-> Signed(d, i)])
      PROVE  StockFollowsDocuments'
  <2>1. \A place \in Place, i \in Item : balance'[place][i] =
               balance[place][i] + (Standing(d, place, i)' - Standing(d, place, i))
    <3> TAKE place \in Place, i \in Item
    <3>1. /\ status[d] \in {"draft", "approved"} /\ status'[d] = "posted" /\ site'[d] = site[d]
          /\ Signed(d, i)' = Signed(d, i)
      BY <1>0, <1>5, MovedStanding
    <3>2. Standing(d, place, i) = 0 /\ Signed(d, i) \in Int
      BY <1>1, <1>5, <3>1 DEF Standings
    <3>3. Standing(d, place, i)' = IF place = site[d] THEN Signed(d, i) ELSE 0
      BY <1>1, <1>5, <3>1 DEF Standings
    <3>4. balance'[place][i] = balance[place][i] + (IF place = site[d] THEN Signed(d, i) ELSE 0)
      BY <1>5 DEF Posted
    <3> QED  BY <3>2, <3>3, <3>4
  <2> QED  BY <1>0, <1>5, <2>1, FollowsMove DEF Moves
<1>6. ASSUME NEW d \in Stocktake, d \in Doc, Moves(d, {"approved"}, "posted"),
             Posted(d, "count", site[d], [i \in Item |-> Variance(d, i)])
      PROVE  StockFollowsDocuments'
  <2>1. \A place \in Place, i \in Item : balance'[place][i] =
               balance[place][i] + (Standing(d, place, i)' - Standing(d, place, i))
    <3> TAKE place \in Place, i \in Item
    <3>1. /\ status[d] \in {"approved"} /\ status'[d] = "posted" /\ site'[d] = site[d]
          /\ Variance(d, i)' = Variance(d, i)
      BY <1>0, <1>6, MovedStanding
    <3>2. Standing(d, place, i) = 0 /\ Variance(d, i) \in Int
      BY <1>1, <1>6, <3>1 DEF Standings
    <3>3. Standing(d, place, i)' = IF place = site[d] THEN Variance(d, i) ELSE 0
      BY <1>1, <1>6, <3>1 DEF Standings
    <3>4. balance'[place][i] = balance[place][i] + (IF place = site[d] THEN Variance(d, i) ELSE 0)
      BY <1>6 DEF Posted
    <3> QED  BY <3>2, <3>3, <3>4
  <2> QED  BY <1>0, <1>6, <2>1, FollowsMove DEF Moves
<1>7. ASSUME NEW d \in Adjustment \cup Issue, d \in Doc, Moves(d, {"posted"}, "reversed"),
             Posted(d, "reversal", site[d], [i \in Item |-> -Signed(d, i)])
      PROVE  StockFollowsDocuments'
  <2>1. \A place \in Place, i \in Item : balance'[place][i] =
               balance[place][i] + (Standing(d, place, i)' - Standing(d, place, i))
    <3> TAKE place \in Place, i \in Item
    <3>1. status[d] \in {"posted"} /\ status'[d] = "reversed"
      BY <1>0, <1>7, MovedStanding
    <3>2. Standing(d, place, i)' = 0
      BY <1>1, <1>7, <3>1 DEF Standings
    <3>3. Standing(d, place, i) = (IF place = site[d] THEN Signed(d, i) ELSE 0) /\ Signed(d, i) \in Int
      BY <1>1, <1>7, <3>1 DEF Standings
    <3>4. balance'[place][i] = balance[place][i] + (IF place = site[d] THEN -Signed(d, i) ELSE 0)
      BY <1>7 DEF Posted
    <3> QED  BY <3>2, <3>3, <3>4
  <2> QED  BY <1>0, <1>7, <2>1, FollowsMove DEF Moves
<1>8. ASSUME NEW d \in Transfer, d \in Doc, Moves(d, {"draft", "approved"}, "in_transit"), site[d] \in Warehouse,
             Shifted(d, site[d], Transit, [i \in Item |-> Qty(d, i)])
      PROVE  StockFollowsDocuments'
  <2>1. \A place \in Place, i \in Item : balance'[place][i] =
               balance[place][i] + (Standing(d, place, i)' - Standing(d, place, i))
    <3> TAKE place \in Place, i \in Item
    <3>1. /\ status[d] \in {"draft", "approved"} /\ status'[d] = "in_transit" /\ site'[d] = site[d]
          /\ Qty(d, i)' = Qty(d, i)
      BY <1>0, <1>8, MovedStanding
    <3>2. Standing(d, place, i) = 0 /\ Qty(d, i) \in Int
      BY <1>1, <1>8, <3>1 DEF Standings
    <3>3. Standing(d, place, i)' = (IF place = Transit THEN Qty(d, i) ELSE 0)
                                   - (IF place = site[d] THEN Qty(d, i) ELSE 0)
      BY <1>1, <1>8, <3>1 DEF Standings
    <3>4. balance'[place][i] = balance[place][i] + (IF place = Transit THEN Qty(d, i) ELSE 0)
                                                 - (IF place = site[d] THEN Qty(d, i) ELSE 0)
      BY <1>8 DEF Shifted
    <3>5. balance[place][i] \in Int
      BY DEF Core, BooksWhole, Whole
    <3> QED  BY <3>2, <3>3, <3>4, <3>5
  <2> QED  BY <1>0, <1>8, <2>1, FollowsMove DEF Moves
<1>9. ASSUME NEW d \in Transfer, d \in Doc, Moves(d, {"in_transit"}, "received"),
             NEW arrived, received'[d] = arrived, Arrived(d, arrived)
      PROVE  StockFollowsDocuments'
  <2>1. \A place \in Place, i \in Item : balance'[place][i] =
               balance[place][i] + (Standing(d, place, i)' - Standing(d, place, i))
    <3> TAKE place \in Place, i \in Item
    <3>1. /\ status[d] \in {"in_transit"} /\ status'[d] = "received" /\ site'[d] = site[d]
          /\ dest'[d] = dest[d] /\ Qty(d, i)' = Qty(d, i)
      BY <1>0, <1>9, MovedStanding
    <3>2. Standing(d, place, i) = (IF place = Transit THEN Qty(d, i) ELSE 0)
                                  - (IF place = site[d] THEN Qty(d, i) ELSE 0)
      BY <1>1, <1>9, <3>1 DEF Standings
    <3>3. Standing(d, place, i)' = (IF place = dest[d] THEN arrived[i] ELSE 0)
                                   - (IF place = site[d] THEN Qty(d, i) ELSE 0)
      BY <1>1, <1>9, <3>1 DEF Standings
    <3>4. balance'[place][i] = balance[place][i] + (IF place = dest[d] THEN arrived[i] ELSE 0)
                                                 - (IF place = Transit THEN Qty(d, i) ELSE 0)
      BY <1>9 DEF Arrived
    <3>5. balance[place][i] \in Int /\ Qty(d, i) \in Int /\ arrived[i] \in Int
      <4>1. balance[place][i] \in Int
        BY DEF Core, BooksWhole, Whole
      <4>2. Qty(d, i) \in Int /\ received'[d][i] \in Int
        BY <1>1, <1>9 DEF Standings
      <4> QED  BY <1>9, <4>1, <4>2
    <3> QED  BY <3>2, <3>3, <3>4, <3>5
  <2> QED  BY <1>0, <1>9, <2>1, FollowsMove DEF Moves
<1>10. ASSUME NEW d \in Adjustment, PostAdjustment(d) PROVE StockFollowsDocuments'
  <2>1. /\ d \in Doc /\ Moves(d, {"draft", "approved"}, "posted")
        /\ Posted(d, "adjustment", site[d], [i \in Item |-> Signed(d, i)])
    BY <1>10, MovingDocs
  <2> QED  BY <1>5, <2>1
<1>11. ASSUME NEW d \in Issue, PostIssue(d) PROVE StockFollowsDocuments'
  <2>1. /\ d \in Doc /\ Moves(d, {"draft", "approved"}, "posted")
        /\ Posted(d, "issue", site[d], [i \in Item |-> Signed(d, i)])
    BY <1>11, MovingDocs
  <2> QED  BY <1>5, <2>1
<1>12. ASSUME NEW d \in Stocktake, PostStocktake(d) PROVE StockFollowsDocuments'
  BY <1>6, <1>12, MovingDocs
<1>13. ASSUME NEW d \in Adjustment \cup Issue, Reverse(d) PROVE StockFollowsDocuments'
  BY <1>7, <1>13, MovingDocs
<1>14. ASSUME NEW d \in Transfer, NEW day, Dispatch(d, day) PROVE StockFollowsDocuments'
  BY <1>8, <1>14, MovingDocs
<1>15. ASSUME NEW d \in Transfer, NEW day, NEW arrived \in [Item -> {0} \cup Quantities], Receive(d, day, arrived)
       PROVE StockFollowsDocuments'
  BY <1>9, <1>15, MovingDocs
<1> QED  BY <1>0, <1>3, <1>4, <1>10, <1>11, <1>12, <1>13, <1>14, <1>15, StepKinds

-----------------------------------------------------------------------------
(* The journals.                                                           *)

Amounts == [j \in JournalEntry |-> j.amount]

LEMMA AmountTypes == \A j \in JournalEntry : j.amount \in Int /\ Amounts[j] = j.amount /\ Amounts[j] \in Int
<1>1. \A j \in JournalEntry : j.amount \in Int
  BY DEF JournalEntry
<1> QED  BY <1>1 DEF Amounts

LEMMA AmountSums ==
    ASSUME NEW js \in SUBSET JournalEntry, IsFiniteSet(js)
    PROVE  AmountOf(js) = SumFunctionOnSet(Amounts, js) /\ AmountOf(js) \in Int
<1> DEFINE f == [j \in js |-> j.amount]
<1>1. \A j \in js : f[j] = Amounts[j] /\ Amounts[j] \in Int
  BY AmountTypes
<1>2. SumFunctionOnSet(Amounts, js) \in Int
  BY <1>1, SumInt
<1> HIDE DEF f
<1>3. SumFunctionOnSet(f, js) = SumFunctionOnSet(Amounts, js)
  BY <1>1, SumEqual
<1> QED  BY <1>2, <1>3 DEF AmountOf, f

LEMMA NoJournals == AmountOf({}) = 0
BY SumEmpty DEF AmountOf

LEMMA OneMoreJournal ==
    ASSUME NEW js, WellBooked(js), NEW j \in JournalEntry, j.event # "opening" => j.doc \in Doc,
           \A k \in js : ~(k.doc = j.doc /\ k.event = j.event)
    PROVE  /\ WellBooked(js \cup {j})
           /\ AmountOf(js \cup {j}) = AmountOf(js) + j.amount
           /\ AmountOf(js) \in Int
<1>1. js \in SUBSET JournalEntry /\ IsFiniteSet(js) /\ j \notin js
  BY DEF WellBooked
<1>2. js \cup {j} \in SUBSET JournalEntry /\ IsFiniteSet(js \cup {j})
  BY <1>1, FS_AddElement
<1>3. WellBooked(js \cup {j})
  BY <1>2 DEF WellBooked
<1>4. \A x \in js \cup {j} : Amounts[x] \in Int
  BY <1>2, AmountTypes
<1>5. SumFunctionOnSet(Amounts, js \cup {j}) = Amounts[j] + SumFunctionOnSet(Amounts, js)
  BY <1>1, <1>4, SumAdd
<1>6. AmountOf(js) = SumFunctionOnSet(Amounts, js) /\ AmountOf(js) \in Int
  BY <1>1, AmountSums
<1>7. AmountOf(js \cup {j}) = SumFunctionOnSet(Amounts, js \cup {j})
  BY <1>2, AmountSums
<1>8. j.amount \in Int /\ Amounts[j] = j.amount
  BY AmountTypes
<1> QED  BY <1>3, <1>5, <1>6, <1>7, <1>8

LEMMA JournalBooks ==
    ASSUME NEW js, WellBooked(js), NEW d \in Doc, NEW event \in Event \ {"opening"}, NEW amount \in Int,
           \A k \in js : ~(k.doc = d /\ k.event = event)
    PROVE  /\ \A j \in Journal(d, event, amount) : j.doc = d /\ j.event = event
           /\ ~postToGl => Journal(d, event, amount) = {}
           /\ postToGl => /\ WellBooked(js \cup Journal(d, event, amount))
                          /\ AmountOf(js \cup Journal(d, event, amount)) = AmountOf(js) + amount
<1> DEFINE j == [doc |-> d, event |-> event, amount |-> amount]
<1>1. Journal(d, event, amount) = IF postToGl /\ amount # 0 THEN {j} ELSE {}
  BY DEF Journal
<1>2. j \in JournalEntry /\ j.doc = d /\ j.event = event /\ j.amount = amount
  BY DEF JournalEntry
<1> HIDE DEF j
<1>3. /\ WellBooked(js \cup {j})
      /\ AmountOf(js \cup {j}) = AmountOf(js) + amount
      /\ AmountOf(js) \in Int
  BY <1>2, OneMoreJournal
<1>4. js \cup {} = js
  OBVIOUS
<1>5. CASE amount = 0
  BY <1>1, <1>3, <1>4, <1>5
<1>6. CASE amount # 0
  BY <1>1, <1>2, <1>3, <1>6
<1> QED  BY <1>5, <1>6

(* No journal of a document that has not moved anything yet.               *)
LEMMA NoneYet ==
    ASSUME Journaled, NEW d
    PROVE  /\ \A j \in journals : j.event \in Event
           /\ status[d] \notin {"posted", "reversed", "received"} =>
                 \A j \in journals : j.doc = d => j.event = "opening"
           /\ status[d] = "posted" =>
                 \A j \in journals : j.doc = d => j.event \in {"posted", "opening"}
<1>1. \A j \in journals : j.event \in Event
  BY DEF Journaled, WellBooked, JournalEntry
<1> QED  BY <1>1 DEF Journaled, Happened, Event

GlInv == Journaled /\ GlMatchesStock

LEMMA StockWorth == BooksWhole => StockValue = PoolValue(pool) /\ PoolValue(pool) \in Int
<1>1. StockValue = PoolValue(pool)
  BY DEF StockValue, PoolValue
<1> QED  BY <1>1, WholeValue DEF BooksWhole

(* A document's status changes: the journals that were there stay in time. *)
LEMMA HappenedMoves ==
    ASSUME Journaled, Shapes, NEW d \in Doc, \A e \in Doc \ {d} : status'[e] = status[e],
           \A j \in journals : j.doc = d => Happened(j.event, status'[d])
    PROVE  \A j \in journals : Happened(j.event, status'[j.doc])
<1> TAKE j \in journals
<1>1. j.event # "opening" => j.doc \in Doc
  BY DEF Journaled, WellBooked
<1>2. Happened(j.event, status[j.doc])
  BY DEF Journaled
<1>3. CASE j.event = "opening"
  BY <1>3 DEF Happened
<1>4. CASE j.event # "opening" /\ j.doc # d
  BY <1>1, <1>2, <1>4
<1> QED  BY <1>3, <1>4

(* The one journal of a step that moves the stock's value.                 *)
LEMMA GlMoves ==
    ASSUME GlInv, Core, BooksWhole', NEW d \in Doc, \A e \in Doc \ {d} : status'[e] = status[e],
           \A j \in journals : j.doc = d => Happened(j.event, status'[d]),
           NEW event \in Event \ {"opening"}, Happened(event, status'[d]),
           \A j \in journals : ~(j.doc = d /\ j.event = event),
           postToGl' = postToGl,
           journals' = journals \cup Journal(d, event, PoolValue(pool') - PoolValue(pool))
    PROVE  GlInv'
<1> DEFINE gain == PoolValue(pool') - PoolValue(pool)
<1>1. /\ StockValue = PoolValue(pool) /\ PoolValue(pool) \in Int
      /\ StockValue' = PoolValue(pool') /\ PoolValue(pool') \in Int
  <2>1. StockValue = PoolValue(pool) /\ PoolValue(pool) \in Int
    BY StockWorth DEF Core
  <2>2. (StockValue = PoolValue(pool) /\ PoolValue(pool) \in Int)'
    BY StockWorth, PTL
  <2>3. PoolValue(pool)' = PoolValue(pool')
    BY DEF PoolValue
  <2> QED  BY <2>1, <2>2, <2>3
<1>2. gain \in Int
  BY <1>1
<1>3. WellBooked(journals) /\ Journaled /\ Shapes
  BY DEF GlInv, Journaled, Core
<1> HIDE DEF gain
<1>4. /\ \A j \in Journal(d, event, gain) : j.doc = d /\ j.event = event
      /\ ~postToGl => Journal(d, event, gain) = {}
      /\ postToGl => /\ WellBooked(journals \cup Journal(d, event, gain))
                     /\ AmountOf(journals \cup Journal(d, event, gain)) = AmountOf(journals) + gain
  BY <1>2, <1>3, JournalBooks
<1>5. journals' = journals \cup Journal(d, event, gain)
  BY DEF gain
<1>6. \A j \in journals : Happened(j.event, status'[j.doc])
  BY <1>3, HappenedMoves
<1>7. \A j \in journals' : Happened(j.event, status'[j.doc])
  BY <1>4, <1>5, <1>6
<1>8. WellBooked(journals')
  <2>1. CASE postToGl
    BY <1>4, <1>5, <2>1
  <2>2. CASE ~postToGl
    BY <1>3, <1>4, <1>5, <2>2
  <2> QED  BY <2>1, <2>2
<1>9. GlMatchesStock'
  <2>1. CASE postToGl
    <3>1. AmountOf(journals') = AmountOf(journals) + gain
      BY <1>4, <1>5, <2>1
    <3>2. AmountOf(journals) = PoolValue(pool)
      BY <1>1, <2>1 DEF GlInv, GlMatchesStock, GlInventory
    <3>3. AmountOf(journals') = PoolValue(pool')
      BY <1>1, <3>1, <3>2 DEF gain
    <3>4. GlInventory' = AmountOf(journals')
      BY DEF GlInventory, AmountOf
    <3> QED  BY <1>1, <2>1, <3>3, <3>4 DEF GlMatchesStock
  <2>2. CASE ~postToGl
    BY <1>4, <1>5, <2>2 DEF GlInv, GlMatchesStock
  <2> QED  BY <2>1, <2>2
<1> QED  BY <1>7, <1>8, <1>9 DEF GlInv, Journaled

(* Nothing is booked and the stock is worth what it was.                   *)
LEMMA GlStays ==
    ASSUME GlInv, Core, BooksWhole', NEW d \in Doc, \A e \in Doc \ {d} : status'[e] = status[e],
           \A j \in journals : j.doc = d => Happened(j.event, status'[d]),
           postToGl' = postToGl, journals' = journals, PoolValue(pool') = PoolValue(pool)
    PROVE  GlInv'
<1>1. StockValue = PoolValue(pool) /\ StockValue' = PoolValue(pool')
  BY DEF StockValue, PoolValue
<1>2. GlMatchesStock'
  BY <1>1 DEF GlInv, GlMatchesStock, GlInventory, AmountOf
<1>3. \A j \in journals : Happened(j.event, status'[j.doc])
  BY HappenedMoves DEF GlInv, Core
<1> QED  BY <1>2, <1>3 DEF GlInv, Journaled

LEMMA OneJournal == ASSUME NEW j \in JournalEntry PROVE AmountOf({j}) = j.amount
<1>1. IsFiniteSet({}) /\ IsFiniteSet({j}) /\ {} \cup {j} = {j} /\ j \notin {}
  BY FS_EmptySet, FS_Singleton
<1>2. j.amount \in Int /\ Amounts[j] = j.amount /\ Amounts[j] \in Int
  BY AmountTypes
<1>3. \A x \in {} \cup {j} : Amounts[x] \in Int
  BY <1>2
<1>4. SumFunctionOnSet(Amounts, {} \cup {j}) = Amounts[j] + SumFunctionOnSet(Amounts, {})
  BY <1>1, <1>3, SumAdd
<1>5. SumFunctionOnSet(Amounts, {}) = 0
  BY SumEmpty
<1>6. AmountOf({j}) = SumFunctionOnSet(Amounts, {j})
  BY <1>1, AmountSums
<1> QED  BY <1>1, <1>2, <1>4, <1>5, <1>6

LEMMA ReversalOfOne ==
    ASSUME NEW d, NEW actual, NEW j0, AmountOf({j0}) = j0.amount,
           {j \in journals : j.doc = d /\ j.event = "posted"} = {j0}
    PROVE  ReversalJournals(d, actual) =
              {[doc |-> d, event |-> "reversal", amount |-> -j0.amount]}
                 \cup Journal(d, "reversal_variance", actual + j0.amount)
<1> DEFINE original == {j \in journals : j.doc = d /\ j.event = "posted"}
<1>1. ReversalJournals(d, actual) =
         IF original = {} THEN Journal(d, "reversed", actual)
         ELSE {[doc |-> d, event |-> "reversal", amount |-> -j.amount] : j \in original}
                \cup Journal(d, "reversal_variance", actual + AmountOf(original))
  BY DEF ReversalJournals
<1>2. original = {j0}
  OBVIOUS
<1> HIDE DEF original
<1> QED  BY <1>1, <1>2

(* A reversal: the mirror of the one journal there is and the variance, or *)
(* a journal of its own.                                                   *)
LEMMA GlReverses ==
    ASSUME GlInv, Core, BooksWhole', NEW d \in Doc, Moves(d, {"posted"}, "reversed"),
           postToGl' = postToGl,
           journals' = journals \cup ReversalJournals(d, PoolValue(pool') - PoolValue(pool))
    PROVE  GlInv'
<1> DEFINE gain == PoolValue(pool') - PoolValue(pool)
           original == {j \in journals : j.doc = d /\ j.event = "posted"}
<1>0. /\ Journaled /\ WellBooked(journals) /\ Shapes
      /\ status[d] = "posted" /\ status'[d] = "reversed"
      /\ \A e \in Doc \ {d} : status'[e] = status[e]
  BY DEF GlInv, Journaled, Core, Moves, Same
<1>1. \A j \in journals : j.doc = d => j.event \in {"posted", "opening"}
  BY <1>0, NoneYet
<1>2. \A j \in journals : j.doc = d => Happened(j.event, status'[d])
  BY <1>0, <1>1 DEF Happened
<1>3. Happened("reversed", status'[d]) /\ Happened("reversal", status'[d])
      /\ Happened("reversal_variance", status'[d])
      /\ {"reversed", "reversal", "reversal_variance"} \subseteq Event \ {"opening"}
  BY <1>0 DEF Happened, Event
<1>4. CASE original = {}
  <2>1. journals' = journals \cup Journal(d, "reversed", gain)
    <3>1. ReversalJournals(d, gain) = Journal(d, "reversed", gain)
      BY <1>4 DEF ReversalJournals
    <3> QED  BY <3>1
  <2>2. \A j \in journals : ~(j.doc = d /\ j.event = "reversed")
    BY <1>1
  <2> QED  BY <1>0, <1>2, <1>3, <2>1, <2>2, GlMoves
<1>5. CASE original # {}
  <2>1. PICK j0 \in journals : j0.doc = d /\ j0.event = "posted"
    BY <1>5
  <2>2. original = {j0}
    BY <1>0, <2>1 DEF WellBooked
  <2>3. j0 \in JournalEntry /\ j0.amount \in Int
    BY <1>0, <2>1 DEF WellBooked, JournalEntry
  <2>4. postToGl
    BY <2>1 DEF GlInv, GlMatchesStock
  <2> DEFINE mirror == [doc |-> d, event |-> "reversal", amount |-> -j0.amount]
             more == journals \cup {mirror}
             rest == Journal(d, "reversal_variance", gain + j0.amount)
  <2>7. AmountOf(original) = j0.amount
    BY <2>2, <2>3, OneJournal
  <2>8. journals' = more \cup rest
    <3>1. AmountOf({j0}) = j0.amount
      BY <2>2, <2>7
    <3>2. ReversalJournals(d, gain) = {mirror} \cup rest
      BY <2>2, <3>1, ReversalOfOne
    <3>3. journals' = journals \cup ReversalJournals(d, gain)
      OBVIOUS
    <3> HIDE DEF gain, mirror, rest
    <3> QED  BY <3>2, <3>3
  <2>9. /\ mirror \in JournalEntry /\ mirror.doc = d /\ mirror.event = "reversal"
        /\ mirror.amount = -j0.amount
    BY <2>3 DEF JournalEntry, Event
  <2>10. /\ StockValue = PoolValue(pool) /\ PoolValue(pool) \in Int
         /\ StockValue' = PoolValue(pool') /\ PoolValue(pool') \in Int
    <3>1. StockValue = PoolValue(pool) /\ PoolValue(pool) \in Int
      BY StockWorth DEF Core
    <3>2. (StockValue = PoolValue(pool) /\ PoolValue(pool) \in Int)'
      BY StockWorth, PTL
    <3>3. PoolValue(pool)' = PoolValue(pool')
      BY DEF PoolValue
    <3> QED  BY <3>1, <3>2, <3>3
  <2>11. gain \in Int /\ gain + j0.amount \in Int
    BY <2>3, <2>10
  <2> HIDE DEF gain, original, mirror
  <2>12. /\ WellBooked(more) /\ AmountOf(more) = AmountOf(journals) + -j0.amount
         /\ AmountOf(journals) \in Int
    <3>1. \A k \in journals : ~(k.doc = mirror.doc /\ k.event = mirror.event)
      BY <1>1, <2>9
    <3>2. mirror.event # "opening" => mirror.doc \in Doc
      BY <2>9
    <3>3. /\ WellBooked(more) /\ AmountOf(more) = AmountOf(journals) + mirror.amount
          /\ AmountOf(journals) \in Int
      BY <1>0, <2>9, <3>1, <3>2, OneMoreJournal
    <3> QED  BY <2>9, <3>3
  <2>13. \A k \in more : ~(k.doc = d /\ k.event = "reversal_variance")
    BY <1>1, <2>9
  <2> HIDE DEF more
  <2>14. /\ \A j \in rest : j.doc = d /\ j.event = "reversal_variance"
         /\ WellBooked(more \cup rest)
         /\ AmountOf(more \cup rest) = AmountOf(more) + (gain + j0.amount)
    BY <1>3, <2>4, <2>11, <2>12, <2>13, JournalBooks
  <2> HIDE DEF rest
  <2>15. AmountOf(journals') = AmountOf(journals) + gain
    <3>1. AmountOf(journals') = AmountOf(more \cup rest)
      BY <2>8
    <3>2. AmountOf(more \cup rest) = AmountOf(more) + (gain + j0.amount)
      BY <2>14
    <3>3. AmountOf(more) = AmountOf(journals) + -j0.amount /\ AmountOf(journals) \in Int
      BY <2>12
    <3>4. gain \in Int /\ j0.amount \in Int
      BY <2>3, <2>11
    <3> QED  BY <3>1, <3>2, <3>3, <3>4
  <2>16. GlMatchesStock'
    <3>1. AmountOf(journals) = PoolValue(pool)
      BY <2>4, <2>10 DEF GlInv, GlMatchesStock, GlInventory
    <3>2. AmountOf(journals') = PoolValue(pool')
      BY <2>10, <2>15, <3>1 DEF gain
    <3>3. GlInventory' = AmountOf(journals')
      BY DEF GlInventory, AmountOf
    <3> QED  BY <2>4, <2>10, <3>2, <3>3 DEF GlMatchesStock
  <2>17. \A j \in journals : Happened(j.event, status'[j.doc])
    BY <1>0, <1>2, HappenedMoves
  <2>18. \A j \in journals' : Happened(j.event, status'[j.doc])
    BY <1>3, <2>8, <2>9, <2>14, <2>17 DEF more
  <2> QED  BY <2>8, <2>14, <2>16, <2>18 DEF GlInv, Journaled
<1> QED  BY <1>4, <1>5

(* The stock already held when the books start to take inventory.          *)
LEMMA GlStarts ==
    ASSUME GlInv, Core, StartGl
    PROVE  GlInv'
<1> DEFINE j == [doc |-> None, event |-> "opening", amount |-> StockValue]
<1>1. journals = {} /\ postToGl' = TRUE /\ status' = status /\ pool' = pool
      /\ journals' = IF StockValue = 0 THEN {} ELSE {j}
  BY DEF StartGl, GlInv, GlMatchesStock
<1>2. StockValue \in Int /\ StockValue' = StockValue
  <2>1. StockValue \in Int
    BY StockWorth DEF Core
  <2> QED  BY <1>1, <2>1 DEF StockValue
<1>3. j \in JournalEntry /\ j.event = "opening" /\ j.amount = StockValue
  BY <1>2 DEF JournalEntry, Event
<1>4. WellBooked({}) /\ AmountOf({}) = 0
  BY NoJournals, FS_EmptySet DEF WellBooked
<1> HIDE DEF j
<1>5. WellBooked({} \cup {j}) /\ AmountOf({} \cup {j}) = 0 + StockValue
  BY <1>3, <1>4, OneMoreJournal
<1>6. {} \cup {j} = {j}
  OBVIOUS
<1>7. WellBooked(journals') /\ AmountOf(journals') = StockValue
  BY <1>1, <1>2, <1>4, <1>5, <1>6
<1>8. \A k \in journals' : Happened(k.event, status'[k.doc])
  BY <1>1, <1>3 DEF Happened
<1>9. GlMatchesStock'
  <2>1. GlInventory' = AmountOf(journals')
    BY DEF GlInventory, AmountOf
  <2> QED  BY <1>1, <1>2, <1>7, <2>1 DEF GlMatchesStock
<1> QED  BY <1>7, <1>8, <1>9 DEF GlInv, Journaled

LEMMA GlStep ==
    ASSUME Core, GlInv, [Next]_vars
    PROVE  GlInv'
<1>0. Shapes /\ Journaled /\ BooksWhole'
  BY WholeStep DEF Core, GlInv
<1>1. CASE \E d \in Doc : Paper(d)
  <2>1. PICK d \in Doc : Paper(d)
    BY <1>1
  <2>2. /\ \A e \in Doc \ {d} : status'[e] = status[e]
        /\ postToGl' = postToGl /\ journals' = journals /\ PoolValue(pool') = PoolValue(pool)
        /\ status[d] \notin {"posted", "reversed", "received"}
    BY <2>1 DEF Paper, Same, Done
  <2>3. \A j \in journals : j.doc = d => Happened(j.event, status'[d])
    BY <1>0, <2>2, NoneYet DEF Happened
  <2> QED  BY <1>0, <2>2, <2>3, GlStays
<1>2. CASE StartGl
  BY <1>2, GlStarts
<1>3. CASE Quiet /\ ~StartGl
  <2>1. status' = status /\ journals' = journals /\ postToGl' = postToGl /\ pool' = pool
    <3>1. \A e \in Doc : status'[e] = status[e]
      BY <1>3 DEF Quiet, Same
    <3>2. Shapes'
      BY <1>0, ShapesStep
    <3> QED  BY <1>0, <1>3, <3>1, <3>2 DEF Quiet, Shapes
  <2> QED  BY <2>1 DEF GlInv, Journaled, GlMatchesStock, GlInventory, StockValue, AmountOf
<1>4. ASSUME NEW d \in Doc, NEW from \in SUBSET {"draft", "approved"}, Moves(d, from, "posted"), postToGl' = postToGl,
             journals' = journals \cup Journal(d, "posted", PoolValue(pool') - PoolValue(pool))
      PROVE  GlInv'
  <2>1. /\ \A e \in Doc \ {d} : status'[e] = status[e]
        /\ status[d] \notin {"posted", "reversed", "received"} /\ status'[d] = "posted"
    BY <1>4 DEF Moves, Same
  <2>2. \A j \in journals : j.doc = d => j.event = "opening"
    BY <1>0, <2>1, NoneYet
  <2>3. \A j \in journals : j.doc = d => Happened(j.event, status'[d])
    BY <2>2 DEF Happened
  <2>4. Happened("posted", status'[d]) /\ "posted" \in Event \ {"opening"}
    BY <2>1 DEF Happened, Event
  <2>5. \A j \in journals : ~(j.doc = d /\ j.event = "posted")
    BY <2>2
  <2> QED  BY <1>0, <1>4, <2>1, <2>3, <2>4, <2>5, GlMoves
<1>5. ASSUME NEW d \in Doc, Moves(d, {"in_transit"}, "received"), postToGl' = postToGl,
             journals' = journals \cup Journal(d, "transit_loss", PoolValue(pool') - PoolValue(pool))
      PROVE  GlInv'
  <2>1. /\ \A e \in Doc \ {d} : status'[e] = status[e]
        /\ status[d] \notin {"posted", "reversed", "received"} /\ status'[d] = "received"
    BY <1>5 DEF Moves, Same
  <2>2. \A j \in journals : j.doc = d => j.event = "opening"
    BY <1>0, <2>1, NoneYet
  <2>3. \A j \in journals : j.doc = d => Happened(j.event, status'[d])
    BY <2>2 DEF Happened
  <2>4. Happened("transit_loss", status'[d]) /\ "transit_loss" \in Event \ {"opening"}
    BY <2>1 DEF Happened, Event
  <2>5. \A j \in journals : ~(j.doc = d /\ j.event = "transit_loss")
    BY <2>2
  <2> QED  BY <1>0, <1>5, <2>1, <2>3, <2>4, <2>5, GlMoves
<1>6. ASSUME NEW d \in Doc, Moves(d, {"draft", "approved"}, "in_transit"), postToGl' = postToGl,
             journals' = journals, PoolValue(pool') = PoolValue(pool)
      PROVE  GlInv'
  <2>1. /\ \A e \in Doc \ {d} : status'[e] = status[e]
        /\ status[d] \notin {"posted", "reversed", "received"}
    BY <1>6 DEF Moves, Same
  <2>2. \A j \in journals : j.doc = d => Happened(j.event, status'[d])
    BY <1>0, <2>1, NoneYet DEF Happened
  <2> QED  BY <1>0, <1>6, <2>1, <2>2, GlStays
<1>7. ASSUME NEW d \in Adjustment, PostAdjustment(d) PROVE GlInv'
  <2>1. d \in Doc /\ Moves(d, {"draft", "approved"}, "posted")
    BY <1>7, MovingDocs
  <2>2. journals' = journals \cup Journal(d, "posted", PoolValue(pool') - PoolValue(pool))
    BY <1>7, AdjustmentPosts
  <2>3. postToGl' = postToGl
    BY <1>7 DEF PostAdjustment, settings
  <2> QED  BY <1>4, <2>1, <2>2, <2>3
<1>8. ASSUME NEW d \in Issue, PostIssue(d) PROVE GlInv'
  <2>1. d \in Doc /\ Moves(d, {"draft", "approved"}, "posted")
    BY <1>8, MovingDocs
  <2>2. journals' = journals \cup Journal(d, "posted", PoolValue(pool') - PoolValue(pool))
    BY <1>8, IssuePosts
  <2>3. postToGl' = postToGl
    BY <1>8 DEF PostIssue, settings
  <2> QED  BY <1>4, <2>1, <2>2, <2>3
<1>9. ASSUME NEW d \in Stocktake, PostStocktake(d) PROVE GlInv'
  <2>1. d \in Doc /\ Moves(d, {"approved"}, "posted")
    BY <1>9, MovingDocs
  <2>2. journals' = journals \cup Journal(d, "posted", PoolValue(pool') - PoolValue(pool))
    BY <1>9, StocktakePosts
  <2>3. postToGl' = postToGl
    BY <1>9 DEF PostStocktake, settings
  <2> QED  BY <1>4, <2>1, <2>2, <2>3
<1>10. ASSUME NEW d \in Adjustment \cup Issue, Reverse(d) PROVE GlInv'
  <2>1. d \in Doc /\ Moves(d, {"posted"}, "reversed")
    BY <1>10, MovingDocs
  <2>2. journals' = journals \cup ReversalJournals(d, PoolValue(pool') - PoolValue(pool))
    BY <1>10, ReversePosts
  <2>3. postToGl' = postToGl
    BY <1>10 DEF Reverse, settings
  <2> QED  BY <1>0, <2>1, <2>2, <2>3, GlReverses
<1>11. ASSUME NEW d \in Transfer, NEW day, Dispatch(d, day) PROVE GlInv'
  <2>1. d \in Doc /\ Moves(d, {"draft", "approved"}, "in_transit")
    BY <1>11, MovingDocs
  <2>2. journals' = journals /\ PoolValue(pool') = PoolValue(pool)
    BY <1>11, DispatchShifts
  <2>3. postToGl' = postToGl
    BY <1>11 DEF Dispatch, settings
  <2> QED  BY <1>6, <2>1, <2>2, <2>3
<1>12. ASSUME NEW d \in Transfer, NEW day, NEW arrived \in [Item -> {0} \cup Quantities], Receive(d, day, arrived)
       PROVE GlInv'
  <2>1. d \in Doc /\ Moves(d, {"in_transit"}, "received")
    BY <1>12, MovingDocs
  <2>2. journals' = journals \cup Journal(d, "transit_loss", PoolValue(pool') - PoolValue(pool))
    BY <1>12, ReceiveArrives
  <2>3. postToGl' = postToGl
    BY <1>12 DEF Receive, settings
  <2> QED  BY <1>5, <2>1, <2>2, <2>3
<1> QED  BY <1>0, <1>1, <1>2, <1>3, <1>7, <1>8, <1>9, <1>10, <1>11, <1>12, StepKinds

-----------------------------------------------------------------------------
(* The theorems.                                                           *)

LEMMA InitWhole == Init => BooksWhole
<1> SUFFICES ASSUME Init PROVE Whole(balance, pool, movements)
  BY DEF BooksWhole
<1>1. /\ balance = [w \in Place |-> [i \in Item |-> 0]]
      /\ pool = [i \in Item |-> [qty |-> 0, value |-> 0]]
      /\ movements = {}
  BY DEF Init
<1>2. balance \in [Place -> [Item -> Nat]] /\ pool \in [Item -> [qty : Nat, value : Nat]]
  BY <1>1
<1>3. movements \in SUBSET Movement /\ IsFiniteSet(movements) /\ \A r \in movements : FALSE
  BY <1>1, FS_EmptySet
<1>4. \A i \in Item : /\ pool[i].qty = 0 /\ pool[i].value = 0
                      /\ \A w \in Place : balance[w][i] = 0
  BY <1>1
<1>5. \A i \in Item : RowsOf(movements, i) = {} /\ \A w \in Place : RowsIn(movements, w, i) = {}
  BY <1>1 DEF RowsOf, RowsIn
<1>6. \A i \in Item : TotalAt(balance, i) = 0
  <2> TAKE i \in Item
  <2> DEFINE f == [w \in Place |-> balance[w][i]]
  <2>1. \A w \in Place : f[w] = 0
    BY <1>4
  <2> HIDE DEF f
  <2>2. SumFunctionOnSet(f, Place) = 0
    BY <2>1, FiniteTables, SumZero
  <2> QED  BY <2>2 DEF TotalAt, f
<1>7. \A i \in Item : \A w \in Place : balance[w][i] = QtyOf(RowsIn(movements, w, i))
  BY <1>4, <1>5, NoRows
<1>8. \A i \in Item : pool[i].qty = TotalAt(balance, i) /\ pool[i].value = ValueOf(RowsOf(movements, i))
  BY <1>4, <1>5, <1>6, NoRows
<1> QED  BY <1>2, <1>3, <1>4, <1>7, <1>8 DEF Whole

LEMMA InitFollows == Init => StockFollowsDocuments
<1> SUFFICES ASSUME Init, NEW w \in Place, NEW i \in Item
             PROVE  balance[w][i] = SumFunctionOnSet([d \in Doc |-> Standing(d, w, i)], Doc)
  BY DEF StockFollowsDocuments
<1> DEFINE f == [d \in Doc |-> Standing(d, w, i)]
<1>1. \A d \in Doc : f[d] = 0
  BY DEF Init, Standing
<1>2. balance[w][i] = 0
  BY DEF Init
<1> HIDE DEF f
<1>3. SumFunctionOnSet(f, Doc) = 0
  BY <1>1, FiniteTables, SumZero
<1> QED  BY <1>2, <1>3 DEF f

LEMMA StockInit == Init => StockInv
<1> SUFFICES ASSUME Init PROVE StockInv
  OBVIOUS
<1>1. Shapes
  BY DayAssumption DEF Init, Shapes, Status
<1>2. Written /\ Counted /\ Snapshots /\ Traced
  BY DEF Init, Written, Counted, Snapshots, Traced
<1>3. Reversible
  <2>1. \A d \in Adjustment \cup Issue : status[d] # "posted"
    BY DEF Init, Doc
  <2> QED  BY <2>1 DEF Reversible
<1>4. Journaled /\ GlMatchesStock
  BY FS_EmptySet DEF Init, Journaled, WellBooked, GlMatchesStock
<1> QED  BY <1>1, <1>2, <1>3, <1>4, InitWhole, InitFollows DEF StockInv, BooksWhole

LEMMA StockStep == StockInv /\ [Next]_vars => StockInv'
<1> SUFFICES ASSUME StockInv, [Next]_vars PROVE StockInv'
  OBVIOUS
<1>1. Core /\ GlInv /\ Snapshots /\ StockFollowsDocuments
  BY DEF StockInv, Core, GlInv, BooksWhole
<1>2. Core' /\ GlInv' /\ Snapshots' /\ StockFollowsDocuments'
  BY <1>1, CoreStep, GlStep, SnapshotsStep, FollowsStep
<1> QED  BY <1>2 DEF StockInv, Core, GlInv, BooksWhole

LEMMA StockInvariant == Spec => []StockInv
BY StockInit, StockStep, PTL DEF Spec

(* Every table keeps its type: no balance, quantity or value of stock is   *)
(* ever negative, whatever is posted in whatever order (_apply and the     *)
(* cost pool's decrease_value).                                            *)
THEOREM StockTypes == Spec => []TypeOK
<1>1. StockInv => TypeOK
  <2> SUFFICES ASSUME StockInv PROVE TypeOK
    OBVIOUS
  <2>1. /\ balance \in [Place -> [Item -> Nat]]
        /\ pool \in [Item -> [qty : Nat, value : Nat]]
        /\ \A r \in movements : r \in Movement
    BY DEF StockInv, Whole
  <2>2. \A j \in journals : j \in [doc : Doc \cup {None}, event : Event, amount : Int]
    BY DEF StockInv, Journaled, WellBooked, JournalEntry
  <2>3. /\ \A d \in Doc : DOMAIN lines[d] \subseteq Item /\ \A i \in DOMAIN lines[d] : lines[d][i] \in Line
        /\ \A d \in Doc : cutoff[d] \subseteq movements
    BY DEF StockInv, Written, Snapshots
  <2>4. \A d \in Doc : \A i \in DOMAIN sheet[d] :
           i \in Item /\ sheet[d][i] \in [expected : Nat, counted : Nat \cup {None}]
    BY DEF StockInv, Counted
  <2> QED  BY <2>1, <2>2, <2>3, <2>4 DEF TypeOK, StockInv, Shapes
<1> QED  BY <1>1, StockInvariant, PTL

(* The stock and its history agree, for any items, warehouses and          *)
(* documents and every order of posting, reversing, dispatching, receiving *)
(* and counting: each balance and each cost pool is what the movements add *)
(* up to, and an item that is all gone is worth nothing (post_movements).  *)
THEOREM StockIsItsMovements == Spec => []StockMatchesMovements
<1>1. StockInv => StockMatchesMovements
  <2> SUFFICES ASSUME StockInv PROVE StockMatchesMovements
    OBVIOUS
  <2>1. Whole(balance, pool, movements)
    BY DEF StockInv
  <2>2. \A i \in Item : \A place \in Place : balance[place][i] = QtyOf(RowsAt(place, i))
    BY <2>1 DEF Whole, RowsIn, RowsAt
  <2>3. \A i \in Item : /\ pool[i].qty = SumFunctionOnSet([place \in Place |-> balance[place][i]], Place)
                        /\ pool[i].value = ValueOf({r \in movements : r.item = i})
                        /\ pool[i].qty = 0 => pool[i].value = 0
    BY <2>1 DEF Whole, TotalAt, RowsOf
  <2> QED  BY <2>2, <2>3 DEF StockMatchesMovements
<1> QED  BY <1>1, StockInvariant, PTL

(* Once the books take inventory, the inventory account holds the value of *)
(* the stock, whatever was posted before the switch or reversed since at   *)
(* another cost (start_gl_posting, post_event, reverse_event).             *)
THEOREM GlIsTheStock == Spec => []GlMatchesStock
<1>1. StockInv => GlMatchesStock
  BY DEF StockInv
<1> QED  BY <1>1, StockInvariant, PTL

(* The stock of every place is what the documents in their present         *)
(* statuses say moved there: none is posted twice, a reversal takes back   *)
(* exactly what was posted, and a transfer that lost some on the way       *)
(* leaves nothing in transit (the status guards of post, reverse, dispatch *)
(* and receive).                                                           *)
THEOREM StockIsItsDocuments == Spec => []StockFollowsDocuments
<1>1. StockInv => StockFollowsDocuments
  BY DEF StockInv
<1> QED  BY <1>1, StockInvariant, PTL

LEMMA PostedCount ==
    ASSUME Core, NEW d \in Stocktake, status[d] = "approved", status'[d] = "posted", [Next]_vars
    PROVE  PostStocktake(d)
<1>0. Shapes /\ d \in Doc /\ d \notin Adjustment \cup Issue \cup Transfer
  BY TableAssumption DEF Core, Doc
<1>1. ASSUME NEW e, e # d, NEW from, NEW to, Moves(e, from, to) PROVE FALSE
  BY <1>0, <1>1 DEF Moves, Same
<1>2. ASSUME NEW e \in Doc, Paper(e) PROVE FALSE
  BY <1>0, <1>2 DEF Paper, Same, Done
<1>3. CASE Quiet
  BY <1>0, <1>3 DEF Quiet, Same
<1>4. ASSUME NEW e \in Adjustment, PostAdjustment(e) PROVE FALSE
  <2>1. e # d /\ Moves(e, {"draft", "approved"}, "posted")
    BY <1>0, <1>4, MovingDocs
  <2> QED  BY <1>1, <2>1
<1>5. ASSUME NEW e \in Issue, PostIssue(e) PROVE FALSE
  <2>1. e # d /\ Moves(e, {"draft", "approved"}, "posted")
    BY <1>0, <1>5, MovingDocs
  <2> QED  BY <1>1, <2>1
<1>6. ASSUME NEW e \in Adjustment \cup Issue, Reverse(e) PROVE FALSE
  <2>1. e # d /\ Moves(e, {"posted"}, "reversed")
    BY <1>0, <1>6, MovingDocs
  <2> QED  BY <1>1, <2>1
<1>7. ASSUME NEW e \in Transfer, NEW day, Dispatch(e, day) PROVE FALSE
  <2>1. e # d /\ Moves(e, {"draft", "approved"}, "in_transit")
    BY <1>0, <1>7, MovingDocs
  <2> QED  BY <1>1, <2>1
<1>8. ASSUME NEW e \in Transfer, NEW day, NEW arrived \in [Item -> {0} \cup Quantities], Receive(e, day, arrived)
      PROVE  FALSE
  <2>1. e # d /\ Moves(e, {"in_transit"}, "received")
    BY <1>0, <1>8, MovingDocs
  <2> QED  BY <1>1, <2>1
<1>9. ASSUME NEW e \in Stocktake, PostStocktake(e) PROVE e = d
  <2>1. Moves(e, {"approved"}, "posted")
    BY <1>9, MovingDocs
  <2> QED  BY <1>1, <2>1
<1> QED  BY <1>0, <1>2, <1>3, <1>4, <1>5, <1>6, <1>7, <1>8, <1>9, StepKinds

(* What moved since the cutoff is the balance less what it had seen.       *)
LEMMA SinceCutoff ==
    ASSUME Core, Snapshots, NEW d \in Doc, site[d] \in Place, NEW i \in Item
    PROVE  /\ MovedSince(d, i) = balance[site[d]][i] - HeldAtCutoff(d, i)
           /\ HeldAtCutoff(d, i) \in Int
<1> DEFINE S == RowsAt(site[d], i)
           T == {r \in cutoff[d] : r.item = i /\ r.place = site[d]}
<1>1. movements \in SUBSET Movement /\ IsFiniteSet(movements)
  BY DEF Core, BooksWhole, Whole
<1>2. S \in SUBSET Movement /\ IsFiniteSet(S)
  BY <1>1, FS_Subset DEF RowsAt
<1>3. T \in SUBSET S
  BY DEF Snapshots, RowsAt
<1>4. S \ cutoff[d] = S \ T
  BY DEF RowsAt
<1>5. balance[site[d]][i] = QtyOf(S)
  <2>1. balance[site[d]][i] = QtyOf(RowsIn(movements, site[d], i))
    BY DEF Core, BooksWhole, Whole
  <2> QED  BY <2>1 DEF RowsIn, RowsAt
<1>6. HeldAtCutoff(d, i) = QtyOf(T) /\ MovedSince(d, i) = QtyOf(S \ T)
  BY <1>4 DEF HeldAtCutoff, MovedSince
<1> HIDE DEF S, T
<1>7. QtyOf(S \ T) = QtyOf(S) - QtyOf(T)
  BY <1>2, <1>3, RowsSplit
<1>8. QtyOf(T) \in Int
  <2>1. T \in SUBSET Movement /\ IsFiniteSet(T)
    BY <1>2, <1>3, FS_Subset
  <2> QED  BY <2>1, RowSums
<1> QED  BY <1>5, <1>6, <1>7, <1>8

(* Posting a count never overwrites what was posted after its cutoff: it   *)
(* leaves what was counted plus what has moved since, for any documents    *)
(* posted between the count and its approval (start_stocktake's snapshot   *)
(* and post_stocktake's variances).                                        *)
THEOREM CountsKeepWhatCameSince == Spec => CountsKeepLaterMovements
<1> DEFINE Kept == \A d \in Stocktake : status[d] = "approved" /\ status'[d] = "posted" =>
                      \A i \in Item :
                          balance'[site[d]][i] =
                              IF i \in DOMAIN sheet[d] THEN sheet[d][i].counted + MovedSince(d, i)
                              ELSE balance[site[d]][i]
<1>1. StockInv /\ [Next]_vars => [Kept]_vars
  <2> SUFFICES ASSUME StockInv, [Next]_vars,
                      NEW d \in Stocktake, status[d] = "approved", status'[d] = "posted",
                      NEW i \in Item
               PROVE  balance'[site[d]][i] =
                          IF i \in DOMAIN sheet[d] THEN sheet[d][i].counted + MovedSince(d, i)
                          ELSE balance[site[d]][i]
    OBVIOUS
  <2>1. Core /\ Snapshots /\ d \in Doc
    BY DEF StockInv, Core, BooksWhole, Doc
  <2>2. PostStocktake(d)
    BY <2>1, PostedCount
  <2>3. site[d] \in Place
    BY <2>1 DEF Core, Written, Place
  <2>4. balance'[site[d]][i] = balance[site[d]][i] + Variance(d, i)
    <3>1. Posted(d, "count", site[d], [k \in Item |-> Variance(d, k)])
      BY <2>1, <2>2, MovingDocs
    <3> QED  BY <2>3, <3>1 DEF Posted
  <2>5. balance[site[d]][i] \in Int
    BY <2>1, <2>3 DEF Core, BooksWhole, Whole
  <2>6. MovedSince(d, i) = balance[site[d]][i] - HeldAtCutoff(d, i) /\ HeldAtCutoff(d, i) \in Int
    BY <2>1, <2>3, SinceCutoff
  <2>7. CASE i \in DOMAIN sheet[d]
    <3>1. sheet[d][i].counted # None /\ sheet[d][i].expected = HeldAtCutoff(d, i)
          /\ sheet[d][i].counted \in Nat
      BY <2>1, <2>7 DEF Core, Counted
    <3>2. Variance(d, i) = sheet[d][i].counted - sheet[d][i].expected
      BY <2>7, <3>1 DEF Variance
    <3>3. balance'[site[d]][i] = sheet[d][i].counted + MovedSince(d, i)
      BY <2>4, <2>5, <2>6, <3>1, <3>2
    <3> QED  BY <2>7, <3>3
  <2>8. CASE i \notin DOMAIN sheet[d]
    BY <2>4, <2>5, <2>8 DEF Variance
  <2> QED  BY <2>7, <2>8
<1> QED  BY <1>1, StockInvariant, PTL DEF Spec, CountsKeepLaterMovements
=============================================================================
