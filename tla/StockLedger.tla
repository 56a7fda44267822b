---------------------------- MODULE StockLedger ----------------------------
(***************************************************************************)
(* The stock of one organisation and the documents that move it:           *)
(* adjustments, issues, transfers between warehouses and stocktakes, over  *)
(* one posting engine that keeps append-only movements, a balance per      *)
(* warehouse, a weighted-average cost pool per item and, once switched on, *)
(* the journals of the general ledger.                                     *)
(*                                                                         *)
(* Each action is one request, that is one transaction that commits; a     *)
(* refused request changes nothing and is no step.  Requests do not        *)
(* overlap here.                                                           *)
(*                                                                         *)
(* Abstracted: units and lots (quantities are whole base units), account   *)
(* codes other than inventory's (each journal is the amount it moves the   *)
(* inventory account by), archived items and warehouses, categories, and   *)
(* the steps of an approval before its last.  A document has at most one   *)
(* line per item.                                                          *)
(***************************************************************************)
EXTENDS Integers, FiniteSets, Functions

CONSTANTS
    Item, Warehouse,
    Transit,        \* the in-transit location, no document's own warehouse
    Adjustment, Issue, Transfer, Stocktake,     \* document ids, used once each
    Quantities,     \* the quantities a line may have
    Costs,          \* the unit costs of stock added
    DefaultCost,    \* DefaultCost[i]: the item's default cost, or None
    Policies,       \* what the approval settings may be
    Days,           \* the dates documents may have
    Today,          \* the day requests are made
    LockDates,      \* the lock dates the accounting settings may take; 0 is none
    None            \* no value

ASSUME PlaceAssumption == Transit \notin Warehouse /\ None \notin Warehouse \cup {Transit}
ASSUME TableAssumption ==
    /\ \A S \in {Item, Warehouse, Adjustment, Issue, Transfer, Stocktake} : IsFiniteSet(S)
    /\ Adjustment \cap (Issue \cup Transfer \cup Stocktake) = {}
    /\ Issue \cap (Transfer \cup Stocktake) = {} /\ Transfer \cap Stocktake = {}
ASSUME LineAssumption == /\ Quantities \subseteq Nat \ {0} /\ Costs \subseteq Nat
                         /\ DefaultCost \in [Item -> Nat \cup {None}]
                         /\ None \notin Nat
ASSUME DayAssumption == /\ Today \in Nat \ {0} /\ Days \subseteq 1..Today
                        /\ LockDates \subseteq Nat
ASSUME PolicyAssumption ==
    Policies \subseteq [issue : BOOLEAN, transfer : BOOLEAN, limit : Nat \cup {None}]

VARIABLES
    status,         \* status[d]
    site,           \* site[d]: the document's warehouse, a transfer's source
    dest,           \* dest[d]: a transfer's destination
    dated,          \* dated[d]: the document's date
    lines,          \* lines[d]: from the items of its lines to quantity and unit cost
    received,       \* received[d][i]: what arrived of a transfer's line
    sheet,          \* sheet[d]: a stocktake's lines, expected and counted
    cutoff,         \* cutoff[d]: the movements its snapshot has seen
    signedOff,      \* the documents whose approval instance is approved
    balance,        \* balance[w][i]: InventoryStockBalance
    pool,           \* pool[i]: InventoryItemCost, quantity and value
    movements,      \* InventoryStockMovement rows
    journals,       \* inventory's journals, by document and event
    postToGl,       \* InventorySettings.post_to_gl
    policy,         \* the approval settings
    lockDate        \* AccountingSettings.lock_date; 0 is none

header == <<site, dest, dated, lines>>
count == <<sheet, cutoff>>
books == <<balance, pool, movements, journals>>
settings == <<postToGl, policy, lockDate>>
vars == <<status, header, received, count, signedOff, books, settings>>

Doc == Adjustment \cup Issue \cup Transfer \cup Stocktake
Place == Warehouse \cup {Transit}
Status == {"none", "draft", "counting", "pending_approval", "approved", "rejected",
           "posted", "reversed", "in_transit", "received", "cancelled", "deleted"}
MovementType == {"adjustment", "issue", "count", "transfer_out", "transfer_in",
                 "transit_loss", "reversal"}
Event == {"posted", "transit_loss", "reversal", "reversal_variance", "reversed", "opening"}

(* Functions from some of the items. *)
PerItem(S) == UNION {[items -> S] : items \in SUBSET Item}
Line == [qty : Int, cost : Nat]
Movement == [doc : Doc, type : MovementType, place : Place, item : Item, qty : Int, value : Int]

TypeOK ==
    /\ status \in [Doc -> Status]
    /\ site \in [Doc -> Warehouse \cup {None}]
    /\ dest \in [Doc -> Warehouse \cup {None}]
    /\ dated \in [Doc -> Nat]
    /\ \A d \in Doc : DOMAIN lines[d] \subseteq Item /\ \A i \in DOMAIN lines[d] : lines[d][i] \in Line
    /\ received \in [Doc -> [Item -> Nat]]
    /\ \A d \in Doc : \A i \in DOMAIN sheet[d] :
          i \in Item /\ sheet[d][i] \in [expected : Nat, counted : Nat \cup {None}]
    /\ \A d \in Doc : cutoff[d] \subseteq movements
    /\ signedOff \subseteq Doc
    /\ balance \in [Place -> [Item -> Nat]]
    /\ pool \in [Item -> [qty : Nat, value : Nat]]
    /\ \A r \in movements : r \in Movement
    /\ \A j \in journals : j \in [doc : Doc \cup {None}, event : Event, amount : Int]
    /\ postToGl \in BOOLEAN
    /\ policy \in Policies
    /\ lockDate \in Nat

Init ==
    /\ status = [d \in Doc |-> "none"]
    /\ site = [d \in Doc |-> None]
    /\ dest = [d \in Doc |-> None]
    /\ dated = [d \in Doc |-> 0]
    /\ lines = [d \in Doc |-> <<>>]
    /\ received = [d \in Doc |-> [i \in Item |-> 0]]
    /\ sheet = [d \in Doc |-> <<>>]
    /\ cutoff = [d \in Doc |-> {}]
    /\ signedOff = {}
    /\ balance = [w \in Place |-> [i \in Item |-> 0]]
    /\ pool = [i \in Item |-> [qty |-> 0, value |-> 0]]
    /\ movements = {}
    /\ journals = {}
    /\ postToGl = FALSE
    /\ policy \in Policies
    /\ lockDate = 0
-----------------------------------------------------------------------------
(* Costing and the posting engine *)

OpenPeriod(day) == day > lockDate

(* n / d to the nearest whole minor unit, half to even. *)
RoundHalfEven(n, d) ==
    LET low == n \div d
        rest == n % d
    IN IF 2 * rest > d \/ (2 * rest = d /\ low % 2 = 1) THEN low + 1 ELSE low

(* decrease_value: the whole quantity takes the whole value.  More than    *)
(* there is is refused by Book.                                            *)
DecreaseValue(p, q) == IF q >= p.qty THEN p.value ELSE RoundHalfEven(p.value * q, p.qty)

(* Mutant: what is left of a pool is valued by itself, at the average. *)
LeftAtAverage(p, q, value) ==
    [qty |-> p.qty + q,
     value |-> IF q < 0 /\ p.qty > 0 THEN RoundHalfEven(p.value * (p.qty + q), p.qty)
               ELSE p.value + value]

(* The pool after a movement. *)
PoolAfter(p, q, value) == [qty |-> p.qty + q, value |-> p.value + value]

Books == [balance |-> balance, pool |-> pool, rows |-> movements]

(* One batch of post_movements at one place: q[i] is the signed quantity   *)
(* of its line for item i, 0 without one, and v[i] the value an increase   *)
(* enters at; a decrease leaves at the average.                            *)
Moved(b, d, type, place, q, v) ==
    LET value == [i \in Item |-> IF q[i] < 0 THEN -DecreaseValue(b.pool[i], -q[i]) ELSE v[i]]
    IN [balance |-> [b.balance EXCEPT ![place] = [i \in Item |-> @[i] + q[i]]],
        pool |-> [i \in Item |-> PoolAfter(b.pool[i], q[i], value[i])],
        rows |-> b.rows \cup {[doc |-> d, type |-> type, place |-> place, item |-> i,
                               qty |-> q[i], value |-> value[i]] : i \in {j \in Item : q[j] # 0}}]

(* Mutant: the shortage check looks at the item's pool, not at the place. *)
FitsPool(b) == \A i \in Item : b.pool[i].qty >= 0

(* No place is left owing stock.  A place that a request takes from is not *)
(* one it adds to, so checking the outcome is checking every line.         *)
Fits(b) == \A place \in Place, i \in Item : b.balance[place][i] >= 0

(* What post_movements leaves behind, in an open period. *)
Book(day, b) ==
    /\ OpenPeriod(day)
    /\ Fits(b)
    /\ balance' = b.balance
    /\ pool' = b.pool
    /\ movements' = b.rows

QtyOf(rows) == SumFunctionOnSet([r \in rows |-> r.qty], rows)
ValueOf(rows) == SumFunctionOnSet([r \in rows |-> r.value], rows)
StockValue == SumFunctionOnSet([i \in Item |-> pool[i].value], Item)

AmountOf(entries) == SumFunctionOnSet([j \in entries |-> j.amount], entries)

(* The journal of an event: none while the books do not take inventory,    *)
(* and none of nothing.                                                    *)
Journal(d, event, amount) ==
    IF postToGl /\ amount # 0 THEN {[doc |-> d, event |-> event, amount |-> amount]} ELSE {}

Nothing == [i \in Item |-> 0]

(* The quantity of the document's line for item i. *)
Qty(d, i) == IF i \in DOMAIN lines[d] THEN lines[d][i].qty ELSE 0

(* The value an adjustment's gain enters at. *)
GainValue(d, i) == IF Qty(d, i) > 0 THEN Qty(d, i) * lines[d][i].cost ELSE 0

(* A batch at the document's warehouse and the journal of its value. *)
PostBatch(d, type, q, v) ==
    LET after == Moved(Books, d, type, site[d], q, v)
    IN /\ Book(dated[d], after)
       /\ journals' = journals \cup Journal(d, "posted", ValueOf(after.rows \ movements))
-----------------------------------------------------------------------------
(* Stocktakes: what a count says *)

(* Mutant: the count is compared with the books as they are when it posts. *)
VarianceNow(d, i) ==
    IF i \in DOMAIN sheet[d] /\ sheet[d][i].counted # None
    THEN sheet[d][i].counted - balance[site[d]][i] ELSE 0

(* Counted less expected; a line not counted yet says nothing. *)
Variance(d, i) ==
    IF i \in DOMAIN sheet[d] /\ sheet[d][i].counted # None
    THEN sheet[d][i].counted - sheet[d][i].expected ELSE 0

(* Stock found can be valued: at the average, or the default cost. *)
CanValue(d, i) == Variance(d, i) > 0 => pool[i].qty > 0 \/ DefaultCost[i] # None

FoundValue(d, i) ==
    IF Variance(d, i) <= 0 \/ ~CanValue(d, i) THEN 0
    ELSE IF pool[i].qty > 0 THEN RoundHalfEven(pool[i].value * Variance(d, i), pool[i].qty)
    ELSE Variance(d, i) * DefaultCost[i]
-----------------------------------------------------------------------------
(* Approval *)

ReachesLimit(gained) == policy.limit # None /\ gained >= policy.limit

AddedValue(d) == SumFunctionOnSet([i \in Item |-> GainValue(d, i)], Item)
CountedValue(d) == SumFunctionOnSet([i \in Item |-> FoundValue(d, i)], Item)

(* Mutant: with no limit nothing needs approval, stock removed included. *)
ApprovalOnlyWithLimit(d) ==
    /\ policy.limit # None
    /\ \/ \E i \in Item : Qty(d, i) < 0 \/ Variance(d, i) < 0
       \/ AddedValue(d) >= policy.limit

RequiresApproval(d) ==
    \/ d \in Issue /\ policy.issue
    \/ d \in Transfer /\ policy.transfer
    \/ d \in Adjustment /\ (ReachesLimit(AddedValue(d)) \/ \E i \in Item : Qty(d, i) < 0)
    \/ /\ d \in Stocktake
       /\ \/ \E i \in Item : Variance(d, i) < 0
          \/ CountedValue(d) > 0 /\ ReachesLimit(CountedValue(d))

(* A document that needs no approval now may go ahead straight from draft. *)
MayGoAhead(d) == \/ status[d] = "approved"
                 \/ status[d] = "draft" /\ ~RequiresApproval(d)

(* A stocktake is submitted once every line is counted and can be valued. *)
Complete(d) == IF d \in Stocktake
               THEN /\ status[d] = "counting"
                    /\ \A i \in DOMAIN sheet[d] : sheet[d][i].counted # None /\ CanValue(d, i)
               ELSE status[d] = "draft"

Submit(d) ==
    /\ Complete(d)
    /\ status' = [status EXCEPT ![d] = IF RequiresApproval(d) THEN "pending_approval"
                                       ELSE "approved"]
    /\ UNCHANGED <<header, received, count, signedOff, books, settings>>

(* The decision that ends the approval. *)
Decide(d, approve) ==
    /\ status[d] = "pending_approval"
    /\ status' = [status EXCEPT ![d] = IF approve THEN "approved" ELSE "rejected"]
    /\ signedOff' = IF approve THEN signedOff \cup {d} ELSE signedOff
    /\ UNCHANGED <<header, received, count, books, settings>>
-----------------------------------------------------------------------------
(* Drafts *)

Destinations(d, w) == IF d \in Transfer THEN Warehouse \ {w} ELSE {None}

(* The lines a request may give a document.  A stocktake has none yet. *)
Added == {[qty |-> q, cost |-> c] : q \in Quantities, c \in Costs}
Taken(sign) == {[qty |-> sign * q, cost |-> 0] : q \in Quantities}
Bodies(d) == IF d \in Stocktake THEN {<<>>}
             ELSE PerItem(IF d \in Adjustment THEN Added \cup Taken(-1) ELSE Taken(1)) \ {<<>>}

(* Create, or replace a draft's header and lines. *)
WriteDraft(d, w, to, day, body) ==
    /\ status[d] \in {"none", "draft"}
    /\ d \in Stocktake => OpenPeriod(day)
    /\ status' = [status EXCEPT ![d] = "draft"]
    /\ site' = [site EXCEPT ![d] = w]
    /\ dest' = [dest EXCEPT ![d] = to]
    /\ dated' = [dated EXCEPT ![d] = day]
    /\ lines' = [lines EXCEPT ![d] = body]
    /\ UNCHANGED <<received, count, signedOff, books, settings>>

(* The row and its lines are deleted. *)
Delete(d) ==
    /\ status[d] = "draft" \/ (status[d] = "rejected" /\ d \notin Stocktake)
    /\ status' = [status EXCEPT ![d] = "deleted"]
    /\ site' = [site EXCEPT ![d] = None]
    /\ dest' = [dest EXCEPT ![d] = None]
    /\ dated' = [dated EXCEPT ![d] = 0]
    /\ lines' = [lines EXCEPT ![d] = <<>>]
    /\ UNCHANGED <<received, count, signedOff, books, settings>>

(* An adjustment cannot be cancelled, nor anything that has moved stock. *)
Cancel(d) ==
    /\ \/ d \notin Adjustment /\ status[d] \in {"draft", "pending_approval", "approved"}
       \/ d \in Stocktake /\ status[d] \in {"counting", "rejected"}
    /\ status' = [status EXCEPT ![d] = "cancelled"]
    /\ UNCHANGED <<header, received, count, signedOff, books, settings>>
-----------------------------------------------------------------------------
(* Adjustments and issues *)

PostAdjustment(d) ==
    /\ MayGoAhead(d)
    /\ PostBatch(d, "adjustment", [i \in Item |-> Qty(d, i)], [i \in Item |-> GainValue(d, i)])
    /\ status' = [status EXCEPT ![d] = "posted"]
    /\ UNCHANGED <<header, received, count, signedOff, settings>>

PostIssue(d) ==
    /\ MayGoAhead(d)
    /\ PostBatch(d, "issue", [i \in Item |-> -Qty(d, i)], Nothing)
    /\ status' = [status EXCEPT ![d] = "posted"]
    /\ UNCHANGED <<header, received, count, signedOff, settings>>

Originals(d, i) == {r \in movements : r.doc = d /\ r.item = i /\ r.type # "reversal"}

(* Mutant: only the mirror, as if stock always left at the cost it came at. *)
MirrorOnly(d, actual) ==
    {[j EXCEPT !.event = "reversal", !.amount = -@] :
        j \in {k \in journals : k.doc = d /\ k.event = "posted"}}

(* The document's journal mirrored, and a variance where stock leaves at   *)
(* another cost than it came at; a document that has no journal is taken   *)
(* back in one of its own.                                                 *)
ReversalJournals(d, actual) ==
    LET original == {j \in journals : j.doc = d /\ j.event = "posted"}
        booked == AmountOf(original)
    IN IF original = {} THEN Journal(d, "reversed", actual)
       ELSE {[doc |-> d, event |-> "reversal", amount |-> -j.amount] : j \in original}
              \cup Journal(d, "reversal_variance", actual + booked)

(* reverse_adjustment and reverse_issue: stock taken out comes back at the *)
(* value it left at, stock put in leaves at today's average.               *)
Reverse(d) ==
    /\ status[d] = "posted"
    /\ LET after == Moved(Books, d, "reversal", site[d],
                          [i \in Item |-> -QtyOf(Originals(d, i))],
                          [i \in Item |-> -ValueOf(Originals(d, i))])
       IN /\ Book(Today, after)
          /\ journals' = journals \cup ReversalJournals(d, ValueOf(after.rows \ movements))
    /\ status' = [status EXCEPT ![d] = "reversed"]
    /\ UNCHANGED <<header, received, count, signedOff, settings>>
-----------------------------------------------------------------------------
(* Transfers *)

(* _move_pairs: what goes out comes in at exactly the value it went out at. *)
MovePairs(b, d, from, to, q) ==
    LET out == Moved(b, d, "transfer_out", from, [i \in Item |-> -q[i]], Nothing)
    IN Moved(out, d, "transfer_in", to, q,
             [i \in Item |-> b.pool[i].value - out.pool[i].value])

Dispatch(d, day) ==
    /\ MayGoAhead(d)
    /\ day >= dated[d]
    /\ Book(day, MovePairs(Books, d, site[d], Transit, [i \in Item |-> Qty(d, i)]))
    /\ status' = [status EXCEPT ![d] = "in_transit"]
    /\ UNCHANGED <<header, received, count, signedOff, journals, settings>>

(* Mutant: what did not arrive stays in transit. *)
StillInTransit(d, arrived) == Books

(* What did not arrive is written off from transit first. *)
LossesOf(d, arrived) ==
    Moved(Books, d, "transit_loss", Transit, [i \in Item |-> arrived[i] - Qty(d, i)], Nothing)

Receive(d, day, arrived) ==
    /\ status[d] = "in_transit"
    /\ day >= dated[d]
    /\ \A i \in Item : arrived[i] <= Qty(d, i)
    /\ LET lost == LossesOf(d, arrived)
       IN /\ Book(day, MovePairs(lost, d, Transit, dest[d], arrived))
          /\ journals' = journals
                \cup Journal(d, "transit_loss", ValueOf(lost.rows \ movements))
    /\ received' = [received EXCEPT ![d] = arrived]
    /\ status' = [status EXCEPT ![d] = "received"]
    /\ UNCHANGED <<header, count, signedOff, settings>>
-----------------------------------------------------------------------------
(* Stocktakes *)

(* start_stocktake: one line for each item the books hold here now. *)
StartCount(d) ==
    /\ status[d] = "draft"
    /\ OpenPeriod(dated[d])
    /\ sheet' = [sheet EXCEPT ![d] =
                    [i \in {j \in Item : balance[site[d]][j] # 0} |->
                        [expected |-> balance[site[d]][i], counted |-> None]]]
    /\ cutoff' = [cutoff EXCEPT ![d] = movements]
    /\ status' = [status EXCEPT ![d] = "counting"]
    /\ UNCHANGED <<header, received, signedOff, books, settings>>

(* record_counts: enter a count, or clear it. *)
RecordCount(d, i, counted) ==
    /\ status[d] = "counting"
    /\ i \in DOMAIN sheet[d]
    /\ sheet' = [sheet EXCEPT ![d][i].counted = counted]
    /\ UNCHANGED <<status, header, received, cutoff, signedOff, books, settings>>

HeldAtCutoff(d, i) == QtyOf({r \in cutoff[d] : r.item = i /\ r.place = site[d]})

(* Stock found that the snapshot did not list. *)
AddLine(d, i, counted) ==
    /\ status[d] = "counting"
    /\ i \notin DOMAIN sheet[d]
    /\ HeldAtCutoff(d, i) = 0
    /\ sheet' = [sheet EXCEPT ![d] =
                    [j \in DOMAIN sheet[d] \cup {i} |->
                        IF j = i THEN [expected |-> 0, counted |-> counted] ELSE sheet[d][j]]]
    /\ UNCHANGED <<status, header, received, cutoff, signedOff, books, settings>>

(* A line of the snapshot stays. *)
RemoveLine(d, i) ==
    /\ status[d] = "counting"
    /\ i \in DOMAIN sheet[d]
    /\ sheet[d][i].expected = 0
    /\ sheet' = [sheet EXCEPT ![d] = [j \in DOMAIN sheet[d] \ {i} |-> sheet[d][j]]]
    /\ UNCHANGED <<status, header, received, cutoff, signedOff, books, settings>>

(* The variances post on the count date, valued today; a count without any *)
(* still needs its period open.                                            *)
PostStocktake(d) ==
    /\ status[d] = "approved"
    /\ \A i \in Item : CanValue(d, i)
    /\ PostBatch(d, "count", [i \in Item |-> Variance(d, i)],
                 [i \in Item |-> FoundValue(d, i)])
    /\ status' = [status EXCEPT ![d] = "posted"]
    /\ UNCHANGED <<header, received, count, signedOff, settings>>
-----------------------------------------------------------------------------
(* Settings *)

(* start_gl_posting: the stock already held is an opening balance. *)
StartGl ==
    /\ ~postToGl
    /\ StockValue # 0 => OpenPeriod(Today)
    /\ postToGl' = TRUE
    /\ journals' = journals \cup (IF StockValue = 0 THEN {} ELSE
                        {[doc |-> None, event |-> "opening", amount |-> StockValue]})
    /\ UNCHANGED <<status, header, received, count, signedOff, balance, pool, movements,
                   policy, lockDate>>

UpdateInventorySettings(approvals) ==
    /\ policy' = approvals
    /\ UNCHANGED <<status, header, received, count, signedOff, books, postToGl, lockDate>>

UpdateLockDate(day) ==
    /\ day <= Today
    /\ lockDate' = day
    /\ UNCHANGED <<status, header, received, count, signedOff, books, postToGl, policy>>

Next ==
    \/ \E d \in Doc, w \in Warehouse, day \in Days :
          \E to \in Destinations(d, w), body \in Bodies(d) : WriteDraft(d, w, to, day, body)
    \/ \E d \in Doc : \/ Delete(d) \/ Submit(d) \/ Cancel(d)
                      \/ \E approve \in BOOLEAN : Decide(d, approve)
    \/ \E d \in Adjustment : PostAdjustment(d)
    \/ \E d \in Issue : PostIssue(d)
    \/ \E d \in Adjustment \cup Issue : Reverse(d)
    \/ \E d \in Transfer, day \in Days :
          \/ Dispatch(d, day)
          \/ \E arrived \in [Item -> {0} \cup Quantities] : Receive(d, day, arrived)
    \/ \E d \in Stocktake : StartCount(d) \/ PostStocktake(d)
    \/ \E d \in Stocktake, i \in Item :
          \/ \E counted \in {0, None} \cup Quantities : RecordCount(d, i, counted)
          \/ \E counted \in {0} \cup Quantities : AddLine(d, i, counted)
          \/ RemoveLine(d, i)
    \/ StartGl
    \/ \E approvals \in Policies : UpdateInventorySettings(approvals)
    \/ \E day \in LockDates : UpdateLockDate(day)

Spec == Init /\ [][Next]_vars
-----------------------------------------------------------------------------
(* Properties *)

RowsAt(place, i) == {r \in movements : r.place = place /\ r.item = i}

(* "Stock and its history can never disagree": every balance and every     *)
(* cost pool is what the movements add up to, and a pool without stock     *)
(* holds no value (post_movements against any order of documents and       *)
(* reversals).                                                             *)
StockMatchesMovements ==
    \A i \in Item :
        /\ \A place \in Place : balance[place][i] = QtyOf(RowsAt(place, i))
        /\ pool[i].qty = SumFunctionOnSet([place \in Place |-> balance[place][i]], Place)
        /\ pool[i].value = ValueOf({r \in movements : r.item = i})
        /\ pool[i].qty = 0 => pool[i].value = 0

GlInventory == AmountOf(journals)

(* "Stock and the GL never disagree": once inventory accounting is on, the *)
(* inventory account holds the value of the stock, through reversals at    *)
(* another cost and of documents older than the books (reconciliation()).  *)
GlMatchesStock == IF postToGl THEN GlInventory = StockValue ELSE journals = {}

(* What a document in its present status accounts for at a place. *)
Standing(d, place, i) ==
    (IF status[d] = "posted" /\ place = site[d]
     THEN IF d \in Issue THEN -Qty(d, i)
          ELSE IF d \in Stocktake THEN Variance(d, i) ELSE Qty(d, i)
     ELSE 0)
    + (IF status[d] \in {"in_transit", "received"} /\ place = site[d] THEN -Qty(d, i) ELSE 0)
    + (IF status[d] = "in_transit" /\ place = Transit THEN Qty(d, i) ELSE 0)
    + (IF status[d] = "received" /\ place = dest[d] THEN received[d][i] ELSE 0)

(* The stock of every place is what the documents say moved there: nothing *)
(* is posted twice or by a document that did not go ahead, a reversal      *)
(* leaves no trace, and what is in transit is what was dispatched and not  *)
(* yet received.                                                           *)
StockFollowsDocuments ==
    \A place \in Place, i \in Item :
        balance[place][i] = SumFunctionOnSet([d \in Doc |-> Standing(d, place, i)], Doc)

Removes(d) == \E i \in Item : \/ d \in Adjustment /\ Qty(d, i) < 0
                              \/ d \in Stocktake /\ Variance(d, i) < 0

(* No adjustment or count takes stock off the books without somebody       *)
(* having approved it, whatever the settings were meanwhile.               *)
RemovalsApproved ==
    \A d \in Adjustment \cup Stocktake :
        status[d] \in {"posted", "reversed"} /\ Removes(d) => d \in signedOff

(* What moved at the place after the count's cutoff. *)
MovedSince(d, i) == QtyOf(RowsAt(site[d], i) \ cutoff[d])

(* "Nothing posted after the cutoff is overwritten": posting a count       *)
(* leaves what was counted plus what has moved since, item by item, and    *)
(* an item nobody counted as it was.                                       *)
CountsKeepLaterMovements ==
    [][\A d \in Stocktake : status[d] = "approved" /\ status'[d] = "posted" =>
          \A i \in Item :
              balance'[site[d]][i] =
                  IF i \in DOMAIN sheet[d] THEN sheet[d][i].counted + MovedSince(d, i)
                  ELSE balance[site[d]][i]]_vars
=============================================================================
