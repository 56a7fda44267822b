----------------------------- MODULE Recurring -----------------------------
(***************************************************************************)
(* Recurring bills and invoices (the two are the same code twice): the     *)
(* templates, the scheduler's daily job that turns those due into          *)
(* documents, one organisation after the other, and the endpoint that does *)
(* the same on request. Each organisation's batch is a transaction of its  *)
(* own at READ COMMITTED, with no lock on the templates; the process may   *)
(* die at any moment, and its schedule with it.                            *)
(*                                                                         *)
(* A date is the number of its day in a calendar whose months have the     *)
(* lengths given, so that a month can be too short for a day.              *)
(***************************************************************************)
EXTENDS Integers, Sequences, FiniteSets, SequencesExt, FiniteSetsExt

CONSTANTS
    Org, Template,
    OrgOf,          \* of each template
    Prefix,         \* of each template: its numbers are this and a date
    Period,         \* of each template, in months
    Starts,         \* first dates a template may be registered with
    MonthLengths,   \* of the calendar
    Horizon,        \* bounds the days that pass
    MaxByHand,      \* bounds the documents entered by hand
    MaxCrashes,     \* bounds the restarts
    None

LastDay == SumFunction(MonthLengths)

ASSUME TemplateAssumption ==
    /\ OrgOf \in [Template -> Org] /\ Period \in [Template -> Nat \ {0}]
    /\ DOMAIN Prefix = Template
ASSUME CalendarAssumption ==
    /\ MonthLengths \in Seq(Nat \ {0}) /\ Horizon \in 1..LastDay
    /\ Starts \subseteq 1..Horizon
    /\ MaxByHand \in Nat /\ MaxCrashes \in Nat /\ None \notin Org

-----------------------------------------------------------------------------
(* The calendar.                                                           *)

DaysBefore == [m \in 1..(Len(MonthLengths) + 1) |-> SumFunctionOnSet(MonthLengths, 1..(m - 1))]
MonthOf == [d \in 1..LastDay |->
    CHOOSE m \in DOMAIN MonthLengths : DaysBefore[m] < d /\ d <= DaysBefore[m + 1]]
DayOf(d) == d - DaysBefore[MonthOf[d]]

\* The calendar goes on for as long as a date can be reached.
ASSUME CalendarGoesOn == \A t \in Template : MonthOf[Horizon] + Period[t] \in DOMAIN MonthLengths

\* Mutant: a day the month does not have rolls over into the next one.
AddMonthsRollingOver(d, n) == DaysBefore[MonthOf[d] + n] + DayOf(d)

\* The day is clamped to the last one of the month.
AddMonths(d, n) ==
    LET m == MonthOf[d] + n IN
    DaysBefore[m] + IF DayOf(d) <= MonthLengths[m] THEN DayOf(d) ELSE MonthLengths[m]

VARIABLES
    today,
    template,   \* RecurringBill, RecurringInvoice
    document,   \* numbers in use: bills and invoices of each organisation
    byHand,     \* how many of them were not generated
    made,       \* history: the dates generated from each template, in order
    job,        \* the daily job: organisations still to come, and its date
    session,    \* what each open transaction has read
    crashes

vars == <<today, template, document, byHand, made, job, session, crashes>>

Session == {"job", "request"}   \* the scheduler's thread, and a request
NoSession == [org |-> None, due |-> {}]

TemplateRow == [registered : BOOLEAN, active : BOOLEAN, chart : BOOLEAN, next : 1..LastDay]
Number == [org : Org, prefix : {Prefix[t] : t \in Template}, date : 1..LastDay]
Occurrence == [template : Template, date : 1..LastDay]

TypeOK ==
    /\ today \in 1..Horizon
    /\ template \in [Template -> TemplateRow]
    /\ \A t \in Template : template[t].next <= AddMonths(Horizon, Period[t])
    /\ document \subseteq Number
    /\ byHand \in 0..MaxByHand
    /\ made \in [Template -> Seq(1..LastDay)]
    /\ job.orgs \subseteq Org /\ job.date \in 1..Horizon
    /\ \A s \in Session : session[s].org \in Org \cup {None} /\ session[s].due \subseteq Occurrence
    /\ crashes \in 0..MaxCrashes

Init ==
    /\ today = 1
    /\ template = [t \in Template |->
          [registered |-> FALSE, active |-> FALSE, chart |-> FALSE, next |-> 1]]
    /\ document = {} /\ byHand = 0
    /\ made = [t \in Template |-> <<>>]
    /\ job = [orgs |-> {}, date |-> 1]
    /\ session = [s \in Session |-> NoSession]
    /\ crashes = 0

-----------------------------------------------------------------------------
(* Templates and documents entered by people.                              *)

NumberOf(o) == [org |-> OrgOf[o.template], prefix |-> Prefix[o.template], date |-> o.date]

\* The account a template names is not looked up until it generates.
Register(t, start, chart) ==
    /\ ~template[t].registered
    /\ template' = [template EXCEPT ![t] =
          [registered |-> TRUE, active |-> TRUE, chart |-> chart, next |-> start]]
    /\ UNCHANGED <<today, document, byHand, made, job, session, crashes>>

SetActive(t, active) ==
    /\ template[t].registered /\ template[t].active # active
    /\ template' = [template EXCEPT ![t].active = active]
    /\ UNCHANGED <<today, document, byHand, made, job, session, crashes>>

\* The account somebody forgot is added to the organisation's chart.
RegisterAccount(t) ==
    /\ template[t].registered /\ ~template[t].chart
    /\ template' = [template EXCEPT ![t].chart = TRUE]
    /\ UNCHANGED <<today, document, byHand, made, job, session, crashes>>

\* A bill or an invoice may be given any number that is not in use.
EnterByHand(number) ==
    /\ byHand < MaxByHand /\ number \notin document
    /\ document' = document \cup {number}
    /\ byHand' = byHand + 1
    /\ UNCHANGED <<today, template, made, job, session, crashes>>

-----------------------------------------------------------------------------
(* Generating what is due.                                                 *)

\* Mutant: the date is not looked at.
DueWhenever(org, asOf) == {t \in Template : OrgOf[t] = org /\ template[t].active}

Due(org, asOf) == {t \in Template : OrgOf[t] = org /\ template[t].active /\ template[t].next <= asOf}

Read(s, org, asOf) ==
    session' = [session EXCEPT ![s] = [org |-> org,
        due |-> {[template |-> t, date |-> template[t].next] : t \in Due(org, asOf)}]]

\* Mutant: two documents may have one number.
NeverTaken(due) == FALSE

\* The unique index on (organisation, number), across the batch and the table.
Taken(due) ==
    \/ \E o \in due : NumberOf(o) \in document
    \/ \E o, p \in due : o # p /\ NumberOf(o) = NumberOf(p)

\* The batch is one transaction: one number taken or one account unknown, and
\* none of it happened.
Fails(due) == Taken(due) \/ \E o \in due : ~template[o.template].chart

Write(due) ==
    IF Fails(due) THEN UNCHANGED <<template, document, made>>
    ELSE LET generated == {o.template : o \in due}
             date(t) == (CHOOSE o \in due : o.template = t).date
         IN  /\ document' = document \cup {NumberOf(o) : o \in due}
             /\ made' = [t \in Template |->
                   IF t \in generated THEN Append(made[t], date(t)) ELSE made[t]]
             /\ template' = [t \in Template |->
                   IF t \in generated
                   THEN [template[t] EXCEPT !.next = AddMonths(date(t), Period[t])]
                   ELSE template[t]]

\* At five past two, unless the job of the day before is still running.
StartJob ==
    /\ job.orgs = {} /\ session["job"] = NoSession
    /\ job' = [orgs |-> Org, date |-> today]
    /\ UNCHANGED <<today, template, document, byHand, made, session, crashes>>

JobReads(org) ==
    /\ org \in job.orgs /\ session["job"] = NoSession
    /\ Read("job", org, job.date)
    /\ UNCHANGED <<today, template, document, byHand, made, job, crashes>>

\* Mutant: the exception of one organisation ends the job.
RestAfterFailure(due) == IF Fails(due) THEN {} ELSE job.orgs \ {session["job"].org}

\* A failure is logged and the next organisation has its turn.
Rest(due) == job.orgs \ {session["job"].org}

JobWrites ==
    LET due == session["job"].due IN
    /\ session["job"] # NoSession
    /\ Write(due)
    /\ job' = [job EXCEPT !.orgs = Rest(due)]
    /\ session' = [session EXCEPT !["job"] = NoSession]
    /\ UNCHANGED <<today, byHand, crashes>>

\* On request the date may be any.
RequestReads(org, asOf) ==
    /\ session["request"] = NoSession
    /\ Read("request", org, asOf)
    /\ UNCHANGED <<today, template, document, byHand, made, job, crashes>>

RequestWrites ==
    /\ session["request"] # NoSession
    /\ Write(session["request"].due)
    /\ session' = [session EXCEPT !["request"] = NoSession]
    /\ UNCHANGED <<today, byHand, job, crashes>>

-----------------------------------------------------------------------------

NewDay ==
    /\ today < Horizon
    /\ today' = today + 1
    /\ UNCHANGED <<template, document, byHand, made, job, session, crashes>>

\* The schedule is in memory: what the job had left waits for another day.
Crash ==
    /\ crashes < MaxCrashes
    /\ crashes' = crashes + 1
    /\ job' = [job EXCEPT !.orgs = {}]
    /\ session' = [s \in Session |-> NoSession]
    /\ UNCHANGED <<today, template, document, byHand, made>>

Next ==
    \/ \E t \in Template :
        \/ \E start \in Starts, chart \in BOOLEAN : Register(t, start, chart)
        \/ \E active \in BOOLEAN : SetActive(t, active)
        \/ RegisterAccount(t)
        \/ \E date \in Starts : EnterByHand(NumberOf([template |-> t, date |-> date]))
    \/ StartJob \/ JobWrites \/ RequestWrites
    \/ \E org \in Org : JobReads(org) \/ \E asOf \in 1..Horizon : RequestReads(org, asOf)
    \/ NewDay \/ Crash

\* The clock and the scheduler go on; nobody has to ask for anything.
Fairness ==
    /\ WF_vars(StartJob)
    /\ WF_vars(\E org \in Org : JobReads(org))
    /\ WF_vars(JobWrites)
    /\ WF_vars(NewDay)

Spec == Init /\ [][Next]_vars /\ Fairness

-----------------------------------------------------------------------------
(* Properties.                                                             *)

\* However the job, the endpoint and restarts overlap, a template has made its
\* occurrences one after the other, each once, and stands at the one after the
\* last: no row is locked, and it is the document's number that makes the later
\* of two batches fail as a whole (recurring_bills.py:51-82, models/bill.py:44).
NextFollowsLast ==
    \A t \in Template : made[t] # <<>> =>
        /\ template[t].next = AddMonths(Last(made[t]), Period[t])
        /\ \A i \in 1..(Len(made[t]) - 1) : made[t][i + 1] = AddMonths(made[t][i], Period[t])

\* A monthly template has one document in every month, a quarterly one in every
\* third, those made and the one to come, wherever in the month it started
\* (recurrence.py:19-30).
OneDocumentPerPeriod ==
    \A t \in Template :
        LET dates == Append(made[t], template[t].next) IN
        \A i \in DOMAIN dates : MonthOf[dates[i]] = MonthOf[dates[1]] + (i - 1) * Period[t]

\* Nothing of the organisation's would make a batch fail.
Sound(org) == ~Fails({[template |-> t, date |-> template[t].next] : t \in Due(org, Horizon)})

\* Whatever happens to the others, an organisation whose own templates are sound
\* is brought up to date by the daily job alone, a period a day after an
\* interruption (scheduler.py:46-54, 67-84).
CaughtUp ==
    \A org \in Org : <>[]Sound(org) => []<>(Due(org, today) = {})
=============================================================================
