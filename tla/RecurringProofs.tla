-------------------------- MODULE RecurringProofs --------------------------
(***************************************************************************)
(* What holds of the templates and their documents for any organisations,  *)
(* templates, periods and calendar, whatever the job, the endpoint and     *)
(* restarts do at once: first the order of what was made, then where in    *)
(* the calendar it falls. The days before a month are a sum over the       *)
(* months before it.                                                       *)
(***************************************************************************)
EXTENDS Recurring, SumTheorems, TLAPS

(* The dates there are, whichever they are.                                *)
Typed(S) ==
    /\ made \in [Template -> Seq(S)]
    /\ template \in [Template -> [registered : BOOLEAN, active : BOOLEAN, chart : BOOLEAN, next : S]]

(* A template is registered before anything is made of it.                 *)
RegisteredFirst ==
    \A t \in Template : ~template[t].registered => made[t] = <<>> /\ ~template[t].active

(* What a transaction has read as due is due still, or its number is taken: *)
(* the unique index is what tells a stale batch from a fresh one.           *)
DueOrTaken ==
    \A s \in Session : \A o \in session[s].due :
        /\ o.template \in Template /\ template[o.template].registered
        /\ o.date = template[o.template].next \/ NumberOf(o) \in document

OrderInv ==
    /\ \E S : Typed(S)
    /\ DOMAIN session = Session
    /\ RegisteredFirst /\ DueOrTaken /\ NextFollowsLast

-----------------------------------------------------------------------------
(* Sequences of dates.                                                     *)

LEMMA MoreDates == ASSUME NEW S, NEW T, S \subseteq T, NEW q \in Seq(S) PROVE q \in Seq(T)
OBVIOUS

LEMMA Appended ==
    ASSUME NEW S, NEW q \in Seq(S), NEW d \in S
    PROVE  /\ Append(q, d) \in Seq(S) /\ Append(q, d) # <<>>
           /\ Len(q) \in Nat /\ Len(Append(q, d)) = Len(q) + 1
           /\ Append(q, d)[Len(q) + 1] = d
           /\ \A i \in 1..Len(q) : Append(q, d)[i] = q[i]
           /\ q # <<>> => Len(q) >= 1
<1>1. q # <<>> => Len(q) >= 1
  <2>1. Len(q) \in Nat /\ (Len(q) = 0 => q = <<>>)  OBVIOUS
  <2> QED  BY <2>1
<1>2. /\ Append(q, d) \in Seq(S) /\ Len(q) \in Nat /\ Len(Append(q, d)) = Len(q) + 1
      /\ Append(q, d)[Len(q) + 1] = d
      /\ \A i \in 1..Len(q) : Append(q, d)[i] = q[i]
  OBVIOUS
<1>3. Append(q, d) # <<>>
  <2>1. Len(Append(q, d)) # 0  BY <1>2
  <2>2. Len(<<>>) = 0  OBVIOUS
  <2> QED  BY <2>1, <2>2
<1> QED  BY <1>1, <1>2, <1>3

(* An occurrence added to a template that stands at it.                      *)
LEMMA OneMore ==
    ASSUME NEW S, NEW q \in Seq(S), NEW d \in S, NEW n,
           q # <<>> => /\ d = AddMonths(Last(q), n)
                       /\ \A i \in 1..(Len(q) - 1) : q[i + 1] = AddMonths(q[i], n)
    PROVE  /\ Last(Append(q, d)) = d
           /\ \A i \in 1..(Len(Append(q, d)) - 1) :
                 Append(q, d)[i + 1] = AddMonths(Append(q, d)[i], n)
<1> DEFINE p == Append(q, d)
<1>1. /\ Len(q) \in Nat /\ Len(p) = Len(q) + 1 /\ p[Len(q) + 1] = d
      /\ \A i \in 1..Len(q) : p[i] = q[i]
      /\ q # <<>> => Len(q) >= 1
  BY Appended
<1>2. Last(p) = d  BY <1>1 DEF Last
<1>3. ASSUME NEW i \in 1..(Len(p) - 1) PROVE p[i + 1] = AddMonths(p[i], n)
  <2>1. i \in 1..Len(q) /\ q # <<>>  BY <1>1, <1>3
  <2>2. CASE i = Len(q)
    <3>1. p[i] = Last(q)  BY <1>1, <2>1, <2>2 DEF Last
    <3> QED  BY <1>1, <2>1, <2>2, <3>1
  <2>3. CASE i # Len(q)
    <3>1. i \in 1..(Len(q) - 1) /\ i + 1 \in 1..Len(q)  BY <1>1, <2>1, <2>3
    <3> QED  BY <1>1, <2>1, <3>1
  <2> QED  BY <2>2, <2>3
<1> QED  BY <1>2, <1>3

-----------------------------------------------------------------------------
(* A batch.                                                                *)

(* A batch that does not fail is made of what is due now.                    *)
LEMMA FreshBatch ==
    ASSUME DueOrTaken, NEW s \in Session, ~Fails(session[s].due)
    PROVE  \A o \in session[s].due :
               o.template \in Template /\ o.date = template[o.template].next
BY DEF DueOrTaken, Fails, Taken

LEMMA WriteWrites ==
    ASSUME DueOrTaken, NEW s \in Session, Write(session[s].due), ~Fails(session[s].due)
    PROVE  LET generated == {o.template : o \in session[s].due} IN
           /\ document' = document \cup {NumberOf(o) : o \in session[s].due}
           /\ made' = [t \in Template |->
                 IF t \in generated THEN Append(made[t], template[t].next) ELSE made[t]]
           /\ template' = [t \in Template |->
                 IF t \in generated
                 THEN [template[t] EXCEPT !.next = AddMonths(template[t].next, Period[t])]
                 ELSE template[t]]
<1> DEFINE due == session[s].due
           date(t) == (CHOOSE o \in due : o.template = t).date
           generated == {o.template : o \in due}
<1>1. \A t \in generated : date(t) = template[t].next
  <2> SUFFICES ASSUME NEW t \in generated PROVE date(t) = template[t].next  OBVIOUS
  <2>1. \E o \in due : o.template = t  OBVIOUS
  <2>2. (CHOOSE o \in due : o.template = t) \in due /\ (CHOOSE o \in due : o.template = t).template = t
    BY <2>1
  <2> QED  BY <2>2, FreshBatch
<1>2. /\ document' = document \cup {NumberOf(o) : o \in due}
      /\ made' = [t \in Template |->
            IF t \in generated THEN Append(made[t], date(t)) ELSE made[t]]
      /\ template' = [t \in Template |->
            IF t \in generated
            THEN [template[t] EXCEPT !.next = AddMonths(date(t), Period[t])]
            ELSE template[t]]
  BY DEF Write
<1> HIDE DEF date
<1>3. \A t \in Template :
         /\ (IF t \in generated THEN Append(made[t], date(t)) ELSE made[t])
               = (IF t \in generated THEN Append(made[t], template[t].next) ELSE made[t])
         /\ (IF t \in generated THEN [template[t] EXCEPT !.next = AddMonths(date(t), Period[t])]
             ELSE template[t])
               = (IF t \in generated
                  THEN [template[t] EXCEPT !.next = AddMonths(template[t].next, Period[t])]
                  ELSE template[t])
  BY <1>1
<1> QED  BY <1>2, <1>3

(* The rows of a template after a batch.                                     *)
LEMMA WriteKeepsTemplates ==
    ASSUME OrderInv, NEW s \in Session, Write(session[s].due)
    PROVE  /\ \E S : Typed(S)'
           /\ RegisteredFirst' /\ NextFollowsLast'
           /\ \A t \in Template : template'[t].registered = template[t].registered
           /\ \A t \in Template : template'[t].next = template[t].next
                                  \/ \E o \in session[s].due :
                                        /\ o.template = t /\ o.date = template[t].next
                                        /\ NumberOf(o) \in document'
           /\ document \subseteq document'
<1>1. CASE Fails(session[s].due)
  <2>1. UNCHANGED <<template, document, made>>  BY <1>1 DEF Write
  <2> QED  BY <2>1 DEF OrderInv, Typed, RegisteredFirst, NextFollowsLast
<1>2. CASE ~Fails(session[s].due)
  <2> DEFINE generated == {o.template : o \in session[s].due}
  <2>1. PICK S : Typed(S)  BY DEF OrderInv
  <2>2. /\ document' = document \cup {NumberOf(o) : o \in session[s].due}
        /\ made' = [t \in Template |->
              IF t \in generated THEN Append(made[t], template[t].next) ELSE made[t]]
        /\ template' = [t \in Template |->
              IF t \in generated
              THEN [template[t] EXCEPT !.next = AddMonths(template[t].next, Period[t])]
              ELSE template[t]]
    BY <1>2, WriteWrites DEF OrderInv
  <2>3. \A o \in session[s].due : /\ o.template \in Template /\ o.date = template[o.template].next
                                  /\ template[o.template].registered
    BY <1>2, FreshBatch DEF OrderInv, DueOrTaken
  <2>4. \A t \in Template :
           /\ made[t] \in Seq(S) /\ template[t].next \in S
           /\ template[t] \in [registered : BOOLEAN, active : BOOLEAN, chart : BOOLEAN, next : S]
    BY <2>1 DEF Typed
  <2>5. ASSUME NEW t \in Template, t \in generated
        PROVE  /\ made'[t] = Append(made[t], template[t].next)
               /\ template'[t].next = AddMonths(template[t].next, Period[t])
               /\ template'[t].registered = template[t].registered
               /\ template'[t].active = template[t].active
               /\ template'[t].chart = template[t].chart
               /\ template[t].registered
               /\ \E o \in session[s].due : /\ o.template = t /\ o.date = template[t].next
                                            /\ NumberOf(o) \in document'
    <3>1. made'[t] = Append(made[t], template[t].next)
      BY <2>2, <2>5
    <3>2. template'[t] = [template[t] EXCEPT !.next = AddMonths(template[t].next, Period[t])]
      BY <2>2, <2>5
    <3>3. /\ template'[t].next = AddMonths(template[t].next, Period[t])
          /\ template'[t].registered = template[t].registered
          /\ template'[t].active = template[t].active /\ template'[t].chart = template[t].chart
      BY <2>4, <3>2
    <3>4. PICK o \in session[s].due : o.template = t
      BY <2>5
    <3>5. NumberOf(o) \in document'
      BY <2>2, <3>4
    <3> QED  BY <2>3, <3>1, <3>3, <3>4, <3>5
  <2>6. ASSUME NEW t \in Template, t \notin generated
        PROVE  made'[t] = made[t] /\ template'[t] = template[t]
    BY <2>2, <2>6
  <2> HIDE DEF generated
  <2>7. \E T : Typed(T)'
    <3> DEFINE T == S \cup {AddMonths(template[t].next, Period[t]) : t \in Template}
    <3>1. ASSUME NEW t \in Template
          PROVE  /\ made'[t] \in Seq(T)
                 /\ template'[t] \in [registered : BOOLEAN, active : BOOLEAN, chart : BOOLEAN, next : T]
      <4>1. S \subseteq T /\ AddMonths(template[t].next, Period[t]) \in T
        OBVIOUS
      <4> HIDE DEF T
      <4>2. CASE t \in generated
        <5>0. Append(made[t], template[t].next) \in Seq(S)
          BY <2>4, Appended
        <5>1. made'[t] \in Seq(S)
          BY <2>5, <4>2, <5>0
        <5>2. template'[t] = [template[t] EXCEPT !.next = AddMonths(template[t].next, Period[t])]
          BY <2>2, <4>2 DEF generated
        <5>3. template'[t] \in [registered : BOOLEAN, active : BOOLEAN, chart : BOOLEAN, next : T]
          BY <2>4, <4>1, <5>2
        <5> QED  BY <4>1, <5>1, <5>3, MoreDates
      <4>3. CASE t \notin generated
        <5>1. template'[t] \in [registered : BOOLEAN, active : BOOLEAN, chart : BOOLEAN, next : T]
          BY <2>4, <2>6, <4>1, <4>3
        <5> QED  BY <2>4, <2>6, <4>1, <4>3, <5>1, MoreDates
      <4> QED  BY <4>2, <4>3
    <3>2. /\ made' = [t \in Template |-> made'[t]]
          /\ template' = [t \in Template |-> template'[t]]
      BY <2>2
    <3> HIDE DEF T
    <3>3. made' \in [Template -> Seq(T)]
      BY <3>1, <3>2
    <3>4. template' \in [Template -> [registered : BOOLEAN, active : BOOLEAN, chart : BOOLEAN, next : T]]
      BY <3>1, <3>2
    <3> QED  BY <3>3, <3>4 DEF Typed
  <2>8. RegisteredFirst'
    BY <2>5, <2>6 DEF OrderInv, RegisteredFirst
  <2>9. NextFollowsLast'
    <3> SUFFICES ASSUME NEW t \in Template, made'[t] # <<>>
                 PROVE  /\ template'[t].next = AddMonths(Last(made'[t]), Period[t])
                        /\ \A i \in 1..(Len(made'[t]) - 1) :
                              made'[t][i + 1] = AddMonths(made'[t][i], Period[t])
      BY DEF NextFollowsLast
    <3>1. CASE t \in generated
      <4>1. /\ Last(Append(made[t], template[t].next)) = template[t].next
            /\ \A i \in 1..(Len(Append(made[t], template[t].next)) - 1) :
                  Append(made[t], template[t].next)[i + 1]
                      = AddMonths(Append(made[t], template[t].next)[i], Period[t])
        <5>1. /\ made[t] \in Seq(S) /\ template[t].next \in S
              /\ made[t] # <<>> =>
                    /\ template[t].next = AddMonths(Last(made[t]), Period[t])
                    /\ \A i \in 1..(Len(made[t]) - 1) :
                          made[t][i + 1] = AddMonths(made[t][i], Period[t])
          BY <2>4 DEF OrderInv, NextFollowsLast
        <5>2. PICK q, d, n : q = made[t] /\ d = template[t].next /\ n = Period[t]
          OBVIOUS
        <5>3. /\ q \in Seq(S) /\ d \in S
              /\ q # <<>> => /\ d = AddMonths(Last(q), n)
                             /\ \A i \in 1..(Len(q) - 1) : q[i + 1] = AddMonths(q[i], n)
          BY <5>1, <5>2
        <5>4. /\ Last(Append(q, d)) = d
              /\ \A i \in 1..(Len(Append(q, d)) - 1) :
                    Append(q, d)[i + 1] = AddMonths(Append(q, d)[i], n)
          BY <5>3, OneMore
        <5> QED  BY <5>2, <5>4
      <4>2. made'[t] = Append(made[t], template[t].next)
        BY <2>5, <3>1
      <4>3. template'[t].next = AddMonths(template[t].next, Period[t])
        BY <2>5, <3>1
      <4> QED  BY <4>1, <4>2, <4>3
    <3>2. CASE t \notin generated
      BY <2>6, <3>2 DEF OrderInv, NextFollowsLast
    <3> QED  BY <3>1, <3>2
  <2>10. \A t \in Template : template'[t].registered = template[t].registered
    BY <2>5, <2>6
  <2>11. \A t \in Template : template'[t].next = template[t].next
                             \/ \E o \in session[s].due :
                                   /\ o.template = t /\ o.date = template[t].next
                                   /\ NumberOf(o) \in document'
    BY <2>5, <2>6
  <2> QED  BY <2>2, <2>7, <2>8, <2>9, <2>10, <2>11
<1> QED  BY <1>1, <1>2

-----------------------------------------------------------------------------
(* What the transactions have read.                                        *)

(* A batch leaves what others have read due, or its number taken.            *)
LEMMA BatchKeepsReads ==
    ASSUME OrderInv, NEW s \in Session, Write(session[s].due),
           DOMAIN session' = Session,
           \A r \in Session : session'[r] = session[r] \/ session'[r] = NoSession
    PROVE  OrderInv'
<1>1. /\ \E S : Typed(S)'
      /\ RegisteredFirst' /\ NextFollowsLast'
      /\ \A t \in Template : template'[t].registered = template[t].registered
      /\ \A t \in Template : template'[t].next = template[t].next
                             \/ \E o \in session[s].due :
                                   /\ o.template = t /\ o.date = template[t].next
                                   /\ NumberOf(o) \in document'
      /\ document \subseteq document'
  BY WriteKeepsTemplates
<1>2. ASSUME NEW r \in Session, NEW o \in session'[r].due
      PROVE  /\ o.template \in Template /\ template'[o.template].registered
             /\ o.date = template'[o.template].next \/ NumberOf(o) \in document'
  <2>1. o \in session[r].due  BY <1>2 DEF NoSession
  <2>2. /\ o.template \in Template /\ template[o.template].registered
        /\ o.date = template[o.template].next \/ NumberOf(o) \in document
    BY <2>1 DEF OrderInv, DueOrTaken
  <2>3. ASSUME NEW p \in session[s].due, p.template = o.template, p.date = o.date
        PROVE  NumberOf(p) = NumberOf(o)
    BY <2>3 DEF NumberOf
  <2> QED  BY <1>1, <2>2, <2>3
<1>3. DueOrTaken'
  BY <1>2 DEF DueOrTaken
<1> QED  BY <1>1, <1>3 DEF OrderInv

(* A transaction reads what is due now.                                      *)
LEMMA ReadKeeps ==
    ASSUME OrderInv, NEW s \in Session, NEW org, NEW asOf, Read(s, org, asOf),
           UNCHANGED <<template, document, made>>
    PROVE  OrderInv'
<1>1. /\ DOMAIN session' = Session
      /\ \A r \in Session \ {s} : session'[r] = session[r]
      /\ session'[s].due = {[template |-> t, date |-> template[t].next] : t \in Due(org, asOf)}
  BY DEF OrderInv, Read
<1>2. ASSUME NEW o \in session'[s].due
      PROVE  /\ o.template \in Template /\ template[o.template].registered
             /\ o.date = template[o.template].next
  <2>1. PICK t \in Due(org, asOf) : o = [template |-> t, date |-> template[t].next]
    BY <1>1
  <2>2. t \in Template /\ template[t].active  BY DEF Due
  <2>3. template[t].registered  BY <2>2 DEF OrderInv, RegisteredFirst
  <2> QED  BY <2>1, <2>2, <2>3
<1>3. DueOrTaken'
  BY <1>1, <1>2 DEF OrderInv, DueOrTaken, NumberOf
<1> QED  BY <1>1, <1>3 DEF OrderInv, Typed, RegisteredFirst, NextFollowsLast

(* Steps that make nothing.                                                  *)
LEMMA RegisterKeeps ==
    ASSUME OrderInv, NEW t \in Template, NEW start \in Starts, NEW chart \in BOOLEAN,
           Register(t, start, chart)
    PROVE  OrderInv'
<1>1. /\ ~template[t].registered /\ made[t] = <<>>
      /\ UNCHANGED <<document, made, session>>
  BY DEF OrderInv, RegisteredFirst, Register
<1>2. PICK S : Typed(S)  BY DEF OrderInv
<1>3. /\ \A q \in Template \ {t} : template'[q] = template[q]
      /\ template'[t] = [registered |-> TRUE, active |-> TRUE, chart |-> chart, next |-> start]
  BY <1>2 DEF Typed, Register
<1>4. \E T : Typed(T)'
  <2> DEFINE T == S \cup Starts
  <2>1. S \subseteq T /\ start \in T  OBVIOUS
  <2> HIDE DEF T
  <2>2. \A q \in Template : made[q] \in Seq(T)
    BY <1>2, <2>1, MoreDates DEF Typed
  <2>3. made' \in [Template -> Seq(T)]
    BY <1>1, <1>2, <2>2 DEF Typed
  <2>4. \A q \in Template :
           template'[q] \in [registered : BOOLEAN, active : BOOLEAN, chart : BOOLEAN, next : T]
    <3>1. template'[t] \in [registered : BOOLEAN, active : BOOLEAN, chart : BOOLEAN, next : T]
      BY <1>3, <2>1
    <3>2. ASSUME NEW q \in Template, q # t
          PROVE  template'[q] \in [registered : BOOLEAN, active : BOOLEAN, chart : BOOLEAN, next : T]
      BY <1>2, <1>3, <2>1, <3>2 DEF Typed
    <3> QED  BY <3>1, <3>2
  <2>5. template' \in [Template -> [registered : BOOLEAN, active : BOOLEAN, chart : BOOLEAN, next : T]]
    BY <1>2, <2>4 DEF Typed, Register
  <2> QED  BY <2>3, <2>5 DEF Typed
<1>5. RegisteredFirst' /\ NextFollowsLast'
  BY <1>1, <1>3 DEF OrderInv, RegisteredFirst, NextFollowsLast
<1>6. DueOrTaken'
  BY <1>1, <1>3 DEF OrderInv, DueOrTaken, NumberOf
<1> QED  BY <1>1, <1>4, <1>5, <1>6 DEF OrderInv

LEMMA SwitchKeeps ==
    ASSUME OrderInv, NEW t \in Template,
           (\E active \in BOOLEAN : SetActive(t, active)) \/ RegisterAccount(t)
    PROVE  OrderInv'
<1>1. PICK S : Typed(S)  BY DEF OrderInv
<1>2. UNCHANGED <<document, made, session>> /\ template[t].registered
  BY DEF SetActive, RegisterAccount
<1>3. /\ template' \in [Template -> [registered : BOOLEAN, active : BOOLEAN, chart : BOOLEAN, next : S]]
      /\ \A q \in Template : /\ template'[q].registered = template[q].registered
                             /\ template'[q].next = template[q].next
                             /\ q # t => template'[q] = template[q]
  <2>1. CASE \E active \in BOOLEAN : SetActive(t, active)
    <3>1. PICK active \in BOOLEAN : template' = [template EXCEPT ![t].active = active]
      BY <2>1 DEF SetActive
    <3> QED  BY <1>1, <3>1 DEF Typed
  <2>2. CASE RegisterAccount(t)
    <3>1. template' = [template EXCEPT ![t].chart = TRUE]
      BY <2>2 DEF RegisterAccount
    <3> QED  BY <1>1, <3>1 DEF Typed
  <2> QED  BY <2>1, <2>2
<1>4. \E T : Typed(T)'
  BY <1>1, <1>2, <1>3 DEF Typed
<1>5. RegisteredFirst' /\ NextFollowsLast' /\ DueOrTaken'
  BY <1>2, <1>3 DEF OrderInv, RegisteredFirst, NextFollowsLast, DueOrTaken, NumberOf
<1> QED  BY <1>2, <1>4, <1>5 DEF OrderInv

LEMMA NothingMade ==
    ASSUME OrderInv, UNCHANGED <<template, made>>, document \subseteq document',
           DOMAIN session' = Session,
           \A r \in Session : session'[r] = session[r] \/ session'[r] = NoSession
    PROVE  OrderInv'
<1>1. DueOrTaken'
  BY DEF OrderInv, DueOrTaken, NumberOf, NoSession
<1> QED  BY <1>1 DEF OrderInv, Typed, RegisteredFirst, NextFollowsLast

LEMMA OrderInit == Init => OrderInv
<1> SUFFICES ASSUME Init PROVE OrderInv  OBVIOUS
<1>1. Typed({1})
  <2>1. <<>> \in Seq({1})  OBVIOUS
  <2> QED  BY <2>1 DEF Init, Typed
<1>2. \E S : Typed(S)  BY <1>1
<1> QED  BY <1>2 DEF Init, OrderInv, RegisteredFirst, DueOrTaken, NextFollowsLast, NoSession

LEMMA OrderStep == ASSUME OrderInv, [Next]_vars PROVE OrderInv'
<1>1. ASSUME NEW t \in Template, NEW start \in Starts, NEW chart \in BOOLEAN,
             Register(t, start, chart)
      PROVE  OrderInv'
  BY <1>1, RegisterKeeps
<1>2. ASSUME NEW t \in Template,
             (\E active \in BOOLEAN : SetActive(t, active)) \/ RegisterAccount(t)
      PROVE  OrderInv'
  BY <1>2, SwitchKeeps
<1>3. ASSUME NEW number, EnterByHand(number) PROVE OrderInv'
  BY <1>3, NothingMade DEF EnterByHand, OrderInv
<1>4. CASE StartJob \/ NewDay \/ UNCHANGED vars
  BY <1>4, NothingMade DEF StartJob, NewDay, vars, OrderInv
<1>5. CASE Crash
  BY <1>5, NothingMade DEF Crash, OrderInv
<1>6. CASE JobWrites
  <2>1. Write(session["job"].due) /\ session' = [session EXCEPT !["job"] = NoSession]
    BY <1>6 DEF JobWrites
  <2>2. "job" \in Session  BY DEF Session
  <2> QED  BY <2>1, <2>2, BatchKeepsReads DEF OrderInv
<1>7. CASE RequestWrites
  <2>1. Write(session["request"].due) /\ session' = [session EXCEPT !["request"] = NoSession]
    BY <1>7 DEF RequestWrites
  <2>2. "request" \in Session  BY DEF Session
  <2> QED  BY <2>1, <2>2, BatchKeepsReads DEF OrderInv
<1>8. ASSUME NEW org \in Org, JobReads(org) PROVE OrderInv'
  BY <1>8, ReadKeeps DEF JobReads, Session
<1>9. ASSUME NEW org \in Org, NEW asOf \in 1..Horizon, RequestReads(org, asOf) PROVE OrderInv'
  BY <1>9, ReadKeeps DEF RequestReads, Session
<1> QED  BY <1>1, <1>2, <1>3, <1>4, <1>5, <1>6, <1>7, <1>8, <1>9 DEF Next

(* However the job, the endpoint and restarts overlap, a template has made   *)
(* its occurrences one after the other, each once, and stands at the one     *)
(* after the last (recurring_bills.py:51-82, models/bill.py:44).             *)
THEOREM OccurrencesInOrder == Spec => []NextFollowsLast
<1>1. OrderInv => NextFollowsLast  BY DEF OrderInv
<1> QED  BY <1>1, OrderInit, OrderStep, PTL DEF Spec

-----------------------------------------------------------------------------
(* The calendar.                                                           *)

Months == Len(MonthLengths)

LEMMA MonthsTyped ==
    /\ Months \in Nat /\ DOMAIN MonthLengths = 1..Months
    /\ \A m \in 1..Months : MonthLengths[m] \in Nat \ {0}
BY CalendarAssumption DEF Months

(* A month begins where the one before it ends.                            *)
LEMMA MonthsFollow ==
    /\ DaysBefore[1] = 0 /\ DaysBefore[Months + 1] = LastDay
    /\ \A m \in 1..(Months + 1) : DaysBefore[m] \in Nat
    /\ \A m \in 1..Months : DaysBefore[m + 1] = DaysBefore[m] + MonthLengths[m]
    /\ \A m \in 1..(Months + 1), n \in 1..(Months + 1) : m <= n => DaysBefore[m] <= DaysBefore[n]
<1>1. \A m \in 1..(Months + 1) : DaysBefore[m] = SumFunctionOnSet(MonthLengths, 1..(m - 1))
  BY DEF DaysBefore, Months
<1>2. \A m \in 1..(Months + 1) : /\ IsFiniteSet(1..(m - 1)) /\ 1..(m - 1) \subseteq 1..Months
                                 /\ \A k \in 1..(m - 1) : MonthLengths[k] \in Nat /\ MonthLengths[k] \in Int
  <2> SUFFICES ASSUME NEW m \in 1..(Months + 1)
               PROVE  /\ IsFiniteSet(1..(m - 1)) /\ 1..(m - 1) \subseteq 1..Months
                      /\ \A k \in 1..(m - 1) : MonthLengths[k] \in Nat /\ MonthLengths[k] \in Int
    OBVIOUS
  <2>1. 1..(m - 1) \subseteq 1..Months /\ m - 1 \in Int
    BY MonthsTyped
  <2>2. IsFiniteSet(1..(m - 1))
    BY <2>1, FS_Interval
  <2> QED  BY <2>1, <2>2, MonthsTyped
<1>3. \A m \in 1..(Months + 1) : DaysBefore[m] \in Nat
  BY <1>1, <1>2, SumNat
<1>4. DaysBefore[1] = 0
  <2>1. 1 \in 1..(Months + 1) /\ 1..(1 - 1) = {}
    BY MonthsTyped
  <2> QED  BY <1>1, <2>1, SumEmpty
<1>5. DaysBefore[Months + 1] = LastDay
  <2>1. Months + 1 \in 1..(Months + 1) /\ 1..((Months + 1) - 1) = DOMAIN MonthLengths
    BY MonthsTyped
  <2>2. DaysBefore[Months + 1] = SumFunctionOnSet(MonthLengths, DOMAIN MonthLengths)
    BY <1>1, <2>1
  <2> QED  BY <2>2 DEF LastDay, SumFunction
<1>6. ASSUME NEW m \in 1..Months PROVE DaysBefore[m + 1] = DaysBefore[m] + MonthLengths[m]
  <2>1. /\ m \in 1..(Months + 1) /\ m + 1 \in 1..(Months + 1)
        /\ 1..((m + 1) - 1) = 1..(m - 1) \cup {m} /\ m \notin 1..(m - 1)
    BY MonthsTyped
  <2>2. \A k \in 1..(m - 1) \cup {m} : MonthLengths[k] \in Int
    BY <2>1, <1>2, MonthsTyped
  <2>3. IsFiniteSet(1..(m - 1))
    BY <1>2, <2>1
  <2>4. SumFunctionOnSet(MonthLengths, 1..(m - 1) \cup {m})
            = MonthLengths[m] + SumFunctionOnSet(MonthLengths, 1..(m - 1))
    BY <2>1, <2>2, <2>3, SumAdd
  <2>5. DaysBefore[m + 1] = MonthLengths[m] + DaysBefore[m]
    BY <1>1, <2>1, <2>4
  <2>6. DaysBefore[m] \in Nat /\ MonthLengths[m] \in Nat
    BY <1>3, <2>1, MonthsTyped
  <2> QED  BY <2>5, <2>6
<1>7. ASSUME NEW m \in 1..(Months + 1), NEW n \in 1..(Months + 1), m <= n
      PROVE  DaysBefore[m] <= DaysBefore[n]
  <2> DEFINE S == 1..(n - 1)
             T == 1..(m - 1)
  <2>1. /\ T \in SUBSET S /\ IsFiniteSet(S) /\ IsFiniteSet(S \ T)
        /\ DaysBefore[m] = SumFunctionOnSet(MonthLengths, T)
        /\ DaysBefore[n] = SumFunctionOnSet(MonthLengths, S)
        /\ \A k \in S : MonthLengths[k] \in Nat /\ MonthLengths[k] \in Int
    BY <1>1, <1>2, <1>7, MonthsTyped, FS_Subset
  <2> HIDE DEF S, T
  <2>2. SumFunctionOnSet(MonthLengths, S \ T) = DaysBefore[n] - DaysBefore[m]
    BY <2>1, SumRest
  <2>3. SumFunctionOnSet(MonthLengths, S \ T) \in Nat
    <3>1. \A k \in S \ T : MonthLengths[k] \in Nat
      BY <2>1
    <3> QED  BY <2>1, <3>1, SumNat
  <2>4. DaysBefore[n] \in Nat /\ DaysBefore[m] \in Nat
    BY <1>3
  <2> QED  BY <2>2, <2>3, <2>4
<1> QED  BY <1>3, <1>4, <1>5, <1>6, <1>7

LEMMA Calendar ==
    /\ LastDay \in Nat /\ Horizon \in 1..LastDay
    /\ \A m \in 1..Months : DaysBefore[m] \in Nat /\ DaysBefore[m + 1] \in Nat /\ DaysBefore[m + 1] <= LastDay
<1>1. Months + 1 \in 1..(Months + 1) /\ \A m \in 1..Months : m \in 1..(Months + 1) /\ m + 1 \in 1..(Months + 1)
  BY MonthsTyped
<1>2. \A m \in 1..Months : m + 1 <= Months + 1
  BY MonthsTyped
<1> QED  BY <1>1, <1>2, MonthsFollow, CalendarAssumption

(* Every date is in one month.                                             *)
LEMMA OneMonth ==
    ASSUME NEW d \in 1..LastDay, NEW m \in 1..Months, NEW n \in 1..Months,
           DaysBefore[m] < d, d <= DaysBefore[n + 1]
    PROVE  m <= n
<1> SUFFICES ASSUME n < m PROVE FALSE
  BY MonthsTyped
<1>1. n + 1 <= m /\ n + 1 \in 1..(Months + 1) /\ m \in 1..(Months + 1)
  BY MonthsTyped
<1>2. DaysBefore[n + 1] <= DaysBefore[m] /\ DaysBefore[n + 1] \in Nat /\ DaysBefore[m] \in Nat
  BY <1>1, MonthsFollow
<1>3. d \in Int
  BY Calendar
<1> QED  BY <1>2, <1>3

LEMMA MonthIn ==
    ASSUME NEW d \in 1..LastDay
    PROVE  MonthOf[d] \in 1..Months /\ DaysBefore[MonthOf[d]] < d /\ d <= DaysBefore[MonthOf[d] + 1]
<1> DEFINE Ends == {m \in 1..(Months + 1) : d <= DaysBefore[m]}
<1>1. d \in Nat \ {0} /\ LastDay \in Nat
  BY Calendar
<1>2. Ends # {}
  <2>1. Months + 1 \in 1..(Months + 1)
    BY MonthsTyped
  <2> QED  BY <2>1, MonthsFollow
<1>3. PICK m \in Ends : \A n \in Ends : m <= n
  <2>1. Ends \in SUBSET Nat
    BY MonthsTyped
  <2> HIDE DEF Ends
  <2> QED  BY <1>2, <2>1, LeastNatural
<1>4. m # 1 /\ m \in 1..(Months + 1)
  BY <1>1, MonthsFollow
<1>5. m - 1 \in 1..Months /\ m - 1 \in 1..(Months + 1) /\ (m - 1) + 1 = m /\ ~(m <= m - 1)
  BY <1>4, MonthsTyped
<1>6. DaysBefore[m - 1] < d
  <2>1. m - 1 \notin Ends
    BY <1>3, <1>5
  <2>2. DaysBefore[m - 1] \in Nat
    BY <1>5, MonthsFollow
  <2> QED  BY <1>1, <1>5, <2>1, <2>2
<1>7. d <= DaysBefore[(m - 1) + 1]
  BY <1>5
<1>8. \E n \in DOMAIN MonthLengths : DaysBefore[n] < d /\ d <= DaysBefore[n + 1]
  BY <1>5, <1>6, <1>7, MonthsTyped
<1>9. MonthOf[d] = CHOOSE n \in DOMAIN MonthLengths : DaysBefore[n] < d /\ d <= DaysBefore[n + 1]
  BY DEF MonthOf
<1> QED  BY <1>8, <1>9, MonthsTyped

LEMMA MonthIs ==
    ASSUME NEW d \in 1..LastDay, NEW m \in 1..Months, DaysBefore[m] < d, d <= DaysBefore[m + 1]
    PROVE  MonthOf[d] = m
<1>1. MonthOf[d] \in 1..Months /\ DaysBefore[MonthOf[d]] < d /\ d <= DaysBefore[MonthOf[d] + 1]
  BY MonthIn
<1>2. MonthOf[d] <= m /\ m <= MonthOf[d]
  BY <1>1, OneMonth
<1> QED  BY <1>1, <1>2, MonthsTyped

LEMMA MonthsInOrder ==
    ASSUME NEW d \in 1..LastDay, NEW e \in 1..LastDay, d <= e
    PROVE  MonthOf[d] <= MonthOf[e]
<1>1. /\ MonthOf[d] \in 1..Months /\ DaysBefore[MonthOf[d]] < d
      /\ MonthOf[e] \in 1..Months /\ e <= DaysBefore[MonthOf[e] + 1]
  BY MonthIn
<1>2. d \in Int /\ e \in Int /\ DaysBefore[MonthOf[e] + 1] \in Nat
  BY <1>1, Calendar
<1> QED  BY <1>1, <1>2, OneMonth

(* The date some months later is in the month that many after, and later    *)
(* for a later date.                                                       *)
LEMMA MonthsLater ==
    ASSUME NEW d \in 1..LastDay, NEW n \in Nat, MonthOf[d] + n \in 1..Months
    PROVE  /\ AddMonths(d, n) \in 1..LastDay
           /\ MonthOf[AddMonths(d, n)] = MonthOf[d] + n
           /\ AddMonths(d, n) = DaysBefore[MonthOf[d] + n]
                 + (IF DayOf(d) <= MonthLengths[MonthOf[d] + n] THEN DayOf(d) ELSE MonthLengths[MonthOf[d] + n])
           /\ DayOf(d) \in Nat \ {0}
<1> DEFINE m == MonthOf[d] + n
           day == IF DayOf(d) <= MonthLengths[m] THEN DayOf(d) ELSE MonthLengths[m]
<1>1. MonthOf[d] \in 1..Months /\ DaysBefore[MonthOf[d]] < d /\ d \in Nat
  BY MonthIn, Calendar
<1>2. DaysBefore[MonthOf[d]] \in Nat
  BY <1>1, Calendar
<1>3. DayOf(d) \in Nat \ {0}
  BY <1>1, <1>2 DEF DayOf
<1>4. MonthLengths[m] \in Nat \ {0}
  BY MonthsTyped
<1>5. AddMonths(d, n) = DaysBefore[m] + day
  BY DEF AddMonths
<1>6. day \in 1..MonthLengths[m]
  BY <1>3, <1>4
<1>7. /\ DaysBefore[m] \in Nat /\ DaysBefore[m + 1] = DaysBefore[m] + MonthLengths[m]
      /\ DaysBefore[m + 1] <= LastDay /\ LastDay \in Nat
  BY Calendar, MonthsFollow
<1> HIDE DEF m, day
<1>8. AddMonths(d, n) \in 1..LastDay /\ DaysBefore[m] < AddMonths(d, n) /\ AddMonths(d, n) <= DaysBefore[m + 1]
  BY <1>4, <1>5, <1>6, <1>7
<1>9. MonthOf[AddMonths(d, n)] = m
  BY <1>8, MonthIs DEF m
<1> QED  BY <1>3, <1>5, <1>8, <1>9 DEF m, day

LEMMA LaterForLater ==
    ASSUME NEW d \in 1..LastDay, NEW e \in 1..LastDay, d <= e, NEW n \in Nat, MonthOf[e] + n \in 1..Months
    PROVE  AddMonths(d, n) <= AddMonths(e, n)
<1>1. MonthOf[d] \in 1..Months /\ MonthOf[e] \in 1..Months /\ MonthOf[d] <= MonthOf[e]
  BY MonthIn, MonthsInOrder
<1>2. MonthOf[d] + n \in 1..Months
  BY <1>1, MonthsTyped
<1>3. /\ AddMonths(d, n) \in 1..LastDay /\ MonthOf[AddMonths(d, n)] = MonthOf[d] + n
      /\ AddMonths(e, n) \in 1..LastDay /\ MonthOf[AddMonths(e, n)] = MonthOf[e] + n
  BY <1>2, MonthsLater
<1>4. CASE MonthOf[d] = MonthOf[e]
  <2> DEFINE m == MonthOf[e] + n
  <2>1. DayOf(d) \in Nat \ {0} /\ DayOf(e) \in Nat \ {0}
    BY <1>2, MonthsLater
  <2>2. d \in Int /\ e \in Int /\ DaysBefore[MonthOf[e]] \in Int
    BY <1>1, Calendar
  <2>3. DayOf(d) <= DayOf(e)
    BY <1>4, <2>2 DEF DayOf
  <2>4. /\ AddMonths(d, n) = DaysBefore[m] + (IF DayOf(d) <= MonthLengths[m] THEN DayOf(d) ELSE MonthLengths[m])
        /\ AddMonths(e, n) = DaysBefore[m] + (IF DayOf(e) <= MonthLengths[m] THEN DayOf(e) ELSE MonthLengths[m])
    BY <1>2, <1>4, MonthsLater
  <2>5. MonthLengths[m] \in Nat \ {0} /\ DaysBefore[m] \in Nat
    BY MonthsTyped, Calendar
  <2> HIDE DEF m
  <2> QED  BY <2>1, <2>3, <2>4, <2>5
<1>5. CASE MonthOf[d] # MonthOf[e]
  <2>1. ~(MonthOf[e] + n <= MonthOf[d] + n)
    BY <1>1, <1>5, MonthsTyped
  <2>2. ~(AddMonths(e, n) <= AddMonths(d, n))
    BY <1>3, <2>1, MonthsInOrder
  <2>3. AddMonths(d, n) \in Int /\ AddMonths(e, n) \in Int
    BY <1>3, Calendar
  <2> QED  BY <2>2, <2>3
<1> QED  BY <1>4, <1>5

-----------------------------------------------------------------------------
(* Types and dates.                                                        *)

JobRow == [orgs : SUBSET Org, date : 1..Horizon]
SessionRow == [org : Org \cup {None}, due : SUBSET [template : Template, date : 1..Horizon]]

(* No template stands further than a period after the last day.            *)
DateInv ==
    /\ today \in 1..Horizon /\ byHand \in 0..MaxByHand /\ crashes \in 0..MaxCrashes
    /\ document \subseteq Number
    /\ template \in [Template -> TemplateRow] /\ made \in [Template -> Seq(1..LastDay)]
    /\ \A t \in Template : template[t].next <= AddMonths(Horizon, Period[t])
    /\ job \in JobRow /\ session \in [Session -> SessionRow]
    /\ OneDocumentPerPeriod

LEMMA Dates ==
    /\ Horizon \in 1..LastDay /\ LastDay \in Nat
    /\ \A d \in 1..Horizon : d \in 1..LastDay
    /\ \A t \in Template : Period[t] \in Nat \ {0}
    /\ \A t \in Template : AddMonths(Horizon, Period[t]) \in 1..LastDay
<1>1. Horizon \in 1..LastDay /\ LastDay \in Nat /\ \A t \in Template : Period[t] \in Nat \ {0}
  BY Calendar, TemplateAssumption
<1>2. \A d \in 1..Horizon : d \in 1..LastDay
  BY <1>1
<1>3. \A t \in Template : MonthOf[Horizon] + Period[t] \in 1..Months
  BY CalendarGoesOn, MonthsTyped
<1>4. \A t \in Template : AddMonths(Horizon, Period[t]) \in 1..LastDay
  BY <1>1, <1>3, MonthsLater
<1> QED  BY <1>1, <1>2, <1>4

(* The occurrence after one that can be generated.                         *)
LEMMA NextDate ==
    ASSUME NEW t \in Template, NEW d \in 1..Horizon
    PROVE  /\ d \in 1..LastDay /\ AddMonths(d, Period[t]) \in 1..LastDay
           /\ AddMonths(d, Period[t]) <= AddMonths(Horizon, Period[t])
           /\ MonthOf[AddMonths(d, Period[t])] = MonthOf[d] + Period[t]
<1>1. /\ d \in 1..LastDay /\ Horizon \in 1..LastDay /\ d <= Horizon /\ Period[t] \in Nat
      /\ MonthOf[Horizon] + Period[t] \in 1..Months
  BY Dates, CalendarGoesOn, MonthsTyped
<1>2. MonthOf[d] \in 1..Months /\ MonthOf[Horizon] \in 1..Months /\ MonthOf[d] <= MonthOf[Horizon]
  BY <1>1, MonthIn, MonthsInOrder
<1>3. MonthOf[d] + Period[t] \in 1..Months
  <2> DEFINE a == MonthOf[d]
             b == MonthOf[Horizon]
             p == Period[t]
  <2>1. /\ a \in 1..Months /\ b \in 1..Months /\ a <= b /\ p \in Nat /\ b + p \in 1..Months
        /\ Months \in Nat
    BY <1>1, <1>2, MonthsTyped
  <2> HIDE DEF a, b, p
  <2>2. a + p \in 1..Months
    BY <2>1
  <2> QED  BY <2>2 DEF a, p
<1> QED  BY <1>1, <1>3, MonthsLater, LaterForLater

LEMMA FirstDate ==
    ASSUME NEW d PROVE DOMAIN Append(<<>>, d) = {1} /\ Append(<<>>, d)[1] = d
<1>1. <<>> \in Seq({d})
  OBVIOUS
<1>2. /\ Append(<<>>, d) \in Seq({d}) /\ Len(Append(<<>>, d)) = Len(<<>>) + 1
      /\ Append(<<>>, d)[Len(<<>>) + 1] = d
  BY <1>1, Appended
<1>3. Len(<<>>) = 0 /\ DOMAIN Append(<<>>, d) = 1..Len(Append(<<>>, d))
  BY <1>2
<1> QED  BY <1>2, <1>3

LEMMA InitDate == Init => DateInv
<1> SUFFICES ASSUME Init PROVE DateInv
  OBVIOUS
<1>1. 1 \in 1..Horizon /\ 1 \in 1..LastDay /\ 0 \in 0..MaxByHand /\ 0 \in 0..MaxCrashes
  BY Dates, CalendarAssumption
<1>2. /\ template \in [Template -> TemplateRow] /\ made \in [Template -> Seq(1..LastDay)]
      /\ \A t \in Template : template[t].next = 1 /\ made[t] = <<>>
  <2>1. <<>> \in Seq(1..LastDay)
    OBVIOUS
  <2> QED  BY <1>1, <2>1 DEF Init, TemplateRow
<1>3. \A t \in Template : template[t].next <= AddMonths(Horizon, Period[t])
  BY <1>2, Dates
<1>4. job \in JobRow /\ session \in [Session -> SessionRow]
  BY <1>1 DEF Init, JobRow, SessionRow, NoSession
<1>5. OneDocumentPerPeriod
  <2> SUFFICES ASSUME NEW t \in Template, NEW i \in DOMAIN Append(made[t], template[t].next)
               PROVE  MonthOf[Append(made[t], template[t].next)[i]]
                          = MonthOf[Append(made[t], template[t].next)[1]] + (i - 1) * Period[t]
    BY DEF OneDocumentPerPeriod
  <2>1. Append(made[t], template[t].next) = Append(<<>>, 1)
    BY <1>2
  <2>2. i = 1 /\ MonthOf[1] \in Nat /\ Period[t] \in Nat
    BY <1>1, <2>1, FirstDate, MonthIn, Dates
  <2> QED  BY <2>1, <2>2, FirstDate
<1> QED  BY <1>1, <1>2, <1>3, <1>4, <1>5 DEF Init, DateInv

(* Steps that make nothing and register nothing.                           *)
LEMMA SameDates ==
    ASSUME DateInv, made' = made, template' \in [Template -> TemplateRow],
           \A t \in Template : template'[t].next = template[t].next,
           today' \in 1..Horizon, byHand' \in 0..MaxByHand, crashes' \in 0..MaxCrashes,
           document' \subseteq Number, job' \in JobRow, session' \in [Session -> SessionRow]
    PROVE  DateInv'
BY DEF DateInv, OneDocumentPerPeriod

LEMMA RegisterKeepsDates ==
    ASSUME DateInv, OrderInv, NEW t \in Template, NEW start \in Starts, NEW chart \in BOOLEAN,
           Register(t, start, chart)
    PROVE  DateInv'
<1> DEFINE row == [registered |-> TRUE, active |-> TRUE, chart |-> chart, next |-> start]
<1>1. /\ made[t] = <<>> /\ template' = [template EXCEPT ![t] = row]
      /\ UNCHANGED <<today, document, byHand, made, job, session, crashes>>
  BY DEF Register, OrderInv, RegisteredFirst
<1>2. start \in 1..Horizon
  BY CalendarAssumption
<1>3. row \in TemplateRow /\ row.next = start
  BY <1>2, Dates DEF TemplateRow
<1> HIDE DEF row
<1>4. /\ template' \in [Template -> TemplateRow] /\ template'[t].next = start
      /\ \A q \in Template \ {t} : template'[q] = template[q]
  BY <1>1, <1>3 DEF DateInv
<1>5. start <= AddMonths(Horizon, Period[t])
  <2>1. /\ start \in 1..LastDay /\ Horizon \in 1..LastDay /\ start <= Horizon
        /\ AddMonths(Horizon, Period[t]) \in 1..LastDay /\ Period[t] \in Nat \ {0}
    BY <1>2, Dates
  <2>2. MonthOf[AddMonths(Horizon, Period[t])] = MonthOf[Horizon] + Period[t]
    BY <2>1, NextDate, Dates
  <2>3. MonthOf[Horizon] \in Nat
    BY <2>1, MonthIn
  <2>4. ~(MonthOf[AddMonths(Horizon, Period[t])] <= MonthOf[Horizon])
    BY <2>1, <2>2, <2>3
  <2>5. ~(AddMonths(Horizon, Period[t]) <= Horizon)
    BY <2>1, <2>4, MonthsInOrder
  <2> QED  BY <2>1, <2>5, Calendar
<1>6. OneDocumentPerPeriod'
  <2> SUFFICES ASSUME NEW q \in Template, NEW i \in DOMAIN Append(made[q], template'[q].next)
               PROVE  MonthOf[Append(made[q], template'[q].next)[i]]
                          = MonthOf[Append(made[q], template'[q].next)[1]] + (i - 1) * Period[q]
    BY <1>1 DEF OneDocumentPerPeriod
  <2>1. CASE q = t
    <3>1. Append(made[q], template'[q].next) = Append(<<>>, start)
      BY <1>1, <1>4, <2>1
    <3>2. i = 1 /\ start \in 1..LastDay /\ Period[q] \in Nat
      BY <1>2, <3>1, FirstDate, Dates
    <3>3. MonthOf[start] \in Nat
      BY <3>2, MonthIn
    <3> QED  BY <3>1, <3>2, <3>3, FirstDate
  <2>2. CASE q # t
    BY <1>4, <2>2 DEF DateInv, OneDocumentPerPeriod
  <2> QED  BY <2>1, <2>2
<1>7. \A q \in Template : template'[q].next <= AddMonths(Horizon, Period[q])
  BY <1>4, <1>5 DEF DateInv
<1> QED  BY <1>1, <1>4, <1>6, <1>7 DEF DateInv

LEMMA DatesOf ==
    ASSUME NEW S, NEW q \in Seq(S)
    PROVE  DOMAIN q = 1..Len(q) /\ \A i \in 1..Len(q) : q[i] \in S
OBVIOUS

(* One more occurrence, a period after the last.                           *)
LEMMA OneMorePeriod ==
    ASSUME NEW q \in Seq(1..LastDay), NEW d \in 1..LastDay, NEW e \in 1..LastDay, NEW p \in Nat,
           MonthOf[e] = MonthOf[d] + p,
           \A i \in DOMAIN Append(q, d) :
               MonthOf[Append(q, d)[i]] = MonthOf[Append(q, d)[1]] + (i - 1) * p
    PROVE  \A i \in DOMAIN Append(Append(q, d), e) :
               MonthOf[Append(Append(q, d), e)[i]]
                   = MonthOf[Append(Append(q, d), e)[1]] + (i - 1) * p
<1> DEFINE r == Append(q, d)
           s == Append(r, e)
           k == Len(q) + 1
<1>1. /\ k \in Nat \ {0} /\ r \in Seq(1..LastDay) /\ DOMAIN r = 1..k /\ DOMAIN s = 1..(k + 1)
      /\ r[k] = d /\ s[k + 1] = e /\ \A i \in 1..k : s[i] = r[i] /\ r[i] \in 1..LastDay
  <2>1. /\ r \in Seq(1..LastDay) /\ Len(q) \in Nat /\ Len(r) = k /\ r[k] = d
    BY Appended
  <2>2. /\ s \in Seq(1..LastDay) /\ Len(s) = Len(r) + 1 /\ s[Len(r) + 1] = e
        /\ \A i \in 1..Len(r) : s[i] = r[i]
    BY <2>1, Appended
  <2>4. k \in Nat \ {0}
    BY <2>1
  <2> HIDE DEF r, s, k
  <2>3. /\ DOMAIN r = 1..Len(r) /\ DOMAIN s = 1..Len(s) /\ \A i \in 1..Len(r) : r[i] \in 1..LastDay
    BY <2>1, <2>2, DatesOf
  <2> QED  BY <2>1, <2>2, <2>3, <2>4
<1>2. \A i \in 1..k : MonthOf[r[i]] = MonthOf[r[1]] + (i - 1) * p
  BY <1>1
<1> HIDE DEF r, s, k
<1>3. MonthOf[r[1]] \in Nat /\ MonthOf[d] \in Nat /\ 1 \in 1..k
  BY <1>1, MonthIn
<1>4. ASSUME NEW i \in 1..(k + 1) PROVE MonthOf[s[i]] = MonthOf[s[1]] + (i - 1) * p
  <2>1. CASE i = k + 1
    <3>1. MonthOf[d] = MonthOf[r[1]] + (k - 1) * p
      BY <1>1, <1>2
    <3>2. (k - 1) * p + p = k * p /\ (k - 1) * p \in Int /\ (i - 1) = k
      BY <1>1, <2>1
    <3>3. MonthOf[s[i]] = MonthOf[r[1]] + k * p
      BY <1>1, <1>3, <2>1, <3>1, <3>2
    <3> QED  BY <1>1, <1>3, <3>2, <3>3
  <2>2. CASE i # k + 1
    <3>1. i \in 1..k
      BY <1>1, <2>2
    <3> QED  BY <1>1, <1>2, <1>3, <3>1
  <2> QED  BY <2>1, <2>2
<1> QED  BY <1>1, <1>4 DEF r, s

LEMMA BatchKeepsDates ==
    ASSUME DateInv, OrderInv, NEW s \in Session, Write(session[s].due),
           UNCHANGED <<today, byHand, crashes>>, job' \in JobRow,
           session' \in [Session -> SessionRow]
    PROVE  DateInv'
<1>1. CASE Fails(session[s].due)
  BY <1>1, SameDates DEF Write, DateInv
<1>2. CASE ~Fails(session[s].due)
  <2> DEFINE generated == {o.template : o \in session[s].due}
  <2>1. /\ document' = document \cup {NumberOf(o) : o \in session[s].due}
        /\ made' = [t \in Template |->
              IF t \in generated THEN Append(made[t], template[t].next) ELSE made[t]]
        /\ template' = [t \in Template |->
              IF t \in generated
              THEN [template[t] EXCEPT !.next = AddMonths(template[t].next, Period[t])]
              ELSE template[t]]
    BY <1>2, WriteWrites DEF OrderInv
  <2>2. session[s].due \subseteq [template : Template, date : 1..Horizon]
    BY DEF DateInv, SessionRow
  <2>3. document' \subseteq Number
    <3>1. ASSUME NEW o \in session[s].due PROVE NumberOf(o) \in Number
      <4>1. o.template \in Template /\ o.date \in 1..LastDay
        BY <2>2, Dates
      <4> QED  BY <4>1, TemplateAssumption DEF NumberOf, Number
    <3> QED  BY <2>1, <3>1 DEF DateInv
  <2>4. ASSUME NEW t \in generated PROVE t \in Template /\ template[t].next \in 1..Horizon
    <3>1. PICK o \in session[s].due : o.template = t
      OBVIOUS
    <3>2. o.template \in Template /\ o.date = template[o.template].next
      BY <1>2, FreshBatch DEF OrderInv
    <3> QED  BY <2>2, <3>1, <3>2
  <2> HIDE DEF generated
  <2>5. ASSUME NEW t \in Template
        PROVE  /\ template'[t] \in TemplateRow /\ made'[t] \in Seq(1..LastDay)
               /\ template'[t].next <= AddMonths(Horizon, Period[t])
               /\ \A i \in DOMAIN Append(made'[t], template'[t].next) :
                     MonthOf[Append(made'[t], template'[t].next)[i]]
                         = MonthOf[Append(made'[t], template'[t].next)[1]] + (i - 1) * Period[t]
    <3>1. /\ template[t] \in TemplateRow /\ made[t] \in Seq(1..LastDay)
          /\ template[t].next <= AddMonths(Horizon, Period[t])
          /\ \A i \in DOMAIN Append(made[t], template[t].next) :
                MonthOf[Append(made[t], template[t].next)[i]]
                    = MonthOf[Append(made[t], template[t].next)[1]] + (i - 1) * Period[t]
      BY DEF DateInv, OneDocumentPerPeriod
    <3>2. CASE t \notin generated
      <4>1. template'[t] = template[t] /\ made'[t] = made[t]
        BY <2>1, <3>2
      <4> QED  BY <3>1, <4>1
    <3>3. CASE t \in generated
      <4> DEFINE d == template[t].next
                 e == AddMonths(d, Period[t])
      <4>1. d \in 1..Horizon /\ Period[t] \in Nat
        BY <2>4, <3>3, Dates
      <4>2. /\ d \in 1..LastDay /\ e \in 1..LastDay /\ e <= AddMonths(Horizon, Period[t])
            /\ MonthOf[e] = MonthOf[d] + Period[t]
        BY <4>1, NextDate
      <4>3. template'[t] = [template[t] EXCEPT !.next = e] /\ made'[t] = Append(made[t], d)
        BY <2>1, <3>3
      <4> HIDE DEF e
      <4>4. template'[t] \in TemplateRow /\ template'[t].next = e
        BY <3>1, <4>2, <4>3 DEF TemplateRow
      <4>5. \A i \in DOMAIN Append(Append(made[t], d), e) :
               MonthOf[Append(Append(made[t], d), e)[i]]
                   = MonthOf[Append(Append(made[t], d), e)[1]] + (i - 1) * Period[t]
        BY <3>1, <4>1, <4>2, OneMorePeriod
      <4>6. Append(made[t], d) \in Seq(1..LastDay)
        BY <3>1, <4>2
      <4> QED  BY <4>2, <4>3, <4>4, <4>5, <4>6
    <3> QED  BY <3>2, <3>3
  <2>6. template' \in [Template -> TemplateRow] /\ made' \in [Template -> Seq(1..LastDay)]
    BY <2>1, <2>5
  <2>7. OneDocumentPerPeriod'
    BY <2>5 DEF OneDocumentPerPeriod
  <2> QED  BY <2>3, <2>5, <2>6, <2>7 DEF DateInv
<1> QED  BY <1>1, <1>2

LEMMA ReadKeepsDates ==
    ASSUME DateInv, NEW s \in Session, NEW org \in Org, NEW asOf \in 1..Horizon, Read(s, org, asOf),
           UNCHANGED <<today, template, document, byHand, made, job, crashes>>
    PROVE  DateInv'
<1> DEFINE due == {[template |-> t, date |-> template[t].next] : t \in Due(org, asOf)}
<1>1. ASSUME NEW t \in Due(org, asOf)
      PROVE  [template |-> t, date |-> template[t].next] \in [template : Template, date : 1..Horizon]
  <2>1. t \in Template /\ template[t].next <= asOf
    BY DEF Due
  <2>2. template[t].next \in 1..LastDay
    BY <2>1 DEF DateInv, TemplateRow
  <2>3. template[t].next \in 1..Horizon
    BY <2>1, <2>2, Dates
  <2> QED  BY <2>1, <2>3
<1>2. [org |-> org, due |-> due] \in SessionRow
  BY <1>1 DEF SessionRow
<1> HIDE DEF due
<1>3. session' = [session EXCEPT ![s] = [org |-> org, due |-> due]]
  BY DEF Read, due
<1>4. session' \in [Session -> SessionRow]
  BY <1>2, <1>3 DEF DateInv
<1> QED  BY <1>4, SameDates DEF DateInv

LEMMA DateStep == ASSUME DateInv, OrderInv, [Next]_vars PROVE DateInv'
<1>0. NoSession \in SessionRow /\ session \in [Session -> SessionRow] /\ job \in JobRow
  BY DEF NoSession, SessionRow, DateInv
<1>1. ASSUME NEW t \in Template, NEW start \in Starts, NEW chart \in BOOLEAN,
             Register(t, start, chart)
      PROVE  DateInv'
  BY <1>1, RegisterKeepsDates
<1>2. ASSUME NEW t \in Template, NEW active \in BOOLEAN, SetActive(t, active)
      PROVE  DateInv'
  <2>1. template' \in [Template -> TemplateRow] /\ \A q \in Template : template'[q].next = template[q].next
    BY <1>2 DEF SetActive, DateInv, TemplateRow
  <2> QED  BY <1>2, <2>1, SameDates DEF SetActive, DateInv
<1>3. ASSUME NEW t \in Template, RegisterAccount(t)
      PROVE  DateInv'
  <2>1. template' \in [Template -> TemplateRow] /\ \A q \in Template : template'[q].next = template[q].next
    BY <1>3 DEF RegisterAccount, DateInv, TemplateRow
  <2> QED  BY <1>3, <2>1, SameDates DEF RegisterAccount, DateInv
<1>4. ASSUME NEW t \in Template, NEW date \in Starts,
             EnterByHand(NumberOf([template |-> t, date |-> date]))
      PROVE  DateInv'
  <2>1. date \in 1..LastDay
    BY CalendarAssumption, Dates
  <2>2. NumberOf([template |-> t, date |-> date]) \in Number
    BY <2>1, TemplateAssumption DEF NumberOf, Number
  <2>3. document' \subseteq Number /\ byHand' \in 0..MaxByHand
    BY <1>4, <2>2, CalendarAssumption DEF EnterByHand, DateInv
  <2> QED  BY <1>4, <2>3, SameDates DEF EnterByHand, DateInv
<1>5. CASE StartJob
  BY <1>5, SameDates DEF StartJob, DateInv, JobRow
<1>6. CASE NewDay
  <2>1. today' \in 1..Horizon
    BY <1>6, Dates DEF NewDay, DateInv
  <2> QED  BY <1>6, <2>1, SameDates DEF NewDay, DateInv
<1>7. CASE Crash
  <2>1. crashes' \in 0..MaxCrashes
    BY <1>7, CalendarAssumption DEF Crash, DateInv
  <2>2. job' \in JobRow /\ session' \in [Session -> SessionRow]
    BY <1>0, <1>7 DEF Crash, JobRow
  <2> QED  BY <1>7, <2>1, <2>2, SameDates DEF Crash, DateInv
<1>8. CASE JobWrites
  <2>1. /\ Write(session["job"].due) /\ session' = [session EXCEPT !["job"] = NoSession]
        /\ job' = [job EXCEPT !.orgs = @ \ {session["job"].org}]
        /\ UNCHANGED <<today, byHand, crashes>>
    BY <1>8 DEF JobWrites, Rest
  <2>2. "job" \in Session /\ job' \in JobRow /\ session' \in [Session -> SessionRow]
    BY <1>0, <2>1 DEF Session, JobRow
  <2> QED  BY <2>1, <2>2, BatchKeepsDates
<1>9. CASE RequestWrites
  <2>1. /\ Write(session["request"].due) /\ session' = [session EXCEPT !["request"] = NoSession]
        /\ UNCHANGED <<today, byHand, job, crashes>>
    BY <1>9 DEF RequestWrites
  <2>2. "request" \in Session /\ job' \in JobRow /\ session' \in [Session -> SessionRow]
    BY <1>0, <2>1 DEF Session
  <2> QED  BY <2>1, <2>2, BatchKeepsDates
<1>10. ASSUME NEW org \in Org, JobReads(org) PROVE DateInv'
  <2>1. "job" \in Session /\ job.date \in 1..Horizon
    BY <1>0 DEF Session, JobRow
  <2> QED  BY <1>10, <2>1, ReadKeepsDates DEF JobReads
<1>11. ASSUME NEW org \in Org, NEW asOf \in 1..Horizon, RequestReads(org, asOf) PROVE DateInv'
  <2>1. "request" \in Session
    BY DEF Session
  <2> QED  BY <1>11, <2>1, ReadKeepsDates DEF RequestReads
<1>12. CASE UNCHANGED vars
  BY <1>12, SameDates DEF vars, DateInv
<1> QED  BY <1>1, <1>2, <1>3, <1>4, <1>5, <1>6, <1>7, <1>8, <1>9, <1>10, <1>11, <1>12 DEF Next

LEMMA DateInvHolds == Spec => [](OrderInv /\ DateInv)
<1>1. Init => OrderInv /\ DateInv
  BY OrderInit, InitDate
<1>2. OrderInv /\ DateInv /\ [Next]_vars => (OrderInv /\ DateInv)'
  BY OrderStep, DateStep
<1> QED  BY <1>1, <1>2, PTL DEF Spec

(* Every row is of its type, and no template stands further than one period  *)
(* after the last day there was: the clock alone moves a template on, however *)
(* often anybody asks (recurring_bills.py:51-82).                            *)
THEOREM RecurringTypes == Spec => []TypeOK
<1>1. DateInv => TypeOK
  <2> SUFFICES ASSUME DateInv PROVE TypeOK
    OBVIOUS
  <2>1. job.orgs \subseteq Org /\ job.date \in 1..Horizon
    BY DEF DateInv, JobRow
  <2>2. ASSUME NEW s \in Session
        PROVE  session[s].org \in Org \cup {None} /\ session[s].due \subseteq Occurrence
    BY Dates DEF DateInv, SessionRow, Occurrence
  <2> QED  BY <2>1, <2>2 DEF DateInv, TypeOK
<1> QED  BY DateInvHolds, <1>1, PTL

(* A monthly template has one document in every month and a quarterly one in *)
(* every third, in any calendar and from any first date: clamping the day to *)
(* the end of a short month never skips a month or stays in one              *)
(* (recurrence.py:19-30).                                                    *)
THEOREM EachPeriodOnce == Spec => []OneDocumentPerPeriod
<1>1. DateInv => OneDocumentPerPeriod
  BY DEF DateInv
<1> QED  BY DateInvHolds, <1>1, PTL

=============================================================================
