---------------------------- MODULE CreditLedger ----------------------------
(***************************************************************************)
(* Credit sales: invoices filed on credit, the payments recorded against   *)
(* them, and the three views of what is still owed (the summary per buyer, *)
(* the list of one buyer's open invoices, the alert feed).                 *)
(*                                                                         *)
(* Money is counted in half paise, so that the comparison's tolerance of   *)
(* 0.005 is one unit.  Dates are day numbers.                              *)
(***************************************************************************)
EXTENDS Integers, FiniteSetsExt

CONSTANTS
  Invoices, Buyers,
  Tellers,        \* payment requests that can be in flight at once
  Totals,         \* bill totals of the invoices filed
  Amounts,        \* amounts of the payments requested
  Terms,          \* credit terms in days
  Days,           \* the days on which something happens
  NoBuyer, NoDate, NoTerms, NoInvoice

ASSUME DataAssumption ==
  /\ Totals \subseteq Nat /\ Amounts \subseteq Int /\ Terms \subseteq Nat /\ Days \subseteq Int
  /\ NoDate \notin Int /\ NoTerms \notin Nat /\ NoBuyer \notin Buyers /\ NoInvoice \notin Invoices

\* The comparisons allow for rounding.
Tolerance == 1

VARIABLES
  today,
  defaultTerms,   \* buyers.default_payment_terms_days
  bill,           \* the invoices on file
  paid,           \* the sum of each invoice's payments
  request         \* payment requests

vars == <<today, defaultTerms, bill, paid, request>>

\* A credit sale has a due date; a cash sale and an invoice whose payment type
\* was not given have none.
Bill ==
  [credit : {TRUE}, buyer : Buyers \cup {NoBuyer}, total : Nat, due : Int]
    \cup [credit : {FALSE}, buyer : Buyers \cup {NoBuyer}, total : Nat, due : {NoDate}]

Request == [at : {"idle", "check", "insert"}, invoice : Invoices \cup {NoInvoice}, amount : Int]

IdleRequest == [at |-> "idle", invoice |-> NoInvoice, amount |-> 0]

Filed == DOMAIN bill

TypeOK ==
  /\ today \in Int
  /\ defaultTerms \in [Buyers -> Terms \cup {NoTerms}]
  /\ Filed \subseteq Invoices /\ bill \in [Filed -> Bill]
  /\ paid \in [Invoices -> Nat]
  /\ request \in [Tellers -> Request]

Init ==
  /\ today \in Days
  /\ defaultTerms = [b \in Buyers |-> NoTerms]
  /\ bill = [i \in {} |-> NoInvoice]
  /\ paid = [i \in Invoices |-> 0]
  /\ request = [t \in Tellers |-> IdleRequest]

-----------------------------------------------------------------------------
(***************************************************************************)
(* Filing.                                                                 *)
(***************************************************************************)

\* Mutant: only explicit terms give a credit sale its due date.
ExplicitTermsOnly(date, credit, terms, buyer) ==
  IF credit /\ terms # NoTerms THEN date + terms ELSE NoDate

\* Explicit terms win, else the buyer's default terms, else due at once.
DueDate(date, credit, terms, buyer) ==
  IF ~credit THEN NoDate
  ELSE IF terms # NoTerms THEN date + terms
  ELSE IF buyer \in Buyers /\ defaultTerms[buyer] # NoTerms THEN date + defaultTerms[buyer]
  ELSE date

\* handleUploadLedgerInvoice creates the row once; a repeated upload of the
\* same invoice changes nothing in it.
File(i, buyer, total, credit, terms, date) ==
  /\ i \notin Filed
  /\ bill' = [j \in Filed \cup {i} |->
       IF j = i
       THEN [credit |-> credit, buyer |-> buyer, total |-> total,
             due |-> DueDate(date, credit, terms, buyer)]
       ELSE bill[j]]
  /\ UNCHANGED <<today, defaultTerms, paid, request>>

\* UpdateBuyerMeta: later filings use the new terms.
UpdateBuyerMeta(buyer, terms) ==
  /\ defaultTerms' = [defaultTerms EXCEPT ![buyer] = terms]
  /\ UNCHANGED <<today, bill, paid, request>>

NextDay ==
  /\ today' \in {d \in Days : d > today}
  /\ UNCHANGED <<defaultTerms, bill, paid, request>>

-----------------------------------------------------------------------------
(***************************************************************************)
(* Recording a payment: the handler's checks, the balance check and the    *)
(* insert.  Statements of the transaction see what has been committed, and *)
(* the row read by the check is not locked.                                *)
(***************************************************************************)

Balance(i) == bill[i].total - paid[i]

Finish(t) == request' = [request EXCEPT ![t] = IdleRequest]

\* handleRecordPayment: a positive amount for an invoice on file; any payment
\* type is accepted.
Submit(t, i, amount) ==
  /\ request[t].at = "idle"
  /\ amount > 0 /\ i \in Filed
  /\ request' = [request EXCEPT ![t] = [at |-> "check", invoice |-> i, amount |-> amount]]
  /\ UNCHANGED <<today, defaultTerms, bill, paid>>

\* Mutant: earlier payments are not counted.
ExceedsTotal(i, amount) == amount > bill[i].total + Tolerance

\* ErrPaymentExceedsBalance.
Exceeds(i, amount) == amount > Balance(i) + Tolerance

CheckBalance(t) ==
  /\ request[t].at = "check"
  /\ ~Exceeds(request[t].invoice, request[t].amount)
  /\ request' = [request EXCEPT ![t].at = "insert"]
  /\ UNCHANGED <<today, defaultTerms, bill, paid>>

RejectPayment(t) ==
  /\ request[t].at = "check"
  /\ Exceeds(request[t].invoice, request[t].amount)
  /\ Finish(t)
  /\ UNCHANGED <<today, defaultTerms, bill, paid>>

InsertPayment(t) ==
  /\ request[t].at = "insert"
  /\ paid' = [paid EXCEPT ![request[t].invoice] = @ + request[t].amount]
  /\ Finish(t)
  /\ UNCHANGED <<today, defaultTerms, bill>>

\* A failing statement or commit rolls the transaction back.
RollBack(t) ==
  /\ request[t].at \in {"check", "insert"}
  /\ Finish(t)
  /\ UNCHANGED <<today, defaultTerms, bill, paid>>

Next ==
  \/ \E i \in Invoices, b \in Buyers \cup {NoBuyer}, total \in Totals, credit \in BOOLEAN,
        terms \in Terms \cup {NoTerms}, date \in Days : File(i, b, total, credit, terms, date)
  \/ \E b \in Buyers, terms \in Terms : UpdateBuyerMeta(b, terms)
  \/ NextDay
  \/ \E t \in Tellers :
       \/ \E i \in Invoices, amount \in Amounts : Submit(t, i, amount)
       \/ CheckBalance(t)
       \/ RejectPayment(t)
       \/ InsertPayment(t)
       \/ RollBack(t)

Spec == Init /\ [][Next]_vars

-----------------------------------------------------------------------------
(***************************************************************************)
(* The views.  Each query repeats the conditions in its own words.         *)
(***************************************************************************)

SumBalance(S) == MapThenSumSet(Balance, S)

\* Credit sales that are not settled.
OpenInvoices == {i \in Filed : bill[i].credit /\ Balance(i) > Tolerance}

\* Mutant: the second range starts a day late.
LateByGap(S, from, to) ==
  {i \in S : bill[i].due # NoDate /\ today - bill[i].due \in from .. to /\ today - bill[i].due # 31}

\* CURRENT_DATE - due_date BETWEEN from AND to, false for a NULL due date.
LateBy(S, from, to) == {i \in S : bill[i].due # NoDate /\ today - bill[i].due \in from .. to}

\* GetReceivablesSummary, the row of one buyer.  The sales of no buyer fall out
\* of its join.
Summary(b) ==
  LET open == {i \in OpenInvoices : bill[i].buyer = b}
  IN [outstanding |-> SumBalance(open),
      overdue |-> SumBalance({i \in open : bill[i].due # NoDate /\ bill[i].due < today}),
      current |-> SumBalance({i \in open : bill[i].due = NoDate \/ bill[i].due >= today}),
      late1To30 |-> SumBalance(LateBy(open, 1, 30)),
      late31To60 |-> SumBalance(LateBy(open, 31, 60)),
      late60Plus |-> SumBalance({i \in open : bill[i].due # NoDate /\ today - bill[i].due > 60})]

\* Mutant: an invoice is overdue on its due date.
OverdueWhenDue(i) == IF bill[i].due # NoDate /\ bill[i].due <= today THEN today - bill[i].due + 1 ELSE 0

\* ListReceivableInvoices.
DaysOverdue(i) == IF bill[i].due # NoDate /\ bill[i].due < today THEN today - bill[i].due ELSE 0

Receivables(b) ==
  {[invoice |-> i, balance |-> Balance(i), daysOverdue |-> DaysOverdue(i)] :
     i \in {j \in OpenInvoices : bill[j].buyer = b}}

\* GetOpenAlerts, its overdue invoices.
OverdueAlerts ==
  {[invoice |-> i, age |-> today - bill[i].due,
    priority |-> IF today - bill[i].due >= 30 THEN "critical" ELSE "warning"] :
     i \in {j \in OpenInvoices : bill[j].due # NoDate /\ bill[j].due < today}}

-----------------------------------------------------------------------------
(***************************************************************************)
(* Properties.                                                             *)
(***************************************************************************)

\* While no two requests for the same invoice overlap, its payments never exceed
\* its total by more than the tolerance CreatePayment allows for.
NotOverpaid == \A i \in Filed : paid[i] <= bill[i].total + Tolerance

\* The row that CreatePayment reads its balance from is not locked, so requests
\* that overlap do overpay an invoice, against distributor.go:268-270; not by
\* more than this: all that is ever paid on it is what the requests that can
\* overlap could each have paid alone, however long the ledger is in use.
OverpaymentBounded ==
  \A i \in Filed : paid[i] <= Cardinality(Tellers) * (bill[i].total + Tolerance)

\* The aging columns of a buyer's summary add up: every open invoice is in one
\* of them, and the overdue amount is that of the three late ones.
AgingAddsUp ==
  \A b \in Buyers : LET s == Summary(b) IN
    /\ s.outstanding = s.current + s.late1To30 + s.late31To60 + s.late60Plus
    /\ s.overdue = s.late1To30 + s.late31To60 + s.late60Plus

\* The three views agree: a buyer's summary is the sum of the buyer's list,
\* its overdue amount that of the invoices listed with days overdue, and those
\* are exactly the buyer's invoices in the alert feed, at the same age.
ViewsAgree ==
  \A b \in Buyers :
    LET list == Receivables(b)
        Sum(S) == MapThenSumSet(LAMBDA r : r.balance, S)
    IN /\ Summary(b).outstanding = Sum(list)
       /\ Summary(b).overdue = Sum({r \in list : r.daysOverdue > 0})
       /\ {<<r.invoice, r.daysOverdue>> : r \in {r \in list : r.daysOverdue > 0}}
            = {<<a.invoice, a.age>> : a \in {a \in OverdueAlerts : bill[a.invoice].buyer = b}}
=============================================================================
