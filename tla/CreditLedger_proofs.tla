------------------------ MODULE CreditLedger_proofs ------------------------
(***************************************************************************)
(* What holds of the credit ledger for any invoices, amounts and days.     *)
(***************************************************************************)
EXTENDS CreditLedger, FiniteSetTheorems, TLAPS

\* A request in its transaction is for a positive amount on an invoice on file.
RequestsValid ==
  \A t \in Tellers : request[t].at # "idle" => request[t].invoice \in Filed /\ request[t].amount > 0

TypeInvariant == TypeOK /\ RequestsValid

LEMMA InitTypeInvariant == Init => TypeInvariant
<1> SUFFICES ASSUME Init PROVE TypeInvariant
  OBVIOUS
<1>1. today \in Int
  BY DataAssumption DEF Init
<1>2. Filed = {}
  BY DEF Init, Filed
<1>3. bill \in [Filed -> Bill]
  BY <1>2 DEF Init
<1>4. request \in [Tellers -> Request]
  BY DEF Init, IdleRequest, Request
<1> QED
  BY <1>1, <1>2, <1>3, <1>4 DEF Init, TypeInvariant, TypeOK, RequestsValid, IdleRequest

\* What DueDate computes for a credit sale, and for any other.
LEMMA DueDateType ==
  ASSUME TypeOK, NEW date \in Days, NEW credit \in BOOLEAN,
         NEW terms \in Terms \cup {NoTerms}, NEW buyer \in Buyers \cup {NoBuyer}
  PROVE  IF credit THEN DueDate(date, credit, terms, buyer) \in Int
                   ELSE DueDate(date, credit, terms, buyer) = NoDate
<1>1. buyer \in Buyers => defaultTerms[buyer] \in Terms \cup {NoTerms}
  BY DEF TypeOK
<1>2. \A n \in Terms : date + n \in Int
  BY DataAssumption
<1>3. date \in Int
  BY DataAssumption
<1> QED
  BY <1>1, <1>2, <1>3 DEF DueDate

LEMMA FileType ==
  ASSUME TypeInvariant, NEW i \in Invoices, NEW b \in Buyers \cup {NoBuyer},
         NEW total \in Totals, NEW credit \in BOOLEAN, NEW terms \in Terms \cup {NoTerms},
         NEW date \in Days, File(i, b, total, credit, terms, date)
  PROVE  TypeInvariant' /\ Filed' = Filed \cup {i} /\ \A j \in Filed : bill'[j] = bill[j]
<1> DEFINE new == [credit |-> credit, buyer |-> b, total |-> total,
                   due |-> DueDate(date, credit, terms, b)]
<1>1. new \in Bill
  BY DueDateType, DataAssumption DEF TypeInvariant, Bill
<1>2. bill' = [j \in Filed \cup {i} |-> IF j = i THEN new ELSE bill[j]]
  BY DEF File
<1>3. Filed' = Filed \cup {i}
  BY <1>2 DEF Filed
<1>4. \A j \in Filed : bill'[j] = bill[j]
  BY <1>2 DEF File
<1>5. bill' \in [Filed' -> Bill]
  <2>1. \A j \in Filed : bill[j] \in Bill
    BY DEF TypeInvariant, TypeOK
  <2> HIDE DEF new
  <2> QED
    BY <1>1, <1>2, <1>3, <2>1
<1>6. RequestsValid'
  BY <1>3 DEF File, TypeInvariant, RequestsValid
<1> QED
  BY <1>3, <1>4, <1>5, <1>6 DEF File, TypeInvariant, TypeOK

LEMMA SubmitType ==
  ASSUME TypeInvariant, NEW t \in Tellers, NEW i \in Invoices, NEW amount \in Amounts,
         Submit(t, i, amount)
  PROVE  TypeInvariant'
<1>1. [at |-> "check", invoice |-> i, amount |-> amount] \in Request
  BY DataAssumption DEF Request
<1>2. request' \in [Tellers -> Request]
  BY <1>1 DEF Submit, TypeInvariant, TypeOK
<1>3. RequestsValid'
  BY DEF Submit, TypeInvariant, TypeOK, RequestsValid, Filed
<1> QED
  BY <1>2, <1>3 DEF Submit, TypeInvariant, TypeOK, Filed

LEMMA FinishType ==
  ASSUME TypeInvariant, NEW t \in Tellers, Finish(t), UNCHANGED <<today, defaultTerms, bill>>,
         paid' \in [Invoices -> Nat]
  PROVE  TypeInvariant'
<1>1. request' \in [Tellers -> Request]
  BY DEF Finish, IdleRequest, Request, TypeInvariant, TypeOK
<1>2. RequestsValid'
  BY DEF Finish, IdleRequest, TypeInvariant, TypeOK, RequestsValid, Filed
<1> QED
  BY <1>1, <1>2 DEF TypeInvariant, TypeOK, Filed

\* Every step of Next keeps every variable in its set.
LEMMA NextTypeInvariant == TypeInvariant /\ [Next]_vars => TypeInvariant'
<1> SUFFICES ASSUME TypeInvariant, [Next]_vars PROVE TypeInvariant'
  OBVIOUS
<1>1. ASSUME NEW i \in Invoices, NEW b \in Buyers \cup {NoBuyer}, NEW total \in Totals,
             NEW credit \in BOOLEAN, NEW terms \in Terms \cup {NoTerms}, NEW date \in Days,
             File(i, b, total, credit, terms, date)
      PROVE  TypeInvariant'
  BY <1>1, FileType
<1>2. ASSUME NEW b \in Buyers, NEW terms \in Terms, UpdateBuyerMeta(b, terms)
      PROVE  TypeInvariant'
  BY <1>2 DEF UpdateBuyerMeta, TypeInvariant, TypeOK, RequestsValid, Filed
<1>3. ASSUME NextDay PROVE TypeInvariant'
  BY <1>3, DataAssumption DEF NextDay, TypeInvariant, TypeOK, RequestsValid, Filed
<1>4. ASSUME NEW t \in Tellers, NEW i \in Invoices, NEW amount \in Amounts,
             Submit(t, i, amount)
      PROVE  TypeInvariant'
  BY <1>4, SubmitType
<1>5. ASSUME NEW t \in Tellers, CheckBalance(t) PROVE TypeInvariant'
  <2>1. [request[t] EXCEPT !.at = "insert"] \in Request
    BY <1>5 DEF TypeInvariant, TypeOK, Request
  <2>2. request' \in [Tellers -> Request]
    BY <1>5, <2>1 DEF CheckBalance, TypeInvariant, TypeOK
  <2>3. RequestsValid'
    BY <1>5 DEF CheckBalance, TypeInvariant, TypeOK, RequestsValid, Filed, Request
  <2> QED
    BY <1>5, <2>2, <2>3 DEF CheckBalance, TypeInvariant, TypeOK, Filed
<1>6. ASSUME NEW t \in Tellers, RejectPayment(t) \/ RollBack(t) PROVE TypeInvariant'
  <2>1. Finish(t) /\ UNCHANGED <<today, defaultTerms, bill, paid>>
    BY <1>6 DEF RejectPayment, RollBack
  <2>2. paid' \in [Invoices -> Nat]
    BY <2>1 DEF TypeInvariant, TypeOK
  <2> QED
    BY <2>1, <2>2, FinishType
<1>7. ASSUME NEW t \in Tellers, InsertPayment(t) PROVE TypeInvariant'
  <2>1. request[t].amount \in Nat
    BY <1>7 DEF InsertPayment, TypeInvariant, TypeOK, RequestsValid, Request
  <2>2. paid' \in [Invoices -> Nat]
    <3>1. request[t].invoice \in Invoices
      BY <1>7 DEF InsertPayment, TypeInvariant, TypeOK, RequestsValid
    <3>2. paid[request[t].invoice] + request[t].amount \in Nat
      BY <2>1, <3>1 DEF TypeInvariant, TypeOK
    <3> QED
      BY <1>7, <3>2 DEF InsertPayment, TypeInvariant, TypeOK
  <2> QED
    BY <1>7, <2>2, FinishType DEF InsertPayment
<1>8. CASE UNCHANGED vars
  BY <1>8 DEF vars, TypeInvariant, TypeOK, RequestsValid, Filed
<1> QED
  BY <1>1, <1>2, <1>3, <1>4, <1>5, <1>6, <1>7, <1>8 DEF Next

\* The variables keep their types for any data: a credit sale always has a due
\* date, so no credit sale escapes the overdue views, and no payment is
\* negative (handleUploadLedgerInvoice, handleRecordPayment).
THEOREM TypeCorrect == Spec => []TypeOK
<1>1. TypeInvariant => TypeOK
  BY DEF TypeInvariant
<1> QED
  BY <1>1, InitTypeInvariant, NextTypeInvariant, PTL DEF Spec

-----------------------------------------------------------------------------
\* Requests for the same invoice do not overlap; others may.
OnePerInvoice ==
  \A t, u \in Tellers :
    request[t].at # "idle" /\ request[u].at # "idle" /\ request[t].invoice = request[u].invoice
      => t = u

\* A payment about to be inserted still fits.
Covered ==
  /\ TypeInvariant
  /\ \A i \in Invoices \ Filed : paid[i] = 0
  /\ NotOverpaid
  /\ \A t \in Tellers : request[t].at = "insert" =>
       LET i == request[t].invoice
       IN paid[i] + request[t].amount <= bill[i].total + Tolerance

LEMMA InitCovered == Init => Covered
  BY InitTypeInvariant DEF Init, Covered, NotOverpaid, Filed, IdleRequest

LEMMA BillTotal == ASSUME TypeOK, NEW i \in Filed PROVE bill[i].total \in Nat
  BY DEF TypeOK, Bill

LEMMA FileCovered ==
  ASSUME Covered, NEW i \in Invoices, NEW b \in Buyers \cup {NoBuyer},
         NEW total \in Totals, NEW credit \in BOOLEAN, NEW terms \in Terms \cup {NoTerms},
         NEW date \in Days, File(i, b, total, credit, terms, date)
  PROVE  Covered'
<1>0. TypeInvariant /\ i \notin Filed /\ paid' = paid /\ request' = request
  BY DEF Covered, File
<1>1. TypeInvariant' /\ Filed' = Filed \cup {i} /\ \A j \in Filed : bill'[j] = bill[j]
  BY <1>0, FileType
<1>2. NotOverpaid'
  <2>1. paid[i] = 0
    BY <1>0 DEF Covered
  <2>2. bill'[i].total \in Nat
    BY <1>1, BillTotal DEF TypeInvariant, TypeOK, Bill
  <2> QED
    BY <1>0, <1>1, <2>1, <2>2 DEF Covered, NotOverpaid, Tolerance
<1>3. \A t \in Tellers : request[t].at = "insert" => request[t].invoice \in Filed
  BY <1>0 DEF TypeInvariant, RequestsValid
<1> QED
  BY <1>0, <1>1, <1>2, <1>3 DEF Covered

LEMMA NextCovered == Covered /\ OnePerInvoice /\ [Next]_vars => Covered'
<1> SUFFICES ASSUME Covered, OnePerInvoice, [Next]_vars PROVE Covered'
  OBVIOUS
<1>0. TypeInvariant /\ TypeInvariant'
  BY NextTypeInvariant DEF Covered
<1>1. ASSUME NEW i \in Invoices, NEW b \in Buyers \cup {NoBuyer}, NEW total \in Totals,
             NEW credit \in BOOLEAN, NEW terms \in Terms \cup {NoTerms}, NEW date \in Days,
             File(i, b, total, credit, terms, date)
      PROVE  Covered'
  BY <1>1, FileCovered
<1>2. ASSUME UNCHANGED <<bill, paid>>,
             \A t \in Tellers : request'[t].at = "insert" => request'[t] = request[t]
      PROVE  Covered'
  BY <1>0, <1>2 DEF Covered, NotOverpaid, Filed
<1>3. ASSUME NEW b \in Buyers, NEW terms \in Terms, UpdateBuyerMeta(b, terms) PROVE Covered'
  BY <1>2, <1>3 DEF UpdateBuyerMeta
<1>4. ASSUME NextDay PROVE Covered'
  BY <1>2, <1>4 DEF NextDay
<1>5. ASSUME NEW t \in Tellers, NEW i \in Invoices, NEW amount \in Amounts,
             Submit(t, i, amount)
      PROVE  Covered'
  BY <1>0, <1>2, <1>5 DEF Submit, TypeInvariant, TypeOK
<1>6. ASSUME NEW t \in Tellers, RejectPayment(t) \/ RollBack(t) PROVE Covered'
  BY <1>0, <1>2, <1>6 DEF RejectPayment, RollBack, Finish, IdleRequest, TypeInvariant, TypeOK
<1>7. ASSUME NEW t \in Tellers, CheckBalance(t) PROVE Covered'
  <2> DEFINE i == request[t].invoice
  <2>1. /\ UNCHANGED <<bill, paid>> /\ i \in Filed /\ i \in Invoices
        /\ request' = [request EXCEPT ![t].at = "insert"]
        /\ request[t].amount <= bill[i].total - paid[i] + Tolerance
    <3>1. i \in Filed /\ Filed \subseteq Invoices /\ request[t].amount \in Int
      BY <1>0, <1>7 DEF CheckBalance, TypeInvariant, TypeOK, RequestsValid, Request
    <3>2. bill[i].total \in Nat /\ paid[i] \in Nat
      BY <1>0, <3>1, BillTotal DEF TypeInvariant, TypeOK
    <3>3. ~(request[t].amount > bill[i].total - paid[i] + Tolerance)
      BY <1>7 DEF CheckBalance, Exceeds, Balance
    <3> QED
      BY <1>7, <3>1, <3>2, <3>3 DEF CheckBalance, Tolerance
  <2>2. \A u \in Tellers : u # t => request'[u] = request[u]
    BY <1>0, <2>1 DEF TypeInvariant, TypeOK
  <2>3. request'[t].invoice = i /\ request'[t].amount = request[t].amount
    BY <1>0, <2>1 DEF TypeInvariant, TypeOK, Request
  <2>4. paid[i] + request[t].amount <= bill[i].total + Tolerance
    <3>1. bill[i].total \in Nat /\ paid[i] \in Nat /\ request[t].amount \in Int
      BY <1>0, <2>1, BillTotal DEF TypeInvariant, TypeOK, Request
    <3> HIDE DEF i
    <3> QED
      BY <2>1, <3>1 DEF Tolerance
  <2> QED
    BY <1>0, <2>1, <2>2, <2>3, <2>4 DEF Covered, NotOverpaid, Filed
<1>8. ASSUME NEW t \in Tellers, InsertPayment(t) PROVE Covered'
  <2> DEFINE i == request[t].invoice
  <2>1. /\ UNCHANGED bill /\ i \in Filed /\ i \in Invoices
        /\ request[t].at = "insert"
        /\ paid' = [paid EXCEPT ![i] = paid[i] + request[t].amount]
        /\ request' = [request EXCEPT ![t] = IdleRequest]
    BY <1>0, <1>8 DEF InsertPayment, Finish, TypeInvariant, TypeOK, RequestsValid
  <2>2. paid'[i] <= bill[i].total + Tolerance
    BY <1>0, <2>1 DEF Covered, TypeInvariant, TypeOK
  <2>3. \A j \in Invoices : j # i => paid'[j] = paid[j]
    BY <1>0, <2>1 DEF TypeInvariant, TypeOK
  <2>4. \A u \in Tellers : request'[u].at = "insert" =>
          request'[u] = request[u] /\ request[u].invoice \in Invoices \ {i}
    <3>1. \A u \in Tellers : request'[u].at = "insert" => u # t /\ request'[u] = request[u]
      BY <1>0, <2>1 DEF TypeInvariant, TypeOK, IdleRequest
    <3>2. \A u \in Tellers : request[u].at = "insert" => request[u].invoice \in Invoices
      BY <1>0 DEF TypeInvariant, TypeOK, RequestsValid
    <3> QED
      BY <2>1, <3>1, <3>2 DEF OnePerInvoice
  <2>5. Filed' = Filed
    BY <2>1 DEF Filed
  <2>6. NotOverpaid'
    BY <1>0, <2>1, <2>2, <2>3, <2>5 DEF Covered, NotOverpaid, TypeInvariant, TypeOK
  <2>7. \A j \in Invoices \ Filed : paid'[j] = 0
    BY <2>1, <2>3 DEF Covered
  <2> QED
    BY <1>0, <2>1, <2>3, <2>4, <2>5, <2>6, <2>7 DEF Covered
<1>9. CASE UNCHANGED vars
  BY <1>2, <1>9 DEF vars
<1> QED
  BY <1>1, <1>3, <1>4, <1>5, <1>6, <1>7, <1>8, <1>9 DEF Next

\* Payments never exceed an invoice's total beyond the tolerance, as long as no
\* two requests for the same invoice overlap, for any invoices, amounts and
\* number of tellers (CreatePayment).
THEOREM InvoicesNotOverpaid == Spec /\ []OnePerInvoice => []NotOverpaid
<1>1. Covered => NotOverpaid
  BY DEF Covered
<1> QED
  BY <1>1, InitCovered, NextCovered, PTL DEF Spec

-----------------------------------------------------------------------------
\* The aging columns split the open invoices of a buyer: every one is in
\* exactly one of them, and the late ones make up the overdue amount.  This is
\* why the sums of GetReceivablesSummary add up, whatever today is.
THEOREM AgingSplits ==
  ASSUME TypeOK, NEW S \in SUBSET Filed
  PROVE  LET current == {i \in S : bill[i].due = NoDate \/ bill[i].due >= today}
             overdue == {i \in S : bill[i].due # NoDate /\ bill[i].due < today}
             late    == <<LateBy(S, 1, 30), LateBy(S, 31, 60),
                          {i \in S : bill[i].due # NoDate /\ today - bill[i].due > 60}>>
         IN /\ S = current \cup overdue /\ current \cap overdue = {}
            /\ overdue = late[1] \cup late[2] \cup late[3]
            /\ \A m, n \in {1, 2, 3} : m # n => late[m] \cap late[n] = {}
<1>1. \A i \in S : bill[i].due \in Int \/ bill[i].due = NoDate
  BY DEF TypeOK, Bill
<1>2. today \in Int /\ NoDate \notin Int
  BY DataAssumption DEF TypeOK
<1> DEFINE lateOne == LateBy(S, 1, 30)
           lateTwo == LateBy(S, 31, 60)
           lateLong == {i \in S : bill[i].due # NoDate /\ today - bill[i].due > 60}
           current == {i \in S : bill[i].due = NoDate \/ bill[i].due >= today}
           overdue == {i \in S : bill[i].due # NoDate /\ bill[i].due < today}
<1>3. S = current \cup overdue /\ current \cap overdue = {}
  BY <1>1, <1>2
<1>4. overdue = lateOne \cup lateTwo \cup lateLong
  BY <1>1, <1>2 DEF LateBy
<1>5. lateOne \cap lateTwo = {} /\ lateOne \cap lateLong = {} /\ lateTwo \cap lateLong = {}
  BY <1>1, <1>2 DEF LateBy
<1> HIDE DEF lateOne, lateTwo, lateLong, current, overdue
<1>6. \A m, n \in {1, 2, 3} : m # n =>
        <<lateOne, lateTwo, lateLong>>[m] \cap <<lateOne, lateTwo, lateLong>>[n] = {}
  BY <1>5
<1> QED
  BY <1>3, <1>4, <1>6 DEF lateOne, lateTwo, lateLong, current, overdue

-----------------------------------------------------------------------------
(***************************************************************************)
(* Sums over finite sets.  A property of every finite set is proved by     *)
(* taking a least set that lacks it.                                       *)
(***************************************************************************)

\* Every non-empty collection of subsets of a finite set has a member that
\* contains no other: what an induction over finite sets rests on.
LEMMA SmallestSet ==
  ASSUME NEW S, IsFiniteSet(S), NEW C \in SUBSET SUBSET S, C # {}
  PROVE  \E T \in C : \A U \in C : U \subseteq T => U = T
<1>1. IsWellFoundedOn(StrictSubsetOrdering(S), FiniteSubsetsOf(S))
  BY FS_StrictSubsetOrderingWellFounded
<1>2. C \subseteq FiniteSubsetsOf(S)
  BY FS_FiniteSubsetsOfFinite
<1>3. PICK T \in C : \A U \in C : ~(<<U, T>> \in StrictSubsetOrdering(S))
  BY <1>1, <1>2, WFMin
<1> QED
  BY <1>3 DEF StrictSubsetOrdering

Pick(s) == CHOOSE x \in s : TRUE

\* g sums f over the subsets of S, an element at a time.
IsSum(g, f, S) ==
  g = [s \in SUBSET S |-> IF s = {} THEN 0 ELSE f[Pick(s)] + g[s \ {Pick(s)}]]

LEMMA Picked == ASSUME NEW s, s # {} PROVE Pick(s) \in s
BY DEF Pick

\* Two recursive sums agree on the sets that both are defined on.
LEMMA SumsAgree ==
  ASSUME NEW S, IsFiniteSet(S), NEW f, NEW T \in SUBSET S, NEW g, IsSum(g, f, S),
         NEW h, IsSum(h, f, T), NEW s \in SUBSET T
  PROVE  g[s] = h[s]
<1> DEFINE C == {u \in SUBSET T : g[u] # h[u]}
<1> SUFFICES ASSUME C # {} PROVE FALSE
  OBVIOUS
<1>0. IsFiniteSet(T) /\ C \in SUBSET SUBSET T
  BY FS_Subset
<1>1. PICK u \in C : \A v \in C : v \subseteq u => v = u
  <2> HIDE DEF C
  <2> QED BY <1>0, SmallestSet
<1>2. u # {}
  BY <1>1 DEF IsSum
<1>3. Pick(u) \in u
  BY <1>2, Picked
<1>4. u \ {Pick(u)} \notin C
  BY <1>1, <1>3
<1>5. g[u \ {Pick(u)}] = h[u \ {Pick(u)}]
  BY <1>4
<1> QED
  BY <1>1, <1>2, <1>5 DEF IsSum

\* The recursive definition has a solution on the subsets of a finite set: the
\* sum of the least set without one can be defined from those below it.
LEMMA SumsExist ==
  ASSUME NEW S, IsFiniteSet(S), NEW f
  PROVE  \E g : IsSum(g, f, S)
<1> DEFINE C == {T \in SUBSET S : ~\E g : IsSum(g, f, T)}
<1> SUFFICES ASSUME C # {} PROVE FALSE
  OBVIOUS
<1>1. PICK T \in C : \A U \in C : U \subseteq T => U = T
  <2>1. C \in SUBSET SUBSET S
    OBVIOUS
  <2> HIDE DEF C
  <2> QED BY <2>1, SmallestSet
<1> DEFINE H(s) == CHOOSE g : IsSum(g, f, s)
<1>2. ASSUME NEW s \in SUBSET T, s # T PROVE IsSum(H(s), f, s)
  <2>1. \E g : IsSum(g, f, s)
    BY <1>1, <1>2
  <2> QED BY <2>1
<1> DEFINE V(s) == IF s = {} THEN 0 ELSE f[Pick(s)] + H(s \ {Pick(s)})[s \ {Pick(s)}]
           g == [s \in SUBSET T |-> V(s)]
<1>3. ASSUME NEW s \in SUBSET T, s # {} PROVE g[s] = f[Pick(s)] + g[s \ {Pick(s)}]
  <2> DEFINE r == s \ {Pick(s)}
  <2>1. r \in SUBSET T /\ r # T
    BY <1>3, Picked
  <2>2. g[s] = f[Pick(s)] + H(r)[r]
    BY <1>3
  <2>3. g[r] = H(r)[r]
    <3>1. IsSum(H(r), f, r)
      BY <1>2, <2>1
    <3>2. CASE r = {}
      BY <3>1, <3>2, <2>1 DEF IsSum
    <3>3. CASE r # {}
      <4> DEFINE q == r \ {Pick(r)}
      <4>1. Pick(r) \in r
        BY <3>3, Picked
      <4>2. q \in SUBSET T /\ q # T /\ q \in SUBSET r
        BY <4>1, <2>1
      <4>3. IsSum(H(q), f, q)
        BY <1>2, <4>2
      <4>4. IsFiniteSet(r)
        BY <2>1, FS_Subset
      <4>5. H(r)[q] = H(q)[q]
        <5> HIDE DEF H, q, r
        <5> QED BY <3>1, <4>2, <4>3, <4>4, SumsAgree
      <4>6. H(r)[r] = f[Pick(r)] + H(r)[q]
        <5> HIDE DEF H
        <5> QED BY <3>1, <3>3 DEF IsSum
      <4>7. g[r] = f[Pick(r)] + H(q)[q]
        BY <2>1, <3>3
      <4> QED BY <4>5, <4>6, <4>7
    <3> QED BY <3>2, <3>3
  <2> QED BY <2>2, <2>3
<1>4. IsSum(g, f, T)
  <2> DEFINE W(s) == IF s = {} THEN 0 ELSE f[Pick(s)] + g[s \ {Pick(s)}]
  <2>1. \A s \in SUBSET T : g[s] = W(s)
    <3>1. g[{}] = 0
      OBVIOUS
    <3> HIDE DEF g
    <3> QED BY <1>3, <3>1
  <2>2. g = [s \in SUBSET T |-> W(s)]
    <3> HIDE DEF V, W
    <3>1. g = [s \in SUBSET T |-> g[s]]
      OBVIOUS
    <3> QED BY <2>1, <3>1
  <2> HIDE DEF g
  <2> QED BY <2>2 DEF IsSum
<1> QED
  BY <1>1, <1>4

\* The sum of f over S.
SumOf(f, S) == (CHOOSE g : IsSum(g, f, S))[S]

\* The empty sum, and what the first step of a sum leaves to be added.
LEMMA SumStep ==
  ASSUME NEW S, IsFiniteSet(S), NEW f
  PROVE  SumOf(f, S) = IF S = {} THEN 0 ELSE f[Pick(S)] + SumOf(f, S \ {Pick(S)})
<1> DEFINE H(s) == CHOOSE g : IsSum(g, f, s)
           r == S \ {Pick(S)}
<1>1. IsFiniteSet(r) /\ r \in SUBSET S
  BY FS_Subset
<1>2. IsSum(H(S), f, S) /\ IsSum(H(r), f, r)
  <2>1. (\E g : IsSum(g, f, S)) /\ (\E g : IsSum(g, f, r))
    <3> HIDE DEF r
    <3> QED BY <1>1, SumsExist
  <2> HIDE DEF r
  <2> QED BY <2>1
<1>3. H(S)[r] = H(r)[r]
  <2> HIDE DEF H, r
  <2> QED BY <1>1, <1>2, SumsAgree
<1>4. H(S)[S] = IF S = {} THEN 0 ELSE f[Pick(S)] + H(S)[r]
  <2> HIDE DEF H
  <2> QED BY <1>2 DEF IsSum
<1> HIDE DEF r
<1> QED
  BY <1>3, <1>4 DEF SumOf, r

\* A sum of integers is an integer.
LEMMA SumType ==
  ASSUME NEW S, IsFiniteSet(S), NEW f, \A s \in S : f[s] \in Int
  PROVE  SumOf(f, S) \in Int
<1> DEFINE C == {T \in SUBSET S : SumOf(f, T) \notin Int}
<1> SUFFICES ASSUME C # {} PROVE FALSE
  OBVIOUS
<1>1. PICK T \in C : \A U \in C : U \subseteq T => U = T
  <2>1. C \in SUBSET SUBSET S
    OBVIOUS
  <2> HIDE DEF C
  <2> QED BY <2>1, SmallestSet
<1>2. IsFiniteSet(T)
  BY FS_Subset
<1>3. T # {} /\ SumOf(f, T) = f[Pick(T)] + SumOf(f, T \ {Pick(T)})
  <2>1. SumOf(f, T) = IF T = {} THEN 0 ELSE f[Pick(T)] + SumOf(f, T \ {Pick(T)})
    BY <1>2, SumStep
  <2>2. SumOf(f, T) # 0
    BY <1>1
  <2> QED BY <2>1, <2>2
<1>4. Pick(T) \in T
  BY <1>3, Picked
<1>5. SumOf(f, T \ {Pick(T)}) \in Int
  BY <1>1, <1>4
<1>6. f[Pick(T)] \in Int
  BY <1>4
<1> QED
  BY <1>3, <1>5, <1>6

\* Any element can be taken out of a sum, not only the one it begins with.
LEMMA SumRemove ==
  ASSUME NEW S, IsFiniteSet(S), NEW f, \A s \in S : f[s] \in Int, NEW x \in S
  PROVE  SumOf(f, S) = f[x] + SumOf(f, S \ {x})
<1> DEFINE C == {T \in SUBSET S : \E y \in T : SumOf(f, T) # f[y] + SumOf(f, T \ {y})}
<1> SUFFICES ASSUME C # {} PROVE FALSE
  OBVIOUS
<1>1. PICK T \in C : \A U \in C : U \subseteq T => U = T
  <2>1. C \in SUBSET SUBSET S
    OBVIOUS
  <2> HIDE DEF C
  <2> QED BY <2>1, SmallestSet
<1>2. PICK y \in T : SumOf(f, T) # f[y] + SumOf(f, T \ {y})
  BY <1>1
<1> DEFINE p == Pick(T)
           rest == (T \ {p}) \ {y}
<1>3. p \in T
  BY <1>2, Picked
<1>4. IsFiniteSet(T) /\ IsFiniteSet(rest)
  BY FS_Subset
<1>5. SumOf(f, T) = f[p] + SumOf(f, T \ {p})
  BY <1>2, <1>4, SumStep
<1>6. y # p
  BY <1>2, <1>5
<1>7. SumOf(f, T \ {p}) = f[y] + SumOf(f, rest)
  <2>1. T \ {p} \notin C /\ y \in T \ {p}
    BY <1>1, <1>3, <1>6
  <2> QED BY <2>1
<1>8. SumOf(f, T \ {y}) = f[p] + SumOf(f, rest)
  <2>1. T \ {y} \notin C /\ p \in T \ {y}
    BY <1>1, <1>2, <1>3, <1>6
  <2>2. rest = (T \ {y}) \ {p}
    OBVIOUS
  <2> QED BY <2>1, <2>2
<1>9. f[p] \in Int /\ f[y] \in Int /\ SumOf(f, rest) \in Int
  <2>1. \A s \in rest : f[s] \in Int
    OBVIOUS
  <2> HIDE DEF rest
  <2> QED BY <1>3, <1>4, <2>1, SumType
<1> QED
  BY <1>2, <1>5, <1>7, <1>8, <1>9

\* The sum over two disjoint sets is that over the one and that over the other.
LEMMA SumUnion ==
  ASSUME NEW A, IsFiniteSet(A), NEW B, IsFiniteSet(B), A \cap B = {},
         NEW f, \A s \in A \cup B : f[s] \in Int
  PROVE  SumOf(f, A \cup B) = SumOf(f, A) + SumOf(f, B)
<1> DEFINE C == {T \in SUBSET B : SumOf(f, A \cup T) # SumOf(f, A) + SumOf(f, T)}
<1> SUFFICES ASSUME C # {} PROVE FALSE
  OBVIOUS
<1>1. PICK T \in C : \A U \in C : U \subseteq T => U = T
  <2>1. C \in SUBSET SUBSET B
    OBVIOUS
  <2> HIDE DEF C
  <2> QED BY <2>1, SmallestSet
<1>2. IsFiniteSet(T) /\ IsFiniteSet(A \cup T)
  BY FS_Subset, FS_Union
<1>3. SumOf(f, A) \in Int
  BY SumType
<1>4. T # {}
  <2>1. SumOf(f, {}) = 0
    BY FS_EmptySet, SumStep
  <2>2. ASSUME T = {} PROVE FALSE
    <3>1. A \cup T = A /\ SumOf(f, T) = 0
      BY <2>1, <2>2
    <3>2. SumOf(f, A \cup T) # SumOf(f, A) + SumOf(f, T)
      BY <1>1
    <3>3. SumOf(f, A \cup T) = SumOf(f, A)
      BY <3>1
    <3>4. SumOf(f, A) + SumOf(f, T) = SumOf(f, A)
      BY <1>3, <3>1
    <3> HIDE DEF C
    <3> QED BY <3>2, <3>3, <3>4
  <2> QED BY <2>2
<1> DEFINE r == T \ {Pick(T)}
<1>5. Pick(T) \in T
  BY <1>4, Picked
<1>6. SumOf(f, T) = f[Pick(T)] + SumOf(f, r)
  BY <1>2, <1>4, SumStep
<1>7. SumOf(f, A \cup T) = f[Pick(T)] + SumOf(f, A \cup r)
  <2>1. (A \cup T) \ {Pick(T)} = A \cup r
    BY <1>5
  <2>2. \A s \in A \cup T : f[s] \in Int
    OBVIOUS
  <2> HIDE DEF r
  <2> QED BY <1>2, <1>5, <2>1, <2>2, SumRemove
<1>8. SumOf(f, A \cup r) = SumOf(f, A) + SumOf(f, r)
  BY <1>1, <1>5
<1>9. f[Pick(T)] \in Int /\ SumOf(f, r) \in Int
  <2>1. IsFiniteSet(r) /\ \A s \in r : f[s] \in Int
    BY FS_Subset
  <2> HIDE DEF r
  <2> QED BY <1>5, <2>1, SumType
<1> QED
  BY <1>1, <1>3, <1>6, <1>7, <1>8, <1>9

\* Renaming the elements, no two to the same, does not change their sum.
LEMMA SumImage ==
  ASSUME NEW S, IsFiniteSet(S), NEW f, \A s \in S : f[s] \in Int, NEW g, NEW m,
         \A s \in S : g[m[s]] = f[s], \A s, t \in S : m[s] = m[t] => s = t
  PROVE  SumOf(g, {m[s] : s \in S}) = SumOf(f, S)
<1> DEFINE I(T) == {m[s] : s \in T}
           C == {T \in SUBSET S : SumOf(g, I(T)) # SumOf(f, T)}
<1> SUFFICES ASSUME C # {} PROVE FALSE
  OBVIOUS
<1>1. PICK T \in C : \A U \in C : U \subseteq T => U = T
  <2>1. C \in SUBSET SUBSET S
    OBVIOUS
  <2> HIDE DEF C
  <2> QED BY <2>1, SmallestSet
<1>2. IsFiniteSet(T)
  BY FS_Subset
<1>3. IsFiniteSet(I(T))
  <2>1. [s \in T |-> m[s]] \in Surjection(T, I(T))
    BY DEF Surjection
  <2> HIDE DEF I
  <2> QED BY <1>2, <2>1, FS_Surjection
<1>4. T # {}
  BY <1>1, FS_EmptySet, SumStep
<1> DEFINE p == Pick(T)
           r == T \ {p}
<1>5. p \in T
  BY <1>4, Picked
<1>6. SumOf(f, T) = f[p] + SumOf(f, r)
  BY <1>2, <1>4, SumStep
<1>7. I(T) \ {m[p]} = I(r)
  BY <1>5
<1>8. \A u \in I(T) : g[u] \in Int
  OBVIOUS
<1>9. SumOf(g, I(T)) = g[m[p]] + SumOf(g, I(r))
  <2>1. m[p] \in I(T)
    BY <1>5
  <2> HIDE DEF I
  <2>2. SumOf(g, I(T)) = g[m[p]] + SumOf(g, I(T) \ {m[p]})
    <3> HIDE DEF p
    <3> QED BY <1>3, <1>8, <2>1, SumRemove
  <2> QED BY <1>7, <2>2
<1>10. SumOf(g, I(r)) = SumOf(f, r)
  BY <1>1, <1>5
<1> QED
  BY <1>1, <1>5, <1>6, <1>9, <1>10

-----------------------------------------------------------------------------
(***************************************************************************)
(* The sums of the views.                                                  *)
(***************************************************************************)

\* The invoices on file are finitely many, however many there could be.
FiniteFile == IsFiniteSet(Filed)

LEMMA NextFiniteFile == TypeInvariant /\ FiniteFile /\ [Next]_vars => FiniteFile'
<1> SUFFICES ASSUME TypeInvariant, FiniteFile, [Next]_vars PROVE FiniteFile'
  OBVIOUS
<1>1. ASSUME NEW i \in Invoices, NEW b \in Buyers \cup {NoBuyer}, NEW total \in Totals,
             NEW credit \in BOOLEAN, NEW terms \in Terms \cup {NoTerms}, NEW date \in Days,
             File(i, b, total, credit, terms, date)
      PROVE  FiniteFile'
  <2>1. Filed' = Filed \cup {i}
    BY <1>1, FileType
  <2> QED
    BY <2>1, FS_AddElement DEF FiniteFile
<1>2. ASSUME UNCHANGED bill PROVE FiniteFile'
  BY <1>2 DEF FiniteFile, Filed
<1> QED
  BY <1>1, <1>2 DEF Next, vars, UpdateBuyerMeta, NextDay, Submit, CheckBalance, RejectPayment,
     InsertPayment, RollBack

Balances == [i \in Filed |-> Balance(i)]

LEMMA BalancesInt == ASSUME TypeOK PROVE \A i \in Filed : Balances[i] \in Int
<1> SUFFICES ASSUME NEW i \in Filed PROVE Balance(i) \in Int
  BY DEF Balances
<1>1. bill[i].total \in Nat /\ paid[i] \in Nat
  BY BillTotal DEF TypeOK
<1> QED
  BY <1>1 DEF Balance

\* The sum in the summary's columns is the sum of the balances.
LEMMA BalanceSum == ASSUME NEW S \in SUBSET Filed PROVE SumBalance(S) = SumOf(Balances, S)
BY DEF SumBalance, MapThenSumSet, MapThenFoldSet, SumOf, IsSum, Pick, Balances

\* The three late columns of a buyer's open invoices.
LEMMA AgingColumns ==
  ASSUME TypeOK, FiniteFile, NEW S \in SUBSET Filed
  PROVE  LET current == {i \in S : bill[i].due = NoDate \/ bill[i].due >= today}
             overdue == {i \in S : bill[i].due # NoDate /\ bill[i].due < today}
             late == SumBalance(LateBy(S, 1, 30)) + SumBalance(LateBy(S, 31, 60))
                       + SumBalance({i \in S : bill[i].due # NoDate /\ today - bill[i].due > 60})
         IN SumBalance(S) = SumBalance(current) + SumBalance(overdue) /\ SumBalance(overdue) = late
<1> DEFINE current == {i \in S : bill[i].due = NoDate \/ bill[i].due >= today}
           overdue == {i \in S : bill[i].due # NoDate /\ bill[i].due < today}
           one == LateBy(S, 1, 30)
           two == LateBy(S, 31, 60)
           long == {i \in S : bill[i].due # NoDate /\ today - bill[i].due > 60}
<1>1. /\ S = current \cup overdue /\ current \cap overdue = {}
      /\ overdue = one \cup two \cup long
      /\ one \cap two = {} /\ one \cap long = {} /\ two \cap long = {}
  <2> DEFINE late == <<one, two, long>>
  <2>1. /\ S = current \cup overdue /\ current \cap overdue = {}
        /\ overdue = late[1] \cup late[2] \cup late[3]
        /\ \A m, n \in {1, 2, 3} : m # n => late[m] \cap late[n] = {}
    BY AgingSplits
  <2>2. late[1] = one /\ late[2] = two /\ late[3] = long
    OBVIOUS
  <2> HIDE DEF current, overdue, one, two, long, late
  <2> QED
    BY <2>1, <2>2
<1>2. current \in SUBSET Filed /\ overdue \in SUBSET Filed
  OBVIOUS
<1>3. one \in SUBSET Filed /\ two \in SUBSET Filed /\ long \in SUBSET Filed
  BY DEF LateBy
<1> HIDE DEF current, overdue, one, two, long
<1>4. \A A, B \in SUBSET Filed : A \cap B = {} =>
        SumBalance(A \cup B) = SumBalance(A) + SumBalance(B)
  <2> SUFFICES ASSUME NEW A \in SUBSET Filed, NEW B \in SUBSET Filed, A \cap B = {}
               PROVE  SumBalance(A \cup B) = SumBalance(A) + SumBalance(B)
    OBVIOUS
  <2>1. IsFiniteSet(A) /\ IsFiniteSet(B)
    BY FS_Subset DEF FiniteFile
  <2>2. \A i \in A \cup B : Balances[i] \in Int
    BY BalancesInt
  <2>3. SumOf(Balances, A \cup B) = SumOf(Balances, A) + SumOf(Balances, B)
    BY <2>1, <2>2, SumUnion
  <2>4. A \cup B \in SUBSET Filed
    OBVIOUS
  <2>5. SumBalance(A \cup B) = SumOf(Balances, A \cup B)
    BY <2>4, BalanceSum
  <2>6. SumBalance(A) = SumOf(Balances, A) /\ SumBalance(B) = SumOf(Balances, B)
    BY BalanceSum
  <2> QED
    BY <2>3, <2>5, <2>6
<1>5. SumBalance(S) = SumBalance(current) + SumBalance(overdue)
  BY <1>1, <1>2, <1>4
<1>6. SumBalance(overdue) = SumBalance(one \cup two) + SumBalance(long)
  <2>1. one \cup two \in SUBSET Filed /\ (one \cup two) \cap long = {}
    BY <1>1, <1>3
  <2> QED
    BY <1>1, <1>3, <1>4, <2>1
<1>7. SumBalance(one \cup two) = SumBalance(one) + SumBalance(two)
  BY <1>1, <1>3, <1>4
<1> QED
  BY <1>5, <1>6, <1>7 DEF current, overdue, one, two, long

LEMMA SumBalanceInt ==
  ASSUME TypeOK, FiniteFile, NEW S \in SUBSET Filed PROVE SumBalance(S) \in Int
<1>1. IsFiniteSet(S)
  BY FS_Subset DEF FiniteFile
<1>2. \A i \in S : Balances[i] \in Int
  BY BalancesInt
<1> QED
  BY <1>1, <1>2, SumType, BalanceSum

\* The columns of GetReceivablesSummary add up in every state: what a buyer owes
\* is what is current and what is late, and what is overdue is what is late.
THEOREM AgingColumnsAddUp == Spec => []AgingAddsUp
<1>1. TypeOK /\ FiniteFile => AgingAddsUp
  <2> SUFFICES ASSUME TypeOK, FiniteFile, NEW b \in Buyers
               PROVE  LET s == Summary(b) IN
                        /\ s.outstanding = s.current + s.late1To30 + s.late31To60 + s.late60Plus
                        /\ s.overdue = s.late1To30 + s.late31To60 + s.late60Plus
    BY DEF AgingAddsUp
  <2> DEFINE open == {i \in OpenInvoices : bill[i].buyer = b}
             current == {i \in open : bill[i].due = NoDate \/ bill[i].due >= today}
             overdue == {i \in open : bill[i].due # NoDate /\ bill[i].due < today}
             one == LateBy(open, 1, 30)
             two == LateBy(open, 31, 60)
             long == {i \in open : bill[i].due # NoDate /\ today - bill[i].due > 60}
  <2>1. open \in SUBSET Filed
    BY DEF OpenInvoices
  <2>2. /\ SumBalance(open) = SumBalance(current) + SumBalance(overdue)
        /\ SumBalance(overdue) = SumBalance(one) + SumBalance(two) + SumBalance(long)
    <3> HIDE DEF open
    <3> QED
      BY <2>1, AgingColumns
  <2>3. /\ SumBalance(current) \in Int
        /\ SumBalance(one) \in Int /\ SumBalance(two) \in Int /\ SumBalance(long) \in Int
    <3>1. current \in SUBSET Filed /\ one \in SUBSET Filed
          /\ two \in SUBSET Filed /\ long \in SUBSET Filed
      <4> HIDE DEF open
      <4> QED
        BY <2>1 DEF LateBy
    <3> HIDE DEF current, one, two, long
    <3> QED
      BY <3>1, SumBalanceInt
  <2>4. /\ Summary(b).outstanding = SumBalance(open) /\ Summary(b).overdue = SumBalance(overdue)
        /\ Summary(b).current = SumBalance(current) /\ Summary(b).late1To30 = SumBalance(one)
        /\ Summary(b).late31To60 = SumBalance(two) /\ Summary(b).late60Plus = SumBalance(long)
    BY DEF Summary
  <2> HIDE DEF current, overdue, one, two, long, open
  <2> QED
    BY <2>2, <2>3, <2>4
<1>2. Init => FiniteFile
  <2>1. Init => Filed = {}
    BY DEF Init, Filed
  <2> QED
    BY <2>1, FS_EmptySet DEF FiniteFile
<1>3. TypeInvariant => TypeOK
  BY DEF TypeInvariant
<1> QED
  BY <1>1, <1>2, <1>3, InitTypeInvariant, NextTypeInvariant, NextFiniteFile, PTL DEF Spec

\* The lines of a buyer's list stand for the buyer's open invoices, one each:
\* a sum over lines is the sum of the balances.
LEMMA ListSum ==
  ASSUME TypeOK, FiniteFile, NEW S \in SUBSET Filed
  PROVE  MapThenSumSet(LAMBDA r : r.balance,
           {[invoice |-> i, balance |-> Balance(i), daysOverdue |-> DaysOverdue(i)] : i \in S})
           = SumBalance(S)
<1> DEFINE line == [i \in S |->
                      [invoice |-> i, balance |-> Balance(i), daysOverdue |-> DaysOverdue(i)]]
           list == {[invoice |-> i, balance |-> Balance(i), daysOverdue |-> DaysOverdue(i)] : i \in S}
           owed == [r \in list |-> r.balance]
<1>1. list = {line[i] : i \in S}
  OBVIOUS
<1>2. MapThenSumSet(LAMBDA r : r.balance, list) = SumOf(owed, list)
  BY DEF MapThenSumSet, MapThenFoldSet, SumOf, IsSum, Pick
<1>3. SumOf(owed, {line[i] : i \in S}) = SumOf(Balances, S)
  <2>1. IsFiniteSet(S)
    BY FS_Subset DEF FiniteFile
  <2>2. \A i \in S : Balances[i] \in Int
    BY BalancesInt
  <2>3. \A i \in S : owed[line[i]] = Balances[i]
    BY DEF Balances
  <2>4. \A i, j \in S : line[i] = line[j] => i = j
    <3>1. \A i \in S : line[i].invoice = i
      OBVIOUS
    <3> HIDE DEF line
    <3> QED
      BY <3>1
  <2> HIDE DEF owed, line
  <2> QED
    BY <2>1, <2>2, <2>3, <2>4, SumImage
<1>4. SumBalance(S) = SumOf(Balances, S)
  BY BalanceSum
<1> HIDE DEF owed, line, list
<1>5. MapThenSumSet(LAMBDA r : r.balance, list) = SumBalance(S)
  BY <1>1, <1>2, <1>3, <1>4
<1> QED
  BY <1>5 DEF list

\* An invoice is listed with days overdue exactly when its due date has passed.
LEMMA DaysOverdueSign ==
  ASSUME TypeOK, NEW i \in Filed
  PROVE  /\ DaysOverdue(i) > 0 <=> bill[i].due # NoDate /\ bill[i].due < today
         /\ DaysOverdue(i) > 0 => DaysOverdue(i) = today - bill[i].due
<1>1. bill[i].due \in Int \/ bill[i].due = NoDate
  BY DEF TypeOK, Bill
<1>2. today \in Int
  BY DEF TypeOK
<1> QED
  BY <1>1, <1>2 DEF DaysOverdue

\* The summary, the list and the alert feed agree in every state, though each of
\* the three queries finds its invoices in its own words.
THEOREM ViewsAlwaysAgree == Spec => []ViewsAgree
<1>1. TypeOK /\ FiniteFile => ViewsAgree
  <2> SUFFICES ASSUME TypeOK, FiniteFile, NEW b \in Buyers
               PROVE  LET list == Receivables(b)
                          Sum(S) == MapThenSumSet(LAMBDA r : r.balance, S)
                      IN /\ Summary(b).outstanding = Sum(list)
                         /\ Summary(b).overdue = Sum({r \in list : r.daysOverdue > 0})
                         /\ {<<r.invoice, r.daysOverdue>> : r \in {r \in list : r.daysOverdue > 0}}
                              = {<<a.invoice, a.age>> :
                                   a \in {a \in OverdueAlerts : bill[a.invoice].buyer = b}}
    BY DEF ViewsAgree
  <2> DEFINE open == {i \in OpenInvoices : bill[i].buyer = b}
             overdue == {i \in open : bill[i].due # NoDate /\ bill[i].due < today}
             Line(i) == [invoice |-> i, balance |-> Balance(i), daysOverdue |-> DaysOverdue(i)]
             late == {r \in Receivables(b) : r.daysOverdue > 0}
             alerts == {a \in OverdueAlerts : bill[a.invoice].buyer = b}
  <2>1. open \in SUBSET Filed /\ overdue \in SUBSET Filed
    BY DEF OpenInvoices
  <2>2. Receivables(b) = {Line(i) : i \in open}
    BY DEF Receivables
  <2>3. late = {Line(i) : i \in overdue}
    <3>1. \A i \in open : Line(i).daysOverdue > 0 <=> i \in overdue
      BY <2>1, DaysOverdueSign
    <3> HIDE DEF open, overdue, Line
    <3>2. overdue \subseteq open
      BY DEF overdue
    <3> QED
      BY <2>2, <3>1, <3>2
  <2>4. Summary(b).outstanding = MapThenSumSet(LAMBDA r : r.balance, Receivables(b))
    <3>1. Summary(b).outstanding = SumBalance(open)
      BY DEF Summary
    <3> HIDE DEF open
    <3> QED
      BY <2>1, <2>2, <3>1, ListSum
  <2>5. Summary(b).overdue = MapThenSumSet(LAMBDA r : r.balance, late)
    <3>1. Summary(b).overdue = SumBalance(overdue)
      BY DEF Summary
    <3> HIDE DEF overdue, late
    <3> QED
      BY <2>1, <2>3, <3>1, ListSum
  <2>6. {<<r.invoice, r.daysOverdue>> : r \in late} = {<<i, today - bill[i].due>> : i \in overdue}
    <3>1. \A i \in overdue : Line(i).invoice = i /\ Line(i).daysOverdue = today - bill[i].due
      BY <2>1, DaysOverdueSign
    <3> HIDE DEF overdue, late, Line
    <3> QED
      BY <2>3, <3>1
  <2>7. {<<a.invoice, a.age>> : a \in alerts} = {<<i, today - bill[i].due>> : i \in overdue}
    <3> DEFINE Alert(i) == [invoice |-> i, age |-> today - bill[i].due,
                            priority |-> IF today - bill[i].due >= 30 THEN "critical" ELSE "warning"]
               due == {j \in OpenInvoices : bill[j].due # NoDate /\ bill[j].due < today}
    <3>1. OverdueAlerts = {Alert(i) : i \in due}
      BY DEF OverdueAlerts
    <3>2. \A i \in due : Alert(i).invoice = i /\ Alert(i).age = today - bill[i].due
      OBVIOUS
    <3>3. overdue = {i \in due : bill[i].buyer = b}
      OBVIOUS
    <3> HIDE DEF Alert, due, overdue
    <3>4. alerts = {Alert(i) : i \in overdue}
      BY <3>1, <3>2, <3>3
    <3>5. overdue \subseteq due
      BY <3>3
    <3> HIDE DEF alerts
    <3> QED
      BY <3>2, <3>4, <3>5
  <2> HIDE DEF alerts, late, overdue, open, Line
  <2> QED
    BY <2>4, <2>5, <2>6, <2>7 DEF late, alerts
<1>2. Init => FiniteFile
  <2>1. Init => Filed = {}
    BY DEF Init, Filed
  <2> QED
    BY <2>1, FS_EmptySet DEF FiniteFile
<1>3. TypeInvariant => TypeOK
  BY DEF TypeInvariant
<1> QED
  BY <1>1, <1>2, <1>3, InitTypeInvariant, NextTypeInvariant, NextFiniteFile, PTL DEF Spec

-----------------------------------------------------------------------------
(***************************************************************************)
(* What overlapping requests can cost.                                     *)
(***************************************************************************)

\* Sums of functions that agree are equal.
LEMMA SumSame ==
  ASSUME NEW S, IsFiniteSet(S), NEW f, \A s \in S : f[s] \in Int, NEW g,
         \A s \in S : g[s] = f[s]
  PROVE  SumOf(g, S) = SumOf(f, S)
<1> DEFINE m == [s \in S |-> s]
<1>1. (\A s \in S : g[m[s]] = f[s]) /\ \A s, t \in S : m[s] = m[t] => s = t
  OBVIOUS
<1>2. {m[s] : s \in S} = S
  OBVIOUS
<1> HIDE DEF m
<1> QED
  BY <1>1, <1>2, SumImage

LEMMA MoreTimes ==
  ASSUME NEW m \in Nat, NEW n \in Nat, NEW c \in Nat, m <= n
  PROVE  m * c \in Nat /\ m * c <= n * c /\ (m + 1) * c = m * c + c
OBVIOUS

\* A sum of n numbers of c at most is n times c at most.
LEMMA SumBound ==
  ASSUME NEW S, IsFiniteSet(S), NEW c \in Nat, NEW f, \A s \in S : f[s] \in Int /\ f[s] <= c
  PROVE  SumOf(f, S) <= Cardinality(S) * c
<1> DEFINE C == {T \in SUBSET S : ~(SumOf(f, T) <= Cardinality(T) * c)}
<1> SUFFICES ASSUME C # {} PROVE FALSE
  OBVIOUS
<1>1. PICK T \in C : \A U \in C : U \subseteq T => U = T
  <2>1. C \in SUBSET SUBSET S
    OBVIOUS
  <2> HIDE DEF C
  <2> QED BY <2>1, SmallestSet
<1> DEFINE r == T \ {Pick(T)}
<1>2. IsFiniteSet(T) /\ IsFiniteSet(r)
  BY FS_Subset
<1>3. SumOf(f, T) = IF T = {} THEN 0 ELSE f[Pick(T)] + SumOf(f, r)
  BY <1>2, SumStep
<1>4. CASE T = {}
  <2>1. Cardinality(T) * c = 0
    BY <1>4, FS_EmptySet
  <2>2. SumOf(f, T) = 0
    BY <1>3, <1>4
  <2> QED BY <1>1, <2>1, <2>2
<1>5. CASE T # {}
  <2>1. Pick(T) \in T
    BY <1>5, Picked
  <2>2. SumOf(f, r) <= Cardinality(r) * c
    BY <1>1, <2>1
  <2>3. Cardinality(r) \in Nat /\ Cardinality(T) = Cardinality(r) + 1
    <3>1. Cardinality(T) \in Nat /\ Cardinality(r) \in Nat
      BY <1>2, FS_CardinalityType
    <3>2. Cardinality(r) = Cardinality(T) - 1
      BY <1>2, <2>1, FS_RemoveElement
    <3> QED BY <3>1, <3>2
  <2>4. Cardinality(T) * c = Cardinality(r) * c + c /\ Cardinality(r) * c \in Nat
    BY <2>3, MoreTimes
  <2>5. SumOf(f, r) \in Int
    <3>1. \A s \in r : f[s] \in Int
      OBVIOUS
    <3> HIDE DEF r
    <3> QED BY <1>2, <3>1, SumType
  <2>6. f[Pick(T)] \in Int /\ f[Pick(T)] <= c
    BY <2>1
  <2>7. ~(SumOf(f, T) <= Cardinality(T) * c)
    BY <1>1
  <2> HIDE DEF r, C
  <2> QED BY <1>3, <1>5, <2>2, <2>4, <2>5, <2>6, <2>7
<1> QED
  BY <1>4, <1>5

\* A part of a sum of natural numbers is at most the whole.
LEMMA SumPart ==
  ASSUME NEW S, IsFiniteSet(S), NEW T \in SUBSET S, NEW f, \A s \in S : f[s] \in Nat
  PROVE  SumOf(f, T) <= SumOf(f, S) /\ SumOf(f, T) \in Nat
<1>1. ASSUME NEW R \in SUBSET S PROVE SumOf(f, R) \in Nat
  <2> DEFINE C == {U \in SUBSET S : SumOf(f, U) \notin Nat}
  <2> SUFFICES ASSUME C # {} PROVE FALSE
    OBVIOUS
  <2>1. PICK U \in C : \A V \in C : V \subseteq U => V = U
    <3>1. C \in SUBSET SUBSET S
      OBVIOUS
    <3> HIDE DEF C
    <3> QED BY <3>1, SmallestSet
  <2>2. IsFiniteSet(U)
    BY FS_Subset
  <2>3. SumOf(f, U) = IF U = {} THEN 0 ELSE f[Pick(U)] + SumOf(f, U \ {Pick(U)})
    BY <2>2, SumStep
  <2>4. SumOf(f, U) \notin Nat
    BY <2>1
  <2>5. U # {} /\ Pick(U) \in U
    BY <2>3, <2>4, Picked
  <2>6. SumOf(f, U \ {Pick(U)}) \in Nat /\ f[Pick(U)] \in Nat
    BY <2>1, <2>5
  <2> QED BY <2>3, <2>4, <2>5, <2>6
<1>2. IsFiniteSet(T) /\ IsFiniteSet(S \ T) /\ T \cap (S \ T) = {} /\ T \cup (S \ T) = S
  BY FS_Subset
<1>3. SumOf(f, T \cup (S \ T)) = SumOf(f, T) + SumOf(f, S \ T)
  BY <1>2, SumUnion
<1>4. SumOf(f, T) \in Nat /\ SumOf(f, S \ T) \in Nat
  BY <1>1
<1>5. SumOf(f, S) = SumOf(f, T) + SumOf(f, S \ T)
  BY <1>2, <1>3
<1> QED
  BY <1>4, <1>5

\* The payments of an invoice that have passed the check and are not inserted.
Pending(i) == {t \in Tellers : request[t].at = "insert" /\ request[t].invoice = i}

Asked == [t \in Tellers |-> request[t].amount]

Ceiling(i) == bill[i].total + Tolerance

\* What is paid and what has passed the check: as often the total as there are
\* tellers at most.  Each passed the check alone.
Stacked ==
  /\ TypeInvariant
  /\ \A i \in Invoices \ Filed : paid[i] = 0
  /\ \A i \in Filed : \A t \in Pending(i) : request[t].amount <= Ceiling(i)
  /\ \A i \in Filed :
       paid[i] + SumOf(Asked, Pending(i)) <= Cardinality(Tellers) * Ceiling(i)

LEMMA StackTypes ==
  ASSUME TypeInvariant, IsFiniteSet(Tellers), NEW i \in Filed
  PROVE  /\ paid[i] \in Nat /\ bill[i].total \in Nat /\ Ceiling(i) \in Nat /\ i \in Invoices
         /\ IsFiniteSet(Pending(i)) /\ Cardinality(Tellers) \in Nat
         /\ \A t \in Pending(i) : Asked[t] \in Nat /\ Asked[t] = request[t].amount
         /\ SumOf(Asked, Pending(i)) \in Nat
<1>1. paid[i] \in Nat /\ bill[i].total \in Nat /\ i \in Invoices
  BY BillTotal DEF TypeInvariant, TypeOK
<1>2. IsFiniteSet(Pending(i)) /\ Cardinality(Tellers) \in Nat
  BY FS_Subset, FS_CardinalityType DEF Pending
<1>3. \A t \in Pending(i) : Asked[t] \in Nat /\ Asked[t] = request[t].amount
  BY DEF Pending, Asked, TypeInvariant, TypeOK, RequestsValid, Request
<1>4. SumOf(Asked, Pending(i)) \in Nat
  BY <1>2, <1>3, SumPart
<1> QED
  BY <1>1, <1>2, <1>3, <1>4 DEF Ceiling, Tolerance

\* Requests that go away, or wait for their check, leave it as it is.
LEMMA QuietStack ==
  ASSUME Stacked, TypeInvariant', IsFiniteSet(Tellers), UNCHANGED <<bill, paid>>,
         \A t \in Tellers : request'[t].at = "insert" => request'[t] = request[t]
  PROVE  Stacked'
<1>1. TypeInvariant /\ Filed' = Filed
  BY DEF Stacked, Filed
<1>2. ASSUME NEW i \in Filed
      PROVE  /\ \A t \in Pending(i)' : request'[t].amount <= Ceiling(i)'
             /\ paid'[i] + SumOf(Asked', Pending(i)') <= Cardinality(Tellers) * Ceiling(i)'
  <2>1. Pending(i)' \subseteq Pending(i) /\ Ceiling(i)' = Ceiling(i)
    BY DEF Pending, Ceiling
  <2>2. \A t \in Pending(i)' : Asked'[t] = Asked[t] /\ request'[t] = request[t]
    BY DEF Pending, Asked
  <2>3. IsFiniteSet(Pending(i)') /\ \A t \in Pending(i)' : Asked[t] \in Int
    BY <1>1, <2>1, StackTypes, FS_Subset
  <2>4. SumOf(Asked', Pending(i)') = SumOf(Asked, Pending(i)')
    BY <2>2, <2>3, SumSame
  <2>5. SumOf(Asked, Pending(i)') <= SumOf(Asked, Pending(i)) /\ SumOf(Asked, Pending(i)') \in Nat
    BY <1>1, <2>1, StackTypes, SumPart
  <2>6. /\ paid[i] \in Nat /\ SumOf(Asked, Pending(i)) \in Nat
        /\ Cardinality(Tellers) * Ceiling(i) \in Nat
    BY <1>1, StackTypes
  <2>7. paid[i] + SumOf(Asked, Pending(i)) <= Cardinality(Tellers) * Ceiling(i)
    BY DEF Stacked
  <2>8. \A t \in Pending(i)' : request'[t].amount <= Ceiling(i)'
    BY <2>1, <2>2 DEF Stacked
  <2>9. paid'[i] = paid[i]
    OBVIOUS
  <2> QED
    BY <2>1, <2>4, <2>5, <2>6, <2>7, <2>8, <2>9
<1>3. \A i \in Invoices \ Filed' : paid'[i] = 0
  BY <1>1 DEF Stacked
<1> QED
  BY <1>1, <1>2, <1>3 DEF Stacked

LEMMA FileStack ==
  ASSUME Stacked, IsFiniteSet(Tellers), NEW i \in Invoices, NEW b \in Buyers \cup {NoBuyer},
         NEW total \in Totals, NEW credit \in BOOLEAN, NEW terms \in Terms \cup {NoTerms},
         NEW date \in Days, File(i, b, total, credit, terms, date)
  PROVE  Stacked'
<1>1. TypeInvariant /\ i \notin Filed /\ paid' = paid /\ request' = request
  BY DEF Stacked, File
<1>2. TypeInvariant' /\ Filed' = Filed \cup {i} /\ \A j \in Filed : bill'[j] = bill[j]
  BY <1>1, FileType
<1>3. \A j \in Filed : Ceiling(j)' = Ceiling(j)
  BY <1>2 DEF Ceiling
<1>4. Asked' = Asked /\ \A j : Pending(j)' = Pending(j)
  BY <1>1 DEF Asked, Pending
<1>5. Pending(i) = {}
  BY <1>1 DEF Pending, TypeInvariant, RequestsValid
<1>6. paid[i] + SumOf(Asked, Pending(i)) <= Cardinality(Tellers) * Ceiling(i)'
  <2>1. SumOf(Asked, Pending(i)) = 0
    BY <1>5, FS_EmptySet, SumStep
  <2>2. paid[i] = 0
    BY <1>1 DEF Stacked
  <2>3. Ceiling(i)' \in Nat
    <3>1. bill'[i].total \in Nat
      BY <1>2, BillTotal DEF TypeInvariant, TypeOK, Bill
    <3> QED BY <3>1 DEF Ceiling, Tolerance
  <2>4. Cardinality(Tellers) \in Nat
    BY FS_CardinalityType
  <2>5. 0 <= Cardinality(Tellers) * Ceiling(i)'
    BY <2>3, <2>4
  <2> QED BY <2>1, <2>2, <2>5
<1>7. \A j \in Filed' : paid'[j] + SumOf(Asked', Pending(j)') <= Cardinality(Tellers) * Ceiling(j)'
  BY <1>1, <1>2, <1>3, <1>4, <1>6 DEF Stacked
<1>8. \A j \in Filed' : \A t \in Pending(j)' : request'[t].amount <= Ceiling(j)'
  BY <1>1, <1>2, <1>3, <1>4, <1>5 DEF Stacked
<1>9. \A j \in Invoices \ Filed' : paid'[j] = 0
  BY <1>1, <1>2 DEF Stacked
<1> QED
  BY <1>2, <1>7, <1>8, <1>9 DEF Stacked

\* The check compares with what is paid alone; the others that have passed it
\* were below the total too, and there is one teller fewer of them.
LEMMA CheckStack ==
  ASSUME Stacked, TypeInvariant', IsFiniteSet(Tellers), NEW t \in Tellers, CheckBalance(t)
  PROVE  Stacked'
<1>0. request[t].invoice \in Filed /\ request[t].amount \in Nat
  BY DEF Stacked, CheckBalance, TypeInvariant, TypeOK, RequestsValid, Request
<1> PICK i \in Filed, amount \in Nat : i = request[t].invoice /\ amount = request[t].amount
  BY <1>0
<1> DEFINE p == Pending(i)
           K == Cardinality(Tellers)
<1>1. TypeInvariant /\ i \in Filed /\ amount \in Nat /\ UNCHANGED <<bill, paid>> /\ Filed' = Filed
  BY DEF Stacked, CheckBalance, Filed
<1>2. /\ request'[t].at = "insert" /\ request'[t].invoice = i /\ request'[t].amount = amount
      /\ \A u \in Tellers : u # t => request'[u] = request[u]
      /\ request[t].at = "check"
  BY <1>1 DEF CheckBalance, TypeInvariant, TypeOK, Request
<1>3. Asked' = Asked
  BY <1>2 DEF Asked
<1>4. Pending(i)' = p \cup {t} /\ t \notin p
  BY <1>2 DEF Pending
<1>5. \A j \in Filed : j # i => Pending(j)' = Pending(j)
  BY <1>2 DEF Pending
<1>6. \A j \in Filed : Ceiling(j)' = Ceiling(j)
  BY <1>1 DEF Ceiling
<1>7. /\ paid[i] \in Nat /\ bill[i].total \in Nat /\ Ceiling(i) \in Nat /\ IsFiniteSet(p) /\ K \in Nat
      /\ \A u \in p : Asked[u] \in Nat /\ Asked[u] = request[u].amount
      /\ SumOf(Asked, p) \in Nat
  BY <1>1, StackTypes
<1>8. paid[i] + amount <= Ceiling(i)
  <2>1. ~(amount > bill[i].total - paid[i] + Tolerance)
    BY DEF CheckBalance, Exceeds, Balance
  <2> QED BY <1>1, <1>7, <2>1 DEF Ceiling, Tolerance
<1>9. Asked[t] = amount
  BY DEF Asked
<1> HIDE DEF p, K
<1>10. SumOf(Asked, p \cup {t}) = amount + SumOf(Asked, p)
  <2>1. IsFiniteSet(p \cup {t}) /\ (p \cup {t}) \ {t} = p
    BY <1>4, <1>7, FS_AddElement
  <2>2. \A u \in p \cup {t} : Asked[u] \in Int
    BY <1>1, <1>7, <1>9
  <2> QED BY <1>9, <2>1, <2>2, SumRemove
<1>11. SumOf(Asked, p) <= Cardinality(p) * Ceiling(i)
  <2>1. \A u \in p : Asked[u] \in Int /\ Asked[u] <= Ceiling(i)
    BY <1>1, <1>7 DEF Stacked, p
  <2> QED BY <1>7, <2>1, SumBound
<1>12. Cardinality(p) * Ceiling(i) + Ceiling(i) <= K * Ceiling(i)
  <2>1. Cardinality(p) \in Nat /\ Cardinality(p \cup {t}) = Cardinality(p) + 1
    BY <1>4, <1>7, FS_CardinalityType, FS_AddElement
  <2>2. p \cup {t} \in SUBSET Tellers
    BY DEF p, Pending
  <2>3. Cardinality(p \cup {t}) <= K
    BY <2>2, FS_Subset DEF K
  <2>4. (Cardinality(p) + 1) * Ceiling(i) <= K * Ceiling(i)
        /\ (Cardinality(p) + 1) * Ceiling(i) = Cardinality(p) * Ceiling(i) + Ceiling(i)
    <3>1. Cardinality(p) + 1 \in Nat /\ Cardinality(p) + 1 <= K
      BY <2>1, <2>3
    <3>2. (Cardinality(p) + 1) * Ceiling(i) <= K * Ceiling(i)
      BY <1>7, <3>1, MoreTimes
    <3>3. (Cardinality(p) + 1) * Ceiling(i) = Cardinality(p) * Ceiling(i) + Ceiling(i)
      BY <1>7, <2>1, MoreTimes
    <3> QED BY <3>2, <3>3
  <2> QED BY <2>4
<1>13. Cardinality(p) * Ceiling(i) \in Nat /\ K * Ceiling(i) \in Nat
  BY <1>7, FS_CardinalityType
<1>14. paid[i] + SumOf(Asked, p \cup {t}) <= K * Ceiling(i)
  BY <1>1, <1>7, <1>8, <1>10, <1>11, <1>12, <1>13
<1>15. ASSUME NEW j \in Filed
       PROVE  /\ paid'[j] + SumOf(Asked', Pending(j)') <= K * Ceiling(j)'
              /\ \A u \in Pending(j)' : request'[u].amount <= Ceiling(j)'
  <2>1. CASE j = i
    <3>1. \A u \in p \cup {t} : request'[u].amount <= Ceiling(i)
      <4>1. amount <= Ceiling(i)
        BY <1>1, <1>7, <1>8
      <4>2. \A u \in p : request[u].amount <= Ceiling(i)
        BY <1>1 DEF Stacked, p
      <4>3. \A u \in p : u \in Tellers /\ u # t
        BY <1>4 DEF p, Pending
      <4> QED BY <1>2, <4>1, <4>2, <4>3
    <3> QED BY <1>1, <1>3, <1>4, <1>6, <1>14, <2>1, <3>1
  <2>2. CASE j # i
    <3>1. \A u \in Pending(j) : u \in Tellers /\ u # t
      BY <1>2 DEF Pending
    <3> QED BY <1>1, <1>2, <1>3, <1>5, <1>6, <2>2, <3>1 DEF Stacked, K
  <2> QED BY <2>1, <2>2
<1>16. \A j \in Invoices \ Filed' : paid'[j] = 0
  BY <1>1 DEF Stacked
<1> QED
  BY <1>1, <1>15, <1>16 DEF Stacked, K

\* What is inserted was counted before.
LEMMA InsertStack ==
  ASSUME Stacked, TypeInvariant', IsFiniteSet(Tellers), NEW t \in Tellers, InsertPayment(t)
  PROVE  Stacked'
<1>0. request[t].invoice \in Filed /\ request[t].amount \in Nat
  BY DEF Stacked, InsertPayment, TypeInvariant, TypeOK, RequestsValid, Request
<1> PICK i \in Filed, amount \in Nat : i = request[t].invoice /\ amount = request[t].amount
  BY <1>0
<1> DEFINE p == Pending(i)
<1>1. TypeInvariant /\ i \in Filed /\ amount \in Nat /\ bill' = bill /\ Filed' = Filed /\ i \in Invoices
  BY DEF Stacked, InsertPayment, TypeInvariant, TypeOK, Filed
<1>2. /\ request'[t].at = "idle" /\ request[t].at = "insert"
      /\ \A u \in Tellers : u # t => request'[u] = request[u]
  BY <1>1 DEF InsertPayment, Finish, IdleRequest, TypeInvariant, TypeOK
<1>3. paid'[i] = paid[i] + amount /\ \A j \in Invoices : j # i => paid'[j] = paid[j]
  BY <1>1 DEF InsertPayment, TypeInvariant, TypeOK
<1>4. t \in p /\ Pending(i)' = p \ {t} /\ \A j \in Filed : j # i => Pending(j)' = Pending(j)
  BY <1>2 DEF Pending
<1>5. \A j \in Filed : Ceiling(j)' = Ceiling(j) /\ \A u \in Pending(j)' : u \in Pending(j) /\ u # t
  BY <1>1, <1>2 DEF Ceiling, Pending
<1>6. \A j \in Filed : \A u \in Pending(j)' : Asked'[u] = Asked[u] /\ request'[u] = request[u]
  BY <1>2, <1>5 DEF Asked, Pending
<1>7. ASSUME NEW j \in Filed PROVE SumOf(Asked', Pending(j)') = SumOf(Asked, Pending(j)')
  <2>1. IsFiniteSet(Pending(j)') /\ \A u \in Pending(j)' : Asked[u] \in Int
    <3>1. Pending(j)' \in SUBSET Pending(j)
      BY <1>5
    <3> QED BY <1>1, <3>1, StackTypes, FS_Subset
  <2> QED BY <1>6, <2>1, SumSame
<1>8. SumOf(Asked, p) = amount + SumOf(Asked, p \ {t}) /\ SumOf(Asked, p \ {t}) \in Nat /\ paid[i] \in Nat
  <2>1. IsFiniteSet(p) /\ (\A u \in p : Asked[u] \in Nat) /\ paid[i] \in Nat
    BY <1>1, StackTypes
  <2>2. Asked[t] = amount
    BY DEF Asked
  <2>3. SumOf(Asked, p) = Asked[t] + SumOf(Asked, p \ {t})
    <3> HIDE DEF p
    <3> QED BY <1>4, <2>1, SumRemove
  <2>4. SumOf(Asked, p \ {t}) \in Nat
    <3> HIDE DEF p
    <3> QED BY <2>1, SumPart
  <2> QED BY <2>1, <2>2, <2>3, <2>4
<1> HIDE DEF p
<1>9. ASSUME NEW j \in Filed
      PROVE  /\ paid'[j] + SumOf(Asked', Pending(j)') <= Cardinality(Tellers) * Ceiling(j)'
             /\ \A u \in Pending(j)' : request'[u].amount <= Ceiling(j)'
  <2>1. \A u \in Pending(j)' : request'[u].amount <= Ceiling(j)'
    BY <1>5, <1>6 DEF Stacked
  <2>2. paid[j] + SumOf(Asked, Pending(j)) <= Cardinality(Tellers) * Ceiling(j)
    BY DEF Stacked
  <2>3. paid'[j] + SumOf(Asked, Pending(j)') = paid[j] + SumOf(Asked, Pending(j))
    <3>1. CASE j = i
      <4>1. SumOf(Asked, Pending(j)) = amount + SumOf(Asked, Pending(j)')
        BY <1>4, <1>8, <3>1 DEF p
      <4>2. paid'[j] = paid[j] + amount /\ paid[j] \in Nat /\ SumOf(Asked, Pending(j)') \in Nat
        BY <1>3, <1>4, <1>8, <3>1
      <4> QED BY <1>1, <4>1, <4>2
    <3>2. CASE j # i
      BY <1>1, <1>3, <1>4, <3>2 DEF TypeInvariant, TypeOK
    <3> QED BY <3>1, <3>2
  <2> QED BY <1>5, <1>7, <2>1, <2>2, <2>3
<1>10. \A j \in Invoices \ Filed' : paid'[j] = 0
  BY <1>1, <1>3 DEF Stacked
<1> QED
  BY <1>1, <1>9, <1>10 DEF Stacked

LEMMA InitStacked == Init /\ IsFiniteSet(Tellers) => Stacked
<1>1. Init => Filed = {}
  BY DEF Init, Filed
<1> QED
  BY <1>1, InitTypeInvariant DEF Init, Stacked

LEMMA NextStacked == Stacked /\ IsFiniteSet(Tellers) /\ [Next]_vars => Stacked'
<1> SUFFICES ASSUME Stacked, IsFiniteSet(Tellers), [Next]_vars PROVE Stacked'
  OBVIOUS
<1>1. TypeInvariant /\ TypeInvariant'
  BY NextTypeInvariant DEF Stacked
<1>2. ASSUME NEW i \in Invoices, NEW b \in Buyers \cup {NoBuyer}, NEW total \in Totals,
             NEW credit \in BOOLEAN, NEW terms \in Terms \cup {NoTerms}, NEW date \in Days,
             File(i, b, total, credit, terms, date)
      PROVE  Stacked'
  BY <1>2, FileStack
<1>3. ASSUME NEW b \in Buyers, NEW terms \in Terms, UpdateBuyerMeta(b, terms) PROVE Stacked'
  BY <1>1, <1>3, QuietStack DEF UpdateBuyerMeta
<1>4. ASSUME NextDay PROVE Stacked'
  BY <1>1, <1>4, QuietStack DEF NextDay
<1>5. ASSUME NEW t \in Tellers, NEW i \in Invoices, NEW amount \in Amounts, Submit(t, i, amount)
      PROVE  Stacked'
  BY <1>1, <1>5, QuietStack DEF Submit, TypeInvariant, TypeOK
<1>6. ASSUME NEW t \in Tellers, RejectPayment(t) \/ RollBack(t) PROVE Stacked'
  BY <1>1, <1>6, QuietStack DEF RejectPayment, RollBack, Finish, IdleRequest, TypeInvariant, TypeOK
<1>7. ASSUME NEW t \in Tellers, CheckBalance(t) PROVE Stacked'
  BY <1>1, <1>7, CheckStack
<1>8. ASSUME NEW t \in Tellers, InsertPayment(t) PROVE Stacked'
  BY <1>1, <1>8, InsertStack
<1>9. CASE UNCHANGED vars
  BY <1>1, <1>9, QuietStack DEF vars
<1> QED
  BY <1>2, <1>3, <1>4, <1>5, <1>6, <1>7, <1>8, <1>9 DEF Next

\* However requests overlap, an invoice is paid as often as there are requests
\* in flight at most: each payment passed the check of CreatePayment against
\* what was paid, but not against the others that had passed it.
THEOREM OverlapsAreBounded ==
  ASSUME IsFiniteSet(Tellers)
  PROVE  Spec => []OverpaymentBounded
<1>1. Stacked => OverpaymentBounded
  <2> SUFFICES ASSUME Stacked, NEW i \in Filed
               PROVE  paid[i] <= Cardinality(Tellers) * Ceiling(i)
    BY DEF Ceiling, OverpaymentBounded
  <2>1. /\ paid[i] \in Nat /\ SumOf(Asked, Pending(i)) \in Nat
        /\ Cardinality(Tellers) * Ceiling(i) \in Nat
    BY StackTypes DEF Stacked
  <2>2. paid[i] + SumOf(Asked, Pending(i)) <= Cardinality(Tellers) * Ceiling(i)
    BY DEF Stacked
  <2> QED BY <2>1, <2>2
<1> QED
  BY <1>1, InitStacked, NextStacked, PTL DEF Spec
=============================================================================
