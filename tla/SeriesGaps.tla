------------------------------ MODULE SeriesGaps ------------------------------
(***************************************************************************)
(* Gaps in the invoice numbers of one selling entity: uploads stamp a      *)
(* series on each invoice, the worker's periodic scan flags numbers that   *)
(* should exist and clears those filed late, people settle what it flags.  *)
(*                                                                         *)
(* An invoice number is what splitSequence makes of it: the prefix, the    *)
(* length of the trailing run of digits (0 when there is none) and its     *)
(* value.  Each call of the repository is one step; a failing one is       *)
(* logged and the scan goes on.                                            *)
(***************************************************************************)
EXTENDS Naturals, FiniteSets

CONSTANTS
  Paper,      \* the invoice numbers a client can file
  Series,     \* series prefixes that can be registered or supplied
  NoSeries,   \* no series
  Begins,     \* Begins[s]: the papers that begin with prefix s, whatever the case
  Length,     \* Length[s]: the characters of prefix s
  Prefix,     \* what can stand before the digits
  MinNumber,  \* bound: the numbers printed,
  MaxNumber,  \*   from the first to the last
  MaxWidth,   \* bound: digits printed
  Digits,     \* Digits[n]: the digits of n printed without padding
  Worker,     \* worker processes, each with its scan loop
  MaxUploads, \* bound: uploads under way at once
  MaxFiled,   \* bound: invoices on file
  MaxFaults   \* bound: failed calls and killed workers

Number == MinNumber .. MaxNumber
Text == [prefix : Prefix, width : 0 .. MaxWidth, number : Number]

ASSUME PaperAssumption == Paper \subseteq Text
ASSUME NoSeriesAssumption == NoSeries \notin Series
ASSUME NumberAssumption ==
  /\ MinNumber \in Nat /\ MaxNumber \in Nat /\ MaxWidth \in Nat
  /\ Digits \in [Number -> 1 .. MaxWidth]
ASSUME SeriesAssumption == Begins \in [Series -> SUBSET Paper] /\ Length \in [Series -> Nat]
ASSUME BoundAssumption == MaxUploads \in Nat /\ MaxFiled \in Nat /\ MaxFaults \in Nat

VARIABLES
  filed,     \* [text, series] of the invoices on file
  registry,  \* the prefixes in invoice_series_registry
  stamping,  \* uploads whose series is settled and whose row is not written
  gaps,      \* the rows of missing_invoice_numbers: status of each [series, text]
  scan,      \* the scan of each worker
  judged,    \* history: what a person last made of a row
  faults     \* failures so far

stored == <<filed, registry, stamping, gaps, judged>>
vars == <<stored, scan, faults>>

Invoice == [text : Text, series : Series \cup {NoSeries}]
Row == [series : Series, text : Text]
Status == {"open", "resolved", "not_applicable"}

\* left: series still to be read; seen: the invoices read for series;
\* flag: missing numbers still to be raised; clear: seen invoices still to be cleared.
Scan ==
  [at : {"idle", "list", "flag", "clear"}, left : SUBSET Series, series : Series \cup {NoSeries},
   seen : SUBSET Text, flag : SUBSET Number, clear : SUBSET Text]

Idle ==
  [at |-> "idle", left |-> {}, series |-> NoSeries, seen |-> {}, flag |-> {}, clear |-> {}]

TypeOK ==
  /\ filed \subseteq Invoice
  /\ registry \subseteq Series
  /\ stamping \subseteq Invoice
  /\ DOMAIN gaps \subseteq Row
  /\ gaps \in [DOMAIN gaps -> Status]
  /\ scan \in [Worker -> Scan]
  /\ DOMAIN judged \subseteq DOMAIN gaps
  /\ judged \in [DOMAIN judged -> Status \ {"open"}]
  /\ faults \in 0 .. MaxFaults

Init ==
  /\ filed = {} /\ registry = {} /\ stamping = {}
  /\ gaps = << >> /\ judged = << >>
  /\ scan = [w \in Worker |-> Idle]
  /\ faults = 0

Fault == faults < MaxFaults /\ faults' = faults + 1

-----------------------------------------------------------------------------
(* Master data and uploads. *)

RegisterSeries(s) ==
  /\ registry' = registry \cup {s}
  /\ UNCHANGED <<filed, stamping, gaps, judged, scan, faults>>

DeleteSeries(s) ==
  /\ s \in registry
  /\ registry' = registry \ {s}
  /\ UNCHANGED <<filed, stamping, gaps, judged, scan, faults>>

\* The registered prefixes of a number, the longest of them.
ResolveSeries(text) ==
  LET matching == {s \in registry : text \in Begins[s]}
  IN {s \in matching : \A t \in matching : Length[t] <= Length[s]}

\* The client's series wins; an unknown prefix, or a failing lookup, leaves none.
StampSeries(text, supplied) ==
  /\ Cardinality(stamping) < MaxUploads
  /\ Cardinality(filed \cup stamping) < MaxFiled
  /\ \E series \in Series \cup {NoSeries} :
       /\ \/ supplied # NoSeries /\ series = supplied /\ UNCHANGED faults
          \/ supplied = NoSeries /\ series \in ResolveSeries(text) /\ UNCHANGED faults
          \/ supplied = NoSeries /\ ResolveSeries(text) = {} /\ series = NoSeries /\ UNCHANGED faults
          \/ supplied = NoSeries /\ series = NoSeries /\ Fault
       /\ stamping' = stamping \cup {[text |-> text, series |-> series]}
  /\ UNCHANGED <<filed, registry, gaps, judged, scan>>

CreateInvoice(invoice) ==
  /\ filed' = filed \cup {invoice}
  /\ stamping' = stamping \ {invoice}
  /\ UNCHANGED <<registry, gaps, judged, scan, faults>>

-----------------------------------------------------------------------------
(* The scan. *)

Of(s) == {i.text : i \in {j \in filed : j.series = s}}

Numeric(texts) == {t \in texts : t.width > 0}
Present(texts) == {t.number : t \in Numeric(texts)}

\* Mutant: the series-less invoices make a series too.
AllSeries == {i.series : i \in filed}

\* ListDistinctEntitySeries: the invoices without a series are left out.
DistinctSeries == {i.series : i \in filed} \ {NoSeries}

BeginScan(w) ==
  /\ scan[w].at = "idle"
  /\ scan' = [scan EXCEPT ![w] =
       [Idle EXCEPT !.at = "list", !.left = DistinctSeries]]
  /\ UNCHANGED <<stored, faults>>

\* Mutant: the scan flags one number past the highest.
MissingAndNext(texts) ==
  {n \in Number \ Present(texts) :
     \E low, high \in Present(texts) : low < n /\ n <= high + 1}

\* Every number between the lowest and the highest seen that is not itself seen.
MissingNumbers(texts) ==
  {n \in Number \ Present(texts) :
     \E low, high \in Present(texts) : low < n /\ n < high}

\* Mutant: a series without gaps is left at once.
WorthIfGap(texts) == MissingNumbers(texts) # {}

\* Mutant: two numbers are held too few.
WorthIfMany(texts) == Cardinality(Numeric(texts)) > 2

\* Fewer than two numbers are nothing to compare, and nothing is cleared either.
Worth(texts) == \E t, u \in Numeric(texts) : t # u

ReadSeries(w, s) ==
  /\ scan[w].at = "list"
  /\ LET seen == Of(s)
     IN scan' = [scan EXCEPT ![w] =
          IF Worth(seen)
            THEN [at |-> "flag", left |-> scan[w].left \ {s}, series |-> s, seen |-> seen,
                  flag |-> MissingNumbers(seen), clear |-> seen]
            ELSE [scan[w] EXCEPT !.left = @ \ {s}]]
  /\ UNCHANGED <<stored, faults>>

SkipSeries(w, s) ==
  /\ scan[w].at = "list"
  /\ scan' = [scan EXCEPT ![w].left = @ \ {s}]
  /\ Fault
  /\ UNCHANGED stored

\* The invoices seen with the highest number below n; the sort is not stable,
\* so that any of them can come last.
Nearest(texts, n) ==
  {t \in Numeric(texts) :
     /\ t.number < n
     /\ \A u \in Numeric(texts) : u.number < n => u.number <= t.number}

\* %0*d pads to the width of the neighbour, and never cuts.
PrintLike(neighbour, n) ==
  [prefix |-> neighbour.prefix, number |-> n,
   width |-> IF neighbour.width < Digits[n] THEN Digits[n] ELSE neighbour.width]

\* Mutant: the row found is opened again.
RaiseAgain(row) ==
  gaps' = [g \in DOMAIN gaps \cup {row} |-> IF g = row THEN "open" ELSE gaps[g]]

\* ON CONFLICT DO NOTHING, whatever the status of the row.
Raise(row) ==
  gaps' = [g \in DOMAIN gaps \cup {row} |-> IF g \in DOMAIN gaps THEN gaps[g] ELSE "open"]

\* The numbers go up; a failing insert is logged.
FlagNumber(w, n) ==
  /\ scan[w].at = "flag"
  /\ \A k \in scan[w].flag : n <= k
  /\ \/ /\ \E t \in Nearest(scan[w].seen, n) :
             Raise([series |-> scan[w].series, text |-> PrintLike(t, n)])
        /\ UNCHANGED faults
     \/ Fault /\ UNCHANGED gaps
  /\ scan' = [scan EXCEPT ![w].flag = @ \ {n}]
  /\ UNCHANGED <<filed, registry, stamping, judged>>

EndFlags(w) ==
  /\ scan[w].at = "flag"
  /\ scan[w].flag = {}
  /\ scan' = [scan EXCEPT ![w].at = "clear"]
  /\ UNCHANGED <<stored, faults>>

\* ResolveMissingInvoiceNumberIfFiled: an open row with this very text.
ResolveIfOpen(row) ==
  gaps' = [g \in DOMAIN gaps |->
             IF g = row /\ gaps[g] = "open" THEN "resolved" ELSE gaps[g]]

ClearNumber(w, t) ==
  /\ scan[w].at = "clear"
  /\ \/ ResolveIfOpen([series |-> scan[w].series, text |-> t]) /\ UNCHANGED faults
     \/ Fault /\ UNCHANGED gaps
  /\ scan' = [scan EXCEPT ![w].clear = @ \ {t}]
  /\ UNCHANGED <<filed, registry, stamping, judged>>

EndClears(w) ==
  /\ scan[w].at = "clear"
  /\ scan[w].clear = {}
  /\ scan' = [scan EXCEPT ![w] = [Idle EXCEPT !.at = "list", !.left = scan[w].left]]
  /\ UNCHANGED <<stored, faults>>

EndScan(w) ==
  /\ scan[w].at = "list"
  /\ scan[w].left = {}
  /\ scan' = [scan EXCEPT ![w] = Idle]
  /\ UNCHANGED <<stored, faults>>

\* A worker killed in the middle of a scan starts another when it is back.
Kill(w) ==
  /\ scan[w].at # "idle"
  /\ scan' = [scan EXCEPT ![w] = Idle]
  /\ Fault
  /\ UNCHANGED stored

-----------------------------------------------------------------------------
(* People. *)

\* By the row's id, from a list that may be old: whatever the row's status.
ResolveMissing(row, status) ==
  /\ gaps' = [gaps EXCEPT ![row] = status]
  /\ judged' = [g \in DOMAIN judged \cup {row} |-> IF g = row THEN status ELSE judged[g]]
  /\ UNCHANGED <<filed, registry, stamping, scan, faults>>

ScanStep(w) ==
  \/ BeginScan(w) \/ EndFlags(w) \/ EndClears(w) \/ EndScan(w)
  \/ \E s \in scan[w].left : ReadSeries(w, s) \/ SkipSeries(w, s)
  \/ \E n \in scan[w].flag : FlagNumber(w, n)
  \/ \E t \in scan[w].clear : ClearNumber(w, t)

Next ==
  \/ \E s \in Series : RegisterSeries(s) \/ DeleteSeries(s)
  \/ \E t \in Paper, s \in Series \cup {NoSeries} : StampSeries(t, s)
  \/ \E i \in stamping : CreateInvoice(i)
  \/ \E w \in Worker : ScanStep(w) \/ Kill(w)
  \/ \E g \in DOMAIN gaps, status \in Status \ {"open"} : ResolveMissing(g, status)

Spec == Init /\ [][Next]_vars

\* The loop scans at start and on every tick.
Fairness == \A w \in Worker : WF_vars(ScanStep(w))

FairSpec == Spec /\ Fairness

-----------------------------------------------------------------------------
(* Properties. *)

\* A row the scan adds is for a number that its series skips, as the invoices
\* stood when the scan read them, printed like the filed number before it.
FlaggedWasMissing ==
  [][\A g \in DOMAIN gaps' \ DOMAIN gaps :
       \E w \in Worker : \E t \in scan[w].seen :
         /\ t.number < g.text.number /\ t.prefix = g.text.prefix
         /\ \A u \in scan[w].seen :
              u.width > 0 => u.number <= t.number \/ u.number > g.text.number
         /\ \E u \in scan[w].seen : u.width > 0 /\ u.number > g.text.number
         /\ \A u \in scan[w].seen : [text |-> u, series |-> g.series] \in filed]_vars

\* The scan and its races do what the register promises.
Register == INSTANCE GapRegister
ImplementsRegister == Register!Spec

Open(g) == g \in DOMAIN gaps /\ gaps[g] = "open"
OnFile(s, t) == [text |-> t, series |-> s] \in filed

\* An alert about a number that has since been filed as it was printed goes
\* away, also when the filing, the flagging and a killed worker cross.
FiledGapCloses ==
  \A s \in Series, t \in Paper :
    (Open([series |-> s, text |-> t]) /\ OnFile(s, t)) ~> ~Open([series |-> s, text |-> t])

Skipped(s, n) ==
  /\ \A i \in filed : (i.series = s /\ i.text.width > 0) => i.text.number # n
  /\ \E low, high \in filed :
       /\ low.series = s /\ high.series = s
       /\ low.text.width > 0 /\ high.text.width > 0
       /\ low.text.number < n /\ n < high.text.number

\* A number that a series skips comes up for review, or is filed in the end.
GapIsFlagged ==
  \A s \in Series, n \in Number :
    Skipped(s, n) ~> (~Skipped(s, n) \/ \E g \in DOMAIN gaps : g.series = s /\ g.text.number = n)
=============================================================================
