----------------------------- MODULE GapRegister -----------------------------
(***************************************************************************)
(* What the register of missing invoice numbers promises, whatever the     *)
(* order in which invoices are filed and scans run: a row names a number   *)
(* strictly between two filed ones of its series, a scan closes it only    *)
(* when its very text is on file, and what has been settled is changed by  *)
(* a person only.  SeriesGaps implements it.                               *)
(***************************************************************************)
EXTENDS Naturals

CONSTANTS
  Series,   \* the series an invoice can be stamped with
  Text,     \* invoice numbers as printed: [prefix, width, number]
  NoSeries  \* an invoice filed without a series

VARIABLES
  filed,  \* [text, series] of the invoices on file
  gaps,   \* the rows of missing_invoice_numbers: status of each [series, text]
  judged  \* what a person last made of a row

vars == <<filed, gaps, judged>>

Invoice == [text : Text, series : Series \cup {NoSeries}]
Row == [series : Series, text : Text]

\* Printed in a row's series are a lower and a higher number than its own.
Bracketed(row) ==
  \E low, high \in filed :
    /\ low.series = row.series /\ high.series = row.series
    /\ low.text.width > 0 /\ high.text.width > 0
    /\ low.text.number < row.text.number
    /\ row.text.number < high.text.number

Init == filed = {} /\ gaps = << >> /\ judged = << >>

File(invoice) == filed' = filed \cup {invoice} /\ UNCHANGED <<gaps, judged>>

Flag(row) ==
  /\ Bracketed(row)
  /\ gaps' = [g \in DOMAIN gaps \cup {row} |-> IF g = row THEN "open" ELSE gaps[g]]
  /\ UNCHANGED <<filed, judged>>

Clear(row) ==
  /\ gaps[row] = "open"
  /\ [text |-> row.text, series |-> row.series] \in filed
  /\ gaps' = [gaps EXCEPT ![row] = "resolved"]
  /\ UNCHANGED <<filed, judged>>

Judge(row, status) ==
  /\ gaps' = [gaps EXCEPT ![row] = status]
  /\ judged' = [g \in DOMAIN judged \cup {row} |-> IF g = row THEN status ELSE judged[g]]
  /\ UNCHANGED filed

Next ==
  \/ \E invoice \in Invoice : File(invoice)
  \/ \E row \in Row \ DOMAIN gaps : Flag(row)
  \/ \E row \in DOMAIN gaps : Clear(row)
  \/ \E row \in DOMAIN gaps, status \in {"resolved", "not_applicable"} : Judge(row, status)

Spec == Init /\ [][Next]_vars
=============================================================================
