------------------------------ MODULE Assessment ------------------------------
(***************************************************************************)
(* How an extraction is judged: the checks of package validation, the type *)
(* of exception they raise, and the tenant's approval rules.               *)
(*                                                                         *)
(* Amounts are in paise.  A name (an invoice number, a GSTIN) stands for   *)
(* all its spellings: comparisons ignore case and surrounding blanks.      *)
(***************************************************************************)
EXTENDS Integers

CONSTANTS
  Name,        \* invoice numbers and GSTINs that can be read or filed
  Unread,      \* a name that is empty
  WellFormed   \* the names that have the form of a GSTIN

ASSUME NameAssumption == Unread \notin Name /\ WellFormed \subseteq Name

\* What the extraction returns; an amount of 0 has not been seen.
InvoiceData ==
  [number : Name \cup {Unread}, seller : Name \cup {Unread}, buyer : Name \cup {Unread},
   gross : Nat, net : Nat, tax : Nat, simulated : BOOLEAN, inconclusive : BOOLEAN]

\* The invoice as filed, its seller's GSTIN and, for a known buyer, the buyer's.
ExpectedInvoice ==
  [number : Name \cup {Unread}, seller : Name \cup {Unread}, buyer : Name \cup {Unread},
   gross : Nat, tax : Nat]

Fields == {"GrossAmount", "NetAmount", "TaxAmount"}
Operators == {">", "<", "==", ">=", "<="}
Actions == {"REQUIRE_MANAGER_APPROVAL", "REQUIRE_FINANCE_APPROVAL"}

\* The rules that an admin can create.
TenantRule == [field : Fields, operator : Operators, value : Int, action : Actions]

-----------------------------------------------------------------------------
(* Validation. *)

Unreadable(data) == data.simulated \/ data.inconclusive

\* x and y differ by more than d.
Apart(x, y, d) == x > y + d \/ y > x + d

Validate(data) ==
  IF Unreadable(data) THEN {"ocr_inconclusive"}
  ELSE IF data.seller \notin WellFormed \/ Apart(data.gross, data.net + data.tax, 5)
    THEN {"validation_failed"}
    ELSE {}

\* Mutant: two percent are tolerated.
DoubleTolerance(amount) == IF amount < 5000 THEN 10000 ELSE 2 * amount

\* A hundred times the tolerance: one rupee, or a hundredth of the amount.
AmountTolerance(amount) == IF amount < 10000 THEN 10000 ELSE amount

NamesDiffer(read, filed) == read # Unread /\ filed # Unread /\ read # filed

\* Both tolerances are taken from the gross amount.
AmountsDiffer(seen, filed, tolerance) ==
  seen > 0 /\ filed > 0 /\ Apart(100 * seen, 100 * filed, tolerance)

Mismatched(data, expected) ==
  \/ NamesDiffer(data.number, expected.number)
  \/ NamesDiffer(data.seller, expected.seller)
  \/ NamesDiffer(data.buyer, expected.buyer)
  \/ AmountsDiffer(data.gross, expected.gross, AmountTolerance(expected.gross))
  \/ AmountsDiffer(data.tax, expected.tax, AmountTolerance(expected.gross))

ValidateAgainstExpected(data, expected) ==
  Validate(data) \cup
    (IF ~Unreadable(data) /\ Mismatched(data, expected) THEN {"invoice_data_mismatch"} ELSE {})

ExceptionType(codes) ==
  IF "ocr_inconclusive" \in codes THEN "ocr_inconclusive"
  ELSE IF "invoice_data_mismatch" \in codes THEN "invoice_data_mismatch"
  ELSE "validation_failed"

-----------------------------------------------------------------------------
(* Approval rules. *)

DefaultTenantRules ==
  {[field |-> "GrossAmount", operator |-> ">", value |-> 0, action |-> "REQUIRE_MANAGER_APPROVAL"],
   [field |-> "GrossAmount", operator |-> ">", value |-> 500000, action |-> "REQUIRE_FINANCE_APPROVAL"]}

\* A tenant's first rule replaces the default ones, its last one gone restores them.
RulesInForce(rules) == IF rules = {} THEN DefaultTenantRules ELSE rules

FieldValue(field, data) ==
  IF field = "GrossAmount" THEN data.gross
  ELSE IF field = "NetAmount" THEN data.net ELSE data.tax

EvaluateRule(rule, data) ==
  LET value == FieldValue(rule.field, data)
  IN \/ rule.operator = ">" /\ value > rule.value
     \/ rule.operator = "<" /\ value < rule.value
     \/ rule.operator = "==" /\ value = rule.value
     \/ rule.operator = ">=" /\ value >= rule.value
     \/ rule.operator = "<=" /\ value <= rule.value

EvaluateAllRules(rules, data) == {r.action : r \in {s \in rules : EvaluateRule(s, data)}}
=============================================================================
