--------------------------- MODULE ApprovalPolicy ---------------------------
(***************************************************************************)
(* What the approval of one invoice promises: it is approved only when     *)
(* everything it then needs has been consented to by somebody entitled to. *)
(* A review may be taken up again from the start as long as nothing has    *)
(* been decided; a decided invoice is reviewed again only on a doubt       *)
(* whether anybody works on it, once for each doubt.                       *)
(***************************************************************************)
EXTENDS Naturals

CONSTANTS
  Stages,    \* the consents an invoice can need
  People,
  Entitled   \* for each stage, the people who may consent

VARIABLES
  status,    \* "open", "approved" or "rejected"
  needs,     \* the stages the invoice needs, as far as assessed
  consents,  \* [stage, by]
  doubts,    \* doubts that nobody has acted upon yet
  again      \* a decided invoice is under review again

policyVars == <<status, needs, consents, doubts, again>>

Init == status = "open" /\ needs = {} /\ consents = {} /\ doubts = 0 /\ again = FALSE

Reviewing == status = "open" \/ again

\* The assessment finds that more is needed.
Assess ==
  /\ Reviewing
  /\ needs' \in SUBSET Stages /\ needs \subseteq needs'
  /\ UNCHANGED <<status, consents, doubts, again>>

\* A discrepancy turns out to need nobody's override.
Clear ==
  /\ Reviewing
  /\ needs' = needs \ {"override"}
  /\ UNCHANGED <<status, consents, doubts, again>>

Consent(stage, person) ==
  /\ Reviewing
  /\ person \in Entitled[stage]
  /\ consents' = consents \cup {[stage |-> stage, by |-> person]}
  /\ UNCHANGED <<status, needs, doubts, again>>

Approve ==
  /\ Reviewing
  /\ \A stage \in needs : \E c \in consents : c.stage = stage
  /\ status' = "approved" /\ again' = FALSE
  /\ UNCHANGED <<needs, consents, doubts>>

Refuse ==
  /\ Reviewing
  /\ status' = "rejected" /\ again' = FALSE
  /\ UNCHANGED <<needs, consents, doubts>>

\* The decision of an invoice under review again is taken back, or stands.
TakeBack ==
  /\ again
  /\ status' \in {"open", status} /\ again' = FALSE
  /\ UNCHANGED <<needs, consents, doubts>>

Doubt == doubts' = doubts + 1 /\ UNCHANGED <<status, needs, consents, again>>

Settle == doubts > 0 /\ doubts' = doubts - 1 /\ UNCHANGED <<status, needs, consents, again>>

\* The review begins again from the start.
ReviewAgain ==
  /\ needs' = {} /\ consents' = {}
  /\ \/ status = "open" /\ doubts' \in {doubts, doubts - 1} /\ doubts' >= 0 /\ UNCHANGED again
     \/ status # "open" /\ doubts > 0 /\ doubts' = doubts - 1 /\ again' = TRUE
  /\ UNCHANGED status

Next ==
  \/ Assess
  \/ Clear
  \/ \E stage \in Stages, person \in People : Consent(stage, person)
  \/ Approve
  \/ Refuse
  \/ TakeBack
  \/ Doubt
  \/ Settle
  \/ ReviewAgain

Spec == Init /\ [][Next]_policyVars
=============================================================================
