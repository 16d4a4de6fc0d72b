------------------------------ MODULE GateEntry ------------------------------
(***************************************************************************)
(* Receiving documents of one invoice: the quantities a person enters at   *)
(* the gate-entry form, the quantities the AI reads off the same document, *)
(* and the short-receipt disputes both of them raise.  Every database call *)
(* is a transaction of its own, so a request and an activity attempt are   *)
(* sequences of steps that interleave.                                     *)
(*                                                                         *)
(* Audit entries are the subject of AuditChain; the mismatch exceptions    *)
(* the matching activity files are read by nothing in this module.         *)
(***************************************************************************)
EXTENDS Naturals, Sequences, FiniteSets

CONSTANTS
  Docs,         \* receiving documents filed on the invoice
  Calls,        \* requests and activity attempts that can be in flight at once
  NoDoc,        \* the document of a slot that is idle
  MaxEntries,   \* bound: gate-entry forms submitted
  MaxDisputes,  \* bound: disputes on the invoice when one is raised by hand
  MaxVersions,  \* bound: versions of one document
  MaxFaults,    \* bound: database calls and attempts that break off
  MaxSkips      \* bound: errors that are ignored and cost a dispute

ASSUME NoDocAssumption == NoDoc \notin Docs
ASSUME BoundsAssumption ==
  /\ MaxEntries \in Nat /\ MaxDisputes \in Nat /\ MaxVersions \in Nat
  /\ MaxFaults \in Nat /\ MaxSkips \in Nat

Statuses == {"OPEN", "OWNER_REVIEWING", "RESOLVED", "REJECTED"}

\* Mutant: a dispute the owner is reviewing no longer counts as open.
OnlyOpenCounts == {"OPEN"}

\* Mutant: a settled dispute still counts as open.
EveryStatusCounts == Statuses

\* HasOpenDisputeForInvoice counts disputes in these states.
OpenStatuses == {"OPEN", "OWNER_REVIEWING"}

VARIABLES
  row,       \* gate_entry_metadata of each document
  disputes,  \* statuses of the invoice's disputes, in the order raised
  versions,  \* versions of each document on file
  matching,  \* the version LedgerDocumentWorkflow is open for, 0 if none is
  reading,   \* what the open run has read off its version
  call,      \* calls in flight
  entries, faults, skips

vars == <<row, disputes, versions, matching, reading, call, entries, faults, skips>>

\* figures: who wrote the quantities; entered: entered_by is set; short: the
\* quantities show a shortage.
Row == [figures : {"none", "person", "ai"}, entered : BOOLEAN, short : BOOLEAN]

NoRow == [figures |-> "none", entered |-> FALSE, short |-> FALSE]

\* late: the attempt has outlived its one-minute limit and has been replaced.
Call == [at : {"idle", "save", "check", "raise", "log"}, doc : Docs \cup {NoDoc},
         by : {"person", "ai"}, short : BOOLEAN, late : BOOLEAN]

Idle == [at |-> "idle", doc |-> NoDoc, by |-> "person", short |-> FALSE, late |-> FALSE]

\* The quantities on a document show a shortage or none, or there are none.
Readings == {"short", "full", "none"}

TypeOK ==
  /\ row \in [Docs -> Row]
  /\ disputes \in Seq(Statuses)
  /\ versions \in [Docs -> 0 .. MaxVersions]
  /\ matching \in [Docs -> 0 .. MaxVersions]
  /\ reading \in [Docs -> Readings]
  /\ call \in [Calls -> Call]
  /\ entries \in 0 .. MaxEntries
  /\ faults \in 0 .. MaxFaults
  /\ skips \in 0 .. MaxSkips

\* The invoice has been filed; no receiving document has come back yet.
Init ==
  /\ row = [d \in Docs |-> NoRow] /\ disputes = << >>
  /\ versions = [d \in Docs |-> 0]
  /\ matching = [d \in Docs |-> 0]
  /\ reading = [d \in Docs |-> "none"]
  /\ call = [c \in Calls |-> Idle]
  /\ entries = 0 /\ faults = 0 /\ skips = 0

SomeOpen == \E i \in DOMAIN disputes : disputes[i] \in OpenStatuses

SlotFree == \E c \in Calls : call[c].at = "idle"

Goto(c, step) == call' = [call EXCEPT ![c].at = step]

Finish(c) == call' = [call EXCEPT ![c] = Idle]

-----------------------------------------------------------------------------
(***************************************************************************)
(* Filing a document.                                                      *)
(***************************************************************************)

\* handleUploadSupportingDocument: the first version, or a manager's
\* replacement, starts the matching workflow of the document.  The workflow ID
\* is the document's: while a run is open, starting attaches to that run.
Upload(d) ==
  /\ SlotFree
  /\ versions[d] < MaxVersions
  /\ versions' = [versions EXCEPT ![d] = @ + 1]
  /\ \/ /\ matching[d] = 0
        /\ matching' = [matching EXCEPT ![d] = versions[d] + 1]
        /\ \E r \in Readings : reading' = [reading EXCEPT ![d] = r]
     \/ matching[d] # 0 /\ UNCHANGED <<matching, reading>>
  /\ UNCHANGED <<row, disputes, call, entries, faults, skips>>

\* The version is stored and its matching workflow does not start.
UploadUnmatched(d) ==
  /\ SlotFree
  /\ versions[d] < MaxVersions
  /\ faults < MaxFaults
  /\ faults' = faults + 1
  /\ versions' = [versions EXCEPT ![d] = @ + 1]
  /\ UNCHANGED <<row, disputes, matching, reading, call, entries, skips>>

-----------------------------------------------------------------------------
(***************************************************************************)
(* Writing quantities.                                                     *)
(***************************************************************************)

\* Mutant: a plain insert, which a document's second row does not pass.
InsertOnly(d, figures, short) ==
  /\ row[d].figures = "none"
  /\ row' = [row EXCEPT ![d] =
               [figures |-> figures, short |-> short, entered |-> figures = "person"]]

\* UpsertGateEntryMetadata: entered_by is written by the insert only.
Upsert(d, figures, short) ==
  row' = [row EXCEPT ![d] =
            [figures |-> figures, short |-> short,
             entered |-> IF @.figures = "none" THEN figures = "person" ELSE @.entered]]

\* handleSetGateEntry saves the form; a mismatch goes on to the dispute check.
SubmitEntry(c, d, short) ==
  /\ call[c].at = "idle" /\ versions[d] > 0
  /\ entries < MaxEntries
  /\ entries' = entries + 1
  /\ Upsert(d, "person", short)
  /\ call' = IF short
             THEN [call EXCEPT ![c] = [Idle EXCEPT !.at = "check", !.doc = d, !.short = TRUE]]
             ELSE call
  /\ UNCHANGED <<disputes, versions, matching, reading, faults, skips>>

\* Whether an attempt of the document's matching activity is under way.
Attempting(d) == \E c \in Calls : call[c].by = "ai" /\ call[c].doc = d /\ ~call[c].late

Attempt(step, d) ==
  [at |-> step, doc |-> d, by |-> "ai", short |-> reading[d] = "short", late |-> FALSE]

\* Mutant: the AI's read is recorded without looking for a person's row.
StartAttemptBlindly(c, d) ==
  /\ call[c].at = "idle" /\ matching[d] > 0 /\ ~Attempting(d)
  /\ call' = [call EXCEPT ![c] = Attempt(IF reading[d] = "none" THEN "log" ELSE "save", d)]
  /\ UNCHANGED <<row, disputes, versions, matching, reading, entries, faults, skips>>

\* MatchDocumentToInvoiceActivity begins: a row with entered_by set, or a
\* document without quantities, leaves only the outcome to be logged.
StartAttempt(c, d) ==
  /\ call[c].at = "idle" /\ matching[d] > 0 /\ ~Attempting(d)
  /\ call' = [call EXCEPT ![c] =
                Attempt(IF reading[d] = "none" \/ row[d].entered THEN "log" ELSE "save", d)]
  /\ UNCHANGED <<row, disputes, versions, matching, reading, entries, faults, skips>>

\* recordGateEntryFromExtraction saves what was read.
SaveExtraction(c) ==
  /\ call[c].at = "save"
  /\ Upsert(call[c].doc, "ai", call[c].short)
  /\ Goto(c, IF call[c].short THEN "check" ELSE "log")
  /\ UNCHANGED <<disputes, versions, matching, reading, entries, faults, skips>>

-----------------------------------------------------------------------------
(***************************************************************************)
(* Raising the dispute.                                                    *)
(***************************************************************************)

\* What is left to do after the dispute: an attempt still logs, a form is saved.
AfterDispute(c) == IF call[c].by = "ai" THEN Goto(c, "log") ELSE Finish(c)

\* HasOpenDisputeForInvoice.
CheckDispute(c) ==
  /\ call[c].at = "check"
  /\ IF SomeOpen THEN AfterDispute(c) ELSE Goto(c, "raise")
  /\ UNCHANGED <<row, disputes, versions, matching, reading, entries, faults, skips>>

\* CreateDispute.
RaiseDispute(c) ==
  /\ call[c].at = "raise"
  /\ disputes' = Append(disputes, "OPEN")
  /\ AfterDispute(c)
  /\ UNCHANGED <<row, versions, matching, reading, entries, faults, skips>>

\* An error of either call is ignored and the rest goes on without a dispute.
SkipDispute(c) ==
  /\ call[c].at \in {"check", "raise"}
  /\ skips < MaxSkips
  /\ skips' = skips + 1
  /\ AfterDispute(c)
  /\ UNCHANGED <<row, disputes, versions, matching, reading, entries, faults>>

\* The activity's last call; the workflow ends unless the attempt came late.
FinishAttempt(c) ==
  LET d == call[c].doc IN
  /\ call[c].at = "log"
  /\ \/ call[c].late /\ UNCHANGED matching
     \/ ~call[c].late /\ matching' = [matching EXCEPT ![d] = 0]
  /\ Finish(c)
  /\ UNCHANGED <<row, disputes, versions, reading, entries, faults, skips>>

\* An error ends the attempt, or the server's process stops during the call:
\* an activity is attempted again, a form is not.
BreakOff(c) ==
  /\ call[c].at # "idle"
  /\ faults < MaxFaults
  /\ faults' = faults + 1
  /\ Finish(c)
  /\ UNCHANGED <<row, disputes, versions, matching, reading, entries, skips>>

\* The attempt outlives its limit: the engine will start another one.
OutliveLimit(c) ==
  /\ call[c].by = "ai" /\ call[c].at # "idle" /\ ~call[c].late
  /\ faults < MaxFaults
  /\ faults' = faults + 1
  /\ call' = [call EXCEPT ![c].late = TRUE]
  /\ UNCHANGED <<row, disputes, versions, matching, reading, entries, skips>>

-----------------------------------------------------------------------------
(***************************************************************************)
(* Disputes by hand.                                                       *)
(***************************************************************************)

\* handleCreateDispute, whatever is already open.
CreateDispute ==
  /\ SlotFree
  /\ Len(disputes) < MaxDisputes
  /\ disputes' = Append(disputes, "OPEN")
  /\ UNCHANGED <<row, versions, matching, reading, call, entries, faults, skips>>

\* Mutant: the status in the request is not validated.
UpdateDisputeUnchecked(i, status) ==
  /\ SlotFree
  /\ disputes' = [disputes EXCEPT ![i] = "SETTLED"]
  /\ UNCHANGED <<row, versions, matching, reading, call, entries, faults, skips>>

\* handleUpdateDispute, from any status to any status.
UpdateDispute(i, status) ==
  /\ SlotFree
  /\ disputes' = [disputes EXCEPT ![i] = status]
  /\ UNCHANGED <<row, versions, matching, reading, call, entries, faults, skips>>

-----------------------------------------------------------------------------
CallStep(c) ==
  \/ SaveExtraction(c)
  \/ CheckDispute(c)
  \/ RaiseDispute(c)
  \/ FinishAttempt(c)

Next ==
  \/ \E d \in Docs : Upload(d) \/ UploadUnmatched(d)
  \/ \E c \in Calls, d \in Docs :
       StartAttempt(c, d) \/ \E short \in BOOLEAN : SubmitEntry(c, d, short)
  \/ \E c \in Calls : CallStep(c) \/ SkipDispute(c) \/ BreakOff(c) \/ OutliveLimit(c)
  \/ CreateDispute
  \/ \E i \in DOMAIN disputes, status \in Statuses : UpdateDispute(i, status)

Spec == Init /\ [][Next]_vars

\* A request runs to its end and the engine keeps attempting an open activity.
Fairness ==
  /\ \A c \in Calls : WF_vars(CallStep(c))
  /\ \A d \in Docs : WF_vars(\E c \in Calls : StartAttempt(c, d))

FairSpec == Spec /\ Fairness

-----------------------------------------------------------------------------
(***************************************************************************)
(* Properties.                                                             *)
(***************************************************************************)

\* The disputes somebody still has to settle, and the calls about to raise one.
Standing == {i \in DOMAIN disputes : disputes[i] \notin {"RESOLVED", "REJECTED"}}
Raising == {c \in Calls : call[c].at = "raise"}

Unsettled == Standing # {}

\* The check and the insert of a dispute are two transactions, so calls that
\* overlap do stack disputes, against owner_handlers.go:423; no further than
\* this: while one is unsettled, the calls add none to it and to those already
\* about to be raised, and without one no more than one for each call.
StackingBounded ==
  [][call' # call =>
       \/ Cardinality(Standing') + Cardinality(Raising')
            <= Cardinality(Standing) + Cardinality(Raising)
       \/ Standing = {} /\ Cardinality(Standing') + Cardinality(Raising') <= Cardinality(Calls)]_vars

\* The attempts that have looked for a person's row of the document, found
\* none, and are still to save what the AI read.
Unaware(d) == {c \in Calls : call[c].at = "save" /\ call[c].doc = d}

\* Once a person has inserted a document's row, only an attempt that looked
\* before the insert can put the AI's figures into it, and each such attempt
\* only once; late attempts and attempts for a replaced version included.
AIReadsYield ==
  [][\A d \in Docs : row[d].entered =>
       /\ row'[d].entered
       /\ Unaware(d)' \subseteq Unaware(d)
       /\ (row'[d].figures = "ai" /\ row'[d] # row[d]) => Unaware(d)' # Unaware(d)]_vars

\* "A row a human already entered for this document always wins over the AI's
\* read" (ledger_activities.go:151-152): figures a person has written stay.
PersonsFiguresKept ==
  [][\A d \in Docs : row[d].figures = "person" => row'[d].figures = "person"]_vars

Disputing(c) == call[c].at \in {"check", "raise"}

\* The engine has still to attempt the matching of a document that shows a
\* shortage and whose row no person inserted.
ShortageAwaitsAttempt(d) ==
  matching[d] > 0 /\ ~Attempting(d) /\ reading[d] = "short" /\ ~row[d].entered

\* A call leaves the dispute of a shortage it has saved with one unsettled,
\* whoever raised it, unless that very call fails; and a shortage the AI reads
\* is disputed in the end, also when attempts break off between the save and the
\* dispute or outlive their limit, unless a person enters the row first or the
\* error of a dispute call is ignored.
ShortageIsDisputed ==
  /\ [][\A c \in Calls : (Disputing(c) /\ ~Disputing(c)') =>
          Unsettled' \/ faults' # faults \/ skips' # skips]_vars
  /\ \A d \in Docs :
       ShortageAwaitsAttempt(d) ~> (Unsettled \/ row[d].entered \/ skips > 0)

\* The matching of a filed document ends, however often an attempt breaks off.
MatchingEnds == \A d \in Docs : (matching[d] > 0) ~> (matching[d] = 0)
=============================================================================
