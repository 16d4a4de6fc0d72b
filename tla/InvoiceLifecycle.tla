-------------------------- MODULE InvoiceLifecycle --------------------------
(***************************************************************************)
(* The life of one invoice on the server: the durable InvoiceWorkflow, the *)
(* approve/reject endpoint that signals it, the upload request that starts *)
(* it and the reconciler that restarts it.  Invoices share no state (the   *)
(* workflow ID and the row are keyed by the invoice), so one invoice is    *)
(* modelled.                                                               *)
(*                                                                         *)
(* A workflow step is one activity: its effect on the database and the     *)
(* advance of the workflow are one step.  The workflow engine re-executes  *)
(* an activity whose completion was lost; here that repeats an idempotent  *)
(* write (the state column, the set of audit events).                      *)
(***************************************************************************)
EXTENDS Integers, Sequences

CONSTANTS
  Users,              \* people who may call the approve endpoint
  RoleOf,             \* the role in each user's token
  MaxBuffered,        \* bound: unread signals of one channel
  MaxFaults,          \* bound: activities that end in an error
  MaxLosses,          \* bound: running executions lost by the engine
  MaxDescribeErrors,  \* bound: DescribeWorkflowExecution calls failing in transit
  MaxPartialUploads   \* bound: uploads that stop before the primary document

Roles == {"MANAGER", "FINANCE", "ADMIN"}

ASSUME UsersAssumption == RoleOf \in [Users -> Roles] /\ "system" \notin Users
ASSUME BoundsAssumption ==
  /\ MaxBuffered \in Nat /\ MaxFaults \in Nat /\ MaxLosses \in Nat
  /\ MaxDescribeErrors \in Nat /\ MaxPartialUploads \in Nat

InvoiceStates ==
  {"INGESTED", "VALIDATING", "VALIDATION_FAILED", "PENDING_MANAGER_APPROVAL",
   "PENDING_FINANCE_APPROVAL", "APPROVED", "REJECTED", "ARCHIVED"}

Final == {"REJECTED", "ARCHIVED"}

\* ARCHIVED follows APPROVED at once, and alone if APPROVED failed to persist.
Approved == {"APPROVED", "ARCHIVED"}

\* Mutant: the sweep also lists rejected invoices.
StuckOrRejected ==
  {"INGESTED", "VALIDATING", "PENDING_MANAGER_APPROVAL", "PENDING_FINANCE_APPROVAL",
   "REJECTED"}

\* The states whose invoices the reconciler looks at.
StuckStates ==
  {"INGESTED", "VALIDATING", "PENDING_MANAGER_APPROVAL", "PENDING_FINANCE_APPROVAL"}

\* The three places where the workflow waits for a person.
Stages == {"override", "manager", "finance"}

Channels == {"ManagerApprovalSignal", "FinanceApprovalSignal", "RejectionSignal"}

\* Mutant: the finance stage selects on the manager's channel.
ManagerChannelOnly(stage) == "ManagerApprovalSignal"

\* The approval channel a stage selects on; the override reuses the manager's.
ChannelOf(stage) ==
  IF stage = "finance" THEN "FinanceApprovalSignal" ELSE "ManagerApprovalSignal"

\* Who can put a signal into that channel.
MayDecide(stage) ==
  IF stage = "finance" THEN {"FINANCE", "ADMIN"} ELSE {"MANAGER", "ADMIN"}

Positions == Stages \cup
  {"extract", "auditExtracted", "setValidating", "validate",
   "setValidationFail", "auditValidationFailed", "raiseException",
   "aiResolve", "auditAIResolved", "setPendingOverride", "selectOverride",
   "auditOverride", "fetchRules", "setPendingManager", "selectManager",
   "auditManager", "setPendingFinance", "selectFinance", "auditFinance",
   "setApproved", "auditApproved", "setArchived", "auditArchived",
   "setRejected", "auditRejected", "return", "done"}

Verdicts == {"none", "valid", "arithmetic", "evidence"}

Events ==
  {"DOCUMENT_EXTRACTED", "VALIDATION_FAILED", "AI_AUTO_RESOLVED",
   "VALIDATION_OVERRIDE_APPROVED", "MANAGER_APPROVED", "FINANCE_APPROVED",
   "REJECTED", "APPROVED", "ARCHIVED", "WORKFLOW_STARTED", "WORKFLOW_START_FAILED"}

VARIABLES
  dbState,         \* invoices.current_state
  stale,           \* invoices.updated_at is older than the two-hour cutoff
  audit,           \* audit events on file: [event, actor]
  ingest,          \* the upload request: "open", "partial" or "filed"
  exec,            \* what the engine knows of the workflow ID
  pc,              \* the activity or wait the run is at
  verdict,         \* validationResult of the run
  aiResolved,      \* aiResolved of the run
  required,        \* requiresManager, requiresFinance of the run
  approvals,       \* approvals the run has received: [stage, by]
  decider,         \* payload.ActorID of the last decision received
  signals,         \* unread signals of each channel: senders, oldest first
  adminCalls,      \* admins between the handler's two signals
  sweep,           \* reconcileOne: "idle", "listed" or "missing"
  faults, losses, describeErrors, partialUploads

runVars    == <<pc, verdict, aiResolved, required, approvals, decider>>
dbVars     == <<dbState, stale, audit>>
signalVars == <<signals, adminCalls>>
budgetVars == <<faults, losses, describeErrors, partialUploads>>
vars == <<dbVars, ingest, exec, runVars, signalVars, sweep, budgetVars>>

Approval == [stage : Stages, by : Users]
AuditEvent == [event : Events, actor : Users \cup {"system", "ai-agent", "uploader"}]

TypeOK ==
  /\ dbState \in InvoiceStates
  /\ stale \in BOOLEAN
  /\ audit \subseteq AuditEvent
  /\ ingest \in {"open", "partial", "filed"}
  /\ exec \in {"none", "running", "completed", "failed"}
  /\ pc \in Positions
  /\ verdict \in Verdicts
  /\ aiResolved \in BOOLEAN
  /\ required \subseteq {"manager", "finance"}
  /\ approvals \subseteq Approval
  /\ decider \in Users \cup {"system"}
  /\ signals \in [Channels -> Seq(Users)]
  /\ adminCalls \subseteq Users
  /\ sweep \in {"idle", "listed", "missing"}
  /\ faults \in 0 .. MaxFaults
  /\ losses \in 0 .. MaxLosses
  /\ describeErrors \in 0 .. MaxDescribeErrors
  /\ partialUploads \in 0 .. MaxPartialUploads

NoSignals == [c \in Channels |-> << >>]

\* The row has been inserted; the request that inserted it is still running.
Init ==
  /\ dbState = "INGESTED" /\ stale = FALSE /\ audit = {}
  /\ ingest = "open" /\ exec = "none" /\ sweep = "idle"
  /\ pc = "done" /\ verdict = "none" /\ aiResolved = FALSE /\ required = {}
  /\ approvals = {} /\ decider = "system"
  /\ signals = NoSignals /\ adminCalls = {}
  /\ faults = 0 /\ losses = 0 /\ describeErrors = 0 /\ partialUploads = 0

Fault ==
  /\ faults < MaxFaults
  /\ faults' = faults + 1
  /\ UNCHANGED <<losses, describeErrors, partialUploads>>

-----------------------------------------------------------------------------
(***************************************************************************)
(* Starting a run.                                                         *)
(***************************************************************************)

\* ExecuteWorkflow: attaches to an open execution, else starts a new run,
\* also when an earlier run of the same ID has closed.
Launch ==
  \/ exec = "running" /\ UNCHANGED <<exec, runVars, signals>>
  \/ /\ exec # "running"
     /\ exec' = "running" /\ pc' = "extract"
     /\ verdict' = "none" /\ aiResolved' = FALSE /\ required' = {}
     /\ approvals' = {} /\ decider' = "system" /\ signals' = NoSignals

\* finishLedgerUpload past the primary document: start the workflow, or log
\* that it would not start, or stop (the process died) before either.
FileUpload ==
  /\ ingest \in {"open", "partial"}
  /\ ingest' = "filed"
  /\ \/ /\ Launch
        /\ audit' = audit \cup {[event |-> "WORKFLOW_STARTED", actor |-> "uploader"]}
     \/ /\ audit' = audit \cup {[event |-> "WORKFLOW_START_FAILED", actor |-> "uploader"]}
        /\ UNCHANGED <<exec, runVars, signals>>
     \/ UNCHANGED <<audit, exec, runVars, signals>>
  /\ UNCHANGED <<dbState, stale, adminCalls, sweep, budgetVars>>

\* The request ends before the primary document exists; the device's retry of
\* the same invoice finds the row and finishes the upload against it.
StopUpload ==
  /\ ingest = "open"
  /\ partialUploads < MaxPartialUploads
  /\ partialUploads' = partialUploads + 1
  /\ ingest' = "partial"
  /\ UNCHANGED <<dbVars, exec, runVars, signalVars, sweep,
                 faults, losses, describeErrors>>

-----------------------------------------------------------------------------
(***************************************************************************)
(* The activities the workflow runs.                                       *)
(***************************************************************************)

At(p) == exec = "running" /\ pc = p

\* setState: the row is written, or the error is only logged.
SetState(p, state, next) ==
  /\ At(p)
  /\ \/ dbState' = state /\ stale' = FALSE /\ UNCHANGED budgetVars
     \/ Fault /\ UNCHANGED <<dbState, stale>>
  /\ pc' = next
  /\ UNCHANGED <<audit, ingest, exec, verdict, aiResolved, required,
                 approvals, decider, signalVars, sweep>>

\* logAudit: the event is appended, or the error is only logged.
LogAudit(p, event, actor, next) ==
  /\ At(p)
  /\ \/ audit' = audit \cup {[event |-> event, actor |-> actor]} /\ UNCHANGED budgetVars
     \/ Fault /\ UNCHANGED audit
  /\ pc' = next
  /\ UNCHANGED <<dbState, stale, ingest, exec, verdict, aiResolved,
                 required, approvals, decider, signalVars, sweep>>

\* "return nil, err": the run closes as failed and the row keeps its state.
FailRun(p) ==
  /\ At(p)
  /\ Fault
  /\ exec' = "failed" /\ pc' = "done"
  /\ UNCHANGED <<dbVars, ingest, verdict, aiResolved, required, approvals, decider,
                 signalVars, sweep>>

Extract ==
  \/ /\ At("extract")
     /\ pc' = "auditExtracted"
     /\ UNCHANGED <<dbVars, ingest, exec, verdict, aiResolved, required, approvals,
                    decider, signalVars, sweep, budgetVars>>
  \/ FailRun("extract")

\* ValidateInvoiceAgainstRecordActivity: the codes it returns decide the path.
Validate ==
  \/ /\ At("validate")
     /\ verdict' \in {"valid", "arithmetic", "evidence"}
     /\ pc' = IF verdict' = "valid" THEN "fetchRules" ELSE "setValidationFail"
     /\ UNCHANGED <<dbVars, ingest, exec, aiResolved, required, approvals, decider,
                    signalVars, sweep, budgetVars>>
  \/ FailRun("validate")

\* RaiseValidationExceptionActivity, whose error is only logged (the exception
\* it files is read by nothing in this module); evidence problems go straight
\* to a person.
RaiseException ==
  /\ At("raiseException")
  /\ pc' = IF verdict = "evidence" THEN "setPendingOverride" ELSE "aiResolve"
  /\ UNCHANGED <<dbVars, ingest, exec, verdict, aiResolved, required, approvals,
                 decider, signalVars, sweep, budgetVars>>

\* AIResolveDiscrepancy: an error counts as "not resolved".
AIResolve ==
  /\ At("aiResolve")
  /\ \/ aiResolved' = TRUE /\ pc' = "auditAIResolved" /\ UNCHANGED budgetVars
     \/ UNCHANGED <<aiResolved, budgetVars>> /\ pc' = "setPendingOverride"
     \/ Fault /\ UNCHANGED aiResolved /\ pc' = "setPendingOverride"
  /\ UNCHANGED <<dbVars, ingest, exec, verdict, required, approvals, decider,
                 signalVars, sweep>>

\* Mutant: finance is asked first, after which nobody asks the manager.
FinanceFirst(needs) ==
  IF "finance" \in needs THEN "setPendingFinance"
  ELSE IF "manager" \in needs THEN "setPendingManager" ELSE "setApproved"

\* The first approval a set of requirements asks for, or the approved state.
FirstStep(needs) ==
  IF "manager" \in needs THEN "setPendingManager"
  ELSE IF "finance" \in needs THEN "setPendingFinance" ELSE "setApproved"

\* FetchTenantRulesActivity and EvaluateAllRules: tenant rules and extracted
\* amounts can require any subset of the two approvals.
FetchRules ==
  \/ /\ At("fetchRules")
     /\ required' \in SUBSET {"manager", "finance"}
     /\ pc' = FirstStep(required')
     /\ UNCHANGED <<dbVars, ingest, exec, verdict, aiResolved, approvals, decider,
                    signalVars, sweep, budgetVars>>
  \/ FailRun("fetchRules")

\* The run closes with its result.
Return ==
  /\ At("return")
  /\ exec' = "completed" /\ pc' = "done"
  /\ UNCHANGED <<dbVars, ingest, verdict, aiResolved, required, approvals, decider,
                 signalVars, sweep, budgetVars>>

-----------------------------------------------------------------------------
(***************************************************************************)
(* waitForDecision and the signals it selects on.                          *)
(***************************************************************************)

AuditStep(stage) ==
  IF stage = "override" THEN "auditOverride"
  ELSE IF stage = "manager" THEN "auditManager" ELSE "auditFinance"

\* Mutant: the approval callback does not take over the payload's actor.
ReceiveKeepsActor(stage, channel, user) ==
  /\ UNCHANGED decider
  /\ \/ /\ channel = ChannelOf(stage)
        /\ approvals' = approvals \cup {[stage |-> stage, by |-> user]}
        /\ pc' = AuditStep(stage)
     \/ channel = "RejectionSignal" /\ pc' = "setRejected" /\ UNCHANGED approvals
  /\ UNCHANGED <<verdict, aiResolved, required>>

\* Mutant: the payload is never decoded, so its actor is empty.
ReceiveEmptyActor(stage, channel, user) ==
  /\ decider' = ""
  /\ \/ /\ channel = ChannelOf(stage)
        /\ approvals' = approvals \cup {[stage |-> stage, by |-> user]}
        /\ pc' = AuditStep(stage)
     \/ channel = "RejectionSignal" /\ pc' = "setRejected" /\ UNCHANGED approvals
  /\ UNCHANGED <<verdict, aiResolved, required>>

\* The callback of the case the selector took.
Receive(stage, channel, user) ==
  /\ decider' = user
  /\ \/ /\ channel = ChannelOf(stage)
        /\ approvals' = approvals \cup {[stage |-> stage, by |-> user]}
        /\ pc' = AuditStep(stage)
     \/ channel = "RejectionSignal" /\ pc' = "setRejected" /\ UNCHANGED approvals
  /\ UNCHANGED <<verdict, aiResolved, required>>

\* Selecting finds buffered signals first, the approval channel before the
\* rejection channel; with neither it blocks.
SelectDecision(p, stage) ==
  /\ At(p)
  /\ \/ /\ signals[ChannelOf(stage)] # << >>
        /\ Receive(stage, ChannelOf(stage), Head(signals[ChannelOf(stage)]))
        /\ signals' = [signals EXCEPT ![ChannelOf(stage)] = Tail(@)]
     \/ /\ signals[ChannelOf(stage)] = << >> /\ signals["RejectionSignal"] # << >>
        /\ Receive(stage, "RejectionSignal", Head(signals["RejectionSignal"]))
        /\ signals' = [signals EXCEPT !["RejectionSignal"] = Tail(@)]
     \/ /\ signals[ChannelOf(stage)] = << >> /\ signals["RejectionSignal"] = << >>
        /\ pc' = stage
        /\ UNCHANGED <<verdict, aiResolved, required, approvals, decider, signals>>
  /\ UNCHANGED <<dbVars, ingest, exec, adminCalls, sweep, budgetVars>>

\* Mutant: a signal does not wake the selector that waits for it.
SignalOnlyBuffers(channel, user) ==
  /\ exec = "running"
  /\ Len(signals[channel]) < MaxBuffered
  /\ signals' = [signals EXCEPT ![channel] = Append(@, user)]
  /\ UNCHANGED runVars

\* SignalWorkflow: the first signal to reach a blocked selector is its
\* decision, any other is buffered until a later select; without an open
\* execution the call fails.
Signal(channel, user) ==
  /\ exec = "running"
  /\ \/ /\ pc \in Stages /\ channel \in {ChannelOf(pc), "RejectionSignal"}
        /\ Receive(pc, channel, user)
        /\ UNCHANGED signals
     \/ /\ ~(pc \in Stages /\ channel \in {ChannelOf(pc), "RejectionSignal"})
        /\ Len(signals[channel]) < MaxBuffered
        /\ signals' = [signals EXCEPT ![channel] = Append(@, user)]
        /\ UNCHANGED runVars

\* handleApproveInvoice checks that the invoice exists, not its state.
Reject(user) ==
  /\ Signal("RejectionSignal", user)
  /\ UNCHANGED <<dbVars, ingest, exec, adminCalls, sweep, budgetVars>>

ManagerApproves(user) ==
  /\ RoleOf[user] = "MANAGER"
  /\ Signal("ManagerApprovalSignal", user)
  /\ UNCHANGED <<dbVars, ingest, exec, adminCalls, sweep, budgetVars>>

FinanceApproves(user) ==
  /\ RoleOf[user] = "FINANCE"
  /\ Signal("FinanceApprovalSignal", user)
  /\ UNCHANGED <<dbVars, ingest, exec, adminCalls, sweep, budgetVars>>

\* An admin's approval is two calls whose errors are ignored; the workflow
\* may move between them.
AdminSignalsManager(user) ==
  /\ RoleOf[user] = "ADMIN" /\ user \notin adminCalls
  /\ adminCalls' = adminCalls \cup {user}
  /\ \/ Signal("ManagerApprovalSignal", user)
     \/ UNCHANGED <<signals, runVars>>
  /\ UNCHANGED <<dbVars, ingest, exec, sweep, budgetVars>>

AdminSignalsFinance(user) ==
  /\ user \in adminCalls
  /\ adminCalls' = adminCalls \ {user}
  /\ \/ Signal("FinanceApprovalSignal", user)
     \/ UNCHANGED <<signals, runVars>>
  /\ UNCHANGED <<dbVars, ingest, exec, sweep, budgetVars>>

-----------------------------------------------------------------------------
(***************************************************************************)
(* The engine and the reconciler.                                          *)
(***************************************************************************)

\* An open execution disappears (the engine's store was reset).  The sweep's
\* window between its list and its describe is seconds long and is left out.
LoseExecution ==
  /\ exec = "running" /\ sweep = "idle"
  /\ losses < MaxLosses
  /\ losses' = losses + 1
  /\ exec' = "none" /\ pc' = "done"
  /\ UNCHANGED <<dbVars, ingest, verdict, aiResolved, required, approvals, decider,
                 signalVars, sweep, faults, describeErrors, partialUploads>>

\* Retention removes a closed execution, days after it closed.
ExpireExecution ==
  /\ exec \in {"completed", "failed"} /\ sweep = "idle"
  /\ exec' = "none"
  /\ UNCHANGED <<dbVars, ingest, runVars, signalVars, sweep, budgetVars>>

\* Two hours without a state change; no upload request lasts that long.
Age ==
  /\ ~stale /\ ingest # "open"
  /\ stale' = TRUE
  /\ UNCHANGED <<dbState, audit, ingest, exec, runVars, signalVars,
                 sweep, budgetVars>>

\* ReconcileOrphanedWorkflows lists the invoice as stuck.
ListStuck ==
  /\ sweep = "idle" /\ dbState \in StuckStates /\ stale
  /\ sweep' = "listed"
  /\ UNCHANGED <<dbVars, ingest, exec, runVars, signalVars, budgetVars>>

\* Mutant: an error of the describe call ends the sweep of the invoice.
DescribeErrorIsHealthy ==
  /\ sweep = "listed"
  /\ sweep' = "idle"
  /\ UNCHANGED <<dbVars, ingest, exec, runVars, signalVars, budgetVars>>

\* reconcileOne: any answer means healthy, open or closed; any error means
\* missing, whatever its cause.
Describe ==
  /\ sweep = "listed"
  /\ \/ exec # "none" /\ sweep' = "idle" /\ UNCHANGED describeErrors
     \/ exec = "none" /\ sweep' = "missing" /\ UNCHANGED describeErrors
     \/ /\ exec # "none" /\ describeErrors < MaxDescribeErrors
        /\ describeErrors' = describeErrors + 1
        /\ sweep' = "missing"
  /\ UNCHANGED <<dbVars, ingest, exec, runVars, signalVars, faults, losses, partialUploads>>

Restart ==
  /\ sweep = "missing"
  /\ sweep' = "idle"
  /\ Launch
  /\ UNCHANGED <<dbVars, ingest, adminCalls, budgetVars>>

\* ExecuteWorkflow failed, or the worker process stopped during the sweep.
AbortSweep ==
  /\ sweep # "idle"
  /\ Fault
  /\ sweep' = "idle"
  /\ UNCHANGED <<dbVars, ingest, exec, runVars, signalVars>>

-----------------------------------------------------------------------------
\* InvoiceWorkflow, in program order.
WorkflowStep ==
  \/ Extract
  \/ LogAudit("auditExtracted", "DOCUMENT_EXTRACTED", "system", "setValidating")
  \/ SetState("setValidating", "VALIDATING", "validate")
  \/ Validate
  \/ SetState("setValidationFail", "VALIDATION_FAILED", "auditValidationFailed")
  \/ LogAudit("auditValidationFailed", "VALIDATION_FAILED", "system", "raiseException")
  \/ RaiseException
  \/ AIResolve
  \/ LogAudit("auditAIResolved", "AI_AUTO_RESOLVED", "ai-agent", "fetchRules")
  \/ SetState("setPendingOverride", "PENDING_MANAGER_APPROVAL", "selectOverride")
  \/ SelectDecision("selectOverride", "override")
  \/ LogAudit("auditOverride", "VALIDATION_OVERRIDE_APPROVED", decider, "fetchRules")
  \/ FetchRules
  \/ SetState("setPendingManager", "PENDING_MANAGER_APPROVAL", "selectManager")
  \/ SelectDecision("selectManager", "manager")
  \/ LogAudit("auditManager", "MANAGER_APPROVED", decider, FirstStep(required \ {"manager"}))
  \/ SetState("setPendingFinance", "PENDING_FINANCE_APPROVAL", "selectFinance")
  \/ SelectDecision("selectFinance", "finance")
  \/ LogAudit("auditFinance", "FINANCE_APPROVED", decider, "setApproved")
  \/ SetState("setApproved", "APPROVED", "auditApproved")
  \/ LogAudit("auditApproved", "APPROVED", "system", "setArchived")
  \/ SetState("setArchived", "ARCHIVED", "auditArchived")
  \/ LogAudit("auditArchived", "ARCHIVED", "system", "return")
  \/ SetState("setRejected", "REJECTED", "auditRejected")
  \/ LogAudit("auditRejected", "REJECTED", decider, "return")
  \/ Return

ReviewStep ==
  \E user \in Users :
    \/ Reject(user)
    \/ ManagerApproves(user)
    \/ FinanceApproves(user)
    \/ AdminSignalsManager(user)
    \/ AdminSignalsFinance(user)

SweepStep == ListStuck \/ Describe \/ Restart

Next ==
  \/ FileUpload
  \/ StopUpload
  \/ WorkflowStep
  \/ ReviewStep
  \/ LoseExecution
  \/ ExpireExecution
  \/ Age
  \/ SweepStep
  \/ AbortSweep

Spec == Init /\ [][Next]_vars

(***************************************************************************)
(* The worker polls for ever and retries activities, a request ends, time  *)
(* passes, retention runs (strongly fair: it does not wait for the sweep,  *)
(* whose short window is left out above) and the sweep is on a ticker.     *)
(* Nothing is assumed of a device's retry.                                 *)
(***************************************************************************)
Fairness ==
  /\ WF_vars(WorkflowStep)
  /\ WF_vars(ingest = "open" /\ (FileUpload \/ StopUpload))
  /\ WF_vars(Age)
  /\ SF_vars(ExpireExecution)
  /\ WF_vars(SweepStep)

FairSpec == Spec /\ Fairness

\* Somebody with the right role answers an invoice that waits for them.
ReviewersAnswer ==
  /\ WF_vars(pc \in {"override", "manager"} /\ \E user \in Users : ManagerApproves(user))
  /\ WF_vars(pc = "finance" /\ \E user \in Users : FinanceApproves(user))

-----------------------------------------------------------------------------
(***************************************************************************)
(* Properties.                                                             *)
(***************************************************************************)

\* What a run must have obtained before it may approve: every approval its
\* rules required, and for a failed validation an override by a person or,
\* for an arithmetic discrepancy only, the AI's resolution.
Consented ==
  /\ verdict # "none"
  /\ \A stage \in required :
       \E a \in approvals : a.stage = stage /\ RoleOf[a.by] \in MayDecide(stage)
  /\ verdict # "valid" =>
       \/ verdict = "arithmetic" /\ aiResolved
       \/ \E a \in approvals :
            a.stage = "override" /\ RoleOf[a.by] \in MayDecide("override")

\* An invoice becomes approved only in a run that holds every consent it
\* needs, from people whose role allows it, however signals were buffered,
\* runs were restarted and activities failed.
ApprovalNeedsConsent ==
  [][dbState \notin Approved /\ dbState' \in Approved => Consented]_vars

\* Restarts that wait to happen although nobody asked whether the invoice has
\* been decided: an unfinished upload will start a run when it is retried, and a
\* sweep whose describe call failed, or was overtaken, holds one ready.
Doubts ==
  (IF ingest = "partial" THEN 1 ELSE 0) + (IF sweep = "missing" /\ exec # "none" THEN 1 ELSE 0)

\* The run will write over a decision if its writes do not fail.
UnderReviewAgain ==
  /\ exec = "running" /\ pc \notin {"auditArchived", "auditRejected", "return"}
  /\ \/ dbState = "REJECTED"
     \/ dbState \in Approved /\ pc \notin {"auditApproved", "setArchived"}

\* Failed describe calls and unfinished uploads that have had their effect.
UsedUp ==
  (describeErrors + partialUploads) - (Doubts + (IF UnderReviewAgain THEN 1 ELSE 0))

\* The decision of an invoice, or its archived state, is written over.
Undoing ==
  \/ dbState \in Final /\ dbState' # dbState
  \/ dbState \in Approved /\ dbState' \notin Approved

\* A decision is undone at most once for each describe call that failed and each
\* upload that stopped half way: whatever else fails, is lost, expires or is
\* signalled, an invoice that is rejected or archived stays so.
UndoneOncePerCause == [][UsedUp <= UsedUp' /\ (Undoing => UsedUp < UsedUp')]_vars

StageEvent(stage) ==
  CASE stage = "manager" -> "MANAGER_APPROVED" [] stage = "finance" -> "FINANCE_APPROVED"

\* The run's rules required a consent that the trail does not hold.
Missing(stage) ==
  IF stage \in required /\ (\A e \in audit : e.event # StageEvent(stage)) THEN 1 ELSE 0

\* The audit trail explains an archived invoice: approvals on file name a
\* person who may give them, and of the approvals the run's rules required no
\* more are missing when the invoice is archived than activities have failed.
TrailExplainsApproval ==
  /\ \A stage \in {"manager", "finance"} : \A e \in audit :
       e.event = StageEvent(stage) => e.actor \in Users /\ RoleOf[e.actor] \in MayDecide(stage)
  /\ pc = "auditArchived" => Missing("manager") + Missing("finance") <= faults

\* A blocked wait never leaves a signal it is waiting for unread.
NoUnreadDecision ==
  pc \in Stages => signals[ChannelOf(pc)] = << >> /\ signals["RejectionSignal"] = << >>

\* An invoice in a state the reconciler looks at, without an open execution,
\* gets one again (or is found to be filed by the upload that starts it).
StuckIsRestarted ==
  (dbState \in StuckStates /\ exec # "running" /\ ingest # "open") ~> (exec = "running")

\* With reviewers who answer, every invoice is rejected or archived, unless its
\* execution was lost in a state the sweep does not look at.
EveryInvoiceDecided ==
  ReviewersAnswer =>
    <>(dbState \in Final \/ (exec = "none" /\ dbState \in {"VALIDATION_FAILED", "APPROVED"}))

\* The lifecycle implements ApprovalPolicy: what is still to be consented to is
\* read off the run, the decision off the row, and the doubts off the upload and
\* the sweep.
Policy ==
  INSTANCE ApprovalPolicy WITH
    People   <- Users,
    Entitled <- [stage \in Stages |-> {u \in Users : RoleOf[u] \in MayDecide(stage)}],
    status   <- IF dbState \in Approved THEN "approved"
                ELSE IF dbState = "REJECTED" THEN "rejected" ELSE "open",
    needs    <- required \cup
                IF verdict \in {"arithmetic", "evidence"} /\ ~aiResolved
                THEN {"override"} ELSE {},
    consents <- approvals,
    doubts   <- Doubts,
    again    <- UnderReviewAgain

\* The workflow, its restarts and failures stay within the approval policy, wrong
\* describe answers and unfinished uploads included.
ImplementsPolicy == Policy!Spec
=============================================================================
