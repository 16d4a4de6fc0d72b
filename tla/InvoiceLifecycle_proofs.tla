----------------------- MODULE InvoiceLifecycle_proofs -----------------------
(***************************************************************************)
(* Proofs about InvoiceLifecycle, for any set of reviewers and any bounds: *)
(* type correctness, that an approval always has its consents, that only a *)
(* failure strands an invoice, that a decision is undone at most once for  *)
(* each failed describe call and unfinished upload, and that the lifecycle *)
(* implements ApprovalPolicy.                                              *)
(***************************************************************************)
EXTENDS InvoiceLifecycle, TLAPS

-----------------------------------------------------------------------------
(***************************************************************************)
(* Type correctness.                                                       *)
(***************************************************************************)

LEMMA NoSignalsType == NoSignals \in [Channels -> Seq(Users)]
<1>1. << >> \in Seq(Users)
  OBVIOUS
<1> QED BY <1>1 DEF NoSignals

LEMMA LaunchType ==
  ASSUME TypeOK, Launch
  PROVE  /\ exec' \in {"none", "running", "completed", "failed"}
         /\ pc' \in Positions /\ verdict' \in Verdicts /\ aiResolved' \in BOOLEAN
         /\ required' \subseteq {"manager", "finance"} /\ approvals' \subseteq Approval
         /\ decider' \in Users \cup {"system"} /\ signals' \in [Channels -> Seq(Users)]
BY NoSignalsType DEF TypeOK, Launch, runVars, Positions, Verdicts

LEMMA FaultType ==
  ASSUME TypeOK, Fault
  PROVE  /\ faults' \in 0 .. MaxFaults
         /\ UNCHANGED <<losses, describeErrors, partialUploads>>
BY BoundsAssumption DEF TypeOK, Fault

LEMMA SetStateType ==
  ASSUME TypeOK, NEW p, NEW state \in InvoiceStates, NEW next \in Positions,
         SetState(p, state, next)
  PROVE  TypeOK'
<1>1. faults' \in 0 .. MaxFaults /\ UNCHANGED <<losses, describeErrors, partialUploads>>
  BY FaultType DEF SetState, TypeOK, budgetVars
<1> QED BY <1>1 DEF SetState, TypeOK, signalVars

LEMMA LogAuditType ==
  ASSUME TypeOK, NEW p, NEW event \in Events,
         NEW actor \in Users \cup {"system", "ai-agent", "uploader"},
         NEW next \in Positions, LogAudit(p, event, actor, next)
  PROVE  TypeOK'
<1>1. faults' \in 0 .. MaxFaults /\ UNCHANGED <<losses, describeErrors, partialUploads>>
  BY FaultType DEF LogAudit, TypeOK, budgetVars
<1>2. audit' \subseteq AuditEvent
  BY DEF LogAudit, TypeOK, AuditEvent
<1> QED BY <1>1, <1>2 DEF LogAudit, TypeOK, signalVars

LEMMA FailRunType ==
  ASSUME TypeOK, NEW p, FailRun(p)
  PROVE  TypeOK'
BY FaultType DEF FailRun, TypeOK, signalVars, dbVars, Positions

LEMMA ReceiveType ==
  ASSUME TypeOK, NEW stage \in Stages, NEW channel \in Channels, NEW user \in Users,
         Receive(stage, channel, user)
  PROVE  /\ decider' \in Users \cup {"system"} /\ approvals' \subseteq Approval
         /\ pc' \in Positions /\ UNCHANGED <<verdict, aiResolved, required>>
BY DEF TypeOK, Receive, Approval, AuditStep, Stages, Positions

LEMMA HeadTail ==
  ASSUME NEW S, NEW s \in Seq(S), s # << >>
  PROVE  Head(s) \in S /\ Tail(s) \in Seq(S)
OBVIOUS

LEMMA SelectDecisionType ==
  ASSUME TypeOK, NEW p, NEW stage \in Stages, SelectDecision(p, stage)
  PROVE  TypeOK'
<1>1. ChannelOf(stage) \in Channels /\ "RejectionSignal" \in Channels
  BY DEF ChannelOf, Channels
<1>2. \A c \in Channels : signals[c] \in Seq(Users)
  BY DEF TypeOK
<1>3. CASE \E c \in Channels :
             /\ signals[c] # << >>
             /\ Receive(stage, c, Head(signals[c]))
             /\ signals' = [signals EXCEPT ![c] = Tail(@)]
  <2>1. PICK c \in Channels :
             /\ signals[c] # << >>
             /\ Receive(stage, c, Head(signals[c]))
             /\ signals' = [signals EXCEPT ![c] = Tail(@)]
    BY <1>3
  <2>2. Head(signals[c]) \in Users /\ Tail(signals[c]) \in Seq(Users)
    BY <1>2, <2>1, HeadTail
  <2>3. signals' \in [Channels -> Seq(Users)]
    BY <2>1, <2>2 DEF TypeOK
  <2> QED
    BY <2>1, <2>2, <2>3, ReceiveType
    DEF SelectDecision, TypeOK, dbVars, budgetVars
<1>4. CASE pc' = stage /\ UNCHANGED <<verdict, aiResolved, required, approvals, decider, signals>>
  BY <1>4 DEF SelectDecision, TypeOK, dbVars, budgetVars, Stages, Positions
<1> QED BY <1>1, <1>3, <1>4 DEF SelectDecision

LEMMA SignalType ==
  ASSUME TypeOK, NEW channel \in Channels, NEW user \in Users,
         \/ Signal(channel, user)
         \/ UNCHANGED <<signals, runVars>>
  PROVE  /\ decider' \in Users \cup {"system"} /\ approvals' \subseteq Approval
         /\ pc' \in Positions /\ verdict' \in Verdicts /\ aiResolved' \in BOOLEAN
         /\ required' \subseteq {"manager", "finance"}
         /\ signals' \in [Channels -> Seq(Users)]
<1>1. CASE pc \in Stages /\ Receive(pc, channel, user) /\ UNCHANGED signals
  BY <1>1, ReceiveType DEF TypeOK
<1>2. CASE signals' = [signals EXCEPT ![channel] = Append(@, user)] /\ UNCHANGED runVars
  <2>1. Append(signals[channel], user) \in Seq(Users)
    BY DEF TypeOK
  <2> QED BY <1>2, <2>1 DEF TypeOK, runVars
<1>3. CASE UNCHANGED <<signals, runVars>>
  BY <1>3 DEF TypeOK, runVars
<1> QED BY <1>1, <1>2, <1>3 DEF Signal

LEMMA WorkflowStepType ==
  ASSUME TypeOK, WorkflowStep
  PROVE  TypeOK'
<1> USE DEF Positions
<1>1. CASE Extract
  BY <1>1, FailRunType
  DEF Extract, TypeOK, dbVars, signalVars, budgetVars
<1>2. CASE Validate
  BY <1>2, FailRunType
  DEF Validate, TypeOK, dbVars, signalVars, budgetVars, Verdicts
<1>3. CASE RaiseException
  BY <1>3 DEF RaiseException, TypeOK, dbVars, signalVars, budgetVars
<1>4. CASE AIResolve
  <2>1. aiResolved' \in BOOLEAN
    BY <1>4 DEF AIResolve, TypeOK
  <2>2. faults' \in 0 .. MaxFaults /\ UNCHANGED <<losses, describeErrors, partialUploads>>
    BY <1>4, FaultType DEF AIResolve, TypeOK, budgetVars
  <2>3. pc' \in Positions
    BY <1>4 DEF AIResolve
  <2> QED BY <1>4, <2>1, <2>2, <2>3 DEF AIResolve, TypeOK, dbVars, signalVars
<1>5. CASE FetchRules
  BY <1>5, FailRunType
  DEF FetchRules, FirstStep, TypeOK, dbVars, signalVars, budgetVars
<1>6. CASE Return
  BY <1>6 DEF Return, TypeOK, dbVars, signalVars, budgetVars
<1>7. ASSUME NEW p, NEW state \in InvoiceStates, NEW next \in Positions,
             SetState(p, state, next)
      PROVE  TypeOK'
  BY <1>7, SetStateType
<1>8. ASSUME NEW p, NEW event \in Events,
             NEW actor \in Users \cup {"system", "ai-agent", "uploader"},
             NEW next \in Positions, LogAudit(p, event, actor, next)
      PROVE  TypeOK'
  BY <1>8, LogAuditType
<1>9. ASSUME NEW p, NEW stage \in Stages, SelectDecision(p, stage)
      PROVE  TypeOK'
  BY <1>9, SelectDecisionType
<1>10. decider \in Users \cup {"system", "ai-agent", "uploader"}
  BY DEF TypeOK
<1>11. FirstStep(required \ {"manager"}) \in Positions
  BY DEF FirstStep
<1> QED
  BY <1>1, <1>2, <1>3, <1>4, <1>5, <1>6, <1>7, <1>8, <1>9, <1>10, <1>11
  DEF WorkflowStep, InvoiceStates, Events, Stages

LEMMA ReviewStepType ==
  ASSUME TypeOK, ReviewStep
  PROVE  TypeOK'
<1>1. PICK user \in Users :
        \/ Reject(user) \/ ManagerApproves(user) \/ FinanceApproves(user)
        \/ AdminSignalsManager(user) \/ AdminSignalsFinance(user)
  BY DEF ReviewStep
<1>2. PICK channel \in Channels :
        Signal(channel, user) \/ UNCHANGED <<signals, runVars>>
  BY <1>1 DEF Reject, ManagerApproves, FinanceApproves, AdminSignalsManager,
              AdminSignalsFinance, Channels
<1>3. adminCalls' \subseteq Users
  BY <1>1 DEF TypeOK, Reject, ManagerApproves, FinanceApproves,
              AdminSignalsManager, AdminSignalsFinance
<1>4. UNCHANGED <<dbVars, ingest, exec, sweep, budgetVars>>
  BY <1>1 DEF Reject, ManagerApproves, FinanceApproves, AdminSignalsManager,
              AdminSignalsFinance
<1> QED BY <1>2, <1>3, <1>4, SignalType DEF TypeOK, dbVars, budgetVars

\* The type invariant is preserved by every step.
LEMMA TypeStep ==
  ASSUME TypeOK, [Next]_vars
  PROVE  TypeOK'
<1>1. CASE FileUpload
  <2>1. audit' \subseteq AuditEvent
    BY <1>1 DEF FileUpload, TypeOK, AuditEvent, Events
  <2>2. Launch \/ UNCHANGED <<exec, runVars, signals>>
    BY <1>1 DEF FileUpload
  <2> QED BY <1>1, <2>1, <2>2, LaunchType DEF FileUpload, TypeOK, budgetVars, runVars
<1>2. CASE StopUpload
  BY <1>2, BoundsAssumption DEF StopUpload, TypeOK, dbVars, runVars, signalVars
<1>3. CASE WorkflowStep
  BY <1>3, WorkflowStepType
<1>4. CASE ReviewStep
  BY <1>4, ReviewStepType
<1>5. CASE LoseExecution
  BY <1>5, BoundsAssumption DEF LoseExecution, TypeOK, dbVars, signalVars, Positions
<1>6. CASE ExpireExecution
  BY <1>6 DEF ExpireExecution, TypeOK, dbVars, runVars, signalVars, budgetVars
<1>7. CASE Age
  BY <1>7 DEF Age, TypeOK, runVars, signalVars, budgetVars
<1>8. CASE ListStuck
  BY <1>8 DEF ListStuck, TypeOK, dbVars, runVars, signalVars, budgetVars
<1>9. CASE Describe
  BY <1>9, BoundsAssumption DEF Describe, TypeOK, dbVars, runVars, signalVars
<1>10. CASE Restart
  BY <1>10, LaunchType DEF Restart, TypeOK, dbVars, budgetVars
<1>11. CASE AbortSweep
  BY <1>11, FaultType DEF AbortSweep, TypeOK, dbVars, runVars, signalVars
<1>12. CASE UNCHANGED vars
  BY <1>12 DEF vars, TypeOK, dbVars, runVars, signalVars, budgetVars
<1> QED
  BY <1>1, <1>2, <1>3, <1>4, <1>5, <1>6, <1>7, <1>8, <1>9, <1>10, <1>11, <1>12
  DEF Next, SweepStep

LEMMA TypeInit ==
  ASSUME Init
  PROVE  TypeOK
<1>1. stale \in BOOLEAN /\ aiResolved \in BOOLEAN
  BY DEF Init
<1>2. /\ faults \in 0 .. MaxFaults /\ losses \in 0 .. MaxLosses
      /\ describeErrors \in 0 .. MaxDescribeErrors
      /\ partialUploads \in 0 .. MaxPartialUploads
  BY BoundsAssumption DEF Init
<1>3. dbState \in InvoiceStates /\ pc \in Positions /\ verdict \in Verdicts
  BY DEF Init, InvoiceStates, Positions, Verdicts
<1> QED BY <1>1, <1>2, <1>3, NoSignalsType DEF Init, TypeOK

\* Every variable keeps its type: the row holds one of the eight states, the
\* trail only events the code writes, the channels only senders with a token.
THEOREM TypeCorrect == Spec => []TypeOK
<1>1. TypeOK /\ [Next]_vars => TypeOK'
  BY TypeStep
<1> QED BY TypeInit, <1>1, PTL DEF Spec

-----------------------------------------------------------------------------
(***************************************************************************)
(* Consent.  ApprovalNeedsConsent is not inductive: it needs to be known   *)
(* that a buffered signal was sent by somebody its channel allows (the     *)
(* signal may be read stages later), and what a run has already obtained   *)
(* at every place it can be.                                               *)
(***************************************************************************)

SendersEntitled ==
  \A stage \in Stages : \A i \in 1 .. Len(signals[ChannelOf(stage)]) :
    RoleOf[signals[ChannelOf(stage)][i]] \in MayDecide(stage)

AdminCallers == \A u \in adminCalls : RoleOf[u] = "ADMIN"

ApprovalsEntitled == \A a \in approvals : RoleOf[a.by] \in MayDecide(a.stage)

Obtained(stage) == \E a \in approvals : a.stage = stage

\* The validation passed, or its failure has been dealt with.
Settled ==
  \/ verdict = "valid"
  \/ verdict = "arithmetic" /\ aiResolved
  \/ verdict # "none" /\ Obtained("override")

Assessing == {"extract", "auditExtracted", "setValidating", "validate"}
Escalating ==
  {"setValidationFail", "auditValidationFailed", "raiseException", "aiResolve",
   "auditAIResolved", "setPendingOverride", "selectOverride", "override", "auditOverride"}
AskingManager == {"setPendingManager", "selectManager", "manager"}
AskingFinance == {"setPendingFinance", "selectFinance", "finance"}
Approving == {"setApproved", "auditApproved", "setArchived", "auditArchived"}

\* What is known of the run at each place.
RunInv ==
  /\ pc \in Assessing => verdict = "none"
  /\ pc \in Escalating => verdict \in {"arithmetic", "evidence"}
  /\ pc \in Assessing \cup Escalating \cup {"fetchRules"} => required = {}
  /\ pc = "aiResolve" => verdict = "arithmetic"
  /\ pc = "auditAIResolved" => verdict = "arithmetic" /\ aiResolved
  /\ pc = "auditOverride" => Obtained("override")
  /\ pc \in {"fetchRules", "auditManager", "auditFinance"}
              \cup AskingManager \cup AskingFinance \cup Approving => Settled
  /\ pc \in {"auditManager", "auditFinance"} \cup AskingFinance \cup Approving
       /\ "manager" \in required => Obtained("manager")
  /\ pc \in {"auditFinance"} \cup Approving
       /\ "finance" \in required => Obtained("finance")

ConsentInv ==
  /\ TypeOK
  /\ SendersEntitled
  /\ AdminCallers
  /\ ApprovalsEntitled
  /\ RunInv

\* Receiving a decision from somebody the channel allows, at a wait.
LEMMA ReceiveConsent ==
  ASSUME ConsentInv, NEW stage \in Stages, NEW channel \in Channels, NEW user \in Users,
         Receive(stage, channel, user),
         channel = ChannelOf(stage) => RoleOf[user] \in MayDecide(stage),
         \/ pc = stage
         \/ stage = "override" /\ pc = "selectOverride"
         \/ stage = "manager" /\ pc = "selectManager"
         \/ stage = "finance" /\ pc = "selectFinance"
  PROVE  ApprovalsEntitled' /\ RunInv'
<1>1. CASE /\ channel = ChannelOf(stage)
           /\ approvals' = approvals \cup {[stage |-> stage, by |-> user]}
           /\ pc' = AuditStep(stage)
  <2>1. ApprovalsEntitled'
    BY <1>1 DEF ConsentInv, ApprovalsEntitled
  <2>2. \E a \in approvals' : a.stage = stage
    <3>1. [stage |-> stage, by |-> user] \in approvals'
      BY <1>1
    <3> QED BY <3>1
  <2>3. approvals \subseteq approvals'
    BY <1>1
  <2>4. pc' \notin Assessing \cup AskingManager \cup AskingFinance \cup Approving
        /\ pc' \notin Escalating \ {"auditOverride"}
        /\ pc' # "fetchRules"
    BY <1>1 DEF AuditStep, Stages, Assessing, Escalating, AskingManager, AskingFinance, Approving
  <2>5. CASE stage = "override"
    BY <1>1, <2>1, <2>2, <2>4, <2>5
    DEF AuditStep, ConsentInv, RunInv, Receive, Escalating, Obtained
  <2>6. CASE stage = "manager"
    <3>1. pc' = "auditManager" /\ Settled
      BY <1>1, <2>6 DEF AuditStep, ConsentInv, RunInv, AskingManager
    <3>2. Settled' /\ Obtained("manager")'
      BY <2>2, <2>3, <2>6, <3>1 DEF Settled, Obtained, Receive
    <3> QED BY <2>1, <2>4, <3>1, <3>2 DEF RunInv, Escalating
  <2>7. CASE stage = "finance"
    <3>1. /\ pc' = "auditFinance" /\ Settled
          /\ "manager" \in required => Obtained("manager")
      BY <1>1, <2>7 DEF AuditStep, ConsentInv, RunInv, AskingFinance
    <3>2. Settled' /\ Obtained("finance")' /\ ("manager" \in required' => Obtained("manager")')
      BY <2>2, <2>3, <2>7, <3>1 DEF Settled, Obtained, Receive
    <3> QED BY <2>1, <2>4, <3>1, <3>2 DEF RunInv, Escalating
  <2> QED BY <2>1, <2>5, <2>6, <2>7 DEF Stages
<1>2. CASE pc' = "setRejected" /\ UNCHANGED approvals
  BY <1>2 DEF ConsentInv, ApprovalsEntitled, RunInv, Assessing, Escalating,
     AskingManager, AskingFinance, Approving
<1> QED BY <1>1, <1>2 DEF Receive

LEMMA TailSenders ==
  ASSUME NEW s \in Seq(Users), NEW R, s # << >>,
         \A i \in 1 .. Len(s) : RoleOf[s[i]] \in R
  PROVE  /\ RoleOf[Head(s)] \in R
         /\ \A i \in 1 .. Len(Tail(s)) : RoleOf[Tail(s)[i]] \in R
OBVIOUS

LEMMA AppendSenders ==
  ASSUME NEW s \in Seq(Users), NEW R, NEW user \in Users, RoleOf[user] \in R,
         \A i \in 1 .. Len(s) : RoleOf[s[i]] \in R
  PROVE  \A i \in 1 .. Len(Append(s, user)) : RoleOf[Append(s, user)[i]] \in R
OBVIOUS

LEMMA SelectConsent ==
  ASSUME ConsentInv, NEW p, NEW stage \in Stages, SelectDecision(p, stage),
         \/ stage = "override" /\ p = "selectOverride"
         \/ stage = "manager" /\ p = "selectManager"
         \/ stage = "finance" /\ p = "selectFinance"
  PROVE  SendersEntitled' /\ AdminCallers' /\ ApprovalsEntitled' /\ RunInv'
<1>1. AdminCallers'
  BY DEF SelectDecision, AdminCallers, ConsentInv
<1>2. ASSUME NEW c \in Channels, c \in {ChannelOf(stage), "RejectionSignal"},
             signals[c] # << >>,
             Receive(stage, c, Head(signals[c])),
             signals' = [signals EXCEPT ![c] = Tail(@)]
      PROVE  SendersEntitled' /\ ApprovalsEntitled' /\ RunInv'
  <2>1. signals \in [Channels -> Seq(Users)]
    BY DEF ConsentInv, TypeOK
  <2>2. Head(signals[c]) \in Users
    BY <1>2, <2>1, HeadTail
  <2>3. \A t \in Stages : ChannelOf(t) \in Channels
    BY DEF ChannelOf, Channels
  <2>4. ASSUME NEW t \in Stages, c = ChannelOf(t)
        PROVE  /\ RoleOf[Head(signals[c])] \in MayDecide(t)
               /\ \A i \in 1 .. Len(Tail(signals[c])) : RoleOf[Tail(signals[c])[i]] \in MayDecide(t)
    BY <1>2, <2>1, <2>4, TailSenders DEF ConsentInv, SendersEntitled
  <2>5. SendersEntitled'
    BY <1>2, <2>1, <2>3, <2>4 DEF ConsentInv, SendersEntitled
  <2> QED BY <1>2, <2>2, <2>4, <2>5, ReceiveConsent DEF SelectDecision, At
<1>3. CASE pc' = stage /\ UNCHANGED <<verdict, aiResolved, required, approvals, decider, signals>>
  <2>1. SendersEntitled' /\ ApprovalsEntitled'
    BY <1>3 DEF ConsentInv, SendersEntitled, ApprovalsEntitled
  <2>2. RunInv'
    BY <1>3 DEF SelectDecision, At, ConsentInv, RunInv, Settled, Obtained, Assessing,
       Escalating, AskingManager, AskingFinance, Approving
  <2> QED BY <1>1, <2>1, <2>2
<1>4. ChannelOf(stage) \in Channels /\ "RejectionSignal" \in Channels
  BY DEF ChannelOf, Channels
<1> QED BY <1>1, <1>2, <1>3, <1>4 DEF SelectDecision

LEMMA SignalConsent ==
  ASSUME ConsentInv, NEW channel \in Channels, NEW user \in Users,
         \/ Signal(channel, user)
         \/ UNCHANGED <<signals, runVars>>,
         \A stage \in Stages : channel = ChannelOf(stage) => RoleOf[user] \in MayDecide(stage)
  PROVE  SendersEntitled' /\ ApprovalsEntitled' /\ RunInv'
<1>1. CASE pc \in Stages /\ Receive(pc, channel, user) /\ UNCHANGED signals
  <2>1. ApprovalsEntitled' /\ RunInv'
    BY <1>1, ReceiveConsent
  <2>2. SendersEntitled'
    BY <1>1 DEF ConsentInv, SendersEntitled
  <2> QED BY <2>1, <2>2
<1>2. CASE signals' = [signals EXCEPT ![channel] = Append(@, user)] /\ UNCHANGED runVars
  <2>1. signals \in [Channels -> Seq(Users)]
    BY DEF ConsentInv, TypeOK
  <2>2. ASSUME NEW t \in Stages, channel = ChannelOf(t)
        PROVE  \A i \in 1 .. Len(Append(signals[channel], user)) :
                 RoleOf[Append(signals[channel], user)[i]] \in MayDecide(t)
    BY <2>1, <2>2, AppendSenders DEF ConsentInv, SendersEntitled
  <2>3. SendersEntitled'
    <3>1. \A t \in Stages : ChannelOf(t) \in Channels
      BY DEF ChannelOf, Channels
    <3> QED BY <1>2, <2>1, <2>2, <3>1 DEF ConsentInv, SendersEntitled
  <2>4. ApprovalsEntitled' /\ RunInv'
    BY <1>2 DEF ConsentInv, ApprovalsEntitled, RunInv, Settled, Obtained, runVars
  <2> QED BY <2>3, <2>4
<1>3. CASE UNCHANGED <<signals, runVars>>
  BY <1>3 DEF ConsentInv, SendersEntitled, ApprovalsEntitled, RunInv, Settled, Obtained, runVars
<1> QED BY <1>1, <1>2, <1>3 DEF Signal

LEMMA LaunchConsent ==
  ASSUME ConsentInv, Launch
  PROVE  SendersEntitled' /\ ApprovalsEntitled' /\ RunInv'
<1>1. CASE UNCHANGED <<exec, runVars, signals>>
  BY <1>1
  DEF ConsentInv, SendersEntitled, ApprovalsEntitled, RunInv, Settled, Obtained, runVars
<1>2. CASE /\ pc' = "extract"
           /\ verdict' = "none" /\ aiResolved' = FALSE /\ required' = {}
           /\ approvals' = {} /\ decider' = "system" /\ signals' = NoSignals
  <2>1. SendersEntitled'
    <3>1. \A stage \in Stages : NoSignals[ChannelOf(stage)] = << >>
      BY DEF NoSignals, ChannelOf, Channels
    <3> QED BY <1>2, <3>1 DEF SendersEntitled
  <2>2. ApprovalsEntitled' /\ RunInv'
    BY <1>2 DEF ApprovalsEntitled, RunInv, Assessing, Escalating, AskingManager,
       AskingFinance, Approving
  <2> QED BY <2>1, <2>2
<1> QED BY <1>1, <1>2 DEF Launch

\* A step of the run that leaves approvals and channels alone.
LEMMA QuietConsent ==
  ASSUME ConsentInv, UNCHANGED <<approvals, signals, adminCalls>>, RunInv'
  PROVE  SendersEntitled' /\ AdminCallers' /\ ApprovalsEntitled' /\ RunInv'
BY DEF ConsentInv, SendersEntitled, AdminCallers, ApprovalsEntitled

\* A step that only moves the run on, from p to next.
MovesOn(p, next) ==
  /\ At(p) /\ pc' = next
  /\ UNCHANGED <<verdict, aiResolved, required, approvals, signals, adminCalls>>

LEMMA MovesOnConsent ==
  ASSUME ConsentInv, NEW p, NEW next, MovesOn(p, next),
         \/ p = "extract" /\ next = "auditExtracted"
         \/ p = "auditExtracted" /\ next = "setValidating"
         \/ p = "setValidating" /\ next = "validate"
         \/ p = "setValidationFail" /\ next = "auditValidationFailed"
         \/ p = "auditValidationFailed" /\ next = "raiseException"
         \/ p = "raiseException" /\ next = "setPendingOverride"
         \/ p = "raiseException" /\ next = "aiResolve" /\ verdict # "evidence"
         \/ p = "aiResolve" /\ next = "setPendingOverride"
         \/ p = "auditAIResolved" /\ next = "fetchRules"
         \/ p = "setPendingOverride" /\ next = "selectOverride"
         \/ p = "auditOverride" /\ next = "fetchRules"
         \/ p = "setPendingManager" /\ next = "selectManager"
         \/ p = "auditManager" /\ next = FirstStep(required \ {"manager"})
         \/ p = "setPendingFinance" /\ next = "selectFinance"
         \/ p = "auditFinance" /\ next = "setApproved"
         \/ p = "setApproved" /\ next = "auditApproved"
         \/ p = "auditApproved" /\ next = "setArchived"
         \/ p = "setArchived" /\ next = "auditArchived"
         \/ next \in {"auditRejected", "return"}
  PROVE  SendersEntitled' /\ AdminCallers' /\ ApprovalsEntitled' /\ RunInv'
<1> USE DEF Assessing, Escalating, AskingManager, AskingFinance, Approving
<1>1. Settled' = Settled /\ \A stage \in Stages : Obtained(stage)' = Obtained(stage)
  BY DEF MovesOn, Settled, Obtained
<1>2. /\ Obtained("override")' = Obtained("override")
      /\ Obtained("manager")' = Obtained("manager")
      /\ Obtained("finance")' = Obtained("finance")
  BY DEF MovesOn, Obtained
<1>3. pc \in Escalating /\ pc = "auditAIResolved" => Settled
  BY DEF ConsentInv, RunInv, Settled
<1>4. pc = "auditOverride" => Settled
  BY DEF ConsentInv, RunInv, Settled
<1>5. CASE p = "auditManager" /\ next = FirstStep(required \ {"manager"})
  BY <1>1, <1>2, <1>5, QuietConsent DEF MovesOn, At, FirstStep, ConsentInv, RunInv
<1>6. CASE p # "auditManager"
  <2>1. RunInv'
    BY <1>1, <1>2, <1>3, <1>4, <1>6 DEF MovesOn, At, ConsentInv, RunInv
  <2> QED BY <2>1, QuietConsent DEF MovesOn
<1>7. CASE next \in {"auditRejected", "return"}
  <2>1. RunInv'
    BY <1>7 DEF MovesOn, RunInv
  <2> QED BY <2>1, QuietConsent DEF MovesOn
<1> QED BY <1>5, <1>6, <1>7

LEMMA WorkflowConsent ==
  ASSUME ConsentInv, WorkflowStep
  PROVE  SendersEntitled' /\ AdminCallers' /\ ApprovalsEntitled' /\ RunInv'
<1> DEFINE Goal == SendersEntitled' /\ AdminCallers' /\ ApprovalsEntitled' /\ RunInv'
<1>1. ASSUME NEW p, FailRun(p) PROVE Goal
  <2>1. RunInv'
    BY <1>1 DEF FailRun, RunInv, Assessing, Escalating, AskingManager, AskingFinance, Approving
  <2> QED BY <1>1, <2>1, QuietConsent DEF FailRun, signalVars
<1>2. CASE Extract
  BY <1>1, <1>2, MovesOnConsent DEF Extract, MovesOn, signalVars
<1>3. CASE Validate /\ ~FailRun("validate")
  <2>1. RunInv'
    BY <1>3 DEF Validate, At, ConsentInv, RunInv, Settled, Obtained, Assessing, Escalating,
       AskingManager, AskingFinance, Approving
  <2> QED BY <1>3, <2>1, QuietConsent DEF Validate, signalVars
<1>4. CASE RaiseException
  BY <1>4, MovesOnConsent DEF RaiseException, MovesOn, signalVars
<1>5. CASE AIResolve /\ pc' = "setPendingOverride" /\ UNCHANGED aiResolved
  BY <1>5, MovesOnConsent DEF AIResolve, MovesOn, signalVars
<1>6. CASE AIResolve /\ aiResolved' = TRUE /\ pc' = "auditAIResolved"
  <2>1. RunInv'
    BY <1>6 DEF AIResolve, At, ConsentInv, RunInv, Settled, Obtained, Assessing, Escalating,
       AskingManager, AskingFinance, Approving
  <2> QED BY <1>6, <2>1, QuietConsent DEF AIResolve, signalVars
<1>7. CASE FetchRules /\ ~FailRun("fetchRules")
  <2>1. RunInv'
    BY <1>7 DEF FetchRules, FirstStep, At, ConsentInv, RunInv, Settled, Obtained, Assessing,
       Escalating, AskingManager, AskingFinance, Approving
  <2> QED BY <1>7, <2>1, QuietConsent DEF FetchRules, signalVars
<1>8. CASE Return
  <2>1. RunInv'
    BY <1>8 DEF Return, RunInv, Assessing, Escalating, AskingManager, AskingFinance, Approving
  <2> QED BY <1>8, <2>1, QuietConsent DEF Return, signalVars
<1>9. ASSUME NEW p, NEW event, NEW actor, NEW next, LogAudit(p, event, actor, next)
      PROVE  MovesOn(p, next)
  BY <1>9 DEF LogAudit, MovesOn, signalVars
<1>10. ASSUME NEW p, NEW state, NEW next, SetState(p, state, next)
       PROVE  MovesOn(p, next)
  BY <1>10 DEF SetState, MovesOn, signalVars
<1>11. \/ LogAudit("auditExtracted", "DOCUMENT_EXTRACTED", "system", "setValidating")
       \/ SetState("setValidating", "VALIDATING", "validate")
       \/ SetState("setValidationFail", "VALIDATION_FAILED", "auditValidationFailed")
       \/ LogAudit("auditValidationFailed", "VALIDATION_FAILED", "system", "raiseException")
       \/ LogAudit("auditAIResolved", "AI_AUTO_RESOLVED", "ai-agent", "fetchRules")
       \/ SetState("setPendingOverride", "PENDING_MANAGER_APPROVAL", "selectOverride")
       \/ LogAudit("auditOverride", "VALIDATION_OVERRIDE_APPROVED", decider, "fetchRules")
       => Goal
  BY <1>9, <1>10, MovesOnConsent
<1>12. \/ SetState("setPendingManager", "PENDING_MANAGER_APPROVAL", "selectManager")
       \/ LogAudit("auditManager", "MANAGER_APPROVED", decider, FirstStep(required \ {"manager"}))
       \/ SetState("setPendingFinance", "PENDING_FINANCE_APPROVAL", "selectFinance")
       \/ LogAudit("auditFinance", "FINANCE_APPROVED", decider, "setApproved")
       \/ SetState("setApproved", "APPROVED", "auditApproved")
       \/ LogAudit("auditApproved", "APPROVED", "system", "setArchived")
       \/ SetState("setArchived", "ARCHIVED", "auditArchived")
       \/ LogAudit("auditArchived", "ARCHIVED", "system", "return")
       \/ SetState("setRejected", "REJECTED", "auditRejected")
       \/ LogAudit("auditRejected", "REJECTED", decider, "return")
       => Goal
  BY <1>9, <1>10, MovesOnConsent
<1>13. \/ SelectDecision("selectOverride", "override")
       \/ SelectDecision("selectManager", "manager")
       \/ SelectDecision("selectFinance", "finance")
       => Goal
  BY SelectConsent DEF Stages
<1>14. AIResolve => \/ pc' = "setPendingOverride" /\ UNCHANGED aiResolved
                    \/ aiResolved' = TRUE /\ pc' = "auditAIResolved"
  BY DEF AIResolve
<1> QED
  BY <1>1, <1>2, <1>3, <1>4, <1>5, <1>6, <1>7, <1>8, <1>11, <1>12, <1>13, <1>14
  DEF WorkflowStep

LEMMA ReviewConsent ==
  ASSUME ConsentInv, ReviewStep
  PROVE  SendersEntitled' /\ AdminCallers' /\ ApprovalsEntitled' /\ RunInv'
<1>1. PICK user \in Users :
        \/ Reject(user) \/ ManagerApproves(user) \/ FinanceApproves(user)
        \/ AdminSignalsManager(user) \/ AdminSignalsFinance(user)
  BY DEF ReviewStep
<1>2. AdminSignalsFinance(user) => RoleOf[user] = "ADMIN"
  BY DEF AdminSignalsFinance, ConsentInv, AdminCallers
<1>3. AdminCallers'
  BY <1>1 DEF ConsentInv, AdminCallers, Reject, ManagerApproves, FinanceApproves,
              AdminSignalsManager, AdminSignalsFinance
<1>4. \E channel \in Channels :
        /\ Signal(channel, user) \/ UNCHANGED <<signals, runVars>>
        /\ \A stage \in Stages : channel = ChannelOf(stage) => RoleOf[user] \in MayDecide(stage)
  BY <1>1, <1>2 DEF Reject, ManagerApproves, FinanceApproves, AdminSignalsManager,
     AdminSignalsFinance, Channels, ChannelOf, MayDecide, Stages
<1> QED BY <1>3, <1>4, SignalConsent

\* Every step preserves what is known of the consents.
LEMMA ConsentStep ==
  ASSUME ConsentInv, [Next]_vars
  PROVE  ConsentInv'
<1> SUFFICES SendersEntitled' /\ AdminCallers' /\ ApprovalsEntitled' /\ RunInv'
  BY TypeStep DEF ConsentInv
<1>1. CASE FileUpload
  BY <1>1, LaunchConsent
  DEF FileUpload, ConsentInv, AdminCallers, SendersEntitled, ApprovalsEntitled, RunInv,
      Settled, Obtained, runVars
<1>2. CASE WorkflowStep
  BY <1>2, WorkflowConsent
<1>3. CASE ReviewStep
  BY <1>3, ReviewConsent
<1>4. CASE LoseExecution
  <2>1. RunInv'
    BY <1>4 DEF LoseExecution, RunInv, Assessing, Escalating, AskingManager,
       AskingFinance, Approving
  <2> QED BY <1>4, <2>1, QuietConsent DEF LoseExecution, signalVars
<1>5. CASE Restart
  BY <1>5, LaunchConsent DEF Restart, ConsentInv, AdminCallers
<1>6. CASE StopUpload \/ ExpireExecution \/ Age \/ ListStuck \/ Describe \/ AbortSweep
           \/ UNCHANGED vars
  <2>1. UNCHANGED <<runVars, signalVars>>
    BY <1>6 DEF StopUpload, ExpireExecution, Age, ListStuck, Describe, AbortSweep, vars
  <2>2. RunInv'
    BY <2>1 DEF ConsentInv, RunInv, Settled, Obtained, runVars
  <2> QED BY <2>1, <2>2, QuietConsent DEF runVars, signalVars
<1> QED BY <1>1, <1>2, <1>3, <1>4, <1>5, <1>6 DEF Next, SweepStep

LEMMA ConsentInit ==
  ASSUME Init
  PROVE  ConsentInv
<1>1. SendersEntitled
  <2>1. \A stage \in Stages : NoSignals[ChannelOf(stage)] = << >>
    BY DEF NoSignals, ChannelOf, Channels
  <2> QED BY <2>1 DEF Init, SendersEntitled
<1>2. AdminCallers /\ ApprovalsEntitled
  BY DEF Init, AdminCallers, ApprovalsEntitled
<1>3. RunInv
  BY DEF Init, RunInv, Assessing, Escalating, AskingManager, AskingFinance, Approving
<1> QED BY <1>1, <1>2, <1>3, TypeInit DEF ConsentInv

\* At every place of a run, the consents it has are those of people who may give
\* them, buffered signals included.
THEOREM ConsentInvariant == Spec => []ConsentInv
<1>1. ConsentInv /\ [Next]_vars => ConsentInv'
  BY ConsentStep
<1> QED BY ConsentInit, <1>1, PTL DEF Spec

\* Only two places of the workflow write an approved state.
LEMMA ApprovingStep ==
  ASSUME TypeOK, [Next]_vars, dbState \notin Approved, dbState' \in Approved
  PROVE  At("setApproved") \/ At("setArchived")
<1>1. WorkflowStep
  BY DEF Next, vars, dbVars, FileUpload, StopUpload, ReviewStep, Reject, ManagerApproves,
     FinanceApproves, AdminSignalsManager, AdminSignalsFinance, LoseExecution,
     ExpireExecution, Age, SweepStep, ListStuck, Describe, Restart, AbortSweep
<1>2. \E p, state, next : SetState(p, state, next) /\ state \in Approved
                          /\ p \in {"setApproved", "setArchived"}
  BY <1>1 DEF WorkflowStep, Approved, dbVars, Extract, Validate, RaiseException, AIResolve,
     FetchRules, Return, FailRun, LogAudit, SelectDecision, SetState
<1> QED BY <1>2 DEF SetState

\* The step that approves an invoice finds every consent obtained.
LEMMA ConsentedStep ==
  ASSUME ConsentInv, [Next]_vars, dbState \notin Approved, dbState' \in Approved
  PROVE  Consented
<1>1. pc \in Approving
  BY ApprovingStep DEF At, Approving, ConsentInv
<1>2. Settled /\ \A stage \in required : Obtained(stage)
  BY <1>1 DEF ConsentInv, TypeOK, RunInv
<1>3. \A stage \in required :
        \E a \in approvals : a.stage = stage /\ RoleOf[a.by] \in MayDecide(stage)
  BY <1>2 DEF ConsentInv, ApprovalsEntitled, Obtained
<1>4. verdict # "valid" =>
        \/ verdict = "arithmetic" /\ aiResolved
        \/ \E a \in approvals :
             a.stage = "override" /\ RoleOf[a.by] \in MayDecide("override")
  BY <1>2 DEF ConsentInv, ApprovalsEntitled, Settled, Obtained
<1> QED BY <1>2, <1>3, <1>4 DEF Consented, Settled

\* ApprovalNeedsConsent for any reviewers, any buffered signals and any number
\* of failures, losses, errors and partial uploads.
THEOREM ApprovalsAreConsented == Spec => ApprovalNeedsConsent
<1>1. ConsentInv /\ [Next]_vars =>
        [dbState \notin Approved /\ dbState' \in Approved => Consented]_vars
  BY ConsentedStep
<1> QED BY <1>1, ConsentInvariant, PTL DEF Spec, ApprovalNeedsConsent

-----------------------------------------------------------------------------
(***************************************************************************)
(* Signals at a wait.  The selector looks at both of its channels before   *)
(* it blocks, and a signal that reaches it while it does is its decision.  *)
(***************************************************************************)

LEMMA SelectReads ==
  ASSUME NEW p, NEW stage \in Stages, SelectDecision(p, stage)
  PROVE  NoUnreadDecision'
<1>1. CASE /\ signals[ChannelOf(stage)] = << >> /\ signals["RejectionSignal"] = << >>
           /\ pc' = stage /\ UNCHANGED signals
  BY <1>1 DEF NoUnreadDecision
<1>2. CASE pc' \in {AuditStep(stage), "setRejected"}
  BY <1>2 DEF NoUnreadDecision, Stages, AuditStep
<1> QED BY <1>1, <1>2 DEF SelectDecision, Receive

LEMMA SignalReads ==
  ASSUME TypeOK, NoUnreadDecision, NEW channel \in Channels, NEW user \in Users,
         Signal(channel, user) \/ UNCHANGED <<signals, runVars>>
  PROVE  NoUnreadDecision'
<1>1. CASE pc \in Stages /\ Receive(pc, channel, user)
  BY <1>1 DEF NoUnreadDecision, Receive, Stages, AuditStep
<1>2. CASE /\ ~(pc \in Stages /\ channel \in {ChannelOf(pc), "RejectionSignal"})
           /\ signals' = [signals EXCEPT ![channel] = Append(@, user)]
           /\ UNCHANGED runVars
  <2>1. pc' = pc
    BY <1>2 DEF runVars
  <2>2. ASSUME pc \in Stages
        PROVE  /\ signals'[ChannelOf(pc)] = signals[ChannelOf(pc)]
               /\ signals'["RejectionSignal"] = signals["RejectionSignal"]
    BY <1>2, <2>2 DEF TypeOK, Channels, ChannelOf
  <2> QED BY <2>1, <2>2 DEF NoUnreadDecision
<1>3. CASE UNCHANGED <<signals, runVars>>
  BY <1>3 DEF NoUnreadDecision, runVars
<1> QED BY <1>1, <1>2, <1>3 DEF Signal

LEMMA ReviewSignals ==
  ASSUME ReviewStep
  PROVE  \E user \in Users, channel \in Channels :
           Signal(channel, user) \/ UNCHANGED <<signals, runVars>>
BY DEF ReviewStep, Reject, ManagerApproves, FinanceApproves, AdminSignalsManager,
       AdminSignalsFinance, Channels

LEMMA LaunchReads == ASSUME NoUnreadDecision, Launch PROVE NoUnreadDecision'
BY DEF NoUnreadDecision, Launch, Stages, runVars

\* A step of the workflow that is no wait goes to a place that is none either.
LEMMA WorkflowReads == ASSUME TypeOK, WorkflowStep PROVE NoUnreadDecision'
<1>1. FirstStep(required \ {"manager"}) \notin Stages /\ FirstStep(required') \notin Stages
  BY DEF FirstStep, Stages
<1>2. Extract \/ Validate \/ RaiseException \/ AIResolve \/ FetchRules \/ Return => pc' \notin Stages
  BY <1>1 DEF Extract, Validate, RaiseException, AIResolve, FetchRules, Return, FailRun, Stages
<1>3. ASSUME NEW p, NEW event, NEW actor, NEW next, LogAudit(p, event, actor, next) PROVE pc' = next
  BY <1>3 DEF LogAudit
<1>4. ASSUME NEW p, NEW state, NEW next, SetState(p, state, next) PROVE pc' = next
  BY <1>4 DEF SetState
<1>5. \/ pc' \notin Stages
      \/ \E p : \E stage \in Stages : SelectDecision(p, stage)
  BY <1>1, <1>2, <1>3, <1>4 DEF WorkflowStep, Stages
<1> QED BY <1>5, SelectReads DEF NoUnreadDecision

LEMMA ReadsStep == ASSUME TypeOK, NoUnreadDecision, [Next]_vars PROVE NoUnreadDecision'
<1>1. CASE FileUpload
  BY <1>1, LaunchReads DEF FileUpload, NoUnreadDecision, runVars
<1>2. CASE WorkflowStep
  BY <1>2, WorkflowReads
<1>3. CASE ReviewStep
  BY <1>3, ReviewSignals, SignalReads
<1>4. CASE LoseExecution
  BY <1>4 DEF LoseExecution, NoUnreadDecision, Stages
<1>5. CASE Restart
  BY <1>5, LaunchReads DEF Restart
<1>6. CASE StopUpload \/ ExpireExecution \/ Age \/ ListStuck \/ Describe \/ AbortSweep
           \/ UNCHANGED vars
  <2>1. UNCHANGED <<runVars, signalVars>>
    BY <1>6 DEF StopUpload, ExpireExecution, Age, ListStuck, Describe, AbortSweep, vars
  <2> QED BY <2>1 DEF NoUnreadDecision, runVars, signalVars
<1> QED BY <1>1, <1>2, <1>3, <1>4, <1>5, <1>6 DEF Next, SweepStep

\* NoUnreadDecision for any reviewers and any number of buffered signals.
THEOREM DecisionsAreRead == Spec => []NoUnreadDecision
<1>1. Init => NoUnreadDecision
  BY DEF Init, NoUnreadDecision, Stages
<1>2. TypeOK /\ NoUnreadDecision /\ [Next]_vars => NoUnreadDecision'
  BY ReadsStep
<1> QED BY <1>1, <1>2, TypeCorrect, PTL DEF Spec

-----------------------------------------------------------------------------
(***************************************************************************)
(* Stranded invoices.  A run ends behind the state it has written last.    *)
(***************************************************************************)

\* As long as no activity has failed and no execution was lost: without an open
\* run the row is decided, or no run has been there.
StrandInv ==
  faults = 0 /\ losses = 0 =>
    /\ exec # "running" => dbState \in Final \cup {"INGESTED"}
    /\ exec = "running" /\ pc = "auditArchived" => dbState = "ARCHIVED"
    /\ exec = "running" /\ pc = "auditRejected" => dbState = "REJECTED"
    /\ exec = "running" /\ pc = "return" => dbState \in Final

\* The places from which a run returns with the next two steps.
Closing == {"auditArchived", "auditRejected", "return"}

\* A failure or a loss is never taken back, and shows at once.
LEMMA BudgetStrand ==
  ASSUME TypeOK, Fault \/ losses' = losses + 1
  PROVE  StrandInv'
BY BoundsAssumption DEF TypeOK, Fault, StrandInv

\* A step of an open run that goes elsewhere.
LEMMA ElsewhereStrand ==
  ASSUME exec' = "running", pc' \notin Closing
  PROVE  StrandInv'
BY DEF StrandInv, Closing

\* A step that leaves the row, the run and the budgets alone.
LEMMA SameStrand ==
  ASSUME StrandInv, UNCHANGED <<dbState, exec, pc, faults, losses>>
  PROVE  StrandInv'
BY DEF StrandInv

LEMMA LaunchStrand ==
  ASSUME StrandInv, Launch, UNCHANGED <<dbState, faults, losses>>
  PROVE  StrandInv'
<1>1. CASE UNCHANGED <<exec, runVars, signals>>
  BY <1>1, SameStrand DEF runVars
<1>2. CASE exec' = "running" /\ pc' = "extract"
  BY <1>2, ElsewhereStrand DEF Closing
<1> QED BY <1>1, <1>2 DEF Launch

\* A write of the row.
LEMMA SetStateStrand ==
  ASSUME TypeOK, NEW p, NEW state, NEW next, SetState(p, state, next),
         \/ next \notin Closing
         \/ next = "auditArchived" /\ state = "ARCHIVED"
         \/ next = "auditRejected" /\ state = "REJECTED"
  PROVE  StrandInv'
<1>1. exec' = "running" /\ pc' = next
  BY DEF SetState, At
<1>2. CASE dbState' = state
  BY <1>1, <1>2 DEF StrandInv, Closing
<1>3. CASE Fault
  BY <1>3, BudgetStrand
<1> QED BY <1>2, <1>3 DEF SetState

\* A write of the trail.
LEMMA LogAuditStrand ==
  ASSUME TypeOK, StrandInv, NEW p, NEW event, NEW actor, NEW next, LogAudit(p, event, actor, next),
         \/ next \notin Closing
         \/ next = "return" /\ p \in {"auditArchived", "auditRejected"}
  PROVE  StrandInv'
<1>1. exec = "running" /\ exec' = "running" /\ pc = p /\ pc' = next /\ dbState' = dbState
  BY DEF LogAudit, At
<1>2. CASE UNCHANGED budgetVars
  BY <1>1, <1>2 DEF StrandInv, Closing, budgetVars, Final
<1>3. CASE Fault
  BY <1>3, BudgetStrand
<1> QED BY <1>2, <1>3 DEF LogAudit

LEMMA WorkflowStrand == ASSUME TypeOK, StrandInv, WorkflowStep PROVE StrandInv'
<1>1. \A needs : FirstStep(needs) \notin Closing
  BY DEF FirstStep, Closing
<1>2. CASE Extract \/ Validate \/ RaiseException \/ AIResolve \/ FetchRules
  <2>1. CASE \E p : FailRun(p)
    BY <2>1, BudgetStrand DEF FailRun
  <2>2. CASE ~\E p : FailRun(p)
    <3>1. exec' = "running" /\ pc' \notin Closing
      BY <1>1, <1>2, <2>2
         DEF Extract, Validate, RaiseException, AIResolve, FetchRules, At, Closing
    <3> QED BY <3>1, ElsewhereStrand
  <2> QED BY <2>1, <2>2
<1>3. CASE Return
  <2>1. exec = "running" /\ pc = "return" /\ exec' = "completed" /\ UNCHANGED <<dbState, faults, losses>>
    BY <1>3 DEF Return, At, dbVars, budgetVars
  <2> QED BY <2>1 DEF StrandInv
<1>4. ASSUME NEW p, NEW stage \in Stages, SelectDecision(p, stage) PROVE StrandInv'
  <2>1. exec' = "running" /\ pc' \notin Closing
    BY <1>4 DEF SelectDecision, Receive, AuditStep, At, Stages, Closing
  <2> QED BY <2>1, ElsewhereStrand
<1>5. ASSUME NEW p, NEW state, NEW next, SetState(p, state, next),
             \/ next \notin Closing
             \/ next = "auditArchived" /\ state = "ARCHIVED"
             \/ next = "auditRejected" /\ state = "REJECTED"
      PROVE  StrandInv'
  BY <1>5, SetStateStrand
<1>6. ASSUME NEW p, NEW event, NEW actor, NEW next, LogAudit(p, event, actor, next),
             \/ next \notin Closing
             \/ next = "return" /\ p \in {"auditArchived", "auditRejected"}
      PROVE  StrandInv'
  BY <1>6, LogAuditStrand
<1>7. {"setValidating", "validate", "auditValidationFailed", "raiseException", "fetchRules",
       "selectOverride", "selectManager", "selectFinance", "setApproved", "auditApproved",
       "setArchived"} \cap Closing = {}
  BY DEF Closing
<1> QED BY <1>1, <1>2, <1>3, <1>4, <1>5, <1>6, <1>7 DEF WorkflowStep, Stages

LEMMA StrandStep == ASSUME TypeOK, StrandInv, [Next]_vars PROVE StrandInv'
<1>1. CASE FileUpload
  <2>1. UNCHANGED <<dbState, faults, losses>>
    BY <1>1 DEF FileUpload, budgetVars
  <2>2. CASE Launch
    BY <2>1, <2>2, LaunchStrand
  <2>3. CASE UNCHANGED <<exec, runVars, signals>>
    BY <2>1, <2>3, SameStrand DEF runVars
  <2> QED BY <1>1, <2>2, <2>3 DEF FileUpload
<1>2. CASE WorkflowStep
  BY <1>2, WorkflowStrand
<1>3. CASE ReviewStep
  <2>1. PICK user \in Users, channel \in Channels :
          Signal(channel, user) \/ UNCHANGED <<signals, runVars>>
    BY <1>3, ReviewSignals
  <2>2. UNCHANGED <<dbState, exec, faults, losses>>
    BY <1>3 DEF ReviewStep, Reject, ManagerApproves, FinanceApproves, AdminSignalsManager,
                AdminSignalsFinance, dbVars, budgetVars
  <2>3. CASE exec = "running" /\ pc \in Stages /\ Receive(pc, channel, user)
    <3>1. exec' = "running" /\ pc' \notin Closing
      BY <2>2, <2>3 DEF Receive, AuditStep, Closing
    <3> QED BY <3>1, ElsewhereStrand
  <2>4. CASE UNCHANGED runVars
    BY <2>2, <2>4, SameStrand DEF runVars
  <2> QED BY <2>1, <2>3, <2>4 DEF Signal
<1>4. CASE LoseExecution
  BY <1>4, BudgetStrand DEF LoseExecution
<1>5. CASE ExpireExecution
  <2>1. exec # "running" /\ exec' # "running" /\ UNCHANGED <<dbState, faults, losses>>
    BY <1>5 DEF ExpireExecution, dbVars, budgetVars
  <2> QED BY <2>1 DEF StrandInv
<1>6. CASE Restart
  BY <1>6, LaunchStrand DEF Restart, dbVars, budgetVars
<1>7. CASE AbortSweep
  BY <1>7, BudgetStrand DEF AbortSweep
<1>8. CASE StopUpload \/ Age \/ ListStuck \/ Describe \/ UNCHANGED vars
  <2>1. UNCHANGED <<dbState, exec, pc, faults, losses>>
    BY <1>8 DEF StopUpload, Age, ListStuck, Describe, vars, dbVars, runVars, budgetVars
  <2> QED BY <2>1, SameStrand
<1> QED BY <1>1, <1>2, <1>3, <1>4, <1>5, <1>6, <1>7, <1>8 DEF Next, SweepStep

\* An invoice that no open execution works on is decided or in a state the
\* reconciler looks at: it takes a failed activity or a lost execution to leave
\* one out of its reach, in VALIDATION_FAILED or APPROVED
\* (ReconcileOrphanedWorkflows, ListStuckInvoices).
THEOREM OnlyFailuresStrand ==
  Spec => [](exec # "running" =>
               \/ dbState \in Final \cup StuckStates
               \/ faults > 0
               \/ losses > 0)
<1>1. Init => StrandInv
  BY DEF Init, StrandInv
<1>2. TypeOK /\ StrandInv /\ [Next]_vars => StrandInv'
  BY StrandStep
<1>3. TypeOK /\ StrandInv =>
        (exec # "running" => dbState \in Final \cup StuckStates \/ faults > 0 \/ losses > 0)
  BY BoundsAssumption DEF TypeOK, StrandInv, StuckStates
<1> QED BY <1>1, <1>2, <1>3, TypeCorrect, PTL DEF Spec

-----------------------------------------------------------------------------
(***************************************************************************)
(* The trail.  At each place past an approval the run required, what the   *)
(* trail does not hold of it an activity has failed to write; whom an      *)
(* event names is known from whom the channel it came by allows.           *)
(***************************************************************************)

ByEntitled(stage) == decider \in Users /\ RoleOf[decider] \in MayDecide(stage)

LEMMA MissingType ==
  /\ \A stage \in {"manager", "finance"} : Missing(stage) \in {0, 1}
  /\ \A stage \in {"manager", "finance"} : Missing(stage)' \in {0, 1}
BY DEF Missing

EventsEntitled ==
  \A stage \in {"manager", "finance"} : \A e \in audit :
    e.event = StageEvent(stage) => e.actor \in Users /\ RoleOf[e.actor] \in MayDecide(stage)

TrailInv ==
  /\ EventsEntitled
  /\ pc = "auditManager" => ByEntitled("manager")
  /\ pc = "auditFinance" => ByEntitled("finance")
  /\ pc \in {"auditFinance"} \cup AskingFinance => Missing("manager") <= faults
  /\ pc \in Approving => Missing("manager") + Missing("finance") <= faults

StageEvents == {"MANAGER_APPROVED", "FINANCE_APPROVED"}

LEMMA StageEventNames ==
  StageEvent("manager") = "MANAGER_APPROVED" /\ StageEvent("finance") = "FINANCE_APPROVED"
BY DEF StageEvent

\* New events other than an approval say nothing of approvals, and the old stay.
LEMMA TrailGrows ==
  ASSUME EventsEntitled, audit \subseteq audit',
         \A e \in audit' \ audit : e.event \notin StageEvents
  PROVE  /\ EventsEntitled'
         /\ required' = required =>
              \A stage \in {"manager", "finance"} : Missing(stage)' <= Missing(stage)
<1>1. EventsEntitled'
  BY StageEventNames DEF EventsEntitled, StageEvents
<1>2. ASSUME required' = required, NEW stage \in {"manager", "finance"}
      PROVE  Missing(stage)' <= Missing(stage)
  BY <1>2 DEF Missing
<1> QED BY <1>1, <1>2

LEMMA MoreFaults ==
  ASSUME TypeOK, Fault \/ UNCHANGED budgetVars PROVE faults' \in Nat /\ faults <= faults'
BY BoundsAssumption DEF TypeOK, Fault, budgetVars

\* A step that goes on without an approval.
LEMMA MoveTrail ==
  ASSUME TypeOK, TrailInv, faults' \in Nat, faults <= faults', required' = required, decider' = decider,
         audit \subseteq audit', \A e \in audit' \ audit : e.event \notin StageEvents,
         pc' \in {"auditManager", "auditFinance"} => pc' = pc,
         pc' \in {"auditFinance"} \cup AskingFinance \cup Approving =>
           pc \in {"auditFinance"} \cup AskingFinance \cup Approving,
         pc' \in Approving => pc \in Approving
  PROVE  TrailInv'
<1>1. /\ EventsEntitled'
      /\ Missing("manager")' <= Missing("manager") /\ Missing("finance")' <= Missing("finance")
  BY TrailGrows DEF TrailInv
<1>2. faults \in Nat
  BY DEF TypeOK
<1> QED BY <1>1, <1>2, MissingType DEF TrailInv, ByEntitled, Approving

LEMMA StillTrail ==
  ASSUME TypeOK, TrailInv, faults' \in Nat, faults <= faults', UNCHANGED <<runVars, audit>> PROVE TrailInv'
BY MoveTrail DEF runVars

LEMMA ReceiveTrail ==
  ASSUME TypeOK, TrailInv, NEW stage \in Stages, NEW channel, NEW user \in Users,
         Receive(stage, channel, user), UNCHANGED <<audit, faults>>,
         channel = ChannelOf(stage) => RoleOf[user] \in MayDecide(stage),
         stage = "finance" => pc \in AskingFinance
  PROVE  TrailInv'
<1>1. UNCHANGED required /\ decider' = user
  BY DEF Receive
<1>2. /\ EventsEntitled'
      /\ Missing("manager")' <= Missing("manager") /\ Missing("finance")' <= Missing("finance")
  BY <1>1, TrailGrows DEF TrailInv
<1>3. CASE pc' = "setRejected"
  BY <1>2, <1>3 DEF TrailInv, AskingFinance, Approving
<1>4. CASE channel = ChannelOf(stage) /\ pc' = AuditStep(stage)
  <2>1. pc' \notin AskingFinance \cup Approving
    BY <1>4 DEF AuditStep, AskingFinance, Approving
  <2>2. pc' = "auditManager" => ByEntitled("manager")'
    BY <1>1, <1>4 DEF AuditStep, ByEntitled, Stages
  <2>3. pc' = "auditFinance" => ByEntitled("finance")' /\ pc \in AskingFinance
    BY <1>1, <1>4 DEF AuditStep, ByEntitled, Stages
  <2>4. pc' = "auditFinance" => Missing("manager")' <= faults'
    BY <1>2, <2>3, MissingType DEF TrailInv, TypeOK
  <2> QED BY <1>2, <2>1, <2>2, <2>3, <2>4 DEF TrailInv
<1> QED BY <1>3, <1>4 DEF Receive

LEMMA SelectTrail ==
  ASSUME ConsentInv, TrailInv, NEW p, NEW stage \in Stages, SelectDecision(p, stage),
         \/ stage = "override" /\ p = "selectOverride"
         \/ stage = "manager" /\ p = "selectManager"
         \/ stage = "finance" /\ p = "selectFinance"
  PROVE  TrailInv'
<1>1. TypeOK /\ SendersEntitled /\ UNCHANGED <<audit, faults>> /\ pc = p
  BY DEF ConsentInv, SelectDecision, dbVars, budgetVars, At
<1>2. stage = "finance" => pc \in AskingFinance
  BY <1>1 DEF AskingFinance
<1>3. ASSUME NEW c \in Channels, c \in {ChannelOf(stage), "RejectionSignal"}, signals[c] # << >>,
             Receive(stage, c, Head(signals[c]))
      PROVE  TrailInv'
  <2>1. signals \in [Channels -> Seq(Users)]
    BY <1>1 DEF TypeOK
  <2>2. Head(signals[c]) \in Users
    BY <1>3, <2>1, HeadTail
  <2>3. c = ChannelOf(stage) => RoleOf[Head(signals[c])] \in MayDecide(stage)
    BY <1>1, <1>3, <2>1, TailSenders DEF SendersEntitled
  <2> QED BY <1>1, <1>2, <1>3, <2>2, <2>3, ReceiveTrail
<1>4. CASE pc' = stage /\ UNCHANGED <<required, decider>>
  BY <1>1, <1>4, MoveTrail DEF Stages, AskingFinance, Approving, TypeOK
<1>5. ChannelOf(stage) \in Channels /\ "RejectionSignal" \in Channels
  BY DEF ChannelOf, Channels
<1> QED BY <1>3, <1>4, <1>5 DEF SelectDecision

LEMMA SignalTrail ==
  ASSUME ConsentInv, TrailInv, ReviewStep PROVE TrailInv'
<1>1. TypeOK /\ UNCHANGED <<audit, faults>>
  BY DEF ConsentInv, ReviewStep, Reject, ManagerApproves, FinanceApproves, AdminSignalsManager,
         AdminSignalsFinance, dbVars, budgetVars
<1>2. PICK user \in Users :
        \/ Reject(user) \/ ManagerApproves(user) \/ FinanceApproves(user)
        \/ AdminSignalsManager(user) \/ AdminSignalsFinance(user)
  BY DEF ReviewStep
<1>3. AdminSignalsFinance(user) => RoleOf[user] = "ADMIN"
  BY DEF AdminSignalsFinance, ConsentInv, AdminCallers
<1>4. PICK channel \in Channels :
        /\ Signal(channel, user) \/ UNCHANGED <<signals, runVars>>
        /\ \A stage \in Stages : channel = ChannelOf(stage) => RoleOf[user] \in MayDecide(stage)
  BY <1>2, <1>3 DEF Reject, ManagerApproves, FinanceApproves, AdminSignalsManager,
     AdminSignalsFinance, Channels, ChannelOf, MayDecide, Stages
<1>5. CASE UNCHANGED runVars
  BY <1>1, <1>5, StillTrail DEF TypeOK
<1>6. CASE pc \in Stages /\ Receive(pc, channel, user)
  BY <1>1, <1>4, <1>6, ReceiveTrail DEF AskingFinance
<1> QED BY <1>4, <1>5, <1>6 DEF Signal

\* A write to the trail: the event is there, or the activity failed.
LEMMA LogMoves ==
  ASSUME TypeOK, NEW p, NEW event, NEW actor, NEW next, LogAudit(p, event, actor, next)
  PROVE  /\ pc = p /\ pc' = next /\ UNCHANGED <<required, decider>>
         /\ audit \subseteq audit' /\ audit' \subseteq audit \cup {[event |-> event, actor |-> actor]}
         /\ faults' \in Nat /\ faults <= faults'
         /\ faults < faults' \/ [event |-> event, actor |-> actor] \in audit'
<1>1. CASE UNCHANGED budgetVars /\ audit' = audit \cup {[event |-> event, actor |-> actor]}
  BY <1>1, MoreFaults DEF LogAudit, At, budgetVars
<1>2. CASE Fault /\ UNCHANGED audit
  <2>1. faults < faults'
    BY <1>2 DEF Fault, TypeOK
  <2> QED BY <1>2, <2>1, MoreFaults DEF LogAudit, At
<1> QED BY <1>1, <1>2 DEF LogAudit

LEMMA PlainLogTrail ==
  ASSUME TypeOK, TrailInv, NEW p, NEW event, NEW actor, NEW next, LogAudit(p, event, actor, next),
         event \notin StageEvents, next \notin {"auditManager", "auditFinance"} \cup AskingFinance,
         next \in Approving => p \in Approving
  PROVE  TrailInv'
<1>1. /\ pc = p /\ pc' = next /\ UNCHANGED <<required, decider>> /\ audit \subseteq audit'
      /\ audit' \subseteq audit \cup {[event |-> event, actor |-> actor]}
  BY LogMoves
<1>2. faults' \in Nat /\ faults <= faults'
  BY LogMoves
<1>3. ASSUME NEW e \in audit' \ audit PROVE e.event \notin StageEvents
  <2>1. e = [event |-> event, actor |-> actor]
    BY <1>1, <1>3
  <2>2. e.event = event
    BY <2>1
  <2> QED BY <2>2
<1>4. /\ pc' \in {"auditManager", "auditFinance"} => pc' = pc
      /\ pc' \in {"auditFinance"} \cup AskingFinance \cup Approving =>
           pc \in {"auditFinance"} \cup AskingFinance \cup Approving
      /\ pc' \in Approving => pc \in Approving
  BY <1>1
<1>5. required' = required /\ decider' = decider /\ audit \subseteq audit'
  BY <1>1
<1> QED BY <1>2, <1>3, <1>4, <1>5, MoveTrail

LEMMA ApprovalLogTrail ==
  ASSUME TypeOK, TrailInv, NEW stage \in {"manager", "finance"}, NEW p, NEW next,
         LogAudit(p, StageEvent(stage), decider, next),
         \/ stage = "manager" /\ p = "auditManager" /\ next = FirstStep(required \ {"manager"})
         \/ stage = "finance" /\ p = "auditFinance" /\ next = "setApproved"
  PROVE  TrailInv'
<1> DEFINE event == StageEvent(stage)
           actor == decider
<1>1. /\ pc = p /\ pc' = next /\ UNCHANGED <<required, decider>> /\ audit \subseteq audit'
      /\ audit' \subseteq audit \cup {[event |-> event, actor |-> actor]}
      /\ faults' \in Nat /\ faults <= faults'
      /\ faults < faults' \/ [event |-> event, actor |-> actor] \in audit'
  <2> HIDE DEF event, actor
  <2>1. LogAudit(p, event, actor, next)
    BY DEF event, actor
  <2> QED BY <2>1, LogMoves
<1>2. actor \in Users /\ RoleOf[actor] \in MayDecide(stage)
  BY <1>1 DEF TrailInv, ByEntitled
<1>3. EventsEntitled'
  <2> SUFFICES ASSUME NEW s \in {"manager", "finance"}, NEW e \in audit', e.event = StageEvent(s)
               PROVE  e.actor \in Users /\ RoleOf[e.actor] \in MayDecide(s)
    BY DEF EventsEntitled
  <2>1. CASE e \in audit
    BY <2>1 DEF TrailInv, EventsEntitled
  <2>2. CASE e = [event |-> event, actor |-> actor]
    BY <1>2, <2>2, StageEventNames
  <2> QED BY <1>1, <2>1, <2>2
<1>4. faults < faults' \/ Missing(stage)' = 0
  BY <1>1 DEF Missing
<1>5. \A s \in {"manager", "finance"} : Missing(s)' <= Missing(s)
  BY <1>1 DEF Missing
<1>6. required \subseteq {"manager", "finance"} /\ faults \in Nat
  BY DEF TypeOK
<1>7. CASE stage = "manager"
  <2>1. Missing("manager")' <= faults'
    BY <1>1, <1>4, <1>6, <1>7, MissingType
  <2>2. pc' = "setApproved" => Missing("finance")' = 0
    BY <1>1, <1>6, <1>7 DEF FirstStep, Missing
  <2>3. pc' \in {"setPendingFinance", "setApproved"}
    BY <1>1, <1>7 DEF FirstStep
  <2> QED BY <1>1, <1>3, <2>1, <2>2, <2>3, MissingType DEF TrailInv, AskingFinance, Approving
<1>8. CASE stage = "finance"
  <2>1. Missing("manager") <= faults /\ pc' = "setApproved"
    BY <1>1, <1>8 DEF TrailInv
  <2>2. Missing("manager")' + Missing("finance")' <= faults'
    BY <1>1, <1>4, <1>5, <1>6, <1>8, <2>1, MissingType
  <2> QED BY <1>3, <2>1, <2>2 DEF TrailInv, AskingFinance
<1> QED BY <1>7, <1>8

LEMMA WorkflowTrail == ASSUME ConsentInv, TrailInv, WorkflowStep PROVE TrailInv'
<1> DEFINE Goal == TrailInv'
<1>1. TypeOK
  BY DEF ConsentInv
<1>2. ASSUME NEW p, FailRun(p) PROVE Goal
  <2>1. faults' \in Nat /\ faults <= faults'
    BY <1>1, <1>2, MoreFaults DEF FailRun
  <2> QED BY <1>1, <1>2, <2>1, MoveTrail DEF FailRun, dbVars, AskingFinance, Approving
<1>3. CASE Extract \/ Validate \/ RaiseException \/ AIResolve \/ Return
  <2>1. faults' \in Nat /\ faults <= faults' /\ UNCHANGED <<required, decider, audit>>
    BY <1>1, <1>3, MoreFaults
    DEF Extract, Validate, RaiseException, AIResolve, Return, FailRun, dbVars
  <2>2. pc' \notin {"auditManager", "auditFinance"} \cup AskingFinance \cup Approving
    BY <1>3 DEF Extract, Validate, RaiseException, AIResolve, Return, FailRun, AskingFinance, Approving
  <2> QED BY <1>1, <2>1, <2>2, MoveTrail
<1>4. CASE FetchRules /\ ~FailRun("fetchRules")
  <2>1. UNCHANGED <<audit, faults>> /\ pc' = FirstStep(required') /\ required' \subseteq {"manager", "finance"}
    BY <1>4 DEF FetchRules, dbVars, budgetVars
  <2>2. EventsEntitled'
    BY <2>1, TrailGrows DEF TrailInv
  <2>3. pc' = "setPendingFinance" => Missing("manager")' = 0
    BY <2>1 DEF FirstStep, Missing
  <2>4. pc' = "setApproved" => Missing("manager")' = 0 /\ Missing("finance")' = 0
    BY <2>1 DEF FirstStep, Missing
  <2>5. pc' \in {"setPendingManager", "setPendingFinance", "setApproved"} /\ faults' \in Nat
    BY <1>1, <2>1 DEF FirstStep, TypeOK
  <2> QED BY <2>2, <2>3, <2>4, <2>5 DEF TrailInv, AskingFinance, Approving
<1>5. ASSUME NEW p, NEW state, NEW next, SetState(p, state, next),
             next \notin {"auditManager", "auditFinance"},
             next \in AskingFinance => p \in AskingFinance,
             next \in Approving => p \in Approving
      PROVE  Goal
  <2>1. /\ faults' \in Nat /\ faults <= faults'
        /\ pc = p /\ pc' = next /\ UNCHANGED <<required, decider, audit>>
    BY <1>1, <1>5, MoreFaults DEF SetState, At
  <2> QED BY <1>1, <1>5, <2>1, MoveTrail
<1>6. \/ SetState("setValidating", "VALIDATING", "validate")
      \/ SetState("setValidationFail", "VALIDATION_FAILED", "auditValidationFailed")
      \/ SetState("setPendingOverride", "PENDING_MANAGER_APPROVAL", "selectOverride")
      \/ SetState("setPendingManager", "PENDING_MANAGER_APPROVAL", "selectManager")
      \/ SetState("setPendingFinance", "PENDING_FINANCE_APPROVAL", "selectFinance")
      \/ SetState("setApproved", "APPROVED", "auditApproved")
      \/ SetState("setArchived", "ARCHIVED", "auditArchived")
      \/ SetState("setRejected", "REJECTED", "auditRejected")
      => Goal
  BY <1>5 DEF AskingFinance, Approving
<1>7. \/ LogAudit("auditExtracted", "DOCUMENT_EXTRACTED", "system", "setValidating")
      \/ LogAudit("auditValidationFailed", "VALIDATION_FAILED", "system", "raiseException")
      \/ LogAudit("auditAIResolved", "AI_AUTO_RESOLVED", "ai-agent", "fetchRules")
      \/ LogAudit("auditOverride", "VALIDATION_OVERRIDE_APPROVED", decider, "fetchRules")
      \/ LogAudit("auditApproved", "APPROVED", "system", "setArchived")
      \/ LogAudit("auditArchived", "ARCHIVED", "system", "return")
      \/ LogAudit("auditRejected", "REJECTED", decider, "return")
      => Goal
  BY <1>1, PlainLogTrail DEF StageEvents, AskingFinance, Approving
<1>8. \/ LogAudit("auditManager", "MANAGER_APPROVED", decider, FirstStep(required \ {"manager"}))
      \/ LogAudit("auditFinance", "FINANCE_APPROVED", decider, "setApproved")
      => Goal
  BY <1>1, StageEventNames, ApprovalLogTrail
<1>9. \/ SelectDecision("selectOverride", "override")
      \/ SelectDecision("selectManager", "manager")
      \/ SelectDecision("selectFinance", "finance")
      => Goal
  BY SelectTrail DEF Stages
<1> QED BY <1>2, <1>3, <1>4, <1>6, <1>7, <1>8, <1>9 DEF WorkflowStep

LEMMA LaunchTrail == ASSUME TypeOK, TrailInv, Launch, UNCHANGED faults, audit \subseteq audit',
                            \A e \in audit' \ audit : e.event \notin StageEvents
                     PROVE  TrailInv'
<1>1. CASE UNCHANGED runVars
  BY <1>1, MoveTrail DEF runVars, TypeOK
<1>2. CASE pc' = "extract"
  BY <1>2, TrailGrows DEF TrailInv, AskingFinance, Approving
<1> QED BY <1>1, <1>2 DEF Launch

LEMMA TrailStep == ASSUME ConsentInv, TrailInv, [Next]_vars PROVE TrailInv'
<1>1. TypeOK
  BY DEF ConsentInv
<1>2. CASE FileUpload
  <2>1. /\ UNCHANGED faults /\ audit \subseteq audit'
        /\ \A e \in audit' \ audit : e.event \notin StageEvents
    BY <1>2 DEF FileUpload, budgetVars, StageEvents
  <2>2. Launch \/ UNCHANGED runVars
    BY <1>2 DEF FileUpload
  <2> QED BY <1>1, <2>1, <2>2, LaunchTrail, MoveTrail DEF runVars, TypeOK
<1>3. CASE WorkflowStep
  BY <1>3, WorkflowTrail
<1>4. CASE ReviewStep
  BY <1>4, SignalTrail
<1>5. CASE LoseExecution
  BY <1>1, <1>5, MoveTrail DEF LoseExecution, dbVars, AskingFinance, Approving, TypeOK
<1>6. CASE Restart
  BY <1>1, <1>6, LaunchTrail DEF Restart, dbVars, budgetVars
<1>7. CASE StopUpload \/ ExpireExecution \/ Age \/ ListStuck \/ Describe \/ AbortSweep
           \/ UNCHANGED vars
  <2>1. UNCHANGED <<runVars, audit>>
    BY <1>7 DEF StopUpload, ExpireExecution, Age, ListStuck, Describe, AbortSweep, vars, dbVars
  <2>2. faults' \in Nat /\ faults <= faults'
    BY <1>1, <1>7, MoreFaults
    DEF StopUpload, ExpireExecution, Age, ListStuck, Describe, AbortSweep, vars, budgetVars, TypeOK
  <2> QED BY <1>1, <2>1, <2>2, StillTrail
<1> QED BY <1>2, <1>3, <1>4, <1>5, <1>6, <1>7 DEF Next, SweepStep

\* TrailExplainsApproval for any reviewers and bounds: whom the trail names as
\* approving could approve, and each required approval that is missing from it
\* when the invoice is archived has cost a failed activity.
THEOREM TrailExplains == Spec => []TrailExplainsApproval
<1>1. Init => TrailInv
  BY DEF Init, TrailInv, EventsEntitled, AskingFinance, Approving
<1>2. ConsentInv /\ TrailInv /\ [Next]_vars => TrailInv'
  BY TrailStep
<1>3. ConsentInv /\ TrailInv => TrailExplainsApproval
  BY DEF TrailInv, EventsEntitled, Approving, TrailExplainsApproval
<1> QED BY <1>1, <1>2, <1>3, ConsentInvariant, PTL DEF Spec

-----------------------------------------------------------------------------
(***************************************************************************)
(* Decisions.  A step of the lifecycle is followed in three things at      *)
(* once: what the policy sees of it, how many of the doubts raised so far  *)
(* it uses up, and whether it writes over a decision.                      *)
(***************************************************************************)

Decided == Approved \cup {"REJECTED"}

\* No run and no sweep before the upload has stopped or is complete, and what a
\* sweep holds ready for an invoice without an execution is undecided.
DoubtInv ==
  /\ ingest = "open" => ~stale /\ sweep = "idle" /\ exec = "none" /\ dbState = "INGESTED"
  /\ sweep # "idle" /\ exec = "none" => dbState \in StuckStates

PolicyInv == ConsentInv /\ DoubtInv

\* Only a run writes the row.
LEMMA RunWrites ==
  ASSUME [Next]_vars, dbState' # dbState
  PROVE  exec = "running" /\ UNCHANGED <<describeErrors, partialUploads>>
<1>1. \E p, state, next : SetState(p, state, next)
  BY DEF Next, vars, dbVars, FileUpload, StopUpload, ReviewStep, Reject, ManagerApproves,
     FinanceApproves, AdminSignalsManager, AdminSignalsFinance, LoseExecution,
     ExpireExecution, Age, SweepStep, ListStuck, Describe, Restart, AbortSweep,
     WorkflowStep, Extract, Validate, RaiseException, AIResolve,
     FetchRules, Return, FailRun, LogAudit, SelectDecision, SetState
<1> QED BY <1>1 DEF SetState, At, Fault, budgetVars

LEMMA WorkflowRuns ==
  ASSUME WorkflowStep
  PROVE  /\ exec = "running" /\ exec' \in {"running", "completed", "failed"}
         /\ UNCHANGED <<ingest, sweep, describeErrors, partialUploads>>
BY DEF WorkflowStep, Extract, Validate, RaiseException, AIResolve, FetchRules, Return, FailRun,
   LogAudit, SelectDecision, SetState, At, Fault, budgetVars

LEMMA ReviewKeeps ==
  ASSUME ReviewStep
  PROVE  UNCHANGED <<dbState, stale, ingest, exec, sweep, describeErrors, partialUploads>>
BY DEF ReviewStep, Reject, ManagerApproves, FinanceApproves, AdminSignalsManager,
   AdminSignalsFinance, dbVars, budgetVars

LEMMA DoubtStep ==
  ASSUME PolicyInv, [Next]_vars
  PROVE  PolicyInv'
<1> SUFFICES DoubtInv'
  BY ConsentStep DEF PolicyInv
<1>1. CASE FileUpload
  BY <1>1 DEF FileUpload, Launch, PolicyInv, DoubtInv, runVars
<1>2. CASE WorkflowStep
  BY <1>2, WorkflowRuns DEF PolicyInv, DoubtInv
<1>3. CASE ReviewStep
  BY <1>3, ReviewKeeps DEF PolicyInv, DoubtInv
<1>4. CASE Restart
  BY <1>4 DEF Restart, PolicyInv, DoubtInv, dbVars
<1>5. CASE StopUpload \/ LoseExecution \/ ExpireExecution \/ Age \/ ListStuck \/ Describe
           \/ AbortSweep \/ UNCHANGED vars
  BY <1>5 DEF StopUpload, LoseExecution, ExpireExecution, Age, ListStuck, Describe,
     AbortSweep, vars, PolicyInv, DoubtInv, dbVars, runVars
<1> QED BY <1>1, <1>2, <1>3, <1>4, <1>5 DEF Next, SweepStep

\* What a sweep holds ready for an invoice without an execution.
THEOREM PolicyInvariant == Spec => []PolicyInv
<1>1. Init => PolicyInv
  BY ConsentInit DEF Init, PolicyInv, DoubtInv
<1>2. PolicyInv /\ [Next]_vars => PolicyInv'
  BY DoubtStep
<1> QED BY <1>1, <1>2, PTL DEF Spec

-----------------------------------------------------------------------------
(***************************************************************************)
(* What a step means to the policy.                                        *)
(***************************************************************************)

Status == IF dbState \in Approved THEN "approved"
          ELSE IF dbState = "REJECTED" THEN "rejected" ELSE "open"
Needs == required \cup
         IF verdict \in {"arithmetic", "evidence"} /\ ~aiResolved THEN {"override"} ELSE {}

Causes == describeErrors + partialUploads

\* The step is one of the policy, uses up no doubt twice, and one more if it
\* writes over a decision.
Follows ==
  /\ [Policy!Next]_Policy!policyVars
  /\ UsedUp <= UsedUp'
  /\ Undoing => UsedUp < UsedUp'

\* What a step may yet bring about.
Pending == Doubts + (IF UnderReviewAgain THEN 1 ELSE 0)

LEMMA CountTypes ==
  ASSUME TypeOK
  PROVE  /\ Causes \in Nat /\ Doubts \in Nat /\ Doubts' \in Nat
         /\ UnderReviewAgain \in BOOLEAN /\ UnderReviewAgain' \in BOOLEAN
<1>1. describeErrors \in Nat /\ partialUploads \in Nat
  BY BoundsAssumption DEF TypeOK
<1>2. Doubts \in Nat /\ Doubts' \in Nat
  BY DEF Doubts
<1>3. UnderReviewAgain \in BOOLEAN /\ UnderReviewAgain' \in BOOLEAN
  BY DEF UnderReviewAgain
<1> QED BY <1>1, <1>2, <1>3 DEF Causes

\* How far a step has used up the doubts, from what it does to the two counts.
LEMMA UsesUp ==
  ASSUME TypeOK, NEW raised \in Int, NEW ended \in Int,
         Causes' = Causes + raised, Pending' = Pending - ended,
         raised + ended >= 0, Undoing => raised + ended > 0
  PROVE  UsedUp <= UsedUp' /\ (Undoing => UsedUp < UsedUp')
<1>1. UsedUp = Causes - Pending /\ UsedUp' = Causes' - Pending'
  BY DEF UsedUp, Causes, Pending
<1>2. Causes \in Int /\ Pending \in Int
  BY CountTypes DEF Pending
<1> QED BY <1>1, <1>2

\* A step that raises no doubt, from what it leaves pending.
LEMMA PendingFalls ==
  ASSUME TypeOK, UNCHANGED <<describeErrors, partialUploads>>,
         \/ Pending' = Pending /\ ~Undoing
         \/ Pending' = Pending - 1
  PROVE  UsedUp <= UsedUp' /\ (Undoing => UsedUp < UsedUp')
<1>1. Causes' = Causes + 0
  BY CountTypes DEF Causes
<1>2. CASE Pending' = Pending - 1
  BY <1>1, <1>2, UsesUp
<1>3. CASE Pending' = Pending /\ ~Undoing
  <2>1. Pending' = Pending - 0
    BY <1>3, CountTypes DEF Pending
  <2> QED BY <1>1, <1>3, <2>1, UsesUp
<1> QED BY <1>2, <1>3

\* A step that the policy does not see.
LEMMA QuietFollows ==
  ASSUME TypeOK, UNCHANGED <<describeErrors, partialUploads>>,
         UNCHANGED <<Status, Needs, approvals, Doubts, UnderReviewAgain>>, ~Undoing
  PROVE  Follows
<1>1. UNCHANGED Policy!policyVars
  BY DEF Policy!policyVars, Status, Needs
<1>2. Pending' = Pending
  BY DEF Pending
<1>3. UsedUp <= UsedUp' /\ (Undoing => UsedUp < UsedUp')
  BY <1>2, PendingFalls
<1> QED BY <1>1, <1>3 DEF Follows

\* A decision is taken back, or an invoice is found to stay as it was decided.
LEMMA TakenBackFollows ==
  ASSUME TypeOK, UNCHANGED <<describeErrors, partialUploads>>,
         UNCHANGED <<Needs, approvals, Doubts>>, Status' \in {"open", Status},
         UnderReviewAgain, ~UnderReviewAgain'
  PROVE  Follows
<1>1. Policy!TakeBack
  <2>1. UnderReviewAgain' = FALSE
    BY CountTypes
  <2> QED BY <2>1 DEF Policy!TakeBack, Status, Needs
<1>2. Pending' = Pending - 1
  BY CountTypes DEF Pending
<1>3. UsedUp <= UsedUp' /\ (Undoing => UsedUp < UsedUp')
  BY <1>2, PendingFalls
<1> QED BY <1>1, <1>3 DEF Follows, Policy!Next

\* A describe call fails or an upload stops.
LEMMA DoubtFollows ==
  ASSUME TypeOK, Causes' = Causes + 1, Doubts' = Doubts + 1,
         UNCHANGED <<Status, Needs, approvals, UnderReviewAgain, dbState>>
  PROVE  Follows
<1>1. Policy!Doubt
  BY DEF Policy!Doubt, Status, Needs
<1>2. Pending' = Pending - (-1) /\ ~Undoing
  BY CountTypes DEF Pending, Undoing
<1>3. UsedUp <= UsedUp' /\ (Undoing => UsedUp < UsedUp')
  BY <1>2, UsesUp
<1> QED BY <1>1, <1>3 DEF Follows, Policy!Next

\* A restart that was held ready finds the invoice worked on, or is dropped.
LEMMA SettledFollows ==
  ASSUME TypeOK, UNCHANGED <<describeErrors, partialUploads>>,
         Doubts > 0, Doubts' = Doubts - 1,
         UNCHANGED <<Status, Needs, approvals, UnderReviewAgain, dbState>>
  PROVE  Follows
<1>1. Policy!Settle
  BY DEF Policy!Settle, Status, Needs
<1>2. Pending' = Pending - 1
  BY CountTypes DEF Pending
<1>3. UsedUp <= UsedUp' /\ (Undoing => UsedUp < UsedUp')
  BY <1>2, PendingFalls
<1> QED BY <1>1, <1>3 DEF Follows, Policy!Next

\* A new run takes the review up again.
LEMMA AgainFollows ==
  ASSUME TypeOK, UNCHANGED <<describeErrors, partialUploads>>,
         dbState' = dbState, Needs' = {}, approvals' = {}, ~UnderReviewAgain,
         UnderReviewAgain' <=> dbState \in Decided,
         \/ Doubts > 0 /\ Doubts' = Doubts - 1
         \/ dbState \notin Decided /\ Doubts' = Doubts
  PROVE  Follows
<1>1. Doubts \in Nat /\ Doubts' \in Nat /\ ~Undoing
  BY CountTypes DEF Undoing
<1>2. UnderReviewAgain = FALSE /\ (UnderReviewAgain' = TRUE \/ UnderReviewAgain' = FALSE)
  BY CountTypes
<1>3. CASE dbState \in Decided
  <2>1. Status # "open" /\ Status' = Status /\ UnderReviewAgain' = TRUE
    BY <1>2, <1>3 DEF Status, Decided
  <2>2. Doubts > 0 /\ Doubts' = Doubts - 1
    BY <1>3
  <2>3. Policy!ReviewAgain
    BY <2>1, <2>2 DEF Policy!ReviewAgain, Needs, Status
  <2>4. Pending' = Pending
    BY <1>1, <1>2, <2>1, <2>2 DEF Pending
  <2>5. UsedUp <= UsedUp' /\ (Undoing => UsedUp < UsedUp')
    BY <1>1, <2>4, PendingFalls
  <2> QED BY <2>3, <2>5 DEF Follows, Policy!Next
<1>4. CASE dbState \notin Decided
  <2>1. Status = "open" /\ Status' = Status /\ UnderReviewAgain' = UnderReviewAgain
    BY <1>2, <1>4 DEF Status, Decided
  <2>2. Doubts' = Doubts \/ Doubts' = Doubts - 1
    OBVIOUS
  <2>3. Doubts' \in {Doubts, Doubts - 1} /\ Doubts' >= 0
    BY <1>1, <2>2
  <2>4. Policy!ReviewAgain
    BY <2>1, <2>3 DEF Policy!ReviewAgain, Needs, Status
  <2>5. Pending' = Pending \/ Pending' = Pending - 1
    <3>1. CASE Doubts' = Doubts
      BY <2>1, <3>1 DEF Pending
    <3>2. CASE Doubts' = Doubts - 1
      BY <1>1, <2>1, <3>2, CountTypes DEF Pending
    <3> QED BY <2>2, <3>1, <3>2
  <2>6. UsedUp <= UsedUp' /\ (Undoing => UsedUp < UsedUp')
    BY <1>1, <2>5, PendingFalls
  <2> QED BY <2>4, <2>6 DEF Follows, Policy!Next
<1> QED BY <1>3, <1>4

\* A decided invoice is under review again at every place where its run does
\* anything but leave.
LEMMA Reviewing ==
  ASSUME At(pc), pc \notin Closing \cup {"auditApproved", "setArchived"}
  PROVE  dbState \notin Decided \/ UnderReviewAgain
BY DEF At, Decided, UnderReviewAgain, Closing

\* An invoice is decided upon review.
LEMMA DecidingFollows ==
  ASSUME TypeOK, UNCHANGED <<describeErrors, partialUploads>>,
         UNCHANGED <<Needs, approvals, Doubts>>, ~UnderReviewAgain',
         dbState \notin Decided \/ UnderReviewAgain,
         \/ Status' = "rejected"
         \/ Status' = "approved" /\ \A stage \in Needs : Obtained(stage)
  PROVE  Follows
<1>1. UnderReviewAgain' = FALSE /\ (Status = "open" \/ UnderReviewAgain)
  BY CountTypes DEF Status, Decided
<1>2. Undoing => UnderReviewAgain
  BY DEF Undoing, Decided, Final, Approved
<1>3. (Pending' = Pending /\ ~Undoing) \/ Pending' = Pending - 1
  BY <1>1, <1>2, CountTypes DEF Pending
<1>4. UsedUp <= UsedUp' /\ (Undoing => UsedUp < UsedUp')
  BY <1>3, PendingFalls
<1>5. CASE Status' = "rejected"
  <2>1. Policy!Refuse
    BY <1>1, <1>5 DEF Policy!Refuse, Policy!Reviewing, Status, Needs
  <2> QED BY <1>4, <2>1 DEF Follows, Policy!Next
<1>6. CASE Status' = "approved" /\ \A stage \in Needs : Obtained(stage)
  <2>1. Policy!Approve
    BY <1>1, <1>6 DEF Policy!Approve, Policy!Reviewing, Status, Needs, Obtained
  <2> QED BY <1>4, <2>1 DEF Follows, Policy!Next
<1> QED BY <1>5, <1>6

\* The assessment of an invoice, or a consent to it, at a place where it is under
\* review.
LEMMA ReviewFollows ==
  ASSUME TypeOK, UNCHANGED <<dbState, describeErrors, partialUploads>>,
         UNCHANGED <<Doubts, UnderReviewAgain>>,
         dbState \notin Decided \/ UnderReviewAgain,
         \/ Needs' \in SUBSET Stages /\ Needs \subseteq Needs' /\ approvals' = approvals
         \/ Needs' = Needs \ {"override"} /\ approvals' = approvals
         \/ /\ Needs' = Needs
            /\ \E stage \in Stages, user \in Users :
                 /\ RoleOf[user] \in MayDecide(stage)
                 /\ approvals' = approvals \cup {[stage |-> stage, by |-> user]}
  PROVE  Follows
<1>1. Policy!Reviewing /\ UNCHANGED <<Status, Doubts, UnderReviewAgain>>
  BY DEF Policy!Reviewing, Decided, Status
<1>2. Pending' = Pending /\ ~Undoing
  BY DEF Undoing, Pending
<1>3. UsedUp <= UsedUp' /\ (Undoing => UsedUp < UsedUp')
  BY <1>2, PendingFalls
<1>4. Policy!Next
  <2>1. CASE Needs' \in SUBSET Stages /\ Needs \subseteq Needs' /\ approvals' = approvals
    <3>1. Policy!Assess
      BY <1>1, <2>1 DEF Policy!Assess, Status, Needs
    <3> QED BY <3>1 DEF Policy!Next
  <2>2. CASE Needs' = Needs \ {"override"} /\ approvals' = approvals
    <3>1. Policy!Clear
      BY <1>1, <2>2 DEF Policy!Clear, Status, Needs
    <3> QED BY <3>1 DEF Policy!Next
  <2>3. ASSUME Needs' = Needs, NEW stage \in Stages, NEW user \in Users,
               RoleOf[user] \in MayDecide(stage),
               approvals' = approvals \cup {[stage |-> stage, by |-> user]}
        PROVE  Policy!Next
    <3>1. Policy!Consent(stage, user)
      BY <1>1, <2>3 DEF Policy!Consent, Status, Needs
    <3> QED BY <3>1 DEF Policy!Next
  <2> QED BY <2>1, <2>2, <2>3
<1> QED BY <1>3, <1>4 DEF Follows

-----------------------------------------------------------------------------
(***************************************************************************)
(* What each step of the lifecycle means to the policy.                    *)
(***************************************************************************)

\* A run leaves the doubts as they are.
LEMMA RunDoubts ==
  ASSUME UNCHANGED <<ingest, sweep>>, exec # "none", exec' # "none"
  PROVE  Doubts' = Doubts
BY DEF Doubts

\* A run that goes on without writing the row stays under review again, or leaves
\* the decision as it was.
LEMMA MovesFollow ==
  ASSUME PolicyInv, UNCHANGED <<dbState, ingest, describeErrors, partialUploads>>,
         UNCHANGED <<Needs, approvals, Doubts>>,
         UnderReviewAgain' => UnderReviewAgain
  PROVE  Follows
<1>1. TypeOK /\ Status' = Status /\ ~Undoing
  BY DEF PolicyInv, ConsentInv, Status, Undoing
<1>2. CASE UnderReviewAgain' = UnderReviewAgain
  BY <1>1, <1>2, QuietFollows
<1>3. CASE UnderReviewAgain /\ ~UnderReviewAgain'
  BY <1>1, <1>3, TakenBackFollows
<1> QED BY <1>1, <1>2, <1>3, CountTypes

LEMMA LaunchFollows ==
  ASSUME PolicyInv, [Next]_vars, FileUpload \/ Restart
  PROVE  Follows
<1>1. TypeOK /\ UNCHANGED <<dbState, describeErrors, partialUploads>>
  BY DEF PolicyInv, ConsentInv, FileUpload, Restart, dbVars, budgetVars
<1>2. CASE UNCHANGED <<exec, runVars>>
  <2>1. UNCHANGED <<Status, Needs, approvals, UnderReviewAgain>>
    BY <1>1, <1>2 DEF Status, Needs, UnderReviewAgain, runVars
  <2>2. CASE Doubts' = Doubts
    BY <1>1, <2>1, <2>2, QuietFollows DEF Undoing
  <2>3. CASE Doubts' # Doubts
    <3>1. Doubts > 0 /\ Doubts' = Doubts - 1
      BY <1>2, <2>3 DEF Doubts, FileUpload, Restart
    <3> QED BY <1>1, <2>1, <3>1, SettledFollows
  <2> QED BY <2>2, <2>3
<1>3. CASE Launch /\ exec # "running" /\ exec' = "running" /\ pc' = "extract"
           /\ verdict' = "none" /\ required' = {} /\ approvals' = {}
  <2>1. Needs' = {} /\ ~UnderReviewAgain /\ (UnderReviewAgain' <=> dbState \in Decided)
    BY <1>1, <1>3 DEF Needs, UnderReviewAgain, Decided
  <2>2. \/ Doubts > 0 /\ Doubts' = Doubts - 1
        \/ dbState \notin Decided /\ Doubts' = Doubts
    <3>1. CASE Restart
      BY <1>3, <3>1 DEF Restart, Doubts, PolicyInv, DoubtInv, StuckStates, Decided, Approved
    <3>2. CASE FileUpload
      BY <1>3, <3>2 DEF FileUpload, Doubts, PolicyInv, DoubtInv, StuckStates, Decided, Approved
    <3> QED BY <3>1, <3>2
  <2> QED BY <1>1, <1>3, <2>1, <2>2, AgainFollows
<1> QED BY <1>2, <1>3 DEF FileUpload, Restart, Launch

\* Receiving an approval is a consent of somebody entitled.
LEMMA ReceiveFollows ==
  ASSUME PolicyInv, NEW stage \in Stages, NEW channel \in Channels, NEW user \in Users,
         Receive(stage, channel, user), At(pc),
         pc \in Stages \cup {"selectOverride", "selectManager", "selectFinance"},
         UNCHANGED <<dbState, ingest, exec, sweep, describeErrors, partialUploads>>,
         channel = ChannelOf(stage) => RoleOf[user] \in MayDecide(stage)
  PROVE  Follows
<1>1. TypeOK /\ Needs' = Needs /\ Doubts' = Doubts
  BY DEF PolicyInv, ConsentInv, Receive, Needs, Doubts
<1>2. dbState \notin Decided \/ UnderReviewAgain
  BY Reviewing DEF Stages, Closing
<1>3. UnderReviewAgain' = UnderReviewAgain
  BY DEF Receive, AuditStep, At, Stages, UnderReviewAgain
<1>4. CASE UNCHANGED approvals
  BY <1>1, <1>3, <1>4, MovesFollow
<1>5. CASE channel = ChannelOf(stage) /\ approvals' = approvals \cup {[stage |-> stage, by |-> user]}
  BY <1>1, <1>2, <1>3, <1>5, ReviewFollows
<1> QED BY <1>4, <1>5 DEF Receive

LEMMA SelectFollows ==
  ASSUME PolicyInv, NEW p, NEW stage \in Stages, SelectDecision(p, stage),
         p \in {"selectOverride", "selectManager", "selectFinance"}
  PROVE  Follows
<1>1. /\ At(pc) /\ pc = p
      /\ UNCHANGED <<dbState, ingest, exec, sweep, describeErrors, partialUploads>>
  BY DEF SelectDecision, At, dbVars, budgetVars
<1>2. signals \in [Channels -> Seq(Users)]
  BY DEF PolicyInv, ConsentInv, TypeOK
<1>3. ASSUME NEW c \in Channels, signals[c] # << >>,
             Receive(stage, c, Head(signals[c]))
      PROVE  Follows
  <2>1. Head(signals[c]) \in Users
    BY <1>2, <1>3, HeadTail
  <2>2. c = ChannelOf(stage) => RoleOf[Head(signals[c])] \in MayDecide(stage)
    BY <1>2, <1>3, TailSenders DEF PolicyInv, ConsentInv, SendersEntitled
  <2> QED BY <1>1, <1>3, <2>1, <2>2, ReceiveFollows
<1>4. CASE pc' = stage /\ UNCHANGED <<verdict, aiResolved, required, approvals, decider, signals>>
  <2>1. Needs' = Needs /\ Doubts' = Doubts
    BY <1>1, <1>4 DEF Needs, Doubts
  <2>2. UnderReviewAgain' = UnderReviewAgain
    BY <1>1, <1>4 DEF UnderReviewAgain, At, Stages
  <2> QED BY <1>1, <1>4, <2>1, <2>2, MovesFollow
<1>5. ChannelOf(stage) \in Channels /\ "RejectionSignal" \in Channels
  BY DEF ChannelOf, Channels
<1> QED BY <1>3, <1>4, <1>5 DEF SelectDecision

LEMMA ReviewStepFollows ==
  ASSUME PolicyInv, ReviewStep
  PROVE  Follows
<1>1. PICK user \in Users :
        \/ Reject(user) \/ ManagerApproves(user) \/ FinanceApproves(user)
        \/ AdminSignalsManager(user) \/ AdminSignalsFinance(user)
  BY DEF ReviewStep
<1>2. AdminSignalsFinance(user) => RoleOf[user] = "ADMIN"
  BY DEF AdminSignalsFinance, PolicyInv, ConsentInv, AdminCallers
<1>3. UNCHANGED <<dbState, ingest, exec, sweep, describeErrors, partialUploads>>
  BY ReviewKeeps
<1>4. PICK channel \in Channels :
        /\ Signal(channel, user) \/ UNCHANGED <<signals, runVars>>
        /\ \A stage \in Stages : channel = ChannelOf(stage) => RoleOf[user] \in MayDecide(stage)
  BY <1>1, <1>2 DEF Reject, ManagerApproves, FinanceApproves, AdminSignalsManager,
     AdminSignalsFinance, Channels, ChannelOf, MayDecide, Stages
<1>5. CASE exec = "running" /\ pc \in Stages /\ Receive(pc, channel, user)
  BY <1>3, <1>4, <1>5, ReceiveFollows DEF At
<1>6. CASE UNCHANGED runVars
  <2>1. Needs' = Needs /\ Doubts' = Doubts /\ UnderReviewAgain' = UnderReviewAgain
    BY <1>3, <1>6 DEF Needs, Doubts, UnderReviewAgain, runVars
  <2> QED BY <1>3, <1>6, <2>1, MovesFollow DEF runVars
<1> QED BY <1>4, <1>5, <1>6 DEF Signal

\* Writing a state decides the invoice with consents, refuses it, takes a
\* decision back, or changes nothing the policy sees.
LEMMA SetStateFollows ==
  ASSUME PolicyInv, [Next]_vars, WorkflowStep, NEW p, NEW state, NEW next,
         SetState(p, state, next),
         p \notin {"auditApproved", "auditArchived", "auditRejected", "return"},
         \/ /\ state \in InvoiceStates \ Decided /\ p \notin {"setApproved", "setArchived"}
            /\ next \notin Closing \cup {"auditApproved", "setArchived"}
         \/ p = "setApproved" /\ state = "APPROVED" /\ next = "auditApproved"
         \/ p = "setArchived" /\ state = "ARCHIVED" /\ next = "auditArchived"
         \/ p = "setRejected" /\ state = "REJECTED" /\ next = "auditRejected"
  PROVE  Follows
<1>1. TypeOK /\ Needs' = Needs /\ approvals' = approvals
  BY DEF SetState, PolicyInv, ConsentInv, Needs
<1>2. /\ UNCHANGED <<ingest, sweep, describeErrors, partialUploads, exec>>
      /\ exec = "running" /\ pc = p /\ pc' = next
  BY WorkflowRuns DEF SetState, At
<1>3. Doubts' = Doubts
  BY <1>2, RunDoubts
<1>4. p # "setArchived" => dbState \notin Decided \/ UnderReviewAgain
  BY <1>2, Reviewing DEF At, Closing
<1>5. CASE dbState' = dbState
  <2>1. UnderReviewAgain' => UnderReviewAgain
    BY <1>2, <1>5 DEF UnderReviewAgain, Approved, Closing
  <2> QED BY <1>1, <1>2, <1>3, <1>5, <2>1, MovesFollow
<1>6. CASE dbState' = state /\ dbState' # dbState /\ state \in InvoiceStates \ Decided
           /\ p # "setArchived"
  <2>1. Status' = "open" /\ ~UnderReviewAgain'
    BY <1>6 DEF Status, UnderReviewAgain, Decided
  <2>2. CASE UnderReviewAgain
    BY <1>1, <1>2, <1>3, <2>1, <2>2, TakenBackFollows
  <2>3. CASE ~UnderReviewAgain
    <3>1. Status = "open" /\ ~Undoing
      BY <1>4, <1>6, <2>3 DEF Status, Undoing, Decided, Final, Approved
    <3>2. UnderReviewAgain' = UnderReviewAgain
      BY <1>1, <2>1, <2>3, CountTypes
    <3> QED BY <1>1, <1>2, <1>3, <2>1, <3>1, <3>2, QuietFollows
  <2> QED BY <2>2, <2>3
<1>7. CASE dbState' \in Approved /\ dbState' # dbState /\ p \in {"setApproved", "setArchived"}
  <2>1. Status' = "approved" /\ ~UnderReviewAgain'
    BY <1>2, <1>7 DEF Status, UnderReviewAgain, Closing, Approved
  <2>2. CASE dbState \notin Approved
    <3>1. Consented
      BY <1>7, <2>2, ConsentedStep DEF PolicyInv
    <3>2. \A stage \in Needs : Obtained(stage)
      BY <3>1 DEF Needs, Consented, Obtained
    <3>3. dbState \notin Decided \/ UnderReviewAgain
      BY <1>2, <1>7, <2>2 DEF Decided, UnderReviewAgain
    <3> QED BY <1>1, <1>2, <1>3, <2>1, <3>2, <3>3, DecidingFollows
  <2>3. CASE dbState \in Approved
    <3>1. Status = "approved"
      BY <2>3 DEF Status
    <3>2. CASE p = "setApproved"
      <4>1. UnderReviewAgain
        BY <1>2, <2>3, <3>2 DEF UnderReviewAgain, Closing
      <4> QED BY <1>1, <1>2, <1>3, <2>1, <3>1, <4>1, TakenBackFollows
    <3>3. CASE p = "setArchived"
      <4>1. ~UnderReviewAgain /\ ~Undoing
        BY <1>2, <1>7, <2>3, <3>3 DEF UnderReviewAgain, Undoing, Final, Approved, SetState
      <4>2. UnderReviewAgain' = UnderReviewAgain
        BY <1>1, <2>1, <4>1, CountTypes
      <4> QED BY <1>1, <1>2, <1>3, <2>1, <3>1, <4>1, <4>2, QuietFollows
    <3> QED BY <1>7, <3>2, <3>3
  <2> QED BY <2>2, <2>3
<1>8. CASE dbState' = "REJECTED" /\ p = "setRejected" /\ next = "auditRejected"
  <2>1. Status' = "rejected" /\ ~UnderReviewAgain'
    BY <1>2, <1>8 DEF Status, UnderReviewAgain, Closing, Approved, SetState
  <2> QED BY <1>1, <1>2, <1>3, <1>4, <1>8, <2>1, DecidingFollows
<1> QED BY <1>5, <1>6, <1>7, <1>8 DEF SetState, Approved

LEMMA WorkflowFollows ==
  ASSUME PolicyInv, [Next]_vars, WorkflowStep
  PROVE  Follows
<1>1. TypeOK /\ Doubts' = Doubts /\ UNCHANGED <<ingest, describeErrors, partialUploads>>
  BY WorkflowRuns, RunDoubts DEF PolicyInv, ConsentInv
<1>2. ASSUME NEW p, NEW event, NEW actor, NEW next, LogAudit(p, event, actor, next),
             \/ p = "auditApproved" /\ next = "setArchived"
             \/ p = "auditArchived" /\ next = "return"
             \/ p = "auditRejected" /\ next = "return"
             \/ p \notin Closing \cup {"auditApproved", "setArchived"}
      PROVE  Follows
  <2>1. UNCHANGED <<dbState, Needs, approvals>>
    BY <1>2 DEF LogAudit, Needs
  <2>2. UnderReviewAgain' => UnderReviewAgain
    BY <1>2 DEF LogAudit, At, UnderReviewAgain, Closing
  <2> QED BY <1>1, <2>1, <2>2, MovesFollow
<1>3. CASE (Extract \/ RaiseException \/ Return) \/ \E p : FailRun(p)
  <2>1. UNCHANGED <<dbState, Needs, approvals>>
    BY <1>3 DEF Extract, RaiseException, Return, FailRun, dbVars, Needs
  <2>2. UnderReviewAgain' => UnderReviewAgain
    BY <1>3, <2>1 DEF Extract, RaiseException, Return, FailRun, At, UnderReviewAgain
  <2> QED BY <1>1, <2>1, <2>2, MovesFollow
<1>4. CASE Validate /\ ~FailRun("validate")
  <2>1. /\ verdict = "none" /\ required = {}
        /\ UNCHANGED <<dbState, required, approvals>>
    BY <1>4 DEF Validate, At, PolicyInv, ConsentInv, RunInv, Assessing, dbVars
  <2>2. Needs' \in SUBSET Stages /\ Needs \subseteq Needs'
    BY <2>1 DEF Needs, Stages
  <2>3. UnderReviewAgain' = UnderReviewAgain
    BY <1>4, <2>1 DEF Validate, At, UnderReviewAgain
  <2>4. dbState \notin Decided \/ UnderReviewAgain
    BY <1>4, Reviewing DEF Validate, At, Closing
  <2> QED BY <1>1, <2>1, <2>2, <2>3, <2>4, ReviewFollows
<1>5. CASE AIResolve
  <2>1. /\ verdict = "arithmetic" /\ required = {}
        /\ UNCHANGED <<dbState, verdict, required, approvals>>
    BY <1>5 DEF AIResolve, At, PolicyInv, ConsentInv, RunInv, Assessing, Escalating, dbVars
  <2>2. UnderReviewAgain' = UnderReviewAgain
    BY <1>5, <2>1 DEF AIResolve, At, UnderReviewAgain
  <2>3. dbState \notin Decided \/ UnderReviewAgain
    BY <1>5, Reviewing DEF AIResolve, At, Closing
  <2>4. CASE aiResolved' = TRUE
    <3>1. Needs' = Needs \ {"override"}
      BY <2>1, <2>4 DEF Needs
    <3> QED BY <1>1, <2>1, <2>2, <2>3, <3>1, ReviewFollows
  <2>5. CASE UNCHANGED aiResolved
    <3>1. Needs' = Needs
      BY <2>1, <2>5 DEF Needs
    <3> QED BY <1>1, <2>1, <2>2, <3>1, MovesFollow
  <2> QED BY <1>5, <2>4, <2>5 DEF AIResolve
<1>6. CASE FetchRules /\ ~FailRun("fetchRules")
  <2>1. /\ required = {} /\ required' \subseteq Stages
        /\ UNCHANGED <<dbState, verdict, aiResolved, approvals>>
    BY <1>6 DEF FetchRules, At, PolicyInv, ConsentInv, RunInv, Assessing, Escalating, Stages, dbVars
  <2>2. Needs' \in SUBSET Stages /\ Needs \subseteq Needs'
    BY <2>1 DEF Needs, Stages
  <2>3. UnderReviewAgain' = UnderReviewAgain
    BY <1>6, <2>1 DEF FetchRules, At, FirstStep, UnderReviewAgain
  <2>4. dbState \notin Decided \/ UnderReviewAgain
    BY <1>6, Reviewing DEF FetchRules, At, Closing
  <2> QED BY <1>1, <2>1, <2>2, <2>3, <2>4, ReviewFollows
<1>7. CASE \/ SelectDecision("selectOverride", "override")
           \/ SelectDecision("selectManager", "manager")
           \/ SelectDecision("selectFinance", "finance")
  BY <1>7, SelectFollows DEF Stages
<1>8. CASE \/ SetState("setValidating", "VALIDATING", "validate")
           \/ SetState("setValidationFail", "VALIDATION_FAILED", "auditValidationFailed")
           \/ SetState("setPendingOverride", "PENDING_MANAGER_APPROVAL", "selectOverride")
           \/ SetState("setPendingManager", "PENDING_MANAGER_APPROVAL", "selectManager")
           \/ SetState("setPendingFinance", "PENDING_FINANCE_APPROVAL", "selectFinance")
           \/ SetState("setApproved", "APPROVED", "auditApproved")
           \/ SetState("setArchived", "ARCHIVED", "auditArchived")
           \/ SetState("setRejected", "REJECTED", "auditRejected")
  BY <1>8, SetStateFollows DEF InvoiceStates, Decided, Approved, Closing
<1>9. CASE \/ LogAudit("auditExtracted", "DOCUMENT_EXTRACTED", "system", "setValidating")
           \/ LogAudit("auditValidationFailed", "VALIDATION_FAILED", "system", "raiseException")
           \/ LogAudit("auditAIResolved", "AI_AUTO_RESOLVED", "ai-agent", "fetchRules")
           \/ LogAudit("auditOverride", "VALIDATION_OVERRIDE_APPROVED", decider, "fetchRules")
           \/ LogAudit("auditManager", "MANAGER_APPROVED", decider, FirstStep(required \ {"manager"}))
           \/ LogAudit("auditFinance", "FINANCE_APPROVED", decider, "setApproved")
           \/ LogAudit("auditApproved", "APPROVED", "system", "setArchived")
           \/ LogAudit("auditArchived", "ARCHIVED", "system", "return")
           \/ LogAudit("auditRejected", "REJECTED", decider, "return")
  BY <1>2, <1>9 DEF Closing
<1> QED
  BY <1>3, <1>4, <1>5, <1>6, <1>7, <1>8, <1>9 DEF WorkflowStep, Validate, FetchRules

LEMMA FollowsStep ==
  ASSUME PolicyInv, [Next]_vars
  PROVE  Follows
<1>1. TypeOK
  BY DEF PolicyInv, ConsentInv
<1>2. CASE FileUpload \/ Restart
  BY <1>2, LaunchFollows
<1>3. CASE WorkflowStep
  BY <1>3, WorkflowFollows
<1>4. CASE ReviewStep
  BY <1>4, ReviewStepFollows
<1>5. CASE StopUpload
  <2>1. /\ Causes' = Causes + 1 /\ Doubts' = Doubts + 1 /\ UNCHANGED dbState
        /\ UNCHANGED <<Status, Needs, approvals, UnderReviewAgain>>
    BY <1>1, <1>5, BoundsAssumption DEF StopUpload, Causes, Doubts, Status, Needs, UnderReviewAgain,
       dbVars, runVars, TypeOK
  <2> QED BY <1>1, <2>1, DoubtFollows
<1>6. CASE Describe
  <2>1. UNCHANGED <<dbState, Status, Needs, approvals, UnderReviewAgain>>
    BY <1>6 DEF Describe, Status, Needs, UnderReviewAgain, dbVars, runVars
  <2>2. CASE UNCHANGED describeErrors /\ (sweep' = "idle" \/ exec = "none")
    <3>1. Doubts' = Doubts /\ UNCHANGED <<partialUploads, ingest>>
      BY <1>6, <2>2 DEF Describe, Doubts
    <3> QED BY <1>1, <2>1, <2>2, <3>1, QuietFollows DEF Undoing
  <2>3. CASE describeErrors' = describeErrors + 1 /\ exec # "none" /\ sweep' = "missing"
    <3>1. Causes' = Causes + 1 /\ Doubts' = Doubts + 1
      BY <1>1, <1>6, <2>3, BoundsAssumption DEF Describe, Causes, Doubts, TypeOK
    <3> QED BY <1>1, <2>1, <3>1, DoubtFollows
  <2> QED BY <1>6, <2>2, <2>3 DEF Describe
<1>7. CASE LoseExecution \/ ExpireExecution
  <2>1. /\ UNCHANGED <<dbState, ingest, Needs, approvals, describeErrors, partialUploads>>
        /\ Doubts' = Doubts /\ ~UnderReviewAgain'
    BY <1>7 DEF LoseExecution, ExpireExecution, dbVars, runVars, budgetVars, Needs, Doubts,
       UnderReviewAgain
  <2> QED BY <2>1, MovesFollow
<1>8. CASE Age \/ ListStuck \/ AbortSweep \/ UNCHANGED vars
  <2>1. /\ UNCHANGED <<dbState, Status, Needs, approvals, UnderReviewAgain>>
        /\ UNCHANGED <<describeErrors, partialUploads, ingest, exec>>
    BY <1>8 DEF Age, ListStuck, AbortSweep, vars, Fault, Status, Needs, UnderReviewAgain, dbVars,
       runVars, budgetVars
  <2>2. CASE Doubts' = Doubts
    BY <1>1, <2>1, <2>2, QuietFollows DEF Undoing
  <2>3. CASE Doubts' # Doubts
    <3>1. Doubts > 0 /\ Doubts' = Doubts - 1
      BY <1>8, <2>1, <2>3 DEF Doubts, Age, ListStuck, AbortSweep, vars
    <3> QED BY <1>1, <2>1, <3>1, SettledFollows
  <2> QED BY <2>2, <2>3
<1> QED
  BY <1>2, <1>3, <1>4, <1>5, <1>6, <1>7, <1>8 DEF Next, SweepStep

-----------------------------------------------------------------------------
(***************************************************************************)
(* What follows for decisions and for the policy.                          *)
(***************************************************************************)

\* UndoneOncePerCause for any reviewers and bounds: each decision that is written
\* over uses up a describe call that failed or an upload that stopped half way.
THEOREM UndoingsHaveCauses == Spec => UndoneOncePerCause
<1>1. PolicyInv /\ [Next]_vars => [UsedUp <= UsedUp' /\ (Undoing => UsedUp < UsedUp')]_vars
  BY FollowsStep DEF Follows
<1> QED BY <1>1, PolicyInvariant, PTL DEF Spec, UndoneOncePerCause

LEMMA NothingUsedUp ==
  ASSUME TypeOK, Causes' = 0
  PROVE  UsedUp' \in Int /\ UsedUp' <= 0
<1>1. PICK pending \in Nat : Pending' = pending
  BY CountTypes DEF Pending
<1>2. UsedUp' = Causes' - Pending'
  BY DEF UsedUp, Causes, Pending
<1>3. UsedUp' = 0 - pending
  BY <1>1, <1>2
<1> QED BY <1>3

\* As long as no describe call has failed and no upload has stopped half way, a
\* rejected or archived invoice stays so, whatever fails, is lost or is signalled.
THEOREM DecisionsAreFinal ==
  Spec => [][(describeErrors = 0 /\ partialUploads = 0 /\ dbState \in Final)
               => dbState' = dbState]_vars
<1> DEFINE Counted == UsedUp \in Nat
           Step == (describeErrors = 0 /\ partialUploads = 0 /\ dbState \in Final)
                     => dbState' = dbState
<1>1. Init => Counted
  BY DEF Init, UsedUp, Doubts, UnderReviewAgain, Final, Approved
<1>2. PolicyInv /\ Counted /\ [Next]_vars => Counted'
  <2> SUFFICES ASSUME PolicyInv, Counted, [Next]_vars
               PROVE  Counted'
    OBVIOUS
  <2>1. UsedUp <= UsedUp' /\ PolicyInv'
    BY FollowsStep, DoubtStep DEF Follows
  <2>2. TypeOK /\ TypeOK'
    BY <2>1 DEF PolicyInv, ConsentInv
  <2>3. describeErrors' \in Nat /\ partialUploads' \in Nat /\ Doubts' \in Nat
    BY <2>2, BoundsAssumption, CountTypes DEF TypeOK
  <2>4. UsedUp' \in Int
    BY <2>3 DEF UsedUp
  <2> QED BY <2>1, <2>4
<1>3. PolicyInv /\ Counted /\ [Next]_vars => [Step]_vars
  <2> SUFFICES ASSUME PolicyInv, Counted, [Next]_vars, dbState' # dbState,
                      describeErrors = 0, partialUploads = 0, dbState \in Final
               PROVE  FALSE
    OBVIOUS
  <2>1. UsedUp < UsedUp'
    BY FollowsStep DEF Follows, Undoing
  <2>2. TypeOK /\ Causes' = 0
    BY RunWrites DEF Causes, PolicyInv, ConsentInv
  <2>3. UsedUp' \in Int /\ UsedUp' <= 0
    BY <2>2, NothingUsedUp
  <2> QED BY <2>1, <2>3
<1> QED BY <1>1, <1>2, <1>3, PolicyInvariant, PTL DEF Spec

LEMMA PolicyInit ==
  ASSUME Init
  PROVE  Policy!Init
BY DEF Init, Policy!Init, Approved, Doubts, UnderReviewAgain

\* The lifecycle implements the approval policy, for any reviewers and any number
\* of failures, losses, wrong describe answers and unfinished uploads.
THEOREM LifecycleImplementsPolicy == Spec => ImplementsPolicy
<1>1. PolicyInv /\ [Next]_vars => [Policy!Next]_Policy!policyVars
  BY FollowsStep DEF Follows
<1> QED BY PolicyInit, <1>1, PolicyInvariant, PTL DEF Spec, ImplementsPolicy, Policy!Spec
=============================================================================
