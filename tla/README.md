# A verification of the Invoice Compliance Workflow Platform

TLA+ models of the parts of the platform that keep state and run side by side,
TLC configurations that check them on small instances, and proofs that TLAPS
checks for every value of the constants. Paths are relative to the repository;
`PROJECT.json` maps every definition to the lines it translates.

## 1. The system

A distributor files the invoices it has issued, collects the documents that come
back with a delivery, has invoices validated and approved, settles disputes and
records payments. A Flutter app (`mobile/`) captures photos and queues them; a
Go API (`backend/cmd/api`) files them in Postgres and in a file store; a Go
worker (`backend/cmd/worker`) runs Temporal workflows and two periodic scans; a
Python worker extracts text and figures; a Next.js site (`frontend/`) shows it.

| component | state it keeps | operations | talks to |
|---|---|---|---|
| Invoice approval workflow (`internal/workflow/workflows.go`, `activities.go`) | position of the run, verdict, requirements, buffered signals; writes `invoices.current_state` and audit events | a durable sequence of activities with three waits for people | Python activities, the database, signals |
| Approval endpoint (`api.go`, `handleApproveInvoice`) | none | one signal, or two for an admin | the workflow |
| Reconciler (`internal/reconciliation`) | none between sweeps | list stuck invoices, describe their workflow, start it again | the database, Temporal |
| Ledger upload, server (`api.go`, `storage.go`, `db.go`) | invoice, documents, versions, files | file an invoice, add or replace a document | the mobile queue, both workflows |
| Mobile upload queue (`sync_service.dart`, `hive_service.dart`) | bundles: status, remote ID, photos marked uploaded; a flag in memory | sync, on a tap, on a connectivity change, after queueing | the two upload endpoints |
| Receiving documents, gate entries, disputes (`owner_handlers.go`, `ledger_activities.go`, `ledger_workflow.go`) | quantities of each document, disputes of the invoice | enter quantities, match a document, raise and settle disputes | the AI's extraction, the database |
| Payments and receivables (`receivables_handlers.go`, `distributor.go`) | payments, due dates, buyers' terms | record a payment; three views of what is owed | the database |
| Audit trail (`db.go`, `WriteAuditLog`) | hash-linked events of an invoice | append | every handler and activity |
| Exceptions and missing numbers (`internal/ledgerscan`, `db.go`) | open exceptions, gaps in invoice series | an hourly scan; resolving by hand | the database, the alert feed |
| Documents, credit notes (`api.go`, `owner_handlers.go`, `storage.go`) | documents, their versions, files by name, the dispute's link | add, replace, link | the file store, the scan, a restarted run |
| Validation and tenant rules (`internal/validation`, `rules.go`) | rules | judge an extraction; the approvals it needs; create, delete | the workflow |
| Login and passwords (`auth_handlers.go`, `ratelimit.go`, `internal/auth`) | password hashes; failures per address, in memory; signed tokens | log in, change, reset | every request |
| Capture (`bundle_provider.dart`, `review_screen.dart`) | the draft of a bundle | add and drop photos, save, resume, submit | the queue |
| Requirements, master data | rows | create, read | handlers, the series of an upload |
| Tenancy | row-level security, set per transaction | | every request |

**Where it is hard.** Nothing in the server locks: each repository call is a
READ COMMITTED transaction of its own, so every check followed by a write can be
overtaken (disputes, payments, the audit chain, documents, open exceptions, passwords). The workflow is durable
but its writes are best effort, so the row, the run and the trail can disagree.
Signals come at any moment and are buffered. The reconciler decides on what it
read earlier. The device repeats what it has had no answer to while the first
request may still be running. The scan compares a list it read once with series
that are being filed. Files are found by name, and a copy truncates what was
there. `PROJECT.json` lists each of these hazards at its line.

**What makes each part correct.** Approval: only with the consents the rules ask
for, from people who may give them; decided once, but for a restart that nobody
checked; nobody's answer ignored; every invoice decided in the end. Receiving: a
shortage is disputed, and overlapping calls do not pile disputes up; the AI does not
write over what a person entered. Payments: what overlapping requests can take too
much is bounded; the views agree. Audit: one chain. Upload: what the device believes safe is on file;
the bundle gets there. Scan: a gap reported is a gap, each gap is reported, a
late filing clears it, a person's word stands. The file: a problem is raised once,
a version is served as it was hashed until something is saved over it, a linked
credit note is there to read. Rules: what was filed decides who must approve.
Passwords: guesses are bounded, a block ends, nobody's password is overwritten by
someone who did not know it. Capture: what was photographed is in the draft or in the queue.

## 2. Modules

| module | models | composed with |
|---|---|---|
| `ApprovalPolicy` | the abstract promise of approval: assess, consent, decide, and review again only on a doubt | implemented by `InvoiceLifecycle` |
| `InvoiceLifecycle` | workflow, endpoint, upload's start, reconciler, engine | `INSTANCE ApprovalPolicy` with a refinement mapping |
| `GateEntry` | receiving documents, quantities, automatic and manual disputes, the matching workflow | |
| `CreditLedger` | credit sales, payments, the three receivables views | |
| `AuditChain` | `WriteAuditLog` as overlapping transactions | |
| `LedgerUpload` | the device's loop, two upload handlers step by step, database and file store | |
| `GapRegister` | the abstract promise of the missing-number register | implemented by `SeriesGaps` |
| `SeriesGaps` | the series of an upload, the worker's scan, people settling what it flags | `INSTANCE GapRegister` |
| `Assessment` | validation and tenant rules as operators on amounts | extended by `InvoiceFile` |
| `InvoiceFile` | an invoice's documents, files and credit notes, the exceptions raised against it, and a run that reads, judges and restarts | `Assessment` |
| `Access` | the login limiter, login, password change and reset, tokens, the clock | |
| `MC*` | the small instance of each for TLC | |
| `*_proofs` | theorems and their lemmas | extend their module and TLAPS |

An action is a step that other processes cannot see half of: one database call, one
activity, one device step up to its next `await`. A handler is a sequence of
such steps held in a record (`call`, `request`, `writer`, `scan`), with the rest of
what the handler remembers. Budgets (`faults`, `losses`, ...) bound how often the
environment misbehaves; they are constants, so the proofs hold for every
budget.

**InvoiceLifecycle.** `pc` is the statement of `InvoiceWorkflow` the run is at;
`SetState` and `LogAudit` are the two closures of the same name, which go on
when their activity fails. `SelectDecision` and `Signal` are `waitForDecision`: a
signal meets a blocked selector or is buffered in its channel, and a selector
finds the approval channel first. `Launch` is `ExecuteWorkflow`, which attaches to
an open run and otherwise starts a new one; it is called by the upload
(`FileUpload`) and by the sweep (`ListStuck`, `Describe`, `Restart`). `exec` is
what the engine knows of the workflow ID: retention (`ExpireExecution`) and loss
(`LoseExecution`) remove it. One invoice is modelled: invoices share neither
rows nor workflow IDs.

**GateEntry.** `row` is a document's gate-entry record, where `entered` is
`entered_by IS NOT NULL` (which an upsert leaves alone). A form and an attempt of the
matching activity are `call`s that save, look for an open dispute and raise one
in separate steps; `skips` counts the errors that both ignore on the way to a
dispute, apart from `faults`, which end the call. `matching` is the workflow of the document, whose ID a
replacement shares. `late` attempts run on beside the next one.

**CreditLedger.** `bill` is the row with its due date, `paid` the sum of the
invoice's payments, `request` a payment between its steps. Money is counted in
half paise, so the tolerance 0.005 of `CreatePayment` is one unit. The views
are operators, each with the conditions of its own query.

**AuditChain.** `writer` is a transaction that has read (or not) the latest hash.
`created_at` is when it began (Postgres' `now()`), which is not the order of
inserts. A hash is the sequence of what it covers: SHA-256 taken as injective.

**LedgerUpload.** Photo 0 is the primary one. `role` is the user's; the route of the
primary photo lets workers and admins through (`RefusePrimary`), the other one
managers too, and only managers and admins may replace a document. `status`, `known`, `uploaded` are
what is in the device's store, `syncing` what a killed app forgets. A `request`
whose `link` is lost goes on unseen; whose context is cancelled fails at its next
database call, though not at the file store. `files` holds what each key holds
last.

**SeriesGaps.** An invoice number is what `splitSequence` makes of it: a prefix, the
width of the trailing digits, their value. `StampSeries` and `CreateInvoice` are
the two steps of filing; a registered prefix that begins the number decides the
series, the longest first, unless the client names one. `scan[w]` is one worker's
scan: the series left, what it read of the current one (`seen`), the numbers to
flag and those to clear; each insert and update is a step, each may fail, and the
worker may be killed in between. `judged` is a history variable: what a
person last made of a row. Under the refinement `FlagNumber`, `ClearNumber`,
`ResolveMissing` and `CreateInvoice` do the register's four actions and the rest
stutters; the register keeps three of the variables, under the same names.

**Assessment.** Amounts are integers in paise. The tolerances of `validation.go`
(5 paise on the sum, the larger of one rupee and one percent against what was
filed) are multiplied out. A rule compares one field with a value; the default
rules stand in where a tenant has none.

**InvoiceFile.** `docs` are the documents of the invoice in the order of
creation, `store` the files by key (a file name in the invoice's directory, with
the prefix of a credit note), `call` a request, a scan or an attempt of the
exception activity between two statements. `run` is the part of the workflow that
reads a document, judges it and fetches the rules. History variables tell
overlap from order: `overwritten`, the versions under whose key a file was saved after
their own; `outrun`, the calls this has happened to between their file and their
version, which comes into the world overwritten; and `raced`, the types that two
calls found not to be open before either had inserted its own.

**Access.** Ages replace times: a failure is its age, a token its user and its age,
and both stop growing at the limit that makes them old, so that the clock
(`Tick`) needs no bound. A request holds what it has read (`seen`) and what it
claims (`sent`); `rivalled` is a history variable of a request whose user's
password was written by another one after it read it. A restart forgets the
limiter's failures and keeps the tokens.

## 3. Runs

All runs are exhaustive within their bounds.

| run | question | bounds | states |
|---|---|---|---|
| `lifecycle_safety` | Does an approval rest on the consents it needs, is no decision left unread, does the trail name who approved, and is a decision undone only by an upload that stopped half way? | a manager and a finance reviewer, one unread signal per channel, one failed activity, one partial upload, any restarts | 3.5 million |
| `lifecycle_final` | Do a wrong describe answer and an unfinished upload undo at most one decision each, and is `ApprovalPolicy` implemented? | an admin, one wrong describe answer, one partial upload (failing activities: the proof) | 2 million |
| `lifecycle_live` | Is a stuck invoice restarted, is every invoice decided? | two reviewers, one lost execution | 444 thousand |
| `gate` | How far can overlapping calls stack disputes; does the AI leave a person's row alone; is a shortage disputed, does matching end? | one document of two versions, one form, two calls at once, one failure, one ignored error, one dispute by hand | 170 thousand |
| `gate_correction` | violated: a person corrects a row the AI inserted, and the next run of the matching overwrites it | one call at a time, no failure | |
| `credit` | What can overlapping payments take too much; do the views agree and the columns add up? | two invoices, one buyer, two tellers, amounts and days on both sides of every border | 1.5 million (symmetry) |
| `audit_trail` | Do links lead to the start, and is a serial trail one chain? | two writers, two contents, five transactions | 102 thousand |
| `upload_retry` | Is what is marked on file, has every version a file, does a bundle get synced? | primary, a page and a receipt; two requests in flight; one failed step, two losses; a worker, an admin or a manager | 219 thousand |
| `series_gaps` | Is what the scan flags a gap, is every gap flagged, does a late filing close it; is `GapRegister` implemented? | up to three invoices with numbers 9, 10, 11, two printed and two registered prefixes, one worker, one fault or kill | 59 thousand |
| `invoice_file` | Are exceptions raised once, files served as hashed, linked credit notes complete; do thresholds see what was filed? | two calls at once, three begun, three documents of two versions, one file name (two keys, with a credit note's prefix), one failure, four extractions of one invoice | 2.3 million (symmetry) |
| `access` | Are failures bounded, does a block lift, who can overwrite a password? | an administrator and a member of staff, two clients behind one address, three passwords (one too weak), two attempts per window of two ticks, one failure or restart | 1.4 million |
| `upload_pages` | violated: pages 2..N share one key and overwrite each other | | |

**Why the bounds are enough.** A budget of one or two puts the event at every
point of every behaviour; the code keeps no count of such events (only the
engine's retries do, and they are modelled as ever more attempts), so a
second failure meets a state a first one could have met too. One buffered signal
per channel shows a signal that waits for a later stage; each role that can
send is present in one run or another. Two calls are what it takes to overtake
a check. The days 0, 1, 30, 31, 60, 61 with terms 0 and 30 put due dates on and
beside each border of the aging ranges. Three photos have the kinds the
handlers treat differently: invoice, page, and other. The numbers 9 to 11
include the step at which a number gains a digit, and 10 is printed under either
prefix, so a filed number can look unlike the one reported. The extractions of
`invoice_file` agree with the invoice, read it just below the threshold but
beyond the tolerance, see no total, or are inconclusive: one for each way a run can
go. Two clients behind one address are what it takes to pass the limiter
together, and to write between another's proof and its update. What a small instance cannot
show the proofs do, where there is one.

**Deadlock.** It is checked where the system can always go on: `credit` (a
new payment), `series_gaps` (another scan), `access` (the clock). In the other
instances the system may rightly come to rest: the invoice is decided, the bundle
synced, the budget used up.

**Fairness.** `InvoiceLifecycle`: the worker polls and Temporal retries an
activity until it is done, an HTTP request ends, time passes, the sweep is on a
15-minute ticker; a device's retry is not assumed. That reviewers answer is not
an assumption of the specification but the hypothesis of `EveryInvoiceDecided`.
`GateEntry`: a request runs to its end, an open activity is attempted again.
`LedgerUpload`: a handler runs on, the loop goes on while the app lives, and
`Sync` happens again and again as the user taps or the network returns.
`SeriesGaps`: a worker scans at start and on every tick of its hourly ticker, and a
scan goes on. `Access`: time passes; nothing is asked of the clients. Faults,
losses, kills and people's other actions are never fair.

**Conditions inside properties.** Nothing locks, so what comments promise of single
calls fails when two overlap. Where the damage is bounded the run checks the bound,
with two calls at once: `OverpaymentBounded` for two requests that fit the same
balance (`distributor.go:287`, against the comment in lines 270-271),
`StackingBounded` for two calls that raise two disputes (`owner_handlers.go:428`,
against its comment at line 423 and that at `distributor.go:320-322`), `AIReadsYield`
for an attempt that looked for a person's row before it was there: such an attempt
writes once, no later one does. `SerialTrailIsChain` holds as long as writes do not
overlap; with two writers at once the trail forks (`db.go:943`, against
`000001_initial_schema.up.sql:85`). `OneOpenException` excepts the
types two calls found missing at once (`raced`), which overlapping scans do, although
`db.go:1007-1009` says that scans "must be idempotent, not pile up duplicate
alerts". `ServedAsHashed` excepts a version under whose key a file was saved after
its own, whether that upload was recorded or failed, against "never overwrites" of
`000001_initial_schema.up.sql:70`; what it says is that nothing else disturbs a
version: not an upload under another key, not the order in which overlapping uploads are
recorded, not a statement that fails after the file. The other exception is the primary version of an invoice
whose file was never sent (the JSON endpoint). `ShortageIsDisputed` excepts the call that
fails and the ignored error of a dispute call (`owner_handlers.go:428,444`), which
lose the dispute unless another call comes; a call that breaks off before is tried again when it
is an attempt, and that half is about those.
`ThresholdsSeeFiledAmount` is about an extraction in which the total was seen and
nothing was found wrong. `OverwritesWhatIsKnown` excepts a request another
write overtook (`rivalled`): the update does not ask what it replaces, so that a
change begun with the old password undoes a reset. `GapIsFlagged` and
`FiledGapCloses` are about numbers as the scan prints them.
A describe call that fails for another reason than a missing run, and an upload
finished after the decision, start a run for a decided invoice (`reconciler.go:63`,
`api.go:872`): `UndoneOncePerCause` and `ApprovalPolicy` (`Doubt`, `ReviewAgain`) say
that each of them can undo one decision and that nothing else can undo any.
`EventuallySynced` excepts a loop that waits on a connection that died
silently (the client has no timeouts), a worker's photo whose retry is refused
because the first attempt had been stored (`api.go:578`), and a manager's bundle, whose
primary photo is refused (`api.go:55`).

## 4. Proofs

| theorem | says | rests on |
|---|---|---|
| `TypeCorrect`, in each proof module | the type invariant, for all constants | the assumptions of the module |
| `ApprovalsAreConsented` | `ApprovalNeedsConsent`, for any reviewers and budgets, nothing else assumed | `ConsentInv` |
| `UndoingsHaveCauses`, `LifecycleImplementsPolicy` | `UndoneOncePerCause`, `ImplementsPolicy`, wrong describe answers and unfinished uploads included | `PolicyInv` |
| `DecisionsAreFinal` | in a behaviour without either cause, a final invoice keeps its state; nothing is assumed of the constants | `UndoingsHaveCauses` |
| `InvoicesNotOverpaid` | no invoice is overpaid if requests *of the same invoice* never overlap (`NotOverpaid`) | `Covered` |
| `OverlapsAreBounded` | `OverpaymentBounded`: an invoice is paid as often as there are tellers at most, when they do overlap | `Stacked` |
| `AgingSplits` | the aging ranges split the open invoices | arithmetic on days |
| `AgingColumnsAddUp`, `ViewsAlwaysAgree` | `AgingAddsUp`, `ViewsAgree`, for any bills, terms and days | `FiniteFile`, `AgingSplits` |
| `LinksLead`, `TrailIsOneChain` | `LinksLeadToStart` always; `SerialTrailIsChain` | `LinkInv`, `ChainInv` |
| `HashesCoverFiledEvents` | a hash covers filed events only, however writes overlap | `CoverInv` |
| `HashCoversWholeTrail`, `RemovalBreaksLinks` | when they do not: each earlier event; an event taken out shows as a broken link on the invoice page (`page.tsx:472-477`) | `ChainInv`, `CoverInv` |
| `BeginningsBounded` | however writes overlap, at most one event for each writer is linked to the genesis hash | `ForkInv` |
| `ShortagesAccountedFor`, `DisputeLeftBehind` | a shortage has a call at its dispute, or a dispute, or a failure; a call leaves its dispute unsettled behind | `ShortInv` |
| `StackingIsBounded` | `StackingBounded`: overlapping calls add no dispute beside an unsettled one that was not about to be raised before, and at most one each without one | the type invariant |
| `ReadsYield` | `AIReadsYield`, for any documents and overlapping calls | `EnteredInv` |
| `OnlyFailuresStrand` | an invoice that nothing works on is decided, listed by the reconciler, or left by a failure | `StrandInv` |
| `DecisionsAreRead` | `NoUnreadDecision`, for any number of buffered signals | the type invariant |
| `TrailExplains` | `TrailExplainsApproval`, for any reviewers, failures and restarts | `TrailInv`, `ConsentInv` |
| `MarkedIsRecorded`, `VersionsFiled` | `MarkedMeansRecorded`, `VersionsHaveFiles`, for any bundle, requests and failures | `UploadInv` |
| `StoredIsKept`, `SyncedForGood` | no step takes back what is stored; a synced bundle is on file whole and stays so | `UploadInv`, `Resting` |
| `PrimaryDocumentsBounded` | an invoice has no more primary documents than requests that can run at once and failed lookups | `PrimaryInv` |
| `FlaggedIsMissing` | `FlaggedWasMissing`, for any series, widths, workers and failures | `ScanInv` |
| `ScanImplementsRegister` | `ImplementsRegister`: `SeriesGaps` implements `GapRegister` | `ScanInv` |
| `ScansLeaveNothingOut`, `NeighbourExists` | a scan that is through a series leaves a row for each number missing in it; each can be printed like its neighbour | `CompleteInv` |
| `ExceptionsOpenOnce` | `OneOpenException`, for any number of scans and attempts | `RaceInv` |
| `OpenExceptionsBounded` | the race never opens more of a type than there are calls | `OpenBounded` |
| `CreditNotesAreComplete` | `LinkedNoteIsComplete`, whatever failed | `PaperInv` |
| `FilesServedAsHashed` | `ServedAsHashed`, for any names, contents and failures | `FileInv` |
| `ThresholdsHold` | `ThresholdsSeeFiledAmount`, for any rules, extractions and amounts | arithmetic on tolerances |
| `FailuresAreBounded` | `FailuresBounded`, for any limit, window, addresses and finite set of clients | the property itself, with the type invariant |
| `LimiterCountsTheWindow` | what is counted for an address is its failures in the window, each of them and no other | `AgesFall` |
| `RefusalsDoNotProlong` | while an address is blocked its failures and logins under way never grow together | `AgesFall` |
| `PasswordsOverwrittenKnown` | `OverwritesWhatIsKnown`, for any users and requests | `EntitledInv` |

The inductive invariants, and why the properties alone are not inductive:

- `ConsentInv`: an approval is read from a channel stages after it was sent, so
  what is in a channel must be known to come from somebody who may decide
  (`SendersEntitled`, `AdminCallers`), and what a run has obtained must be known
  at each place it can be (`RunInv`).
- `PolicyInv` adds that what a sweep holds ready for an invoice without an execution is
  undecided, and that nothing runs before the upload has stopped or is complete. The
  refinement maps a failed describe call and an upload that stops to `Doubt`, a restart
  to `ReviewAgain`, a received approval to `Consent`, the write of the state to
  `Approve`, `Refuse` or `TakeBack`, everything else to a stutter.
- `EnteredInv`: a row with `entered_by` set has figures, so that no upsert takes it for new.
- `Covered`: a payment about to be inserted still fits the balance.
- `LinkInv`, `ChainInv`: the hash an open transaction has read is one on file, and,
  when writes are serial, that of the last event; hashes grow along the trail.
- `UploadInv`: what a request has behind it at each step (`RequestInv`): the row
  before the document, the file before its document row, the document before
  its version, and on file whatever a good answer speaks of. Nothing that is stored is
  taken back (`Grows`), so other requests keep what they have. `Resting`: no
  loop works on a synced bundle and no answer counts. `PrimaryInv`: the primary documents
  with the requests that can still create one are no more than slots and failed lookups;
  once a document is primary, only a failed lookup brings a request to such a step.
- `Stacked`: what is paid, with what is about to be inserted, is at most one bill for
  each teller; the check bounds only the payment it is made for.
- `CoverInv`: the hash an open transaction has read is covered already, so that the
  event it inserts is covered with it.
- `ForkInv`: the first events with the writers about to write one are no more than the
  writers; once an event is on file, no writer that starts to read becomes such a one.
- `ShortInv`: a row is saved before its dispute is looked for, so that between the two
  the call must be known to be there.
- `StrandInv`: at each place of an open run, which states of the row it can leave behind.
- `TrailInv`: the event of an approval is written after the signal is read, so who
  decided must be known where the event is still to be written (`ByEntitled`), and the
  event to be on the trail at every later place of the run while nothing has failed.
- `ScanInv`: what a worker holds of a series is a part of what is on file, it flags
  numbers between two of those only, and clears only those. `CompleteInv`: what is
  missing and a worker has no longer to flag has its row, or a call has failed.
- `PaperInv`: the document a call writes to is there and of its kind; the one a call
  is about to link has a version; nothing is on file before the invoice is.
- `RaceInv`: while a type is not raced, at most one of its open exception and the
  inserts under way exists. `OpenBounded`: the open ones and the
  inserts under way together are no more than the calls.
- `FileInv`: what a call has saved is still under its key when it writes the
  version, or the call is in `outrun`; what a version names is under its key, or the
  version is in `overwritten`.
- `EntitledInv`: at each step of a request, what it has proved: the password it claims
  is the one there, or it is rivalled; or it acts for an administrator.
- `AgesFall`: failures are kept oldest first. Only so is the suffix that `allow` keeps
  the window, and looking again (a refusal) changes nothing.

**Sums, least and longest elements.** An induction over a set is replaced by its
least counterexample: among the subsets of a finite set for which a law fails there is
one without a smaller (`SmallestSet`, from the library's well-founded order on finite
sets), and removing an element from it contradicts the choice. `SmallestNat` follows,
and with it the neighbour of a missing number, the first failure inside the window, and
the event before another.

Assumptions are the named `ASSUME`s of the modules: sets of the right type, markers
outside the sets they are added to, budgets in Nat. TLC evaluates them in each run.

**Only model-checked.** Liveness under fairness is out of the prover's reach: the eight
temporal properties of the runs. The safety each rests on is proved where it has one:
that nothing is out of reach (`OnlyFailuresStrand`, for `StuckIsRestarted` and
`EveryInvoiceDecided`), that the obligation is not lost (`ShortagesAccountedFor` and
`DisputeLeftBehind`, for `ShortageIsDisputed`; `ScansLeaveNothingOut`, for
`GapIsFlagged`), that what is reached stays (`SyncedForGood`, for `EventuallySynced`;
the register's rows, by `ScanImplementsRegister`, for `FiledGapCloses`), that
nothing grows while waiting (`RefusalsDoNotProlong`, for `BlockLifts`). `MatchingEnds`
has none: it is about retries that end. The properties' other half, that steps
are taken, stays with TLC. What the races cost is proved for every overlap: no more than
the number of calls that overlap (`OverlapsAreBounded`, `StackingIsBounded`,
`BeginningsBounded`, `OpenExceptionsBounded`, `PrimaryDocumentsBounded`).

## 5. What is not modelled, and why

- Extraction, OCR, language models: data without a specification; any result, any
  failure is taken.
- In `InvoiceLifecycle` validation and tenant rules enter as their outcomes; the
  arithmetic is `Assessment`, in `InvoiceFile`. Rules of the kinds AUTO_APPROVE and
  AUTO_REJECT are evaluated and then used by nothing.
- Several bundles in the queue: tried one after the other, they share the
  loop only. Several invoices in one run: they share no row, key or workflow ID.
- Tenancy: the database's row-level security; the models are of one tenant.
- Screens, dashboards, the web site: their calls are the inputs of the handlers.
- Creating a buyer on the fly: it stores nothing when it loses the race, and the
  retry finds the buyer. Principals, buyers, requirements: plain rows.
- Capture drafts: one record of one user, saved whole by each change on one device,
  without a second writer; what it hands over is where `LedgerUpload` begins.
- The middleware of the routes and what the app keeps of a session: tables and
  screens; tokens and their lifetime are in `Access`.
- The other kinds of alerts, the sales report, dashboards: queries over rows the
  models have, without state of their own.
- What happens outside the code's control at the disk or in the database below a
  commit.

**Met on the way and without a run.**

- `handleUploadLedgerInvoice`'s comment (`api.go:760-767`) says it does not start
  `InvoiceWorkflow`; `finishLedgerUpload` does.
- A run lost in a state that `reconciler.go:18` does not list (`VALIDATION_FAILED`,
  `APPROVED`) is never restarted, though `cmd/worker/main.go:100-101` speaks of any
  workflow gone missing in a transient state; `StuckIsRestarted` is about the four.
- A primary document left without a version is answered as uploaded (`api.go:857`);
  a replacement filed while its document is being matched is not matched itself
  (`api.go:518`).
- A summary per buyer leaves out credit sales without a buyer that the alert feed
  shows (`distributor.go:349`).
- `splitSequence`'s comment (`scanner.go:89-92`) gives "A260000218" the prefix "A26"
  and width 7; its pattern takes all trailing digits, so prefix "A" and width 9.
- A gap is printed with its neighbour's prefix; when the number is filed under
  another one the alert stays open until a person settles it.
- `GetLatestDocumentS3Key`'s "most recent document version" is the highest version
  number over all documents of the invoice (`db.go:764-777`).
- Rules act on extracted amounts: where the total was not visible, it is 0 and no
  threshold is met, also under the default policy of `api.go:1293`.
- The comment at `validation.go:111-114` keeps a partial extraction from being flagged
  as a mismatch; the check of the sum flags it all the same if net and tax were read.
- Any document that is not primary keeps the missing-document scan from raising
  anything for its invoice.
- A supporting upload that finds a document still without versions takes version 1,
  and the request that created the document fails.
- A token stays valid through a change or reset of the password, as the design notes
  name token revocation future work; a failing query of the user counts as a
  failed login.

## 6. Plan

What is left, in this order:

1. An account of one invoice, paid in steps that fit, that `CreditLedger` implements
   while requests do not overlap, and an abstract upload (a bundle is on file or it
   is not) that `LedgerUpload` implements; the creation of buyers and the lookup of
   principals as steps of the upload handlers.
2. `Capture`: drafts, unawaited saves, invoice types, submitting into the queue;
   composed with `LedgerUpload` through the bundle. Property: a photo taken is in
   the draft or in the queue; a draft is not submitted twice.
3. `Owner`: the other alerts, requirements and dashboards as views of one state, as
   `CreditLedger` has for receivables.
4. A second worker in `series_gaps`, and two addresses in `access`, where the
   instances can be made small enough; the proofs have them already.
