----------------------------- MODULE LedgerUpload -----------------------------
(***************************************************************************)
(* One queued bundle of photos on its way to the ledger: the device's sync *)
(* loop, the two upload handlers it calls, and what they leave in the      *)
(* database and in the file store.                                         *)
(*                                                                         *)
(* Photo 0 is the primary invoice photo, photos 1 .. Len(Kinds) are the    *)
(* others in the order in which the bundle lists them.  Every repository   *)
(* call is a transaction of its own, so a request is a sequence of steps,  *)
(* and one whose caller has gone runs beside the retry that replaces it.   *)
(***************************************************************************)
EXTENDS Naturals, Sequences

CONSTANTS
  Types,       \* document types of photos other than the primary one
  Page,        \* the type INVOICE_PAGE
  Invoice,     \* the type INVOICE, of the primary photo
  Kinds,       \* the type of each photo after the primary one
  Roles,       \* roles the uploading user may have
  Slots,       \* requests that can be in flight at once
  NoSlot, NoFile, Torn,
  MaxFaults,   \* bound: server steps that fail
  MaxLosses    \* bound: connections lost and app kills

Primary == 0
Photos == 0 .. Len(Kinds)
KindOf(p) == IF p = Primary THEN Invoice ELSE Kinds[p]
AllKinds == Types \cup {Invoice}

ASSUME KindsAssumption == Kinds \in Seq(Types) /\ Invoice \notin Types
ASSUME RolesAssumption == Roles \subseteq {"WORKER", "MANAGER", "ADMIN"}
ASSUME MarkersAssumption ==
  NoSlot \notin Slots /\ NoFile \notin Nat /\ Torn \notin Nat /\ NoFile # Torn
ASSUME BoundsAssumption == MaxFaults \in Nat /\ MaxLosses \in Nat

VARIABLES
  role,      \* of the user who is logged in on the device
  status,    \* the bundle's status in the device's store
  known,     \* the store holds the invoice's remote ID
  uploaded,  \* photos marked uploaded in the store
  syncing,   \* _isSyncing, lost when the app is killed
  waiting,   \* the request whose answer the loop awaits
  request,   \* requests in flight
  invoice,   \* the invoice row exists
  docs,      \* its documents, in the order created, each with its versions
  files,     \* the file store: what each key holds
  faults, losses

device == <<role, status, known, uploaded, syncing, waiting>>
stored == <<invoice, docs, files>>
vars == <<device, request, stored, faults, losses>>

\* versions: the photo of each version, number n the n-th.
Document == [kind : AllKinds, primary : BOOLEAN, versions : Seq(Photos)]

\* doc: the document found or created, 0 if none; link: whether the caller is
\* still there, and whether the handler's context has been cancelled.
Request ==
  [at : {"idle", "lookup", "create", "save", "document", "version", "append", "matching", "answer"},
   photo : Photos, doc : Nat, ok : BOOLEAN, link : {"open", "lost", "cancelled"}]

Idle == [at |-> "idle", photo |-> Primary, doc |-> 0, ok |-> FALSE, link |-> "open"]

TypeOK ==
  /\ role \in Roles
  /\ status \in {"pending", "failed", "synced"}
  /\ known \in BOOLEAN /\ uploaded \subseteq Photos \ {Primary}
  /\ syncing \in BOOLEAN /\ waiting \in Slots \cup {NoSlot}
  /\ request \in [Slots -> Request]
  /\ invoice \in BOOLEAN
  /\ docs \in Seq(Document)
  /\ files \in [AllKinds -> Photos \cup {NoFile, Torn}]
  /\ faults \in 0 .. MaxFaults /\ losses \in 0 .. MaxLosses

\* The bundle has just been queued.
Init ==
  /\ role \in Roles
  /\ status = "pending" /\ known = FALSE /\ uploaded = {}
  /\ syncing = FALSE /\ waiting = NoSlot
  /\ request = [s \in Slots |-> Idle]
  /\ invoice = FALSE /\ docs = << >> /\ files = [k \in AllKinds |-> NoFile]
  /\ faults = 0 /\ losses = 0

-----------------------------------------------------------------------------
(***************************************************************************)
(* The device.                                                             *)
(***************************************************************************)

Unsent == {p \in Photos \ {Primary} : p \notin uploaded}

\* syncPending, on a tap, on a connectivity change, after queueing; a call
\* during a sync returns at once.
Sync ==
  /\ ~syncing /\ status \in {"pending", "failed"}
  /\ syncing' = TRUE
  /\ UNCHANGED <<role, status, known, uploaded, waiting, request, stored, faults, losses>>

\* _syncBundle: the primary photo first, unless the invoice is known, then the
\* others in order, those marked uploaded left out.
IsNext(p) ==
  IF known THEN p \in Unsent /\ \A q \in Unsent : p <= q ELSE p = Primary

Send(s) ==
  /\ syncing /\ waiting = NoSlot /\ request[s].at = "idle"
  /\ waiting' = s
  /\ \E p \in Photos :
       /\ IsNext(p)
       /\ request' = [request EXCEPT ![s] = [Idle EXCEPT !.at = "lookup", !.photo = p]]
  /\ UNCHANGED <<role, status, known, uploaded, syncing, stored, faults, losses>>

\* Mutant: the primary photo is marked uploaded too.
MarkAny(p) == uploaded \cup {p}

\* The primary photo has no mark: the invoice's ID stands for it.
Mark(p) == uploaded \cup ({p} \ {Primary})

\* A good answer is written to the store; a bad one fails the bundle, and the
\* photos after this one are not tried.
Deliver(s) ==
  /\ waiting = s /\ request[s].at = "answer" /\ request[s].link = "open"
  /\ waiting' = NoSlot
  /\ request' = [request EXCEPT ![s] = Idle]
  /\ \/ /\ request[s].ok
        /\ known' = TRUE
        /\ uploaded' = Mark(request[s].photo)
        /\ UNCHANGED <<status, syncing>>
     \/ /\ ~request[s].ok
        /\ status' = "failed" /\ syncing' = FALSE
        /\ UNCHANGED <<known, uploaded>>
  /\ UNCHANGED <<role, stored, faults, losses>>

Finish ==
  /\ syncing /\ waiting = NoSlot /\ known /\ Unsent = {}
  /\ status' = "synced" /\ syncing' = FALSE
  /\ UNCHANGED <<role, known, uploaded, waiting, request, stored, faults, losses>>

\* What becomes of a request whose connection breaks: it never arrived, or its
\* answer is thrown away, or the handler goes on and may or may not notice.
Orphan(s) ==
  \/ request[s].at \in {"lookup", "answer"} /\ request' = [request EXCEPT ![s] = Idle]
  \/ request[s].at \notin {"idle", "answer"} /\
       \E link \in {"lost", "cancelled"} : request' = [request EXCEPT ![s].link = link]

\* The connection breaks and the device sees an error.
LoseConnection(s) ==
  /\ waiting = s /\ request[s].link = "open"
  /\ losses < MaxLosses /\ losses' = losses + 1
  /\ Orphan(s)
  /\ waiting' = NoSlot /\ status' = "failed" /\ syncing' = FALSE
  /\ UNCHANGED <<role, known, uploaded, stored, faults>>

\* The connection dies and the device goes on waiting: the client has no
\* timeouts.
LoseSilently(s) ==
  /\ waiting = s /\ request[s].link = "open"
  /\ losses < MaxLosses /\ losses' = losses + 1
  /\ Orphan(s)
  /\ UNCHANGED <<device, stored, faults>>

\* The loop waits for an answer that cannot come any more.
Hung == waiting # NoSlot /\ (request[waiting].at = "idle" \/ request[waiting].link # "open")

\* The app is killed; what is in its store stays.
Kill ==
  /\ syncing
  /\ losses < MaxLosses /\ losses' = losses + 1
  /\ syncing' = FALSE /\ waiting' = NoSlot
  /\ IF waiting = NoSlot \/ Hung THEN UNCHANGED request ELSE Orphan(waiting)
  /\ UNCHANGED <<role, status, known, uploaded, stored, faults>>

-----------------------------------------------------------------------------
(***************************************************************************)
(* The handlers, step by step.                                             *)
(***************************************************************************)

\* A request at a step; database steps fail once its context is cancelled.
At(s, step) == request[s].at = step
AtDb(s, step) == At(s, step) /\ request[s].link # "cancelled"

Goto(s, step) == request' = [request EXCEPT ![s].at = step]

\* The answer, which nobody reads when the caller is gone.
Answer(s, ok) ==
  request' = [request EXCEPT ![s] =
    IF request[s].link = "open" THEN [@ EXCEPT !.at = "answer", !.ok = ok] ELSE Idle]

\* Mutant: an invoice on file is not looked up.
LookupInvoiceNever(s) ==
  /\ AtDb(s, "lookup") /\ request[s].photo = Primary
  /\ role \in {"WORKER", "ADMIN"}
  /\ Goto(s, "create")
  /\ UNCHANGED <<device, stored, faults, losses>>

\* requireRole of the route of primary photos; the route of the others also lets
\* managers through.
MayFile == role \in {"WORKER", "ADMIN"}

\* A manager's primary photo is refused before anything is looked up.
RefusePrimary(s) ==
  /\ At(s, "lookup") /\ request[s].photo = Primary
  /\ ~MayFile
  /\ Answer(s, FALSE)
  /\ UNCHANGED <<device, stored, faults, losses>>

\* handleUploadLedgerInvoice: an invoice with a primary document is taken as
\* uploaded, one without has its upload finished, else the row is created.
LookupInvoice(s) ==
  /\ AtDb(s, "lookup") /\ request[s].photo = Primary
  /\ MayFile
  /\ \/ ~invoice /\ Goto(s, "create")
     \/ invoice /\ (\E d \in DOMAIN docs : docs[d].primary) /\ Answer(s, TRUE)
     \/ invoice /\ (\A d \in DOMAIN docs : ~docs[d].primary) /\ Goto(s, "save")
  /\ UNCHANGED <<device, stored, faults, losses>>

\* CreateInvoice; the ledger key is unique.
CreateInvoice(s) ==
  /\ AtDb(s, "create")
  /\ invoice' = TRUE
  /\ IF invoice THEN Answer(s, FALSE) ELSE Goto(s, "save")
  /\ UNCHANGED <<device, docs, files, faults, losses>>

\* GetDocumentByInvoiceAndType, not asked for an invoice page: the oldest
\* document of the kind, if there is one.
Oldest(kind) ==
  {d \in DOMAIN docs :
     /\ kind # Page /\ docs[d].kind = kind
     /\ \A e \in DOMAIN docs : docs[e].kind = kind => d <= e}

\* canAppendDocumentVersion
MayReplace == role \in {"ADMIN", "MANAGER"}

\* Mutant: a document that is on file is taken as uploaded.
LookupDocumentAndTrust(s) ==
  LET found == Oldest(KindOf(request[s].photo)) IN
  /\ AtDb(s, "lookup") /\ request[s].photo # Primary
  /\ IF found # {} THEN Answer(s, TRUE) ELSE Goto(s, "save")
  /\ UNCHANGED <<device, stored, faults, losses>>

\* handleUploadSupportingDocument: a document of the same type is replaced, by
\* a manager or an admin only.
LookupDocument(s) ==
  LET found == Oldest(KindOf(request[s].photo)) IN
  /\ AtDb(s, "lookup") /\ request[s].photo # Primary
  /\ \/ found = {} /\ Goto(s, "save")
     \/ found # {} /\ ~MayReplace /\ Answer(s, FALSE)
     \/ MayReplace /\ \E d \in found :
          request' = [request EXCEPT ![s].at = "save", ![s].doc = d]
  /\ UNCHANGED <<device, stored, faults, losses>>

\* An error of a lookup is taken for "not found", also the one that follows
\* from a cancelled context.
Misread(s) ==
  /\ At(s, "lookup")
  /\ request[s].photo = Primary => MayFile
  /\ \/ request[s].link = "cancelled" /\ UNCHANGED faults
     \/ request[s].link # "cancelled" /\ faults < MaxFaults /\ faults' = faults + 1
  /\ \/ request[s].photo = Primary /\ Goto(s, "create")
     \/ request[s].photo = Primary /\ invoice /\ Goto(s, "save")
     \/ request[s].photo # Primary /\ Goto(s, "save")
  /\ UNCHANGED <<device, stored, losses>>

\* What follows the file: a new version of the document found, or a document.
AfterSave(s) == IF request[s].doc # 0 THEN "append" ELSE "document"

\* Mutant: nothing is written to the store.
SkipFile(s) ==
  /\ At(s, "save")
  /\ Goto(s, AfterSave(s))
  /\ UNCHANGED <<device, stored, faults, losses>>

\* Store.Save: the key ends in the file's name, which the device makes of the
\* photo's kind.
SaveFile(s) ==
  /\ At(s, "save")
  /\ files' = [files EXCEPT ![KindOf(request[s].photo)] = request[s].photo]
  /\ Goto(s, AfterSave(s))
  /\ UNCHANGED <<device, invoice, docs, faults, losses>>

\* The copy fails after the file has been truncated.
TearFile(s) ==
  /\ At(s, "save")
  /\ faults < MaxFaults /\ faults' = faults + 1
  /\ files' = [files EXCEPT ![KindOf(request[s].photo)] = Torn]
  /\ Answer(s, FALSE)
  /\ UNCHANGED <<device, invoice, docs, losses>>

CreateDocument(s) ==
  /\ AtDb(s, "document")
  /\ docs' = Append(docs, [kind |-> KindOf(request[s].photo),
                           primary |-> request[s].photo = Primary, versions |-> << >>])
  /\ request' = [request EXCEPT ![s].at = "version", ![s].doc = Len(docs) + 1]
  /\ UNCHANGED <<device, invoice, files, faults, losses>>

\* The matching workflow is started for documents other than pages; the
\* invoice's own workflow may fail to start without the upload failing.
AfterVersion(s) ==
  IF KindOf(request[s].photo) \in {Page, Invoice} THEN Answer(s, TRUE) ELSE Goto(s, "matching")

\* A version whose number is one more than the last.
AddVersion(s) ==
  docs' = [docs EXCEPT ![request[s].doc].versions = Append(@, request[s].photo)]

\* CreateDocumentVersion: number 1, which is unique for the document.
CreateVersion(s) ==
  /\ AtDb(s, "version")
  /\ \/ docs[request[s].doc].versions = << >> /\ AddVersion(s) /\ AfterVersion(s)
     \/ docs[request[s].doc].versions # << >> /\ UNCHANGED docs /\ Answer(s, FALSE)
  /\ UNCHANGED <<device, invoice, files, faults, losses>>

\* AppendDocumentVersion: number COALESCE(MAX, 0) + 1.
AppendVersion(s) ==
  /\ AtDb(s, "append")
  /\ AddVersion(s)
  /\ AfterVersion(s)
  /\ UNCHANGED <<device, invoice, files, faults, losses>>

\* startLedgerDocumentWorkflow, in a context of its own.
StartMatching(s) ==
  /\ At(s, "matching")
  /\ Answer(s, TRUE)
  /\ UNCHANGED <<device, stored, faults, losses>>

\* A step that fails, in a database call because its context is cancelled.
\* What earlier steps have stored stays.
Fail(s) ==
  /\ request[s].at \in {"create", "document", "version", "append", "matching"}
  /\ \/ request[s].link = "cancelled" /\ request[s].at # "matching" /\ UNCHANGED faults
     \/ faults < MaxFaults /\ faults' = faults + 1
  /\ Answer(s, FALSE)
  /\ UNCHANGED <<device, stored, losses>>

-----------------------------------------------------------------------------
Handle(s) ==
  \/ RefusePrimary(s)
  \/ LookupInvoice(s)
  \/ LookupDocument(s)
  \/ Misread(s)
  \/ CreateInvoice(s)
  \/ SaveFile(s)
  \/ TearFile(s)
  \/ CreateDocument(s)
  \/ CreateVersion(s)
  \/ AppendVersion(s)
  \/ StartMatching(s)
  \/ Fail(s)

Next ==
  \/ Sync
  \/ Finish
  \/ Kill
  \/ \E s \in Slots :
       Send(s) \/ Deliver(s) \/ LoseConnection(s) \/ LoseSilently(s) \/ Handle(s)

Spec == Init /\ [][Next]_vars

(***************************************************************************)
(* A request runs to its end and a loop that is not killed goes on.  Sync  *)
(* is fair because somebody taps the queue or the network comes back now   *)
(* and then.  Connections need not break, apps need not be killed.         *)
(***************************************************************************)
Fairness ==
  /\ WF_vars(Sync) /\ WF_vars(Finish)
  /\ \A s \in Slots : WF_vars(Handle(s)) /\ WF_vars(Deliver(s))
  /\ WF_vars(\E s \in Slots : Send(s))

FairSpec == Spec /\ Fairness

-----------------------------------------------------------------------------
(***************************************************************************)
(* Properties.                                                             *)
(***************************************************************************)

\* The photos that some version of a document is made of.
PhotosOf(d) == {docs[d].versions[n] : n \in DOMAIN docs[d].versions}

Recorded(p) == \E d \in DOMAIN docs : p \in PhotosOf(d)

\* What the device believes is true: a photo it has marked uploaded has a
\* version row, and an invoice it knows has a row and a primary document,
\* whatever was lost, retried and handled at the same time.
MarkedMeansRecorded ==
  /\ \A p \in uploaded : Recorded(p)
  /\ known => invoice /\ \E d \in DOMAIN docs : docs[d].primary
  /\ status = "synced" => known /\ Unsent = {}

\* Every version is of a photo of its document's kind, and its key holds a
\* file, if a torn one.
VersionsHaveFiles ==
  \A d \in DOMAIN docs : \A p \in PhotosOf(d) :
    KindOf(p) = docs[d].kind /\ files[docs[d].kind] # NoFile

\* What is refused for ever: a manager's bundle from its primary photo on, and a
\* worker's photo whose kind is on file.
Refused ==
  \/ ~MayFile
  \/ ~MayReplace /\ \E p \in Unsent : known /\ Oldest(KindOf(p)) # {}

\* Every bundle of an admin or a worker ends up synced, except that a loop may
\* wait for ever for an answer that was lost silently, and that a worker's bundle
\* may stop at a photo whose kind is already on file.
EventuallySynced == <>(status = "synced" \/ Hung \/ Refused)

-----------------------------------------------------------------------------
(***************************************************************************)
(* What a comment of the repository says and the code does not do.         *)
(***************************************************************************)

\* migrations/000001, document_versions: every upload creates a new row and
\* never overwrites, so the key of a version holds the photo it was made of.
PagesKept ==
  \A d \in DOMAIN docs : \A p \in PhotosOf(d) : docs[d].kind = Page => files[Page] = p
=============================================================================
