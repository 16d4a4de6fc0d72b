------------------------------ MODULE InvoiceFile ------------------------------
(***************************************************************************)
(* The file of one invoice with one dispute: its documents, their versions *)
(* and the stored files, the exceptions raised against it, and what a run  *)
(* of its workflow makes of the document it reads.  Uploads, credit notes, *)
(* the missing-document scans of several workers and the attempts of the   *)
(* run's activities interleave; each statement is one step.                *)
(*                                                                         *)
(* What a matching run does with a supporting document is GateEntry, the   *)
(* device's side of an upload LedgerUpload, approvals InvoiceLifecycle.    *)
(***************************************************************************)
EXTENDS Assessment, Sequences

CONSTANTS
  Calls,     \* requests, scans and activity attempts under way at once
  FileName,  \* the names uploaded files have
  Content,   \* what a file can hold
  Absent,    \* no file under a key
  Torn,      \* a file whose copying broke off
  Expected,  \* the invoice as filed
  Data,      \* what an extraction can return
  Rule,      \* the rules the admin creates and deletes
  MaxDocs,   \* bound: documents
  MaxVersions, \* bound: versions of a document
  MaxWork,   \* bound: calls begun and rules changed
  MaxFaults  \* bound: failed statements and lost runs

ASSUME ContentAssumption ==
  Absent \notin Content /\ Torn \notin Content /\ Absent # Torn /\ FileName # {}
ASSUME DataAssumption ==
  /\ Expected \in ExpectedInvoice
  /\ Data \subseteq InvoiceData /\ Data # {}
  /\ Rule \subseteq TenantRule
ASSUME BoundAssumption ==
  MaxDocs \in Nat \ {0} /\ MaxVersions \in Nat \ {0}
  /\ MaxWork \in Nat /\ MaxFaults \in Nat

VARIABLES
  filedBy,  \* the endpoint that created the invoice
  docs,     \* documents and document_versions, in the order of creation
  store,    \* the files under the invoice's directory
  overwritten, \* history: the versions under whose key a later file was saved
  outrun,   \* history: the calls that happened to between their file and its version
  link,     \* credit_note_document_id of the dispute, 0 when it is null
  aged,     \* the invoice is past the grace period
  open,     \* open rows of invoice_exceptions by type
  raced,    \* history: types that two calls found not to be open at once
  rules,    \* tenant_rules
  run,      \* the run of the invoice's workflow
  call,     \* the calls under way
  work,     \* calls begun and rules changed so far
  faults    \* failures so far

history == <<overwritten, outrun>>
papers == <<filedBy, docs, store, history, link>>
checks == <<aged, open, raced, rules>>
vars == <<papers, checks, run, call, work, faults>>

Kinds == {"primary", "support", "credit_note"}
Types == {"missing_document", "ocr_inconclusive", "invoice_data_mismatch", "validation_failed"}

\* uploads/<tenant>/<invoice>/ and the name, after credit_note_ for a credit note.
Key == [credit : BOOLEAN, name : FileName]
Version == [key : Key, hash : Content]
Document == [kind : Kinds, versions : Seq(Version)]
Ids == 0 .. MaxDocs

\* doc: the document written to, 0 for a new one; type: the exception to raise.
Call ==
  [at : {"idle", "save", "create", "version", "append", "link", "count", "insert"},
   job : {"none", "support", "credit", "scan", "raise"}, kind : Kinds, doc : Ids,
   key : Key, content : Content \cup {Absent}, type : Types]

\* source: the document whose key the run was started with, 0 for an empty key.
Run ==
  [at : {"none", "extract", "validate", "raise", "review", "fetch", "end", "lost"},
   source : Ids, data : Data, required : SUBSET Actions]

TypeOK ==
  /\ filedBy \in {"nobody", "json", "form"}
  /\ docs \in Seq(Document) /\ Len(docs) <= MaxDocs
  /\ store \in [Key -> Content \cup {Absent, Torn}]
  /\ overwritten \subseteq Ids \X Nat /\ outrun \subseteq Calls
  /\ link \in Ids
  /\ aged \in BOOLEAN
  /\ open \in [Types -> Nat]
  /\ raced \subseteq Types
  /\ rules \subseteq Rule
  /\ run \in Run
  /\ call \in [Calls -> Call]
  /\ work \in 0 .. MaxWork
  /\ faults \in 0 .. MaxFaults

NoCall ==
  [at |-> "idle", job |-> "none", kind |-> "support", doc |-> 0,
   key |-> CHOOSE k \in Key : TRUE, content |-> Absent,
   type |-> "missing_document"]

NoData == CHOOSE d \in Data : TRUE

Init ==
  /\ filedBy = "nobody"
  /\ docs = << >>
  /\ store = [k \in Key |-> Absent]
  /\ overwritten = {} /\ outrun = {}
  /\ link = 0
  /\ aged = FALSE
  /\ open = [t \in Types |-> 0]
  /\ raced = {}
  /\ rules = {}
  /\ run = [at |-> "none", source |-> 0, data |-> NoData, required |-> {}]
  /\ call = [c \in Calls |-> NoCall]
  /\ work = 0
  /\ faults = 0

Fault == faults < MaxFaults /\ faults' = faults + 1

Work == work < MaxWork /\ work' = work + 1

End(c) == call' = [call EXCEPT ![c] = NoCall]

\* The versions on file, by the numbers of their document and their own.
OnFile == UNION {{d} \X (1 .. Len(docs[d].versions)) : d \in 1 .. Len(docs)}

\* The calls whose file is saved and whose version is not.
Recording == {c \in Calls : call[c].at \in {"create", "version", "append"}}

\* The file under the key is replaced, whosever it was.
Put(key, file) ==
  /\ store' = [store EXCEPT ![key] = file]
  /\ overwritten' = overwritten \cup {p \in OnFile : docs[p[1]].versions[p[2]].key = key}
  /\ outrun' = {c \in Recording : c \in outrun \/ call[c].key = key}

StartRun(source) == run' = [run EXCEPT !.at = "extract", !.source = source, !.required = {}]

-----------------------------------------------------------------------------
(* The invoice is filed from the web: its run starts whatever rows failed.  *)

\* The primary document and its version; a failing statement, or Temporal not
\* answering, leaves out what it was for and nothing else.
FilePrimary(key, content) ==
  LET version == [key |-> key, hash |-> content]
      whole == <<[kind |-> "primary", versions |-> <<version>>]>>
  IN \/ docs' = whole /\ StartRun(1) /\ UNCHANGED faults
     \/ docs' \in {<< >>, <<[kind |-> "primary", versions |-> << >>]>>} /\ StartRun(1) /\ Fault
     \/ docs' = whole /\ UNCHANGED run /\ Fault

\* Amounts and the file's hash come with the request, the file itself never does.
Ingest(name, content) ==
  /\ filedBy = "nobody"
  /\ filedBy' = "json"
  /\ FilePrimary([credit |-> FALSE, name |-> name], content)
  /\ UNCHANGED <<store, history, link, checks, call, work>>

UploadInvoice(name, content) ==
  LET key == [credit |-> FALSE, name |-> name]
  IN /\ filedBy = "nobody"
     /\ filedBy' = "form"
     /\ \/ Put(key, content) /\ FilePrimary(key, content)
        \/ Put(key, Torn) /\ Fault /\ UNCHANGED <<docs, run>>
     /\ UNCHANGED <<link, checks, call, work>>

-----------------------------------------------------------------------------
(* Supporting documents, replacements and credit notes. *)

\* The oldest document of a kind; none is 0.
Oldest(kind) ==
  {d \in 1 .. Len(docs) :
     docs[d].kind = kind /\ \A e \in 1 .. d - 1 : docs[e].kind # kind}

\* A document of the same type gets a version, for a manager or an admin only.
BeginSupport(c, kind, name, content) ==
  /\ filedBy # "nobody"
  /\ call[c].at = "idle"
  /\ \E d \in IF Oldest(kind) = {} THEN {0} ELSE Oldest(kind) :
       /\ d = 0 => kind = "support"
       /\ call' = [call EXCEPT ![c] =
            [@ EXCEPT !.at = "save", !.job = "support", !.kind = kind, !.doc = d,
                      !.key = [credit |-> FALSE, name |-> name], !.content = content]]
  /\ Work
  /\ UNCHANGED <<papers, checks, run, faults>>

BeginCreditNote(c, name, content) ==
  /\ filedBy # "nobody"
  /\ call[c].at = "idle"
  /\ call' = [call EXCEPT ![c] =
       [@ EXCEPT !.at = "save", !.job = "credit", !.kind = "credit_note", !.doc = 0,
                 !.key = [credit |-> TRUE, name |-> name], !.content = content]]
  /\ Work
  /\ UNCHANGED <<papers, checks, run, faults>>

\* Mutant: the file of a credit note is saved without its prefix.
SaveFileUnprefixed(c) ==
  /\ call[c].at = "save"
  /\ Put([call[c].key EXCEPT !.credit = FALSE], call[c].content)
  /\ call' = [call EXCEPT ![c].at = IF call[c].doc = 0 THEN "create" ELSE "append"]
  /\ UNCHANGED <<filedBy, docs, link, checks, run, faults, work>>

SaveFile(c) ==
  /\ call[c].at = "save"
  /\ Put(call[c].key, call[c].content)
  /\ call' = [call EXCEPT ![c].at = IF call[c].doc = 0 THEN "create" ELSE "append"]
  /\ UNCHANGED <<filedBy, docs, link, checks, run, faults, work>>

\* The file is truncated first: what was under the key is gone.
TearFile(c) ==
  /\ call[c].at = "save"
  /\ Put(call[c].key, Torn)
  /\ End(c)
  /\ Fault
  /\ UNCHANGED <<filedBy, docs, link, checks, run, work>>

CreateDocument(c) ==
  /\ call[c].at = "create"
  /\ Len(docs) < MaxDocs
  /\ docs' = Append(docs, [kind |-> call[c].kind, versions |-> << >>])
  /\ call' = [call EXCEPT ![c].at = "version", ![c].doc = Len(docs) + 1]
  /\ UNCHANGED <<filedBy, store, history, link, checks, run, faults, work>>

WithVersion(document, version) ==
  [kind |-> document.kind, versions |-> Append(document.versions, version)]

AddVersion(c) ==
  LET version == [key |-> call[c].key, hash |-> call[c].content]
      number == Len(docs[call[c].doc].versions) + 1
  IN /\ docs' = [docs EXCEPT ![call[c].doc] = WithVersion(docs[call[c].doc], version)]
     /\ overwritten' = overwritten \cup {p \in {<<call[c].doc, number>>} : c \in outrun}
     /\ UNCHANGED outrun

\* Version 1 of the new document, unless an upload that found the document
\* without versions has taken that number (uq_document_version).
CreateVersion(c) ==
  /\ call[c].at = "version"
  /\ IF docs[call[c].doc].versions = << >>
       THEN /\ AddVersion(c)
            /\ IF call[c].job = "credit"
                 THEN call' = [call EXCEPT ![c].at = "link"]
                 ELSE End(c)
       ELSE End(c) /\ UNCHANGED <<docs, history>>
  /\ UNCHANGED <<filedBy, store, link, checks, run, work, faults>>

AppendVersion(c) ==
  /\ call[c].at = "append"
  /\ Len(docs[call[c].doc].versions) < MaxVersions
  /\ AddVersion(c)
  /\ End(c)
  /\ UNCHANGED <<filedBy, store, link, checks, run, faults, work>>

LinkCreditNote(c) ==
  /\ call[c].at = "link"
  /\ link' = call[c].doc
  /\ End(c)
  /\ UNCHANGED <<filedBy, docs, store, history, checks, run, faults, work>>

\* Mutant: a version that fails is logged, as it is when an invoice is ingested.
FailVersionQuietly(c) ==
  /\ call[c].at = "version"
  /\ call' = [call EXCEPT ![c].at = "link"]
  /\ Fault
  /\ UNCHANGED <<papers, checks, run, work>>

\* A failing statement ends the request with an error; what it wrote stays.
FailUpload(c) ==
  /\ call[c].at \in {"create", "version", "append", "link"}
  /\ End(c)
  /\ Fault
  /\ UNCHANGED <<papers, checks, run, work>>

\* What a version's content request returns.
Serve(d, v) == store[docs[d].versions[v].key]

-----------------------------------------------------------------------------
(* Exceptions. *)

Age ==
  /\ filedBy # "nobody"
  /\ ~aged
  /\ aged' = TRUE
  /\ UNCHANGED <<papers, open, raced, rules, run, call, faults, work>>

Bare == \A d \in 1 .. Len(docs) : docs[d].kind = "primary"

BeginRaise(c, job, type) ==
  call' = [call EXCEPT ![c] = [@ EXCEPT !.at = "count", !.job = job, !.type = type]]

\* A worker reads the documents of an invoice past the grace period.
ScanDocuments(c) ==
  /\ call[c].at = "idle"
  /\ aged
  /\ Bare
  /\ BeginRaise(c, "scan", "missing_document")
  /\ Work
  /\ UNCHANGED <<papers, checks, run, faults>>

\* An attempt of the activity; another one while the last still runs is a timeout.
AttemptRaise(c) ==
  /\ run.at = "raise"
  /\ call[c].at = "idle"
  /\ BeginRaise(c, "raise", ExceptionType(ValidateAgainstExpected(run.data, Expected)))
  /\ IF \E e \in Calls : call[e].job = "raise" THEN Fault ELSE UNCHANGED faults
  /\ Work
  /\ UNCHANGED <<papers, checks, run>>

\* The first attempt to end lets the run go on.
EndRaise(c) ==
  /\ End(c)
  /\ run' = IF call[c].job = "raise" /\ run.at = "raise" THEN [run EXCEPT !.at = "review"] ELSE run

OthersInserting(c) == {e \in Calls \ {c} : call[e].at = "insert" /\ call[e].type = call[c].type}

\* Mutant: what is open is not counted.
CountNothing(c) ==
  /\ call[c].at = "count"
  /\ call' = [call EXCEPT ![c].at = "insert"]
  /\ UNCHANGED <<raced, run, papers, aged, open, rules, faults, work>>

Count(c) ==
  /\ call[c].at = "count"
  /\ IF open[call[c].type] > 0
       THEN EndRaise(c) /\ UNCHANGED raced
       ELSE /\ call' = [call EXCEPT ![c].at = "insert"]
            /\ raced' = IF OthersInserting(c) = {} THEN raced ELSE raced \cup {call[c].type}
            /\ UNCHANGED run
  /\ UNCHANGED <<papers, aged, open, rules, faults, work>>

Insert(c) ==
  /\ call[c].at = "insert"
  /\ open' = [open EXCEPT ![call[c].type] = @ + 1]
  /\ EndRaise(c)
  /\ UNCHANGED <<papers, aged, raced, rules, faults, work>>

\* The scan logs it and goes on; the activity is tried again.
FailRaise(c) ==
  /\ call[c].at \in {"count", "insert"}
  /\ End(c)
  /\ Fault
  /\ UNCHANGED <<papers, checks, run, work>>

\* Mutant: an exception that is settled already is settled again.
ResolveAgain(type) ==
  /\ open' = [open EXCEPT ![type] = @ - 1]
  /\ UNCHANGED <<papers, aged, raced, rules, run, call, faults, work>>

\* A person settles an open exception, as resolved or not applicable.
ResolveException(type) ==
  /\ open[type] > 0
  /\ open' = [open EXCEPT ![type] = @ - 1]
  /\ UNCHANGED <<papers, aged, raced, rules, run, call, faults, work>>

-----------------------------------------------------------------------------
(* The run. *)

Extract(data) ==
  /\ run.at = "extract"
  /\ run' = [run EXCEPT !.at = "validate", !.data = data]
  /\ UNCHANGED <<papers, checks, call, faults, work>>

ValidateInvoice ==
  /\ run.at = "validate"
  /\ run' = [run EXCEPT !.at =
       IF ValidateAgainstExpected(run.data, Expected) = {} THEN "fetch" ELSE "raise"]
  /\ UNCHANGED <<papers, checks, call, faults, work>>

\* The AI, for arithmetic only, or a manager lets the run go on; a rejection ends it.
Review(decision) ==
  /\ run.at = "review"
  /\ run' = [run EXCEPT !.at = decision, !.data = IF decision = "end" THEN NoData ELSE @]
  /\ UNCHANGED <<papers, checks, call, faults, work>>

\* The approvals that the rules on file ask for, of the extracted amounts.
Required == EvaluateAllRules(RulesInForce(rules), run.data)

FetchRules ==
  /\ run.at = "fetch"
  /\ run' = [run EXCEPT !.at = "end", !.required = Required, !.data = NoData]
  /\ UNCHANGED <<papers, checks, call, faults, work>>

LoseRun ==
  /\ run.at \notin {"none", "end", "lost"}
  /\ run' = [run EXCEPT !.at = "lost", !.data = NoData]
  /\ Fault
  /\ UNCHANGED <<papers, checks, call, work>>

\* The documents of the invoice with the highest version number, the primary one
\* or not.
LatestSource ==
  {d \in 1 .. Len(docs) : docs[d].versions # << >> /\
     \A e \in 1 .. Len(docs) : Len(docs[e].versions) <= Len(docs[d].versions)}

Restart(source) ==
  /\ run.at = "lost" \/ (run.at = "none" /\ filedBy # "nobody")
  /\ source \in LatestSource \/ (LatestSource = {} /\ source = 0)
  /\ StartRun(source)
  /\ UNCHANGED <<papers, checks, call, faults, work>>

-----------------------------------------------------------------------------
CreateRule(rule) ==
  /\ rules' = rules \cup {rule}
  /\ rule \notin rules
  /\ Work
  /\ UNCHANGED <<papers, aged, open, raced, run, call, faults>>

DeleteRule(rule) ==
  /\ rule \in rules
  /\ rules' = rules \ {rule}
  /\ Work
  /\ UNCHANGED <<papers, aged, open, raced, run, call, faults>>

CallStep(c) ==
  \/ \E kind \in {"primary", "support"}, name \in FileName, content \in Content :
       BeginSupport(c, kind, name, content)
  \/ \E name \in FileName, content \in Content : BeginCreditNote(c, name, content)
  \/ SaveFile(c) \/ TearFile(c) \/ CreateDocument(c) \/ CreateVersion(c)
  \/ AppendVersion(c) \/ LinkCreditNote(c) \/ FailUpload(c)
  \/ ScanDocuments(c) \/ AttemptRaise(c) \/ Count(c) \/ Insert(c) \/ FailRaise(c)

Next ==
  \/ \E name \in FileName, content \in Content :
       Ingest(name, content) \/ UploadInvoice(name, content)
  \/ \E c \in Calls : CallStep(c)
  \/ Age
  \/ \E type \in Types : ResolveException(type)
  \/ \E data \in Data : Extract(data)
  \/ ValidateInvoice \/ FetchRules \/ LoseRun
  \/ \E decision \in {"fetch", "end"} : Review(decision)
  \/ \E source \in Ids : Restart(source)
  \/ \E rule \in Rule : CreateRule(rule) \/ DeleteRule(rule)

Spec == Init /\ [][Next]_vars

-----------------------------------------------------------------------------
(* Properties. *)

\* However scans and activity attempts overlap, an invoice has two open
\* exceptions of a type only when both were found missing before either was there.
OneOpenException == \A t \in Types : open[t] > 1 => t \in raced

\* A version is served as it was hashed until a file is saved under its key
\* after its own, by an upload of the same name that is recorded or fails: the
\* file saved last is always served as it was hashed, in whatever order the
\* versions are recorded, and uploads of other names and credit notes disturb
\* none.  A primary document that came without its file has none to serve.
ServedAsHashed ==
  \A p \in OnFile : LET d == p[1] v == p[2] IN
    \/ Serve(d, v) = docs[d].versions[v].hash
    \/ p \in overwritten
    \/ filedBy = "json" /\ docs[d].kind = "primary" /\ v = 1

\* A dispute that has a credit note has one with its version on file, whatever
\* statement of whichever upload failed.
LinkedNoteIsComplete ==
  link # 0 => docs[link].kind = "credit_note" /\ docs[link].versions # << >>

\* An extraction that passes the checks with its total in view asks for every
\* approval that a threshold on the gross amount demands of the filed invoice,
\* but for the tolerated difference, under the rules of the moment.
ThresholdsSeeFiledAmount ==
  [][(run.at = "fetch" /\ run'.at = "end" /\ run.data.gross > 0
       /\ ValidateAgainstExpected(run.data, Expected) = {}) =>
       \A rule \in RulesInForce(rules) :
         (/\ rule.field = "GrossAmount" /\ rule.operator = ">"
          /\ 100 * rule.value + (IF Expected.gross < 10000 THEN 10000 ELSE Expected.gross)
               < 100 * Expected.gross)
         => rule.action \in run'.required]_vars
=============================================================================
