-------------------------- MODULE InvoiceFile_proofs --------------------------
(***************************************************************************)
(* Proofs about InvoiceFile, for any calls, files, extractions, rules and  *)
(* bounds: type correctness, single open exceptions and what the race can  *)
(* cost, complete credit notes, files served as hashed, and thresholds     *)
(* that see the amount filed.                                              *)
(***************************************************************************)
EXTENDS InvoiceFile, FiniteSetTheorems, TLAPS

-----------------------------------------------------------------------------
(***************************************************************************)
(* Type correctness.                                                       *)
(***************************************************************************)

\* What TypeOK says of the history variables.
HistoryTyped == overwritten \subseteq Ids \X Nat /\ outrun \subseteq Calls

USE DEF HistoryTyped, history

LEMMA KeyNonempty == (CHOOSE k \in Key : TRUE) \in Key
<1>1. PICK name \in FileName : TRUE
  BY ContentAssumption
<1>2. [credit |-> TRUE, name |-> name] \in Key
  BY DEF Key
<1> QED BY <1>2

LEMMA NoDataType == NoData \in Data
BY DataAssumption DEF NoData

LEMMA NoCallType == NoCall \in Call /\ NoCall.at = "idle" /\ NoCall.job = "none"
<1>1. 0 \in Ids
  BY BoundAssumption DEF Ids
<1> QED BY <1>1, KeyNonempty DEF NoCall, Call, Kinds, Types

LEMMA TypeInit == Init => TypeOK
<1> SUFFICES ASSUME Init PROVE TypeOK
  OBVIOUS
<1>1. docs \in Seq(Document) /\ Len(docs) <= MaxDocs
  BY BoundAssumption DEF Init
<1>2. store \in [Key -> Content \cup {Absent, Torn}] /\ open \in [Types -> Nat]
  BY DEF Init
<1>3. run \in Run
  BY NoDataType, BoundAssumption DEF Init, Run, Ids
<1>4. call \in [Calls -> Call]
  BY NoCallType DEF Init
<1>5. link \in Ids /\ work \in 0 .. MaxWork /\ faults \in 0 .. MaxFaults
  BY BoundAssumption DEF Init, Ids
<1> QED BY <1>1, <1>2, <1>3, <1>4, <1>5 DEF Init, TypeOK

LEMMA FaultType == ASSUME TypeOK, Fault \/ UNCHANGED faults PROVE faults' \in 0 .. MaxFaults
BY BoundAssumption DEF TypeOK, Fault

LEMMA WorkType == ASSUME TypeOK, Work \/ UNCHANGED work PROVE work' \in 0 .. MaxWork
BY BoundAssumption DEF TypeOK, Work

LEMMA CallType ==
  ASSUME TypeOK, NEW c \in Calls, NEW r \in Call, call' = [call EXCEPT ![c] = r]
  PROVE  call' \in [Calls -> Call]
BY DEF TypeOK

LEMMA EndType ==
  ASSUME TypeOK, NEW c \in Calls, End(c)
  PROVE  call' \in [Calls -> Call]
BY NoCallType DEF TypeOK, End

\* The versions on file are pairs of a document on file and one of its numbers.
LEMMA OnFileType ==
  ASSUME TypeOK
  PROVE  /\ OnFile \subseteq Ids \X Nat
         /\ \A p \in OnFile : p = <<p[1], p[2]>> /\ p[1] \in 1 .. Len(docs)
                              /\ p[2] \in 1 .. Len(docs[p[1]].versions)
         /\ \A d \in 1 .. Len(docs) : \A v \in 1 .. Len(docs[d].versions) : <<d, v>> \in OnFile
<1>1. \A d \in 1 .. Len(docs) : Len(docs[d].versions) \in Nat /\ d \in Ids
  <2> TAKE d \in 1 .. Len(docs)
  <2>1. docs[d] \in Document /\ Len(docs) \in Nat /\ Len(docs) <= MaxDocs
    BY DEF TypeOK
  <2>2. docs[d].versions \in Seq(Version)
    BY <2>1 DEF Document
  <2> QED BY <2>1, <2>2, BoundAssumption DEF Ids
<1>2. ASSUME NEW p \in OnFile
      PROVE  /\ p = <<p[1], p[2]>> /\ p[1] \in 1 .. Len(docs)
             /\ p[2] \in 1 .. Len(docs[p[1]].versions)
  BY DEF OnFile
<1>3. ASSUME NEW p \in OnFile PROVE p \in Ids \X Nat
  <2>1. p[1] \in Ids /\ p[2] \in Nat
    BY <1>1, <1>2
  <2> QED BY <1>2, <2>1
<1> QED BY <1>2, <1>3 DEF OnFile

LEMMA PutType ==
  ASSUME TypeOK, NEW key \in Key, NEW file \in Content \cup {Torn}, Put(key, file)
  PROVE  store' \in [Key -> Content \cup {Absent, Torn}] /\ HistoryTyped'
BY OnFileType DEF TypeOK, Put, Recording

LEMMA StartRunType ==
  ASSUME TypeOK, NEW source \in Ids, StartRun(source)
  PROVE  run' \in Run
BY DEF TypeOK, StartRun, Run

LEMMA ReplacedInSeq ==
  ASSUME NEW S, NEW ds \in Seq(S), NEW d \in 1 .. Len(ds), NEW x \in S,
         NEW new, new = [ds EXCEPT ![d] = x]
  PROVE  /\ new \in Seq(S) /\ Len(new) = Len(ds) /\ new[d] = x
         /\ \A e \in 1 .. Len(ds) : e # d => new[e] = ds[e]
OBVIOUS

LEMMA WithVersionType ==
  ASSUME NEW document \in Document, NEW version \in Version
  PROVE  /\ WithVersion(document, version) \in Document
         /\ WithVersion(document, version).kind = document.kind
         /\ WithVersion(document, version).versions = Append(document.versions, version)
BY DEF WithVersion, Document

LEMMA AddVersionType ==
  ASSUME TypeOK, NEW c \in Calls, AddVersion(c), call[c].content \in Content,
         NEW d, d = call[c].doc, d \in 1 .. Len(docs),
         NEW version, version = [key |-> call[c].key, hash |-> call[c].content]
  PROVE  /\ version \in Version
         /\ docs' \in Seq(Document) /\ Len(docs') = Len(docs)
         /\ docs'[d].kind = docs[d].kind /\ docs'[d].versions = Append(docs[d].versions, version)
         /\ \A e \in 1 .. Len(docs) : e # d => docs'[e] = docs[e]
         /\ HistoryTyped'
<1>1. call[c] \in Call
  BY DEF TypeOK
<1>2. version \in Version
  BY <1>1 DEF Call, Version
<1>3. docs \in Seq(Document) /\ docs[d] \in Document
  BY DEF TypeOK
<1>4. docs' = [docs EXCEPT ![d] = WithVersion(docs[d], version)]
  BY DEF AddVersion
<1> DEFINE longer == WithVersion(docs[d], version)
<1>5. /\ longer \in Document /\ longer.kind = docs[d].kind
      /\ longer.versions = Append(docs[d].versions, version)
  BY <1>2, <1>3, WithVersionType
<1> HIDE DEF longer
<1>6. /\ docs' \in Seq(Document) /\ Len(docs') = Len(docs) /\ docs'[d] = longer
      /\ \A e \in 1 .. Len(docs) : e # d => docs'[e] = docs[e]
  BY <1>3, <1>4, <1>5, ReplacedInSeq DEF longer
<1>7. HistoryTyped'
  <2>1. docs[d].versions \in Seq(Version) /\ d \in Ids
    BY <1>3, BoundAssumption DEF Document, TypeOK, Ids
  <2>2. Len(docs[d].versions) + 1 \in Nat
    BY <2>1
  <2> QED BY <2>1, <2>2 DEF AddVersion, TypeOK
<1> QED BY <1>2, <1>5, <1>6, <1>7

-----------------------------------------------------------------------------
(***************************************************************************)
(* What holds of a call r under way when the documents are ds: its content *)
(* is known while it has something to write, and the document it works on  *)
(* is there, of the kind it was opened for.                                *)
(***************************************************************************)

Fits(r, ds) ==
  /\ r.at \in {"save", "create", "version", "append"} => r.content \in Content
  /\ r.at = "save" => r.doc \in 0 .. Len(ds)
  /\ r.at = "append" => r.doc \in 1 .. Len(ds)
  /\ r.at \in {"version", "link"} => r.doc \in 1 .. Len(ds) /\ ds[r.doc].kind = r.kind
  /\ r.job = "credit" => r.kind = "credit_note"
  /\ r.at = "link" => r.kind = "credit_note" /\ ds[r.doc].versions # << >>

AllFit == \A c \in Calls : Fits(call[c], docs)

\* Nothing is on file before the invoice is.
Blank ==
  filedBy = "nobody" =>
    /\ docs = << >> /\ link = 0 /\ ~aged /\ run.at = "none"
    /\ \A c \in Calls : call[c].at = "idle"

LinkFits ==
  /\ link \in 0 .. Len(docs)
  /\ LinkedNoteIsComplete

PaperInv == TypeOK /\ AllFit /\ Blank /\ LinkFits

(***************************************************************************)
(* One step of a call.                                                     *)
(***************************************************************************)

LEMMA CallMoves ==
  ASSUME TypeOK, NEW c \in Calls, NEW r \in Call, call' = [call EXCEPT ![c] = r]
  PROVE  call' \in [Calls -> Call] /\ call'[c] = r /\ \A e \in Calls : e # c => call'[e] = call[e]
BY DEF TypeOK

LEMMA AtMoves ==
  ASSUME TypeOK, NEW c \in Calls,
         NEW at \in {"idle", "save", "create", "version", "append", "link", "count", "insert"},
         call' = [call EXCEPT ![c].at = at]
  PROVE  /\ call' \in [Calls -> Call] /\ \A e \in Calls : e # c => call'[e] = call[e]
         /\ call'[c].at = at /\ call'[c].job = call[c].job /\ call'[c].kind = call[c].kind
         /\ call'[c].doc = call[c].doc /\ call'[c].key = call[c].key
         /\ call'[c].content = call[c].content /\ call'[c].type = call[c].type
<1>1. call[c] \in Call
  BY DEF TypeOK
<1> DEFINE r == [call[c] EXCEPT !.at = at]
<1>2. /\ r \in Call /\ r.at = at /\ r.job = call[c].job /\ r.kind = call[c].kind
      /\ r.doc = call[c].doc /\ r.key = call[c].key /\ r.content = call[c].content
      /\ r.type = call[c].type
  BY <1>1 DEF Call
<1>3. call' = [call EXCEPT ![c] = r]
  OBVIOUS
<1> HIDE DEF r
<1> QED BY <1>2, <1>3, CallMoves

LEMMA EndMoves ==
  ASSUME TypeOK, NEW c \in Calls, End(c)
  PROVE  /\ call' \in [Calls -> Call] /\ \A e \in Calls : e # c => call'[e] = call[e]
         /\ call'[c].at = "idle" /\ call'[c].job = "none"
BY NoCallType, CallMoves DEF End

LEMMA BeginSupportMoves ==
  ASSUME TypeOK, NEW c \in Calls, NEW kind \in {"primary", "support"}, NEW name \in FileName,
         NEW content \in Content, BeginSupport(c, kind, name, content)
  PROVE  /\ call' \in [Calls -> Call] /\ \A e \in Calls : e # c => call'[e] = call[e]
         /\ call'[c].at = "save" /\ call'[c].job = "support" /\ call'[c].content = content
         /\ call'[c].doc \in 0 .. Len(docs)
<1>1. call[c] \in Call
  BY DEF TypeOK
<1> DEFINE key == [credit |-> FALSE, name |-> name]
           r(d) == [call[c] EXCEPT !.at = "save", !.job = "support", !.kind = kind, !.doc = d,
                                   !.key = key, !.content = content]
<1>2. PICK d \in IF Oldest(kind) = {} THEN {0} ELSE Oldest(kind) : call' = [call EXCEPT ![c] = r(d)]
  BY DEF BeginSupport
<1>3. Len(docs) \in Nat /\ Len(docs) <= MaxDocs
  BY DEF TypeOK
<1>4. d \in 0 .. Len(docs) /\ d \in Ids
  BY <1>2, <1>3, BoundAssumption DEF Oldest, Ids
<1>5. key \in Key
  BY DEF Key
<1>6. r(d) \in Call /\ r(d).at = "save" /\ r(d).job = "support" /\ r(d).content = content /\ r(d).doc = d
  BY <1>1, <1>4, <1>5 DEF Call, Kinds
<1> HIDE DEF r
<1> QED BY <1>2, <1>4, <1>6, CallMoves

LEMMA BeginCreditNoteMoves ==
  ASSUME TypeOK, NEW c \in Calls, NEW name \in FileName, NEW content \in Content,
         BeginCreditNote(c, name, content)
  PROVE  /\ call' \in [Calls -> Call] /\ \A e \in Calls : e # c => call'[e] = call[e]
         /\ call'[c].at = "save" /\ call'[c].job = "credit" /\ call'[c].content = content
         /\ call'[c].doc = 0 /\ call'[c].kind = "credit_note"
<1>1. call[c] \in Call
  BY DEF TypeOK
<1> DEFINE key == [credit |-> TRUE, name |-> name]
           r == [call[c] EXCEPT !.at = "save", !.job = "credit", !.kind = "credit_note", !.doc = 0,
                                !.key = key, !.content = content]
<1>2. key \in Key /\ 0 \in Ids
  BY BoundAssumption DEF Key, Ids
<1>3. /\ r \in Call /\ r.at = "save" /\ r.job = "credit" /\ r.content = content /\ r.doc = 0
      /\ r.kind = "credit_note"
  BY <1>1, <1>2 DEF Call, Kinds
<1>4. call' = [call EXCEPT ![c] = r]
  BY DEF BeginCreditNote
<1> HIDE DEF r
<1> QED BY <1>3, <1>4, CallMoves

LEMMA BeginRaiseMoves ==
  ASSUME TypeOK, NEW c \in Calls, NEW job \in {"scan", "raise"}, NEW type \in Types,
         BeginRaise(c, job, type)
  PROVE  /\ call' \in [Calls -> Call] /\ \A e \in Calls : e # c => call'[e] = call[e]
         /\ call'[c].at = "count" /\ call'[c].job = job /\ call'[c].type = type
<1>1. call[c] \in Call
  BY DEF TypeOK
<1> DEFINE r == [call[c] EXCEPT !.at = "count", !.job = job, !.type = type]
<1>2. r \in Call /\ r.at = "count" /\ r.job = job /\ r.type = type
  BY <1>1 DEF Call
<1>3. call' = [call EXCEPT ![c] = r]
  BY DEF BeginRaise
<1> HIDE DEF r
<1> QED BY <1>2, <1>3, CallMoves

LEMMA CreateDocumentMoves ==
  ASSUME TypeOK, NEW c \in Calls, CreateDocument(c)
  PROVE  /\ call' \in [Calls -> Call] /\ \A e \in Calls : e # c => call'[e] = call[e]
         /\ call'[c].at = "version" /\ call'[c].job = call[c].job /\ call'[c].kind = call[c].kind
         /\ call'[c].doc = Len(docs) + 1 /\ call'[c].key = call[c].key
         /\ call'[c].content = call[c].content
         /\ docs' \in Seq(Document) /\ Len(docs') = Len(docs) + 1 /\ Len(docs') <= MaxDocs
         /\ docs'[Len(docs) + 1] = [kind |-> call[c].kind, versions |-> << >>]
         /\ \A e \in 1 .. Len(docs) : docs'[e] = docs[e]
<1>1. call[c] \in Call /\ docs \in Seq(Document) /\ Len(docs) \in Nat
  BY DEF TypeOK
<1> DEFINE d == Len(docs) + 1
           r == [call[c] EXCEPT !.at = "version", !.doc = d]
           new == [kind |-> call[c].kind, versions |-> << >>]
<1>2. d \in Ids
  BY <1>1, BoundAssumption DEF CreateDocument, Ids
<1>3. /\ r \in Call /\ r.at = "version" /\ r.job = call[c].job /\ r.kind = call[c].kind /\ r.doc = d
      /\ r.key = call[c].key /\ r.content = call[c].content
  BY <1>1, <1>2 DEF Call
<1>4. call' = [call EXCEPT ![c] = r]
  BY DEF CreateDocument
<1>5. new \in Document
  BY <1>1 DEF Call, Document
<1>6. docs' = Append(docs, new) /\ Len(docs) < MaxDocs
  BY DEF CreateDocument
<1> HIDE DEF r, new
<1>7. call' \in [Calls -> Call] /\ call'[c] = r /\ \A e \in Calls : e # c => call'[e] = call[e]
  BY <1>3, <1>4, CallMoves
<1>8. /\ docs' \in Seq(Document) /\ Len(docs') = Len(docs) + 1 /\ Len(docs') <= MaxDocs
      /\ docs'[Len(docs) + 1] = new /\ \A e \in 1 .. Len(docs) : docs'[e] = docs[e]
  BY <1>1, <1>5, <1>6, BoundAssumption
<1> QED BY <1>3, <1>7, <1>8 DEF new

-----------------------------------------------------------------------------
(***************************************************************************)
(* Documents are added and get versions; none is taken away.  A step that  *)
(* only lets them grow keeps what the calls it leaves alone rely on.       *)
(***************************************************************************)

Grown(ds, es) ==
  /\ Len(ds) <= Len(es)
  /\ \A d \in 1 .. Len(ds) :
       es[d].kind = ds[d].kind /\ (ds[d].versions # << >> => es[d].versions # << >>)

LEMMA GrownFits ==
  ASSUME NEW ds \in Seq(Document), NEW es \in Seq(Document), Grown(ds, es), NEW r, Fits(r, ds)
  PROVE  Fits(r, es)
<1>1. Len(ds) \in Nat /\ Len(es) \in Nat /\ Len(ds) <= Len(es)
  BY DEF Grown
<1> QED BY <1>1 DEF Grown, Fits

LEMMA OthersFit ==
  ASSUME TypeOK, AllFit, NEW c \in Calls, \A e \in Calls : e # c => call'[e] = call[e],
         docs' \in Seq(Document), Grown(docs, docs'), Fits(call'[c], docs')
  PROVE  AllFit'
<1>1. docs \in Seq(Document)
  BY DEF TypeOK
<1>2. ASSUME NEW e \in Calls, e # c PROVE Fits(call'[e], docs')
  BY <1>1, <1>2, GrownFits DEF AllFit
<1> QED BY <1>2 DEF AllFit

LEMMA SameGrown == ASSUME TypeOK, docs' = docs PROVE Grown(docs, docs') /\ docs' \in Seq(Document)
BY DEF TypeOK, Grown

LEMMA LinkGrows ==
  ASSUME PaperInv, docs' \in Seq(Document), Grown(docs, docs'), link' = link
  PROVE  LinkFits'
<1>1. docs \in Seq(Document) /\ Len(docs) \in Nat /\ Len(docs') \in Nat
  BY DEF PaperInv, TypeOK
<1> QED BY <1>1 DEF PaperInv, LinkFits, LinkedNoteIsComplete, Grown

LEMMA StillFiled == ASSUME filedBy # "nobody", filedBy' = filedBy PROVE Blank'
BY DEF Blank

\* A call that is under way, or a run that is, is about an invoice on file.
LEMMA CallFiled == ASSUME Blank, NEW c \in Calls, call[c].at # "idle" PROVE filedBy # "nobody"
BY DEF Blank

(***************************************************************************)
(* Filing.                                                                 *)
(***************************************************************************)

LEMMA FilePrimaryStep ==
  ASSUME PaperInv, filedBy = "nobody", NEW key \in Key, NEW content \in Content,
         FilePrimary(key, content)
  PROVE  /\ docs' \in Seq(Document) /\ Len(docs') <= MaxDocs /\ run' \in Run
         /\ faults' \in 0 .. MaxFaults /\ Grown(docs, docs')
<1> DEFINE version == [key |-> key, hash |-> content]
           whole == <<[kind |-> "primary", versions |-> <<version>>]>>
           bare == <<[kind |-> "primary", versions |-> << >>]>>
<1>1. version \in Version
  BY DEF Version
<1> HIDE DEF version
<1>2. [kind |-> "primary", versions |-> <<version>>] \in Document
  BY <1>1 DEF Document, Kinds
<1>3. [kind |-> "primary", versions |-> << >>] \in Document
  BY DEF Document, Kinds
<1>4. whole \in Seq(Document) /\ Len(whole) = 1 /\ bare \in Seq(Document) /\ Len(bare) = 1
  BY <1>2, <1>3
<1>5. docs' \in {whole, << >>, bare} /\ (Fault \/ UNCHANGED faults) /\ (StartRun(1) \/ UNCHANGED run)
  BY DEF FilePrimary, version
<1> HIDE DEF whole, bare
<1>6. docs' \in Seq(Document) /\ Len(docs') <= MaxDocs
  <2>1. MaxDocs \in Nat /\ 1 <= MaxDocs
    BY BoundAssumption
  <2>2. CASE docs' = << >>
    BY <2>1, <2>2
  <2>3. CASE docs' \in {whole, bare}
    BY <1>4, <2>1, <2>3
  <2> QED BY <1>5, <2>2, <2>3
<1>7. TypeOK /\ docs = << >>
  BY DEF PaperInv, Blank
<1>8. 1 \in Ids
  BY BoundAssumption DEF Ids
<1>9. run' \in Run
  BY <1>5, <1>7, <1>8, StartRunType DEF TypeOK
<1>10. faults' \in 0 .. MaxFaults
  BY <1>5, <1>7, FaultType
<1>11. Grown(docs, docs')
  BY <1>6, <1>7 DEF Grown
<1> QED BY <1>6, <1>9, <1>10, <1>11

LEMMA FiledStep ==
  ASSUME PaperInv, docs' \in Seq(Document), Len(docs') <= MaxDocs, Grown(docs, docs'),
         filedBy' \in {"json", "form"}, store' \in [Key -> Content \cup {Absent, Torn}],
         HistoryTyped', run' \in Run, faults' \in 0 .. MaxFaults,
         UNCHANGED <<link, checks, call, work>>
  PROVE  PaperInv'
<1>1. TypeOK'
  BY DEF PaperInv, TypeOK, checks
<1>2. AllFit'
  BY GrownFits DEF PaperInv, AllFit, TypeOK
<1>3. Blank'
  BY DEF Blank
<1>4. LinkFits'
  BY LinkGrows
<1> QED BY <1>1, <1>2, <1>3, <1>4 DEF PaperInv

LEMMA IngestStep ==
  ASSUME PaperInv, NEW name \in FileName, NEW content \in Content, Ingest(name, content)
  PROVE  PaperInv'
<1> DEFINE key == [credit |-> FALSE, name |-> name]
<1>1. key \in Key /\ FilePrimary(key, content)
  BY DEF Ingest, Key
<1>2. filedBy = "nobody" /\ filedBy' = "json" /\ UNCHANGED <<store, history, link, checks, call, work>>
  BY DEF Ingest
<1> HIDE DEF key
<1> QED BY <1>1, <1>2, FilePrimaryStep, FiledStep DEF PaperInv, TypeOK

LEMMA UploadInvoiceStep ==
  ASSUME PaperInv, NEW name \in FileName, NEW content \in Content, UploadInvoice(name, content)
  PROVE  PaperInv'
<1> DEFINE key == [credit |-> FALSE, name |-> name]
<1>1. key \in Key
  BY DEF Key
<1>2. filedBy = "nobody" /\ filedBy' = "form" /\ UNCHANGED <<link, checks, call, work>>
  BY DEF UploadInvoice
<1>3. \/ Put(key, content) /\ FilePrimary(key, content)
      \/ Put(key, Torn) /\ Fault /\ UNCHANGED <<docs, run>>
  BY DEF UploadInvoice
<1> HIDE DEF key
<1>4. TypeOK
  BY DEF PaperInv
<1>5. store' \in [Key -> Content \cup {Absent, Torn}] /\ HistoryTyped'
  BY <1>1, <1>3, <1>4, PutType
<1>6. CASE FilePrimary(key, content)
  BY <1>1, <1>2, <1>5, <1>6, FilePrimaryStep, FiledStep
<1>7. CASE Fault /\ UNCHANGED <<docs, run>>
  <2>1. Grown(docs, docs') /\ docs' \in Seq(Document) /\ Len(docs') <= MaxDocs /\ run' \in Run
    BY <1>4, <1>7, SameGrown DEF TypeOK
  <2>2. faults' \in 0 .. MaxFaults
    BY <1>4, <1>7, FaultType
  <2> QED BY <1>2, <1>5, <2>1, <2>2, FiledStep
<1> QED BY <1>3, <1>6, <1>7

-----------------------------------------------------------------------------
(***************************************************************************)
(* The steps of an upload.                                                 *)
(***************************************************************************)

\* A step of a call about an invoice on file that lets the documents grow.
LEMMA CallStepKeeps ==
  ASSUME PaperInv, NEW c \in Calls, filedBy # "nobody", UNCHANGED filedBy,
         call' \in [Calls -> Call], \A e \in Calls : e # c => call'[e] = call[e],
         docs' \in Seq(Document), Len(docs') <= MaxDocs, Grown(docs, docs'), Fits(call'[c], docs'),
         store' \in [Key -> Content \cup {Absent, Torn}], HistoryTyped',
         UNCHANGED aged, open' \in [Types -> Nat], raced' \subseteq Types, UNCHANGED rules,
         run' \in Run, UNCHANGED work \/ Work, UNCHANGED faults \/ Fault,
         link' \in Ids, LinkFits'
  PROVE  PaperInv'
<1>1. TypeOK
  BY DEF PaperInv
<1>2. faults' \in 0 .. MaxFaults /\ work' \in 0 .. MaxWork
  BY <1>1, FaultType, WorkType
<1>3. TypeOK'
  BY <1>1, <1>2 DEF TypeOK
<1>4. AllFit'
  BY <1>1, OthersFit DEF PaperInv
<1>5. Blank'
  BY StillFiled
<1> QED BY <1>3, <1>4, <1>5 DEF PaperInv

\* The papers stay as they are.
LEMMA QuietStepKeeps ==
  ASSUME PaperInv, NEW c \in Calls, filedBy # "nobody", UNCHANGED papers,
         call' \in [Calls -> Call], \A e \in Calls : e # c => call'[e] = call[e],
         Fits(call'[c], docs),
         UNCHANGED aged, open' \in [Types -> Nat], raced' \subseteq Types, UNCHANGED rules,
         run' \in Run, UNCHANGED work \/ Work, UNCHANGED faults \/ Fault
  PROVE  PaperInv'
<1>1. UNCHANGED <<filedBy, docs, store, history, link>>
  BY DEF papers
<1>2. TypeOK
  BY DEF PaperInv
<1>3. docs' \in Seq(Document) /\ Grown(docs, docs')
  BY <1>1, <1>2, SameGrown
<1>4. LinkFits'
  BY <1>1, <1>3, LinkGrows
<1>5. /\ Len(docs') <= MaxDocs /\ store' \in [Key -> Content \cup {Absent, Torn}]
      /\ HistoryTyped' /\ link' \in Ids
  BY <1>1, <1>2 DEF TypeOK
<1>6. Fits(call'[c], docs')
  BY <1>1
<1> QED BY <1>1, <1>3, <1>4, <1>5, <1>6, CallStepKeeps

\* A call that is over, or that is about an exception, relies on no document.
LEMMA IdleFits == ASSUME NEW r, r.at \in {"idle", "count", "insert"}, r.job # "credit", NEW ds PROVE Fits(r, ds)
BY DEF Fits

LEMMA SameChecks ==
  ASSUME TypeOK, UNCHANGED checks
  PROVE  UNCHANGED aged /\ open' \in [Types -> Nat] /\ raced' \subseteq Types /\ UNCHANGED rules
BY DEF TypeOK, checks

LEMMA BeginSupportStep ==
  ASSUME PaperInv, NEW c \in Calls, NEW kind \in {"primary", "support"}, NEW name \in FileName,
         NEW content \in Content, BeginSupport(c, kind, name, content)
  PROVE  PaperInv'
<1>1. TypeOK
  BY DEF PaperInv
<1>2. /\ call' \in [Calls -> Call] /\ \A e \in Calls : e # c => call'[e] = call[e]
      /\ call'[c].at = "save" /\ call'[c].job = "support" /\ call'[c].content = content
      /\ call'[c].doc \in 0 .. Len(docs)
  BY <1>1, BeginSupportMoves
<1>3. Fits(call'[c], docs)
  BY <1>2 DEF Fits
<1>4. filedBy # "nobody" /\ Work /\ UNCHANGED <<papers, checks, run, faults>>
  BY DEF BeginSupport
<1>5. run' \in Run
  BY <1>1, <1>4 DEF TypeOK
<1> QED BY <1>1, <1>2, <1>3, <1>4, <1>5, SameChecks, QuietStepKeeps

LEMMA BeginCreditNoteStep ==
  ASSUME PaperInv, NEW c \in Calls, NEW name \in FileName, NEW content \in Content,
         BeginCreditNote(c, name, content)
  PROVE  PaperInv'
<1>1. TypeOK
  BY DEF PaperInv
<1>2. /\ call' \in [Calls -> Call] /\ \A e \in Calls : e # c => call'[e] = call[e]
      /\ call'[c].at = "save" /\ call'[c].job = "credit" /\ call'[c].content = content
      /\ call'[c].doc = 0 /\ call'[c].kind = "credit_note"
  BY <1>1, BeginCreditNoteMoves
<1>3. Fits(call'[c], docs)
  <2>1. Len(docs) \in Nat
    BY <1>1 DEF TypeOK
  <2> QED BY <1>2, <2>1 DEF Fits
<1>4. filedBy # "nobody" /\ Work /\ UNCHANGED <<papers, checks, run, faults>>
  BY DEF BeginCreditNote
<1>5. run' \in Run
  BY <1>1, <1>4 DEF TypeOK
<1> QED BY <1>1, <1>2, <1>3, <1>4, <1>5, SameChecks, QuietStepKeeps

LEMMA SaveFileStep == ASSUME PaperInv, NEW c \in Calls, SaveFile(c) PROVE PaperInv'
<1>1. TypeOK /\ Fits(call[c], docs) /\ call[c].at = "save" /\ filedBy # "nobody"
  BY CallFiled DEF PaperInv, AllFit, SaveFile
<1>2. call[c] \in Call /\ call[c].key \in Key /\ call[c].content \in Content
  BY <1>1 DEF TypeOK, Call, Fits
<1>3. Put(call[c].key, call[c].content) /\ UNCHANGED <<filedBy, docs, link, checks, run, faults, work>>
  BY DEF SaveFile
<1>4. store' \in [Key -> Content \cup {Absent, Torn}] /\ HistoryTyped'
  BY <1>1, <1>2, <1>3, PutType
<1>5. PICK at \in {"create", "append"} :
        at = (IF call[c].doc = 0 THEN "create" ELSE "append") /\ call' = [call EXCEPT ![c].at = at]
  BY DEF SaveFile
<1>6. /\ call' \in [Calls -> Call] /\ \A e \in Calls : e # c => call'[e] = call[e]
      /\ call'[c].at = at /\ call'[c].job = call[c].job /\ call'[c].kind = call[c].kind
      /\ call'[c].doc = call[c].doc /\ call'[c].content = call[c].content
  BY <1>1, <1>5, AtMoves
<1>7. docs' \in Seq(Document) /\ Grown(docs, docs') /\ Len(docs') <= MaxDocs /\ Len(docs) \in Nat
  BY <1>1, <1>3, SameGrown DEF TypeOK
<1>8. Fits(call'[c], docs')
  BY <1>1, <1>3, <1>5, <1>6, <1>7 DEF Fits
<1>9. LinkFits' /\ link' \in Ids /\ run' \in Run
  BY <1>1, <1>3, <1>7, LinkGrows DEF TypeOK
<1> QED BY <1>1, <1>3, <1>4, <1>6, <1>7, <1>8, <1>9, SameChecks, CallStepKeeps

LEMMA TearFileStep == ASSUME PaperInv, NEW c \in Calls, TearFile(c) PROVE PaperInv'
<1>1. TypeOK /\ filedBy # "nobody" /\ call[c].key \in Key
  BY CallFiled DEF PaperInv, TearFile, TypeOK, Call
<1>2. Put(call[c].key, Torn) /\ End(c) /\ Fault /\ UNCHANGED <<filedBy, docs, link, checks, run, work>>
  BY DEF TearFile
<1>3. store' \in [Key -> Content \cup {Absent, Torn}] /\ HistoryTyped'
  BY <1>1, <1>2, PutType
<1>4. /\ call' \in [Calls -> Call] /\ \A e \in Calls : e # c => call'[e] = call[e]
      /\ Fits(call'[c], docs')
  BY <1>1, <1>2, EndMoves, IdleFits
<1>5. docs' \in Seq(Document) /\ Grown(docs, docs') /\ Len(docs') <= MaxDocs
  BY <1>1, <1>2, SameGrown DEF TypeOK
<1>6. LinkFits' /\ link' \in Ids /\ run' \in Run
  BY <1>1, <1>2, <1>5, LinkGrows DEF TypeOK
<1> QED BY <1>1, <1>2, <1>3, <1>4, <1>5, <1>6, SameChecks, CallStepKeeps

LEMMA CreateDocumentStep == ASSUME PaperInv, NEW c \in Calls, CreateDocument(c) PROVE PaperInv'
<1>1. TypeOK /\ filedBy # "nobody" /\ Fits(call[c], docs) /\ call[c].at = "create"
  BY CallFiled DEF PaperInv, AllFit, CreateDocument
<1>2. /\ call' \in [Calls -> Call] /\ \A e \in Calls : e # c => call'[e] = call[e]
      /\ call'[c].at = "version" /\ call'[c].job = call[c].job /\ call'[c].kind = call[c].kind
      /\ call'[c].doc = Len(docs) + 1 /\ call'[c].content = call[c].content
      /\ docs' \in Seq(Document) /\ Len(docs') = Len(docs) + 1 /\ Len(docs') <= MaxDocs
      /\ docs'[Len(docs) + 1] = [kind |-> call[c].kind, versions |-> << >>]
      /\ \A e \in 1 .. Len(docs) : docs'[e] = docs[e]
  BY <1>1, CreateDocumentMoves
<1>3. Len(docs) \in Nat /\ Grown(docs, docs')
  BY <1>1, <1>2 DEF TypeOK, Grown
<1>4. Fits(call'[c], docs')
  BY <1>1, <1>2, <1>3 DEF Fits
<1>5. UNCHANGED <<filedBy, store, history, link, checks, run, faults, work>>
  BY DEF CreateDocument
<1>6. /\ LinkFits' /\ link' \in Ids /\ run' \in Run
      /\ store' \in [Key -> Content \cup {Absent, Torn}] /\ HistoryTyped'
  BY <1>1, <1>2, <1>3, <1>5, LinkGrows DEF TypeOK
<1> QED BY <1>1, <1>2, <1>3, <1>4, <1>5, <1>6, SameChecks, CallStepKeeps

\* The version is there afterwards.
LEMMA AddedGrown ==
  ASSUME TypeOK, AllFit, NEW c \in Calls, AddVersion(c), call[c].at \in {"version", "append"}
  PROVE  /\ docs' \in Seq(Document) /\ Grown(docs, docs') /\ Len(docs') = Len(docs) /\ Len(docs) <= MaxDocs
         /\ call[c].doc \in 1 .. Len(docs') /\ docs'[call[c].doc].versions # << >>
         /\ docs'[call[c].doc].kind = docs[call[c].doc].kind
         /\ HistoryTyped'
<1>1. Fits(call[c], docs)
  BY DEF AllFit
<1>2. call[c].content \in Content /\ call[c].doc \in 1 .. Len(docs)
  BY <1>1 DEF Fits
<1>3. docs \in Seq(Document) /\ Len(docs) \in Nat /\ Len(docs) <= MaxDocs
  BY DEF TypeOK
<1>4. docs[call[c].doc] \in Document
  BY <1>2, <1>3
<1> DEFINE d == call[c].doc
           version == [key |-> call[c].key, hash |-> call[c].content]
<1>5. /\ version \in Version /\ docs' \in Seq(Document) /\ Len(docs') = Len(docs)
      /\ docs'[d].kind = docs[d].kind /\ docs'[d].versions = Append(docs[d].versions, version)
      /\ \A e \in 1 .. Len(docs) : e # d => docs'[e] = docs[e]
      /\ HistoryTyped'
  <2>1. d = call[c].doc /\ d \in 1 .. Len(docs)
    BY <1>2
  <2>2. version = [key |-> call[c].key, hash |-> call[c].content]
    OBVIOUS
  <2> HIDE DEF d, version
  <2> QED BY <1>2, <2>1, <2>2, AddVersionType
<1>6. docs'[d].versions # << >>
  <2> HIDE DEF version, d
  <2>1. docs[d].versions \in Seq(Version)
    BY <1>4 DEF d, Document
  <2>2. Len(Append(docs[d].versions, version)) = Len(docs[d].versions) + 1 /\ Len(docs[d].versions) \in Nat
    BY <1>5, <2>1
  <2>3. Len(docs'[d].versions) # 0
    BY <1>5, <2>2
  <2> QED BY <2>3
<1> HIDE DEF version
<1>7. Grown(docs, docs')
  BY <1>3, <1>5, <1>6 DEF Grown
<1> QED BY <1>2, <1>3, <1>5, <1>6, <1>7

LEMMA CreateVersionStep == ASSUME PaperInv, NEW c \in Calls, CreateVersion(c) PROVE PaperInv'
<1>1. TypeOK /\ AllFit /\ filedBy # "nobody" /\ Fits(call[c], docs) /\ call[c].at = "version"
  BY CallFiled DEF PaperInv, AllFit, CreateVersion
<1>2. UNCHANGED <<filedBy, store, link, checks, run, work, faults>>
  BY DEF CreateVersion
<1>3. /\ link' \in Ids /\ run' \in Run
      /\ store' \in [Key -> Content \cup {Absent, Torn}]
  BY <1>1, <1>2 DEF TypeOK
<1>4. CASE AddVersion(c) /\ call[c].job = "credit" /\ call' = [call EXCEPT ![c].at = "link"]
  <2>1. /\ docs' \in Seq(Document) /\ Grown(docs, docs') /\ Len(docs') <= MaxDocs
        /\ call[c].doc \in 1 .. Len(docs') /\ docs'[call[c].doc].versions # << >>
        /\ docs'[call[c].doc].kind = docs[call[c].doc].kind /\ HistoryTyped'
    BY <1>1, <1>4, AddedGrown
  <2>2. /\ call' \in [Calls -> Call] /\ \A e \in Calls : e # c => call'[e] = call[e]
        /\ call'[c].at = "link" /\ call'[c].job = call[c].job /\ call'[c].kind = call[c].kind
        /\ call'[c].doc = call[c].doc
    BY <1>1, <1>4, AtMoves
  <2>3. Fits(call'[c], docs')
    BY <1>1, <1>4, <2>1, <2>2 DEF Fits
  <2>4. LinkFits'
    BY <1>2, <2>1, LinkGrows
  <2> QED BY <1>1, <1>2, <1>3, <2>1, <2>2, <2>3, <2>4, SameChecks, CallStepKeeps
<1>5. CASE AddVersion(c) /\ End(c)
  <2>1. docs' \in Seq(Document) /\ Grown(docs, docs') /\ Len(docs') <= MaxDocs /\ HistoryTyped'
    BY <1>1, <1>5, AddedGrown
  <2>2. /\ call' \in [Calls -> Call] /\ \A e \in Calls : e # c => call'[e] = call[e]
        /\ Fits(call'[c], docs')
    BY <1>1, <1>5, EndMoves, IdleFits
  <2>3. LinkFits'
    BY <1>2, <2>1, LinkGrows
  <2> QED BY <1>1, <1>2, <1>3, <2>1, <2>2, <2>3, SameChecks, CallStepKeeps
<1>6. CASE End(c) /\ UNCHANGED <<docs, history>>
  <2>1. docs' \in Seq(Document) /\ Grown(docs, docs') /\ Len(docs') <= MaxDocs /\ HistoryTyped'
    BY <1>1, <1>6, SameGrown DEF TypeOK
  <2>2. /\ call' \in [Calls -> Call] /\ \A e \in Calls : e # c => call'[e] = call[e]
        /\ Fits(call'[c], docs')
    BY <1>1, <1>6, EndMoves, IdleFits
  <2>3. LinkFits'
    BY <1>2, <2>1, LinkGrows
  <2> QED BY <1>1, <1>2, <1>3, <2>1, <2>2, <2>3, SameChecks, CallStepKeeps
<1> QED BY <1>4, <1>5, <1>6 DEF CreateVersion

LEMMA AppendVersionStep == ASSUME PaperInv, NEW c \in Calls, AppendVersion(c) PROVE PaperInv'
<1>1. TypeOK /\ AllFit /\ filedBy # "nobody" /\ call[c].at = "append" /\ AddVersion(c) /\ End(c)
  BY CallFiled DEF PaperInv, AppendVersion
<1>2. UNCHANGED <<filedBy, store, link, checks, run, faults, work>>
  BY DEF AppendVersion
<1>3. /\ link' \in Ids /\ run' \in Run
      /\ store' \in [Key -> Content \cup {Absent, Torn}]
  BY <1>1, <1>2 DEF TypeOK
<1>4. docs' \in Seq(Document) /\ Grown(docs, docs') /\ Len(docs') <= MaxDocs /\ HistoryTyped'
  BY <1>1, AddedGrown
<1>5. /\ call' \in [Calls -> Call] /\ \A e \in Calls : e # c => call'[e] = call[e]
      /\ Fits(call'[c], docs')
  BY <1>1, EndMoves, IdleFits
<1>6. LinkFits'
  BY <1>2, <1>4, LinkGrows
<1> QED BY <1>1, <1>2, <1>3, <1>4, <1>5, <1>6, SameChecks, CallStepKeeps

LEMMA LinkCreditNoteStep == ASSUME PaperInv, NEW c \in Calls, LinkCreditNote(c) PROVE PaperInv'
<1>1. TypeOK /\ filedBy # "nobody" /\ Fits(call[c], docs) /\ call[c].at = "link" /\ call[c] \in Call
  BY CallFiled DEF PaperInv, AllFit, LinkCreditNote, TypeOK
<1>2. link' = call[c].doc /\ End(c) /\ UNCHANGED <<filedBy, docs, store, history, checks, run, faults, work>>
  BY DEF LinkCreditNote
<1>3. /\ call[c].doc \in 1 .. Len(docs) /\ docs[call[c].doc].kind = "credit_note"
      /\ docs[call[c].doc].versions # << >> /\ call[c].doc \in Ids /\ Len(docs) \in Nat
  BY <1>1 DEF Fits, Call, TypeOK
<1>4. LinkFits'
  BY <1>2, <1>3 DEF LinkFits, LinkedNoteIsComplete
<1>5. docs' \in Seq(Document) /\ Grown(docs, docs') /\ Len(docs') <= MaxDocs
  BY <1>1, <1>2, SameGrown DEF TypeOK
<1>6. /\ call' \in [Calls -> Call] /\ \A e \in Calls : e # c => call'[e] = call[e]
      /\ Fits(call'[c], docs')
  BY <1>1, <1>2, EndMoves, IdleFits
<1>7. /\ link' \in Ids /\ run' \in Run
      /\ store' \in [Key -> Content \cup {Absent, Torn}] /\ HistoryTyped'
  BY <1>1, <1>2, <1>3 DEF TypeOK
<1> QED BY <1>1, <1>2, <1>4, <1>5, <1>6, <1>7, SameChecks, CallStepKeeps

LEMMA FailUploadStep == ASSUME PaperInv, NEW c \in Calls, FailUpload(c) PROVE PaperInv'
<1>1. TypeOK /\ filedBy # "nobody"
  BY CallFiled DEF PaperInv, FailUpload
<1>2. End(c) /\ Fault /\ UNCHANGED <<papers, checks, run, work>>
  BY DEF FailUpload
<1>3. /\ call' \in [Calls -> Call] /\ \A e \in Calls : e # c => call'[e] = call[e]
      /\ Fits(call'[c], docs)
  BY <1>1, <1>2, EndMoves, IdleFits
<1>4. run' \in Run
  BY <1>1, <1>2 DEF TypeOK
<1> QED BY <1>1, <1>2, <1>3, <1>4, SameChecks, QuietStepKeeps

-----------------------------------------------------------------------------
(***************************************************************************)
(* The steps of a scan and of an attempt to raise an exception.            *)
(***************************************************************************)

LEMMA RaisedType ==
  ASSUME TypeOK PROVE ExceptionType(ValidateAgainstExpected(run.data, Expected)) \in Types
BY DEF ExceptionType, Types

LEMMA ScanDocumentsStep == ASSUME PaperInv, NEW c \in Calls, ScanDocuments(c) PROVE PaperInv'
<1>1. TypeOK /\ filedBy # "nobody"
  BY DEF PaperInv, Blank, ScanDocuments
<1>2. BeginRaise(c, "scan", "missing_document") /\ Work /\ UNCHANGED <<papers, checks, run, faults>>
  BY DEF ScanDocuments
<1>3. /\ call' \in [Calls -> Call] /\ \A e \in Calls : e # c => call'[e] = call[e]
      /\ call'[c].at = "count" /\ call'[c].job = "scan"
  BY <1>1, <1>2, BeginRaiseMoves DEF Types
<1>4. Fits(call'[c], docs) /\ run' \in Run
  BY <1>1, <1>2, <1>3, IdleFits DEF TypeOK
<1> QED BY <1>1, <1>2, <1>3, <1>4, SameChecks, QuietStepKeeps

LEMMA AttemptRaiseStep == ASSUME PaperInv, NEW c \in Calls, AttemptRaise(c) PROVE PaperInv'
<1>1. TypeOK /\ filedBy # "nobody"
  BY DEF PaperInv, Blank, AttemptRaise
<1>2. PICK type \in Types : BeginRaise(c, "raise", type)
  BY <1>1, RaisedType DEF AttemptRaise
<1>3. Work /\ (Fault \/ UNCHANGED faults) /\ UNCHANGED <<papers, checks, run>>
  BY DEF AttemptRaise
<1>4. /\ call' \in [Calls -> Call] /\ \A e \in Calls : e # c => call'[e] = call[e]
      /\ call'[c].at = "count" /\ call'[c].job = "raise"
  BY <1>1, <1>2, BeginRaiseMoves
<1>5. Fits(call'[c], docs) /\ run' \in Run
  BY <1>1, <1>3, <1>4, IdleFits DEF TypeOK
<1> QED BY <1>1, <1>3, <1>4, <1>5, SameChecks, QuietStepKeeps

LEMMA EndRaiseMoves ==
  ASSUME TypeOK, NEW c \in Calls, EndRaise(c)
  PROVE  /\ call' \in [Calls -> Call] /\ \A e \in Calls : e # c => call'[e] = call[e]
         /\ call'[c].at = "idle" /\ call'[c].job = "none" /\ run' \in Run
<1>1. run' \in Run
  BY DEF TypeOK, EndRaise, Run
<1> QED BY <1>1, EndMoves DEF EndRaise

LEMMA CountStep == ASSUME PaperInv, NEW c \in Calls, Count(c) PROVE PaperInv'
<1>1. /\ TypeOK /\ filedBy # "nobody" /\ call[c].at = "count" /\ call[c] \in Call
      /\ Fits(call[c], docs)
  BY CallFiled DEF PaperInv, Count, TypeOK, AllFit
<1>2. UNCHANGED <<papers, aged, open, rules, faults, work>>
  BY DEF Count
<1>3. CASE EndRaise(c) /\ UNCHANGED raced
  <2>1. Fits(call'[c], docs)
    BY <1>1, <1>3, EndRaiseMoves, IdleFits
  <2> QED BY <1>1, <1>2, <1>3, <2>1, EndRaiseMoves, QuietStepKeeps DEF TypeOK
<1>4. CASE /\ call' = [call EXCEPT ![c].at = "insert"]
           /\ raced' = (IF OthersInserting(c) = {} THEN raced ELSE raced \cup {call[c].type})
           /\ UNCHANGED run
  <2>1. /\ call' \in [Calls -> Call] /\ \A e \in Calls : e # c => call'[e] = call[e]
        /\ call'[c].at = "insert" /\ call'[c].job = call[c].job /\ call'[c].kind = call[c].kind
    BY <1>1, <1>4, AtMoves
  <2>2. Fits(call'[c], docs)
    BY <1>1, <2>1 DEF Fits
  <2>3. raced' \subseteq Types /\ run' \in Run /\ open' \in [Types -> Nat]
    BY <1>1, <1>2, <1>4 DEF TypeOK, Call
  <2> QED BY <1>1, <1>2, <2>1, <2>2, <2>3, QuietStepKeeps
<1> QED BY <1>3, <1>4 DEF Count

LEMMA InsertStep == ASSUME PaperInv, NEW c \in Calls, Insert(c) PROVE PaperInv'
<1>1. TypeOK /\ filedBy # "nobody"
  BY CallFiled DEF PaperInv, Insert
<1>2. EndRaise(c) /\ UNCHANGED <<papers, aged, raced, rules, faults, work>>
  BY DEF Insert
<1>3. Fits(call'[c], docs)
  BY <1>1, <1>2, EndRaiseMoves, IdleFits
<1>4. open' \in [Types -> Nat] /\ raced' \subseteq Types
  <2>1. open' = [open EXCEPT ![call[c].type] = @ + 1] /\ call[c].type \in Types
    BY <1>1 DEF Insert, TypeOK, Call
  <2>2. open \in [Types -> Nat] /\ raced \subseteq Types
    BY <1>1 DEF TypeOK
  <2>3. open[call[c].type] + 1 \in Nat
    BY <2>1, <2>2
  <2> QED BY <1>2, <2>1, <2>2, <2>3
<1> QED BY <1>1, <1>2, <1>3, <1>4, EndRaiseMoves, QuietStepKeeps

LEMMA FailRaiseStep == ASSUME PaperInv, NEW c \in Calls, FailRaise(c) PROVE PaperInv'
<1>1. TypeOK /\ filedBy # "nobody"
  BY CallFiled DEF PaperInv, FailRaise
<1>2. End(c) /\ Fault /\ UNCHANGED <<papers, checks, run, work>>
  BY DEF FailRaise
<1>3. /\ call' \in [Calls -> Call] /\ \A e \in Calls : e # c => call'[e] = call[e]
      /\ Fits(call'[c], docs)
  BY <1>1, <1>2, EndMoves, IdleFits
<1>4. run' \in Run
  BY <1>1, <1>2 DEF TypeOK
<1> QED BY <1>1, <1>2, <1>3, <1>4, SameChecks, QuietStepKeeps

-----------------------------------------------------------------------------
(***************************************************************************)
(* The steps outside calls.                                                *)
(***************************************************************************)

LEMMA OtherStepKeeps ==
  ASSUME PaperInv, UNCHANGED <<papers, call>>,
         aged' \in BOOLEAN, open' \in [Types -> Nat], raced' \subseteq Types, rules' \subseteq Rule,
         run' \in Run, UNCHANGED work \/ Work, UNCHANGED faults \/ Fault,
         filedBy # "nobody" \/ UNCHANGED <<aged, run>>
  PROVE  PaperInv'
<1>1. UNCHANGED <<filedBy, docs, store, history, link, call>>
  BY DEF papers
<1>2. TypeOK
  BY DEF PaperInv
<1>3. faults' \in 0 .. MaxFaults /\ work' \in 0 .. MaxWork
  BY <1>2, FaultType, WorkType
<1>4. TypeOK'
  BY <1>1, <1>2, <1>3 DEF TypeOK
<1>5. AllFit'
  BY <1>1 DEF PaperInv, AllFit
<1>6. Blank'
  BY <1>1 DEF PaperInv, Blank
<1>7. LinkFits'
  BY <1>1 DEF PaperInv, LinkFits, LinkedNoteIsComplete
<1> QED BY <1>4, <1>5, <1>6, <1>7 DEF PaperInv

LEMMA AgeStep == ASSUME PaperInv, Age PROVE PaperInv'
<1>1. run' \in Run /\ open' \in [Types -> Nat] /\ raced' \subseteq Types /\ rules' \subseteq Rule
  BY DEF PaperInv, TypeOK, Age
<1> QED BY <1>1, OtherStepKeeps DEF Age

LEMMA ResolveExceptionStep ==
  ASSUME PaperInv, NEW type \in Types, ResolveException(type) PROVE PaperInv'
<1>1. /\ run' \in Run /\ open' \in [Types -> Nat] /\ raced' \subseteq Types /\ rules' \subseteq Rule
      /\ aged' \in BOOLEAN
  BY DEF PaperInv, TypeOK, ResolveException
<1> QED BY <1>1, OtherStepKeeps DEF ResolveException

LEMMA CreateRuleStep == ASSUME PaperInv, NEW rule \in Rule, CreateRule(rule) PROVE PaperInv'
<1>1. /\ run' \in Run /\ open' \in [Types -> Nat] /\ raced' \subseteq Types /\ rules' \subseteq Rule
      /\ aged' \in BOOLEAN
  BY DEF PaperInv, TypeOK, CreateRule
<1> QED BY <1>1, OtherStepKeeps DEF CreateRule

LEMMA DeleteRuleStep == ASSUME PaperInv, NEW rule \in Rule, DeleteRule(rule) PROVE PaperInv'
<1>1. /\ run' \in Run /\ open' \in [Types -> Nat] /\ raced' \subseteq Types /\ rules' \subseteq Rule
      /\ aged' \in BOOLEAN
  BY DEF PaperInv, TypeOK, DeleteRule
<1> QED BY <1>1, OtherStepKeeps DEF DeleteRule

\* The steps of the run: nothing but the run changes.
LEMMA RunStepKeeps ==
  ASSUME PaperInv, run' \in Run, UNCHANGED <<papers, checks, call, work>>,
         UNCHANGED faults \/ Fault, filedBy # "nobody"
  PROVE  PaperInv'
<1>1. TypeOK
  BY DEF PaperInv
<1>2. rules' \subseteq Rule /\ aged' \in BOOLEAN /\ open' \in [Types -> Nat] /\ raced' \subseteq Types
  BY <1>1 DEF TypeOK, checks
<1> QED BY <1>2, OtherStepKeeps

LEMMA RunFiled == ASSUME Blank, run.at # "none" PROVE filedBy # "nobody"
BY DEF Blank

LEMMA ExtractStep == ASSUME PaperInv, NEW data \in Data, Extract(data) PROVE PaperInv'
<1>1. run' \in Run
  BY DEF PaperInv, TypeOK, Extract, Run
<1> QED BY <1>1, RunFiled, RunStepKeeps DEF Extract, PaperInv

LEMMA ValidateInvoiceStep == ASSUME PaperInv, ValidateInvoice PROVE PaperInv'
<1>1. run' \in Run
  BY DEF PaperInv, TypeOK, ValidateInvoice, Run
<1> QED BY <1>1, RunFiled, RunStepKeeps DEF ValidateInvoice, PaperInv

LEMMA ReviewStep ==
  ASSUME PaperInv, NEW decision \in {"fetch", "end"}, Review(decision) PROVE PaperInv'
<1>1. run' \in Run
  BY NoDataType DEF PaperInv, TypeOK, Review, Run
<1> QED BY <1>1, RunFiled, RunStepKeeps DEF Review, PaperInv

LEMMA RequiredType == ASSUME TypeOK PROVE Required \subseteq Actions
BY DataAssumption DEF TypeOK, Required, EvaluateAllRules, RulesInForce, DefaultTenantRules, Actions,
                      TenantRule

LEMMA FetchRulesStep == ASSUME PaperInv, FetchRules PROVE PaperInv'
<1>1. run' \in Run
  <2>1. TypeOK /\ Required \subseteq Actions
    BY RequiredType DEF PaperInv
  <2> QED BY <2>1, NoDataType DEF TypeOK, FetchRules, Run
<1> QED BY <1>1, RunFiled, RunStepKeeps DEF FetchRules, PaperInv

LEMMA LoseRunStep == ASSUME PaperInv, LoseRun PROVE PaperInv'
<1>1. run' \in Run
  BY NoDataType DEF PaperInv, TypeOK, LoseRun, Run
<1> QED BY <1>1, RunFiled, RunStepKeeps DEF LoseRun, PaperInv

LEMMA RestartStep == ASSUME PaperInv, NEW source \in Ids, Restart(source) PROVE PaperInv'
<1>1. TypeOK /\ StartRun(source)
  BY DEF PaperInv, Restart
<1>2. run' \in Run
  BY <1>1, StartRunType
<1> QED BY <1>2, RunFiled, RunStepKeeps DEF Restart, PaperInv

LEMMA PaperNext == ASSUME PaperInv, [Next]_vars PROVE PaperInv'
<1>1. CASE UNCHANGED vars
  <2>1. UNCHANGED <<papers, checks, run, call, work, faults>>
    BY <1>1 DEF vars
  <2>2. UNCHANGED <<aged, open, raced, rules>>
    BY <2>1 DEF checks
  <2> QED BY <2>1, <2>2, OtherStepKeeps DEF PaperInv, TypeOK
<1>2. ASSUME NEW c \in Calls, CallStep(c) PROVE PaperInv'
  BY <1>2, BeginSupportStep, BeginCreditNoteStep, SaveFileStep, TearFileStep, CreateDocumentStep,
     CreateVersionStep, AppendVersionStep, LinkCreditNoteStep, FailUploadStep, ScanDocumentsStep,
     AttemptRaiseStep, CountStep, InsertStep, FailRaiseStep DEF CallStep
<1> QED
  BY <1>1, <1>2, IngestStep, UploadInvoiceStep, AgeStep, ResolveExceptionStep, ExtractStep,
     ValidateInvoiceStep, FetchRulesStep, LoseRunStep, ReviewStep, RestartStep, CreateRuleStep,
     DeleteRuleStep DEF Next

LEMMA PaperInit == Init => PaperInv
<1> SUFFICES ASSUME Init PROVE PaperInv
  OBVIOUS
<1>1. TypeOK
  BY TypeInit
<1>2. AllFit
  BY NoCallType, IdleFits DEF Init, AllFit
<1>3. Blank
  BY NoCallType DEF Init, Blank
<1>4. LinkFits
  BY DEF Init, LinkFits, LinkedNoteIsComplete
<1> QED BY <1>1, <1>2, <1>3, <1>4 DEF PaperInv

LEMMA PaperInvariant == Spec => []PaperInv
<1>1. PaperInv /\ [Next]_vars => PaperInv'
  BY PaperNext
<1> QED BY PaperInit, <1>1, PTL DEF Spec

(***************************************************************************)
(* In every reachable state the variables have their types.                *)
(***************************************************************************)
THEOREM TypeCorrect == Spec => []TypeOK
<1>1. PaperInv => TypeOK
  BY DEF PaperInv
<1> QED BY PaperInvariant, <1>1, PTL

(***************************************************************************)
(* The document a dispute names as its credit note has a version on file,  *)
(* whatever statement of whichever upload failed.                          *)
(***************************************************************************)
THEOREM CreditNotesAreComplete == Spec => []LinkedNoteIsComplete
<1>1. PaperInv => LinkedNoteIsComplete
  BY DEF PaperInv, LinkFits
<1> QED BY PaperInvariant, <1>1, PTL

-----------------------------------------------------------------------------
(***************************************************************************)
(* Open exceptions.  A type that no two calls have found missing at once   *)
(* has one open row at most, and none while a call is about to insert it,  *)
(* which then is the only one.                                             *)
(***************************************************************************)

Inserts(c, t) == call[c].at = "insert" /\ call[c].type = t

RaceFree(t) ==
  /\ open[t] <= 1
  /\ \A c \in Calls : Inserts(c, t) =>
       open[t] = 0 /\ \A e \in Calls : Inserts(e, t) => e = c

RaceInv == \A t \in Types \ raced : RaceFree(t)

\* A call that is not about to insert leaves the rows alone.
LEMMA QuietRace ==
  ASSUME RaceInv, NEW c \in Calls, \A e \in Calls : e # c => call'[e] = call[e],
         call'[c].at # "insert", UNCHANGED <<open, raced>>
  PROVE  RaceInv'
BY DEF RaceInv, RaceFree, Inserts

LEMMA CountRace == ASSUME TypeOK, RaceInv, NEW c \in Calls, Count(c) PROVE RaceInv'
<1>1. CASE EndRaise(c) /\ UNCHANGED raced
  <2>1. UNCHANGED open
    BY DEF Count
  <2> QED BY <1>1, <2>1, EndRaiseMoves, QuietRace
<1>2. CASE /\ open[call[c].type] <= 0
           /\ call' = [call EXCEPT ![c].at = "insert"]
           /\ raced' = (IF OthersInserting(c) = {} THEN raced ELSE raced \cup {call[c].type})
  <2>1. /\ \A e \in Calls : e # c => call'[e] = call[e]
        /\ call'[c].at = "insert" /\ call'[c].type = call[c].type
    BY <1>2, AtMoves
  <2>2. UNCHANGED open /\ open \in [Types -> Nat]
    BY DEF Count, TypeOK
  <2>3. ASSUME NEW t \in Types \ raced' PROVE RaceFree(t)'
    <3>1. t \in Types \ raced /\ RaceFree(t)
      BY <1>2, <2>3 DEF RaceInv
    <3>2. CASE t # call[c].type
      BY <2>1, <2>2, <3>1, <3>2 DEF RaceFree, Inserts
    <3>3. CASE t = call[c].type
      <4>1. OthersInserting(c) = {}
        BY <1>2, <2>3, <3>3
      <4>2. \A e \in Calls : Inserts(e, t)' => e = c
        BY <2>1, <3>3, <4>1 DEF OthersInserting, Inserts
      <4>3. open'[t] = 0
        BY <1>2, <2>2, <3>3, <3>1
      <4> QED BY <4>2, <4>3 DEF RaceFree
    <3> QED BY <3>2, <3>3
  <2> QED BY <2>3 DEF RaceInv
<1>3. \/ EndRaise(c) /\ UNCHANGED raced
      \/ /\ open[call[c].type] <= 0
         /\ call' = [call EXCEPT ![c].at = "insert"]
         /\ raced' = (IF OthersInserting(c) = {} THEN raced ELSE raced \cup {call[c].type})
  BY DEF Count, TypeOK, Call
<1> QED BY <1>1, <1>2, <1>3

LEMMA InsertRace == ASSUME TypeOK, RaceInv, NEW c \in Calls, Insert(c) PROVE RaceInv'
<1>1. /\ EndRaise(c) /\ UNCHANGED raced /\ call[c].at = "insert"
      /\ open' = [open EXCEPT ![call[c].type] = @ + 1] /\ open \in [Types -> Nat]
      /\ call[c].type \in Types
  BY DEF Insert, TypeOK, Call
<1>2. call'[c].at = "idle" /\ \A e \in Calls : e # c => call'[e] = call[e]
  BY <1>1, EndRaiseMoves
<1>3. ASSUME NEW t \in Types \ raced' PROVE RaceFree(t)'
  <2>1. RaceFree(t)
    BY <1>1 DEF RaceInv
  <2>2. CASE t # call[c].type
    <3>1. open'[t] = open[t]
      BY <1>1, <2>2
    <3> QED BY <1>2, <2>1, <3>1 DEF RaceFree, Inserts
  <2>3. CASE t = call[c].type
    <3>1. Inserts(c, t)
      BY <1>1, <2>3 DEF Inserts
    <3>2. open[t] = 0 /\ \A e \in Calls : Inserts(e, t) => e = c
      BY <2>1, <3>1 DEF RaceFree
    <3>3. open'[t] = 1
      BY <1>1, <2>3, <3>2
    <3>4. \A e \in Calls : ~Inserts(e, t)'
      BY <1>2, <3>2 DEF Inserts
    <3> QED BY <3>3, <3>4 DEF RaceFree
  <2> QED BY <2>2, <2>3
<1> QED BY <1>3 DEF RaceInv

LEMMA ResolveRace ==
  ASSUME TypeOK, RaceInv, NEW type \in Types, ResolveException(type) PROVE RaceInv'
<1>1. /\ open' = [open EXCEPT ![type] = @ - 1] /\ open \in [Types -> Nat] /\ open[type] > 0
      /\ UNCHANGED <<raced, call>>
  BY DEF ResolveException, TypeOK
<1>2. ASSUME NEW t \in Types \ raced PROVE RaceFree(t)'
  <2>1. RaceFree(t)
    BY DEF RaceInv
  <2>2. open'[t] <= open[t] /\ (open[t] = 0 => open'[t] = 0) /\ open'[t] \in Nat /\ open[t] \in Nat
    BY <1>1
  <2> QED BY <1>1, <2>1, <2>2 DEF RaceFree, Inserts
<1> QED BY <1>1, <1>2 DEF RaceInv

\* The steps of a call that neither count nor insert exceptions leave the rows
\* alone and the call before or behind them.
LEMMA CallStepQuiet ==
  ASSUME TypeOK, NEW c \in Calls, CallStep(c)
  PROVE  \/ Count(c) \/ Insert(c)
         \/ /\ \A e \in Calls : e # c => call'[e] = call[e]
            /\ call'[c].at # "insert" /\ UNCHANGED <<open, raced>>
<1> DEFINE Quiet == /\ \A e \in Calls : e # c => call'[e] = call[e]
                    /\ call'[c].at # "insert" /\ UNCHANGED <<open, raced>>
<1>1. ASSUME NEW kind \in {"primary", "support"}, NEW name \in FileName, NEW content \in Content,
             BeginSupport(c, kind, name, content)
      PROVE  Quiet
  <2>1. UNCHANGED checks
    BY <1>1 DEF BeginSupport
  <2> QED BY <1>1, <2>1, BeginSupportMoves DEF checks
<1>2. ASSUME NEW name \in FileName, NEW content \in Content, BeginCreditNote(c, name, content)
      PROVE  Quiet
  <2>1. UNCHANGED checks
    BY <1>2 DEF BeginCreditNote
  <2> QED BY <1>2, <2>1, BeginCreditNoteMoves DEF checks
<1>3. CASE SaveFile(c)
  <2>1. PICK at \in {"create", "append"} : call' = [call EXCEPT ![c].at = at]
    BY <1>3 DEF SaveFile
  <2>2. call'[c].at = at /\ \A e \in Calls : e # c => call'[e] = call[e]
    BY <2>1, AtMoves
  <2>3. UNCHANGED checks
    BY <1>3 DEF SaveFile
  <2> QED BY <2>1, <2>2, <2>3 DEF checks
<1>4. CASE CreateDocument(c)
  <2>1. UNCHANGED checks
    BY <1>4 DEF CreateDocument
  <2> QED BY <1>4, <2>1, CreateDocumentMoves DEF checks
<1>5. CASE CreateVersion(c) /\ call' = [call EXCEPT ![c].at = "link"]
  <2>1. UNCHANGED checks
    BY <1>5 DEF CreateVersion
  <2> QED BY <1>5, <2>1, AtMoves DEF checks
<1>6. CASE End(c) /\ UNCHANGED checks
  BY <1>6, EndMoves DEF checks
<1>7. ASSUME NEW job \in {"scan", "raise"}, NEW type \in Types, BeginRaise(c, job, type), UNCHANGED checks
      PROVE  Quiet
  BY <1>7, BeginRaiseMoves DEF checks
<1>8. ScanDocuments(c) \/ AttemptRaise(c) =>
        UNCHANGED checks /\ \E job \in {"scan", "raise"}, type \in Types : BeginRaise(c, job, type)
  BY RaisedType DEF ScanDocuments, AttemptRaise, Types
<1>9. TearFile(c) \/ AppendVersion(c) \/ LinkCreditNote(c) \/ FailUpload(c) \/ FailRaise(c)
        => End(c) /\ UNCHANGED checks
  BY DEF TearFile, AppendVersion, LinkCreditNote, FailUpload, FailRaise
<1>10. CreateVersion(c) =>
        (End(c) \/ call' = [call EXCEPT ![c].at = "link"]) /\ UNCHANGED checks
  BY DEF CreateVersion
<1> QED
  BY <1>1, <1>2, <1>3, <1>4, <1>5, <1>6, <1>7, <1>8, <1>9, <1>10
  DEF CallStep

LEMMA RaceNext == ASSUME PaperInv, RaceInv, [Next]_vars PROVE RaceInv'
<1>1. TypeOK
  BY DEF PaperInv
<1>2. CASE UNCHANGED <<call, open, raced>>
  BY <1>2 DEF RaceInv, RaceFree, Inserts
<1>3. ASSUME NEW c \in Calls, CallStep(c) PROVE RaceInv'
  BY <1>1, <1>3, CallStepQuiet, QuietRace, CountRace, InsertRace
<1>4. ASSUME Next, ~\E c \in Calls : CallStep(c), ~\E type \in Types : ResolveException(type)
      PROVE  UNCHANGED <<call, open, raced>>
  BY <1>4 DEF Next, Ingest, UploadInvoice, Age, Extract, ValidateInvoice, FetchRules, LoseRun, Review,
              Restart, CreateRule, DeleteRule, checks
<1>5. UNCHANGED vars => UNCHANGED <<call, open, raced>>
  BY DEF vars, checks
<1> QED BY <1>1, <1>2, <1>3, <1>4, <1>5, ResolveRace

(***************************************************************************)
(* However scans and attempts of the activity overlap, two exceptions of a *)
(* type are open on the invoice only when two calls found none open while  *)
(* neither had inserted its own.                                           *)
(***************************************************************************)
THEOREM ExceptionsOpenOnce == Spec => []OneOpenException
<1>1. Init => RaceInv
  BY NoCallType DEF Init, RaceInv, RaceFree, Inserts
<1>2. PaperInv /\ RaceInv /\ [Next]_vars => RaceInv'
  BY RaceNext
<1>3. PaperInv /\ RaceInv => OneOpenException
  BY DEF PaperInv, TypeOK, RaceInv, RaceFree, OneOpenException
<1> QED BY PaperInvariant, <1>1, <1>2, <1>3, PTL DEF Spec

\* The calls about to insert an exception of a type.
Inserting(t) == {c \in Calls : Inserts(c, t)}

\* The open exceptions of a type and those about to be inserted: one for each
\* call at most.
OpenBounded == \A t \in Types : open[t] + Cardinality(Inserting(t)) <= Cardinality(Calls)

LEMMA FewerInserting ==
  ASSUME IsFiniteSet(Calls), NEW t
  PROVE  /\ IsFiniteSet(Inserting(t)) /\ Cardinality(Inserting(t)) \in Nat /\ Cardinality(Calls) \in Nat
         /\ Cardinality(Inserting(t)) <= Cardinality(Calls)
<1>1. Inserting(t) \in SUBSET Calls
  BY DEF Inserting
<1> QED BY <1>1, FS_Subset, FS_CardinalityType

\* A call that is not about to insert makes no difference.
LEMMA QuietBounded ==
  ASSUME TypeOK, IsFiniteSet(Calls), OpenBounded, NEW c \in Calls,
         \A e \in Calls : e # c => call'[e] = call[e], call'[c].at # "insert", UNCHANGED open
  PROVE  OpenBounded'
<1> SUFFICES ASSUME NEW t \in Types
             PROVE  open'[t] + Cardinality(Inserting(t)') <= Cardinality(Calls)
  BY DEF OpenBounded
<1>1. Inserting(t)' \in SUBSET Inserting(t)
  BY DEF Inserting, Inserts
<1>2. Cardinality(Inserting(t)') <= Cardinality(Inserting(t)) /\ Cardinality(Inserting(t)') \in Nat
  BY <1>1, FewerInserting, FS_Subset, FS_CardinalityType
<1>3. open[t] \in Nat /\ Cardinality(Inserting(t)) \in Nat /\ Cardinality(Calls) \in Nat
  BY FewerInserting DEF TypeOK
<1>4. open[t] + Cardinality(Inserting(t)) <= Cardinality(Calls)
  BY DEF OpenBounded
<1> QED BY <1>2, <1>3, <1>4

\* A call counts none open before it gets ready to insert.
LEMMA CountBounded ==
  ASSUME TypeOK, IsFiniteSet(Calls), OpenBounded, NEW c \in Calls, Count(c) PROVE OpenBounded'
<1>1. UNCHANGED open /\ open \in [Types -> Nat] /\ call[c].type \in Types
  BY DEF Count, TypeOK, Call
<1>2. CASE EndRaise(c)
  BY <1>1, <1>2, EndRaiseMoves, QuietBounded
<1>3. CASE open[call[c].type] <= 0 /\ call' = [call EXCEPT ![c].at = "insert"]
  <2>1. (\A e \in Calls : e # c => call'[e] = call[e]) /\ call'[c].type = call[c].type
    BY <1>3, AtMoves
  <2>2. ASSUME NEW t \in Types PROVE open'[t] + Cardinality(Inserting(t)') <= Cardinality(Calls)
    <3>1. CASE t = call[c].type
      <4>1. open'[t] = 0
        BY <1>1, <1>3, <3>1
      <4>2. Inserting(t)' \in SUBSET Calls
        BY DEF Inserting
      <4>3. Cardinality(Inserting(t)') <= Cardinality(Calls) /\ Cardinality(Inserting(t)') \in Nat
        BY <4>2, FS_Subset, FS_CardinalityType
      <4> QED BY <4>1, <4>3
    <3>2. CASE t # call[c].type
      <4>1. Inserting(t)' \in SUBSET Inserting(t)
        BY <2>1, <3>2 DEF Inserting, Inserts
      <4>2. Cardinality(Inserting(t)') <= Cardinality(Inserting(t)) /\ Cardinality(Inserting(t)') \in Nat
        BY <4>1, FewerInserting, FS_Subset, FS_CardinalityType
      <4>3. open[t] + Cardinality(Inserting(t)) <= Cardinality(Calls) /\ open[t] \in Nat
        BY <1>1 DEF OpenBounded
      <4> QED BY <1>1, <4>2, <4>3, FewerInserting
    <3> QED BY <3>1, <3>2
  <2> QED BY <2>2 DEF OpenBounded
<1> QED BY <1>1, <1>2, <1>3 DEF Count

LEMMA InsertBounded ==
  ASSUME TypeOK, IsFiniteSet(Calls), OpenBounded, NEW c \in Calls, Insert(c) PROVE OpenBounded'
<1>1. /\ EndRaise(c) /\ call[c].at = "insert" /\ open \in [Types -> Nat] /\ call[c].type \in Types
      /\ open' = [open EXCEPT ![call[c].type] = @ + 1]
  BY DEF Insert, TypeOK, Call
<1>2. call'[c].at = "idle" /\ \A e \in Calls : e # c => call'[e] = call[e]
  BY <1>1, EndRaiseMoves
<1>3. ASSUME NEW t \in Types PROVE open'[t] + Cardinality(Inserting(t)') <= Cardinality(Calls)
  <2>1. open[t] + Cardinality(Inserting(t)) <= Cardinality(Calls) /\ open[t] \in Nat
    BY <1>1 DEF OpenBounded
  <2>2. /\ IsFiniteSet(Inserting(t)) /\ Cardinality(Inserting(t)) \in Nat /\ Cardinality(Calls) \in Nat
    BY FewerInserting
  <2>3. Inserting(t)' = Inserting(t) \ {c} /\ (c \in Inserting(t) <=> t = call[c].type)
    BY <1>1, <1>2 DEF Inserting, Inserts
  <2>4. Cardinality(Inserting(t)') =
          IF t = call[c].type THEN Cardinality(Inserting(t)) - 1 ELSE Cardinality(Inserting(t))
    BY <2>2, <2>3, FS_RemoveElement
  <2>5. open'[t] = IF t = call[c].type THEN open[t] + 1 ELSE open[t]
    BY <1>1
  <2> QED BY <2>1, <2>2, <2>4, <2>5
<1> QED BY <1>3 DEF OpenBounded

LEMMA ResolveBounded ==
  ASSUME TypeOK, IsFiniteSet(Calls), OpenBounded, NEW type \in Types, ResolveException(type)
  PROVE  OpenBounded'
<1>1. /\ open' = [open EXCEPT ![type] = @ - 1] /\ open \in [Types -> Nat] /\ call' = call
  BY DEF ResolveException, TypeOK
<1>2. ASSUME NEW t \in Types PROVE open'[t] + Cardinality(Inserting(t)') <= Cardinality(Calls)
  <2>1. open[t] + Cardinality(Inserting(t)) <= Cardinality(Calls)
    BY DEF OpenBounded
  <2>2. Inserting(t)' = Inserting(t)
    BY <1>1 DEF Inserting, Inserts
  <2>3. open'[t] <= open[t] /\ open'[t] \in Int /\ open[t] \in Nat
    BY <1>1
  <2> QED BY <2>1, <2>2, <2>3, FewerInserting
<1> QED BY <1>2 DEF OpenBounded

LEMMA BoundedNext ==
  ASSUME TypeOK, IsFiniteSet(Calls), OpenBounded, [Next]_vars PROVE OpenBounded'
<1>1. CASE UNCHANGED <<call, open>>
  BY <1>1 DEF OpenBounded, Inserting, Inserts
<1>2. ASSUME NEW c \in Calls, CallStep(c) PROVE OpenBounded'
  BY <1>2, CallStepQuiet, QuietBounded, CountBounded, InsertBounded
<1>3. ASSUME Next, ~\E c \in Calls : CallStep(c), ~\E type \in Types : ResolveException(type)
      PROVE  UNCHANGED <<call, open>>
  BY <1>3 DEF Next, Ingest, UploadInvoice, Age, Extract, ValidateInvoice, FetchRules, LoseRun, Review,
              Restart, CreateRule, DeleteRule, checks
<1>4. UNCHANGED vars => UNCHANGED <<call, open>>
  BY DEF vars, checks
<1> QED BY <1>1, <1>2, <1>3, <1>4, ResolveBounded

(***************************************************************************)
(* What the race between the count and the insert of an exception can cost *)
(* at worst: never are more exceptions of a type open on an invoice than   *)
(* there are scans and attempts under way at once, however long it runs.   *)
(***************************************************************************)
THEOREM OpenExceptionsBounded ==
  ASSUME IsFiniteSet(Calls)
  PROVE  Spec => [](\A t \in Types : open[t] <= Cardinality(Calls))
<1>1. Init => OpenBounded
  <2> SUFFICES ASSUME Init, NEW t \in Types
               PROVE  open[t] + Cardinality(Inserting(t)) <= Cardinality(Calls)
    BY DEF OpenBounded
  <2>1. Inserting(t) = {} /\ open[t] = 0
    BY NoCallType DEF Init, Inserting, Inserts
  <2> QED BY <2>1, FS_EmptySet, FewerInserting
<1>2. TypeOK /\ OpenBounded => \A t \in Types : open[t] <= Cardinality(Calls)
  <2> SUFFICES ASSUME TypeOK, OpenBounded, NEW t \in Types PROVE open[t] <= Cardinality(Calls)
    OBVIOUS
  <2>1. open[t] \in Nat /\ open[t] + Cardinality(Inserting(t)) <= Cardinality(Calls)
    BY DEF TypeOK, OpenBounded
  <2> QED BY <2>1, FewerInserting
<1>3. TypeOK /\ OpenBounded /\ [Next]_vars => OpenBounded'
  BY BoundedNext
<1> QED BY TypeCorrect, <1>1, <1>2, <1>3, PTL DEF Spec

-----------------------------------------------------------------------------
(***************************************************************************)
(* Files.  Once saved, a file is under its key until another is saved      *)
(* there, which overwrites the version of the first if it is on file, and  *)
(* outruns the call that is about to add it otherwise.                     *)
(***************************************************************************)

CallsKept ==
  \A c \in Recording : store[call[c].key] = call[c].content \/ c \in outrun

\* The version v of the document d that ingestion filed without its file.
Unsent(d, v) == filedBy = "json" /\ docs[d].kind = "primary" /\ v = 1

VersionKept(d, v) ==
  \/ store[docs[d].versions[v].key] = docs[d].versions[v].hash
  \/ <<d, v>> \in overwritten
  \/ Unsent(d, v)

VersionsKept == \A d \in 1 .. Len(docs) : \A v \in 1 .. Len(docs[d].versions) : VersionKept(d, v)

FileInv == CallsKept /\ VersionsKept

LEMMA VersionTypes ==
  ASSUME TypeOK, NEW d \in 1 .. Len(docs), NEW v \in 1 .. Len(docs[d].versions)
  PROVE  docs[d].versions[v].key \in Key /\ docs[d].versions[v].hash \in Content
<1>1. docs[d] \in Document
  BY DEF TypeOK
<1>2. docs[d].versions \in Seq(Version)
  BY <1>1 DEF Document
<1>3. docs[d].versions[v] \in Version
  BY <1>2
<1> QED BY <1>3 DEF Version

\* A step that neither saves a file nor adds a version.
LEMMA QuietFiles ==
  ASSUME FileInv, NEW c \in Calls, \A e \in Calls : e # c => call'[e] = call[e],
         c \notin Recording', UNCHANGED <<filedBy, docs, store, history>>
  PROVE  FileInv'
BY DEF FileInv, CallsKept, VersionsKept, VersionKept, Recording, Unsent

\* What a saved file leaves in order, for documents that stay as they are.
LEMMA PutVersions ==
  ASSUME TypeOK, VersionsKept, NEW key \in Key, NEW file, Put(key, file), UNCHANGED <<filedBy, docs>>
  PROVE  VersionsKept'
<1> SUFFICES ASSUME NEW d \in 1 .. Len(docs), NEW v \in 1 .. Len(docs[d].versions)
             PROVE  VersionKept(d, v)'
  BY DEF VersionsKept
<1>1. VersionKept(d, v)
  BY DEF VersionsKept
<1> PICK k \in Key, x \in Content : k = docs[d].versions[v].key /\ x = docs[d].versions[v].hash
  BY VersionTypes
<1>2. CASE k = key
  <2>1. <<d, v>> \in OnFile
    BY OnFileType
  <2>2. <<d, v>> \in overwritten'
    BY <1>2, <2>1 DEF Put
  <2> QED BY <2>2 DEF VersionKept
<1>3. CASE k # key
  <2>1. store'[k] = store[k] /\ overwritten \subseteq overwritten'
    BY <1>3 DEF Put, TypeOK
  <2> QED BY <1>1, <2>1 DEF VersionKept, Unsent
<1> QED BY <1>2, <1>3

LEMMA PutCalls ==
  ASSUME TypeOK, CallsKept, NEW key \in Key, NEW file, Put(key, file), NEW e \in Recording
  PROVE  store'[call[e].key] = call[e].content \/ e \in outrun'
<1>1. e \in Calls /\ call[e].key \in Key
  BY DEF Recording, TypeOK, Call
<1>2. CASE call[e].key = key
  BY <1>2 DEF Put
<1>3. CASE call[e].key # key
  <2>1. store'[call[e].key] = store[call[e].key]
    BY <1>1, <1>3 DEF Put, TypeOK
  <2> QED BY <2>1 DEF Put, CallsKept
<1> QED BY <1>2, <1>3

LEMMA SaveFileFiles == ASSUME PaperInv, FileInv, NEW c \in Calls, SaveFile(c) PROVE FileInv'
<1>1. /\ TypeOK /\ CallsKept /\ VersionsKept /\ call[c] \in Call
      /\ Put(call[c].key, call[c].content) /\ UNCHANGED <<filedBy, docs>>
      /\ store \in [Key -> Content \cup {Absent, Torn}]
  BY DEF PaperInv, FileInv, SaveFile, TypeOK
<1>2. call[c].key \in Key
  BY <1>1 DEF Call
<1>3. PICK at \in {"create", "append"} : call' = [call EXCEPT ![c].at = at]
  BY DEF SaveFile
<1>4. /\ \A e \in Calls : e # c => call'[e] = call[e]
      /\ call'[c].key = call[c].key /\ call'[c].content = call[c].content
  BY <1>1, <1>3, AtMoves
<1>5. store'[call[c].key] = call[c].content
  BY <1>1, <1>2 DEF Put
<1>6. VersionsKept'
  BY <1>1, <1>2, PutVersions
<1>7. ASSUME NEW e \in Calls, e \in Recording'
      PROVE  store'[call'[e].key] = call'[e].content \/ e \in outrun'
  <2>1. CASE e = c
    BY <1>4, <1>5, <2>1
  <2>2. CASE e # c
    <3>1. e \in Recording /\ call'[e] = call[e]
      BY <1>4, <1>7, <2>2 DEF Recording
    <3> QED BY <1>1, <1>2, <3>1, PutCalls
  <2> QED BY <2>1, <2>2
<1>8. Recording' \subseteq Calls
  BY DEF Recording
<1> QED BY <1>6, <1>7, <1>8 DEF FileInv, CallsKept

LEMMA TearFileFiles == ASSUME PaperInv, FileInv, NEW c \in Calls, TearFile(c) PROVE FileInv'
<1>1. /\ TypeOK /\ CallsKept /\ VersionsKept /\ call[c].key \in Key
      /\ Put(call[c].key, Torn) /\ End(c) /\ UNCHANGED <<filedBy, docs>>
  BY DEF PaperInv, FileInv, TearFile, TypeOK, Call
<1>2. call'[c].at = "idle" /\ \A e \in Calls : e # c => call'[e] = call[e]
  BY <1>1, EndMoves
<1>3. VersionsKept'
  BY <1>1, PutVersions
<1>4. ASSUME NEW e \in Recording'
      PROVE  store'[call'[e].key] = call'[e].content \/ e \in outrun'
  <2>1. e \in Recording /\ call'[e] = call[e]
    BY <1>2 DEF Recording
  <2> QED BY <1>1, <2>1, PutCalls
<1> QED BY <1>3, <1>4 DEF FileInv, CallsKept

LEMMA CreateDocumentFiles == ASSUME PaperInv, FileInv, NEW c \in Calls, CreateDocument(c) PROVE FileInv'
<1>1. /\ TypeOK /\ CallsKept /\ VersionsKept /\ UNCHANGED <<filedBy, store, history>>
      /\ call[c].at = "create"
  BY DEF PaperInv, FileInv, CreateDocument
<1>2. /\ \A e \in Calls : e # c => call'[e] = call[e]
      /\ call'[c].key = call[c].key /\ call'[c].content = call[c].content
      /\ Len(docs') = Len(docs) + 1 /\ docs'[Len(docs) + 1].versions = << >>
      /\ \A e \in 1 .. Len(docs) : docs'[e] = docs[e]
  <2>1. docs'[Len(docs) + 1] = [kind |-> call[c].kind, versions |-> << >>]
    BY <1>1, CreateDocumentMoves
  <2>2. docs'[Len(docs) + 1].versions = << >>
    BY <2>1
  <2> QED BY <1>1, <2>2, CreateDocumentMoves
<1>3. CallsKept'
  BY <1>1, <1>2 DEF CallsKept, Recording
<1>4. Len(docs) \in Nat
  BY <1>1 DEF TypeOK
<1>5. ASSUME NEW d \in 1 .. Len(docs'), NEW v \in 1 .. Len(docs'[d].versions)
      PROVE  VersionKept(d, v)'
  <2>1. d # Len(docs) + 1
    BY <1>2, <1>5
  <2>2. d \in 1 .. Len(docs) /\ docs'[d] = docs[d]
    BY <1>2, <1>4, <2>1
  <2>3. VersionKept(d, v)
    BY <1>1, <2>2 DEF VersionsKept
  <2> QED BY <1>1, <2>2, <2>3 DEF VersionKept, Unsent
<1> QED BY <1>3, <1>5 DEF FileInv, VersionsKept

\* The version that a call adds is in order when the call's file is.
LEMMA AddedFiles ==
  ASSUME PaperInv, FileInv, NEW c \in Calls, AddVersion(c), call[c].at \in {"version", "append"},
         UNCHANGED <<filedBy, store>>
  PROVE  VersionsKept'
<1>1. TypeOK /\ CallsKept /\ VersionsKept /\ Fits(call[c], docs)
  BY DEF PaperInv, FileInv, AllFit
<1>2. call[c].content \in Content /\ call[c].doc \in 1 .. Len(docs) /\ c \in Recording
  BY <1>1 DEF Recording, Fits
<1> DEFINE new == call[c].doc
           version == [key |-> call[c].key, hash |-> call[c].content]
<1>3. /\ version \in Version /\ docs' \in Seq(Document) /\ Len(docs') = Len(docs)
      /\ docs'[new].kind = docs[new].kind /\ docs'[new].versions = Append(docs[new].versions, version)
      /\ \A e \in 1 .. Len(docs) : e # new => docs'[e] = docs[e]
  <2>1. new = call[c].doc /\ new \in 1 .. Len(docs)
    BY <1>2
  <2>2. version = [key |-> call[c].key, hash |-> call[c].content]
    OBVIOUS
  <2> HIDE DEF new, version
  <2> QED BY <1>1, <1>2, <2>1, <2>2, AddVersionType
<1>4. version.key = call[c].key /\ version.hash = call[c].content
  OBVIOUS
<1>5. docs[new] \in Document
  BY <1>1, <1>2 DEF TypeOK
<1>6. docs[new].versions \in Seq(Version)
  BY <1>5 DEF Document
<1>7. /\ new \in 1 .. Len(docs)
      /\ store[version.key] = version.hash \/ <<new, Len(docs[new].versions) + 1>> \in overwritten'
      /\ overwritten \subseteq overwritten'
  <2>1. store[version.key] = version.hash \/ c \in outrun
    BY <1>1, <1>2, <1>4 DEF CallsKept
  <2> QED BY <1>2, <2>1 DEF AddVersion
<1> HIDE DEF new, version
<1> SUFFICES ASSUME NEW d \in 1 .. Len(docs'), NEW v \in 1 .. Len(docs'[d].versions)
             PROVE  VersionKept(d, v)'
  BY DEF VersionsKept
<1>8. CASE d # new
  <2>1. d \in 1 .. Len(docs) /\ docs'[d] = docs[d]
    BY <1>3, <1>8
  <2>2. VersionKept(d, v)
    BY <1>1, <2>1 DEF VersionsKept
  <2> QED BY <1>7, <2>1, <2>2 DEF VersionKept, Unsent
<1>9. CASE d = new
  <2> DEFINE old == docs[new].versions
  <2>1. old \in Seq(Version) /\ docs'[d].versions = Append(old, version) /\ docs'[d].kind = docs[d].kind
    BY <1>3, <1>6, <1>9
  <2> HIDE DEF old
  <2>2. Len(docs'[d].versions) = Len(old) + 1 /\ Len(old) \in Nat
    BY <1>3, <2>1
  <2>3. CASE v = Len(old) + 1
    <3>1. docs'[d].versions[v] = version
      BY <1>3, <2>1, <2>3
    <3>2. <<d, v>> = <<new, Len(docs[new].versions) + 1>>
      BY <1>9, <2>3 DEF old
    <3> QED BY <1>7, <3>1, <3>2 DEF VersionKept
  <2>4. CASE v \in 1 .. Len(old)
    <3>1. docs'[d].versions[v] = old[v]
      BY <1>3, <2>1, <2>4
    <3>2. VersionKept(d, v) /\ old = docs[d].versions
      BY <1>1, <1>7, <1>9, <2>4 DEF VersionsKept, old
    <3> QED BY <1>7, <2>1, <3>1, <3>2 DEF VersionKept, Unsent
  <2> QED BY <2>2, <2>3, <2>4
<1> QED BY <1>8, <1>9

LEMMA IngestFiles ==
  ASSUME PaperInv, FileInv, NEW name \in FileName, NEW content \in Content, Ingest(name, content)
  PROVE  FileInv'
<1> DEFINE key == [credit |-> FALSE, name |-> name]
           version == [key |-> key, hash |-> content]
           whole == <<[kind |-> "primary", versions |-> <<version>>]>>
           bare == <<[kind |-> "primary", versions |-> << >>]>>
<1>1. /\ docs' \in {whole, << >>, bare} /\ filedBy' = "json"
      /\ UNCHANGED <<store, history, call>>
  BY DEF Ingest, FilePrimary
<1>2. CallsKept'
  BY <1>1 DEF FileInv, CallsKept, Recording
<1>3. ASSUME NEW d \in 1 .. Len(docs'), NEW v \in 1 .. Len(docs'[d].versions) PROVE VersionKept(d, v)'
  <2>1. d = 1 /\ docs'[d].kind = "primary" /\ v = 1
    <3> HIDE DEF version
    <3>1. CASE docs' = whole
      <4>1. /\ Len(docs') = 1 /\ docs'[1].versions = <<version>> /\ docs'[1].kind = "primary"
            /\ Len(<<version>>) = 1
        BY <3>1
      <4> HIDE DEF whole
      <4>2. d = 1
        BY <4>1
      <4>3. v \in 1 .. 1
        BY <4>1, <4>2
      <4> QED BY <4>1, <4>2, <4>3
    <3>2. CASE docs' = << >>
      <4>1. Len(docs') = 0
        BY <3>2
      <4> QED BY <1>3, <4>1
    <3>3. CASE docs' = bare
      <4>1. Len(docs') = 1 /\ docs'[1].versions = << >>
        BY <3>3
      <4>2. Len(docs'[d].versions) = 0
        BY <1>3, <4>1
      <4> QED BY <1>3, <4>2
    <3> QED BY <1>1, <3>1, <3>2, <3>3
  <2> QED BY <1>1, <2>1 DEF VersionKept, Unsent
<1> QED BY <1>2, <1>3 DEF FileInv, VersionsKept

LEMMA UploadInvoiceFiles ==
  ASSUME PaperInv, FileInv, NEW name \in FileName, NEW content \in Content, UploadInvoice(name, content)
  PROVE  FileInv'
<1> DEFINE key == [credit |-> FALSE, name |-> name]
           version == [key |-> key, hash |-> content]
           whole == <<[kind |-> "primary", versions |-> <<version>>]>>
           bare == <<[kind |-> "primary", versions |-> << >>]>>
<1>1. UNCHANGED call /\ filedBy = "nobody"
  BY DEF UploadInvoice
<1>2. CallsKept'
  BY <1>1 DEF PaperInv, Blank, CallsKept, Recording
<1>3. docs = << >>
  BY <1>1 DEF PaperInv, Blank
<1>4. \/ store' = [store EXCEPT ![key] = content] /\ docs' \in {whole, << >>, bare}
      \/ docs' = << >>
  BY <1>3 DEF UploadInvoice, FilePrimary, Put
<1>5. ASSUME NEW d \in 1 .. Len(docs'), NEW v \in 1 .. Len(docs'[d].versions) PROVE VersionKept(d, v)'
  <2>1. docs' # << >>
    BY <1>5
  <2>2. key \in Key /\ store \in [Key -> Content \cup {Absent, Torn}]
    BY DEF Key, PaperInv, TypeOK
  <2>3. store' = [store EXCEPT ![key] = content] /\ docs' \in {whole, bare}
    BY <1>4, <2>1
  <2>4. store'[key] = content
    BY <2>2, <2>3
  <2>5. docs'[d].versions[v] = version
    <3> HIDE DEF version
    <3>1. CASE docs' = whole
      BY <1>5, <3>1
    <3>2. CASE docs' = bare
      BY <1>5, <3>2
    <3> QED BY <2>3, <3>1, <3>2
  <2>6. version.key = key /\ version.hash = content
    OBVIOUS
  <2> HIDE DEF version, key
  <2> QED BY <2>4, <2>5, <2>6 DEF VersionKept
<1> QED BY <1>2, <1>5 DEF FileInv, VersionsKept

LEMMA FileNext == ASSUME PaperInv, FileInv, [Next]_vars PROVE FileInv'
<1>1. TypeOK
  BY DEF PaperInv
<1>2. CASE UNCHANGED <<filedBy, docs, store, history, call>>
  BY <1>2 DEF FileInv, CallsKept, VersionsKept, VersionKept, Recording, Unsent
<1>3. ASSUME NEW c \in Calls, CallStep(c) PROVE FileInv'
  <2>1. CASE \E kind \in {"primary", "support"}, name \in FileName, content \in Content :
               BeginSupport(c, kind, name, content)
    <3>1. PICK kind \in {"primary", "support"}, name \in FileName, content \in Content :
            BeginSupport(c, kind, name, content)
      BY <2>1
    <3>2. UNCHANGED <<filedBy, docs, store, history>>
      BY <3>1 DEF BeginSupport, papers
    <3> QED BY <1>1, <3>1, <3>2, BeginSupportMoves, QuietFiles DEF Recording
  <2>2. CASE \E name \in FileName, content \in Content : BeginCreditNote(c, name, content)
    <3>1. PICK name \in FileName, content \in Content : BeginCreditNote(c, name, content)
      BY <2>2
    <3>2. UNCHANGED <<filedBy, docs, store, history>>
      BY <3>1 DEF BeginCreditNote, papers
    <3> QED BY <1>1, <3>1, <3>2, BeginCreditNoteMoves, QuietFiles DEF Recording
  <2>3. CASE CreateVersion(c) \/ AppendVersion(c)
    <3>1. UNCHANGED <<filedBy, store, outrun>> /\ call[c].at \in {"version", "append"}
      BY <2>3 DEF CreateVersion, AppendVersion, AddVersion
    <3>2. VersionsKept'
      <4>1. AddVersion(c) \/ UNCHANGED <<docs, history>>
        BY <2>3 DEF CreateVersion, AppendVersion
      <4>2. CASE UNCHANGED <<docs, history>>
        BY <3>1, <4>2 DEF FileInv, VersionsKept, VersionKept, Unsent
      <4> QED BY <3>1, <4>1, <4>2, AddedFiles
    <3>3. End(c) \/ call' = [call EXCEPT ![c].at = "link"]
      BY <2>3 DEF CreateVersion, AppendVersion
    <3>4. /\ call'[c].at \notin {"create", "version", "append"}
          /\ \A e \in Calls : e # c => call'[e] = call[e]
      BY <1>1, <3>3, EndMoves, AtMoves
    <3>5. CallsKept'
      BY <3>1, <3>4 DEF FileInv, CallsKept, Recording
    <3> QED BY <3>2, <3>5 DEF FileInv
  <2>4. CASE End(c) /\ UNCHANGED <<filedBy, docs, store, history>>
    BY <1>1, <2>4, EndMoves, QuietFiles DEF Recording
  <2>5. ASSUME NEW job \in {"scan", "raise"}, NEW type \in Types, BeginRaise(c, job, type),
               UNCHANGED <<filedBy, docs, store, history>>
        PROVE  FileInv'
    BY <1>1, <2>5, BeginRaiseMoves, QuietFiles DEF Recording
  <2>6. CASE call' = [call EXCEPT ![c].at = "insert"] /\ UNCHANGED <<filedBy, docs, store, history>>
    BY <1>1, <2>6, AtMoves, QuietFiles DEF Recording
  <2>7. LinkCreditNote(c) \/ FailUpload(c) \/ Insert(c) \/ FailRaise(c)
          => End(c) /\ UNCHANGED <<filedBy, docs, store, history>>
    BY DEF LinkCreditNote, FailUpload, Insert, FailRaise, EndRaise, papers
  <2>8. Count(c) => /\ UNCHANGED <<filedBy, docs, store, history>>
                    /\ End(c) \/ call' = [call EXCEPT ![c].at = "insert"]
    BY DEF Count, EndRaise, papers
  <2>9. ScanDocuments(c) \/ AttemptRaise(c) =>
          /\ UNCHANGED <<filedBy, docs, store, history>>
          /\ \E job \in {"scan", "raise"}, type \in Types : BeginRaise(c, job, type)
    BY <1>1, RaisedType DEF ScanDocuments, AttemptRaise, Types, papers
  <2> QED
    BY <1>3, <2>1, <2>2, <2>3, <2>4, <2>5, <2>6, <2>7, <2>8, <2>9, SaveFileFiles, TearFileFiles,
       CreateDocumentFiles DEF CallStep
<1>4. ASSUME Next, ~\E c \in Calls : CallStep(c),
             ~\E name \in FileName, content \in Content : Ingest(name, content) \/ UploadInvoice(name, content)
      PROVE  UNCHANGED <<filedBy, docs, store, history, call>>
  BY <1>4 DEF Next, Age, ResolveException, Extract, ValidateInvoice, FetchRules, LoseRun, Review,
              Restart, CreateRule, DeleteRule, papers
<1>5. UNCHANGED vars => UNCHANGED <<filedBy, docs, store, history, call>>
  BY DEF vars, papers
<1> QED BY <1>2, <1>3, <1>4, <1>5, IngestFiles, UploadInvoiceFiles

(***************************************************************************)
(* A version whose file was sent is served as it was hashed, until a file  *)
(* is saved under its key after its own.                                   *)
(***************************************************************************)
THEOREM FilesServedAsHashed == Spec => []ServedAsHashed
<1>1. Init => FileInv
  BY NoCallType DEF Init, FileInv, CallsKept, VersionsKept, Recording
<1>2. PaperInv /\ FileInv /\ [Next]_vars => FileInv'
  BY FileNext
<1>3. FileInv => ServedAsHashed
  <2> SUFFICES ASSUME VersionsKept, NEW p \in OnFile
               PROVE  \/ Serve(p[1], p[2]) = docs[p[1]].versions[p[2]].hash
                      \/ p \in overwritten
                      \/ Unsent(p[1], p[2])
    BY DEF FileInv, ServedAsHashed, Unsent
  <2>1. PICK d \in 1 .. Len(docs) : p \in {d} \X (1 .. Len(docs[d].versions))
    BY DEF OnFile
  <2>2. PICK v \in 1 .. Len(docs[d].versions) : p = <<d, v>>
    BY <2>1
  <2>3. VersionKept(d, v)
    BY DEF VersionsKept
  <2> QED BY <2>2, <2>3 DEF VersionKept, Serve
<1> QED BY PaperInvariant, <1>1, <1>2, <1>3, PTL DEF Spec

-----------------------------------------------------------------------------
(***************************************************************************)
(* An extraction without findings whose total was read asks for every      *)
(* approval that a threshold demands of the total filed, but for the       *)
(* difference that validation tolerates.                                   *)
(***************************************************************************)

LEMMA ReadTotalIsNear ==
  ASSUME NEW data \in InvoiceData, data.gross > 0, NEW expected \in ExpectedInvoice,
         ValidateAgainstExpected(data, expected) = {}, NEW value \in Int,
         100 * value + AmountTolerance(expected.gross) < 100 * expected.gross
  PROVE  data.gross > value
<1>1. data.gross \in Nat /\ expected.gross \in Nat
  BY DEF InvoiceData, ExpectedInvoice
<1>2. ~Unreadable(data)
  BY DEF ValidateAgainstExpected, Validate
<1>3. ~Mismatched(data, expected)
  BY <1>2 DEF ValidateAgainstExpected
<1>4. ~AmountsDiffer(data.gross, expected.gross, AmountTolerance(expected.gross))
  BY <1>3 DEF Mismatched
<1>5. AmountTolerance(expected.gross) \in Nat /\ AmountTolerance(expected.gross) >= 10000
  BY <1>1 DEF AmountTolerance
<1> DEFINE read == data.gross
           filed == expected.gross
           tolerance == AmountTolerance(expected.gross)
<1>6. read \in Nat /\ filed \in Nat /\ tolerance \in Nat /\ tolerance >= 10000 /\ read > 0
  BY <1>1, <1>5
<1>7. 100 * value + tolerance < 100 * filed
  OBVIOUS
<1>8. filed = 0 \/ ~(100 * filed > 100 * read + tolerance)
  BY <1>4, <1>6 DEF AmountsDiffer, Apart
<1> HIDE DEF read, filed, tolerance
<1>9. read > value
  BY <1>6, <1>7, <1>8
<1> QED BY <1>9 DEF read

LEMMA FetchedRulesSee ==
  ASSUME TypeOK, FetchRules, run.data.gross > 0,
         ValidateAgainstExpected(run.data, Expected) = {},
         NEW rule \in RulesInForce(rules), rule.field = "GrossAmount", rule.operator = ">",
         100 * rule.value + AmountTolerance(Expected.gross) < 100 * Expected.gross
  PROVE  rule.action \in run'.required
<1>1. run.data \in InvoiceData /\ Expected \in ExpectedInvoice
  BY DataAssumption DEF TypeOK, Run
<1>2. rule.value \in Int
  BY DataAssumption DEF TypeOK, RulesInForce, DefaultTenantRules, TenantRule
<1>3. run.data.gross > rule.value
  BY <1>1, <1>2, ReadTotalIsNear
<1>4. EvaluateRule(rule, run.data)
  BY <1>3 DEF EvaluateRule, FieldValue
<1>5. rule.action \in Required
  BY <1>4 DEF Required, EvaluateAllRules
<1>6. run'.required = Required
  BY DEF FetchRules, TypeOK, Run
<1> QED BY <1>5, <1>6

\* A run that found nothing wrong with what was extracted asks for every approval
\* that a threshold demands of the filed total, but for the tolerated difference:
\* ThresholdsSeeFiledAmount.
THEOREM ThresholdsHold == Spec => ThresholdsSeeFiledAmount
<1> DEFINE Sees ==
  (run.at = "fetch" /\ run'.at = "end" /\ run.data.gross > 0
     /\ ValidateAgainstExpected(run.data, Expected) = {}) =>
       \A rule \in RulesInForce(rules) :
         (/\ rule.field = "GrossAmount" /\ rule.operator = ">"
          /\ 100 * rule.value + (IF Expected.gross < 10000 THEN 10000 ELSE Expected.gross)
               < 100 * Expected.gross)
         => rule.action \in run'.required
<1>1. TypeOK /\ [Next]_vars => [Sees]_vars
  <2> SUFFICES ASSUME TypeOK, Next, run.at = "fetch", run'.at = "end" PROVE FetchRules
    BY FetchedRulesSee DEF AmountTolerance
  <2>1. run \in Run
    BY DEF TypeOK
  <2>2. ASSUME NEW c \in Calls, CallStep(c) PROVE UNCHANGED run
    BY <2>2 DEF CallStep, BeginSupport, BeginCreditNote, SaveFile, TearFile, CreateDocument, CreateVersion,
                AppendVersion, LinkCreditNote, FailUpload, ScanDocuments, AttemptRaise, Count, Insert,
                FailRaise, EndRaise
  <2>3. run' # run
    OBVIOUS
  <2>4. ~(\E data \in Data : Extract(data)) /\ ~ValidateInvoice
        /\ ~(\E decision \in {"fetch", "end"} : Review(decision))
    BY DEF Extract, ValidateInvoice, Review
  <2>5. ~LoseRun /\ ~(\E source \in Ids : Restart(source))
    BY <2>1 DEF LoseRun, Restart, Run
  <2>6. ~(\E name \in FileName, content \in Content : Ingest(name, content) \/ UploadInvoice(name, content))
    BY <2>1, <2>3 DEF Ingest, UploadInvoice, FilePrimary, StartRun, Run
  <2> QED
    BY <2>2, <2>3, <2>4, <2>5, <2>6 DEF Next, Age, ResolveException, CreateRule, DeleteRule
<1> QED BY TypeCorrect, <1>1, PTL DEF Spec, ThresholdsSeeFiledAmount

=============================================================================
