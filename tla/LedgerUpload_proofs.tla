-------------------------- MODULE LedgerUpload_proofs --------------------------
(***************************************************************************)
(* What the device marks is on file, what is on file has a file and stays, *)
(* and a synced bundle is complete for good: for any bundle, any roles,    *)
(* any number of requests and any failures. Primary documents filed twice  *)
(* are bounded by the requests and the failed lookups.                     *)
(***************************************************************************)
EXTENDS LedgerUpload, FiniteSetTheorems, TLAPS

LEMMA PhotosNat == Photos \subseteq Nat /\ Primary \in Photos
  BY KindsAssumption DEF Photos, Primary

LEMMA KindTyped == \A p \in Photos : KindOf(p) \in AllKinds /\ (KindOf(p) = Invoice <=> p = Primary)
  BY KindsAssumption DEF Photos, Primary, KindOf, AllKinds

\* A request that is changed in place keeps its type.
LEMMA RequestTyped ==
  ASSUME NEW f \in [Slots -> Request], NEW s \in Slots, NEW r \in Request
  PROVE  [f EXCEPT ![s] = r] \in [Slots -> Request]
  OBVIOUS

LEMMA IdleTyped == Idle \in Request
  BY PhotosNat DEF Idle, Request

LEMMA AnswerTyped ==
  ASSUME request \in [Slots -> Request], NEW s \in Slots, NEW ok \in BOOLEAN, Answer(s, ok)
  PROVE  request' \in [Slots -> Request]
  BY IdleTyped DEF Answer, Request

LEMMA GotoTyped ==
  ASSUME request \in [Slots -> Request], NEW s \in Slots,
         NEW step \in {"create", "save", "document", "version", "append", "matching"},
         Goto(s, step)
  PROVE  request' \in [Slots -> Request]
  BY DEF Goto, Request

LEMMA OrphanTyped ==
  ASSUME request \in [Slots -> Request], NEW s \in Slots, Orphan(s)
  PROVE  request' \in [Slots -> Request]
  BY IdleTyped DEF Orphan, Request

LEMMA AfterVersionTyped ==
  ASSUME request \in [Slots -> Request], NEW s \in Slots, AfterVersion(s)
  PROVE  request' \in [Slots -> Request]
  BY AnswerTyped, GotoTyped DEF AfterVersion

LEMMA InitTypeOK == Init => TypeOK
<1> SUFFICES ASSUME Init PROVE TypeOK
  OBVIOUS
<1>1. request \in [Slots -> Request]
  BY IdleTyped DEF Init
<1>2. files \in [AllKinds -> Photos \cup {NoFile, Torn}]
  BY DEF Init
<1>3. docs \in Seq(Document)
  BY DEF Init
<1>4. faults \in 0 .. MaxFaults /\ losses \in 0 .. MaxLosses
  BY BoundsAssumption DEF Init
<1> QED
  BY <1>1, <1>2, <1>3, <1>4 DEF Init, TypeOK

LEMMA NextTypeOK == TypeOK /\ [Next]_vars => TypeOK'
<1> SUFFICES ASSUME TypeOK, [Next]_vars PROVE TypeOK'
  OBVIOUS
<1> USE BoundsAssumption
<1>1. CASE Sync \/ Finish
  BY <1>1 DEF Sync, Finish, TypeOK, stored
<1>2. CASE Kill
  <2>1. request' \in [Slots -> Request]
    BY <1>2, OrphanTyped DEF Kill, TypeOK
  <2>2. losses' \in 0 .. MaxLosses
    BY <1>2 DEF Kill, TypeOK
  <2> QED
    BY <1>2, <2>1, <2>2 DEF Kill, TypeOK, stored
<1>3. ASSUME NEW s \in Slots, Send(s) PROVE TypeOK'
  <2>1. request' \in [Slots -> Request]
    <3>1. PICK p \in Photos :
             request' = [request EXCEPT ![s] = [Idle EXCEPT !.at = "lookup", !.photo = p]]
      BY <1>3 DEF Send
    <3>2. [Idle EXCEPT !.at = "lookup", !.photo = p] \in Request
      BY IdleTyped DEF Request
    <3> QED
      BY <3>1, <3>2, RequestTyped DEF TypeOK
  <2> QED
    BY <1>3, <2>1 DEF Send, TypeOK, stored
<1>4. ASSUME NEW s \in Slots, Deliver(s) PROVE TypeOK'
  <2>1. request' \in [Slots -> Request]
    BY <1>4, IdleTyped DEF Deliver, TypeOK
  <2>2. request[s].photo \in Photos
    BY DEF TypeOK, Request
  <2> QED
    BY <1>4, <2>1, <2>2 DEF Deliver, Mark, TypeOK, stored
<1>5. ASSUME NEW s \in Slots, LoseConnection(s) \/ LoseSilently(s) PROVE TypeOK'
  <2>1. request' \in [Slots -> Request]
    BY <1>5, OrphanTyped DEF LoseConnection, LoseSilently, TypeOK
  <2>2. losses' \in 0 .. MaxLosses
    BY <1>5 DEF LoseConnection, LoseSilently, TypeOK
  <2> QED
    BY <1>5, <2>1, <2>2 DEF LoseConnection, LoseSilently, TypeOK, device, stored
<1>6. ASSUME NEW s \in Slots, Handle(s) PROVE TypeOK'
  <2>a. /\ request \in [Slots -> Request] /\ request[s] \in Request
        /\ request[s].photo \in Photos /\ request[s].doc \in Nat
        /\ docs \in Seq(Document)
    BY DEF TypeOK, Request
  <2>b. KindOf(request[s].photo) \in AllKinds
    BY <2>a, KindTyped
  <2>1. request' \in [Slots -> Request]
    <3>1. CASE LookupInvoice(s)
      BY <2>a, <3>1, AnswerTyped, GotoTyped DEF LookupInvoice
    <3>2. CASE LookupDocument(s)
      <4>1. ASSUME NEW d \in Oldest(KindOf(request[s].photo)),
                   request' = [request EXCEPT ![s].at = "save", ![s].doc = d]
            PROVE  request' \in [Slots -> Request]
        <5>1. d \in Nat
          BY <2>a DEF Oldest
        <5> QED
          BY <2>a, <4>1, <5>1 DEF Request
      <4> QED
        BY <2>a, <3>2, <4>1, AnswerTyped, GotoTyped DEF LookupDocument
    <3>3. CASE Misread(s)
      BY <2>a, <3>3, GotoTyped DEF Misread
    <3>4. CASE CreateInvoice(s)
      BY <2>a, <3>4, AnswerTyped, GotoTyped DEF CreateInvoice
    <3>5. CASE SaveFile(s)
      BY <2>a, <3>5, GotoTyped DEF SaveFile, AfterSave
    <3>6. CASE TearFile(s) \/ StartMatching(s) \/ RefusePrimary(s) \/ Fail(s)
      BY <2>a, <3>6, AnswerTyped DEF TearFile, StartMatching, RefusePrimary, Fail
    <3>7. CASE CreateDocument(s)
      <4>1. Len(docs) + 1 \in Nat
        BY <2>a
      <4> QED
        BY <2>a, <3>7, <4>1 DEF CreateDocument, Request
    <3>8. CASE CreateVersion(s) \/ AppendVersion(s)
      BY <2>a, <3>8, AnswerTyped, AfterVersionTyped DEF CreateVersion, AppendVersion
    <3> QED
      BY <1>6, <3>1, <3>2, <3>3, <3>4, <3>5, <3>6, <3>7, <3>8 DEF Handle
  <2>2. docs' \in Seq(Document)
    <3>1. CASE CreateDocument(s)
      <4>1. [kind |-> KindOf(request[s].photo), primary |-> request[s].photo = Primary,
             versions |-> << >>] \in Document
        BY <2>b DEF Document
      <4> QED
        BY <2>a, <3>1, <4>1 DEF CreateDocument
    <3>2. CASE AddVersion(s)
      <4>1. docs \in [DOMAIN docs -> Document]
        BY <2>a
      <4>2. ASSUME request[s].doc \in DOMAIN docs
            PROVE  [docs[request[s].doc] EXCEPT
                      !.versions = Append(docs[request[s].doc].versions, request[s].photo)]
                      \in Document
        <5>1. docs[request[s].doc] \in Document
          BY <4>1, <4>2
        <5>2. Append(docs[request[s].doc].versions, request[s].photo) \in Seq(Photos)
          BY <2>a, <5>1 DEF Document
        <5> QED
          BY <5>1, <5>2 DEF Document
      <4>3. docs' \in [DOMAIN docs -> Document]
        BY <3>2, <4>1, <4>2 DEF AddVersion
      <4> QED
        BY <2>a, <4>3
    <3> QED
      BY <1>6, <2>a, <3>1, <3>2 DEF Handle, LookupInvoice, LookupDocument, Misread, CreateInvoice,
           SaveFile, TearFile, CreateVersion, AppendVersion, StartMatching,
           RefusePrimary, Fail, stored
  <2>3. files' \in [AllKinds -> Photos \cup {NoFile, Torn}]
    <3>1. CASE SaveFile(s) \/ TearFile(s)
      BY <2>a, <2>b, <3>1 DEF SaveFile, TearFile, TypeOK
    <3> QED
      BY <1>6, <3>1 DEF Handle, LookupInvoice, LookupDocument, Misread, CreateInvoice,
           CreateDocument, CreateVersion, AppendVersion, StartMatching,
           RefusePrimary, Fail, stored, TypeOK
  <2>4. invoice' \in BOOLEAN /\ faults' \in 0 .. MaxFaults /\ losses' \in 0 .. MaxLosses
    <3>1. CASE Misread(s)
      BY <3>1 DEF Misread, TypeOK, stored
    <3>2. CASE TearFile(s)
      BY <3>2 DEF TearFile, TypeOK, stored
    <3>3. CASE Fail(s)
      BY <3>3 DEF Fail, TypeOK, stored
    <3> QED
      BY <1>6, <3>1, <3>2, <3>3 DEF Handle, LookupInvoice, LookupDocument, CreateInvoice, SaveFile,
           CreateDocument, CreateVersion, AppendVersion, StartMatching,
           RefusePrimary, stored, TypeOK
  <2>5. UNCHANGED device
    BY <1>6 DEF Handle, LookupInvoice, LookupDocument, Misread, CreateInvoice, SaveFile, TearFile,
         CreateDocument, CreateVersion, AppendVersion, StartMatching, RefusePrimary, Fail
  <2> QED
    BY <2>1, <2>2, <2>3, <2>4, <2>5 DEF TypeOK, device
<1>7. CASE UNCHANGED vars
  BY <1>7 DEF vars, device, stored, TypeOK
<1> QED
  BY <1>1, <1>2, <1>3, <1>4, <1>5, <1>6, <1>7 DEF Next

\* The type invariant of the upload, for any bundle and any bounds.
THEOREM TypeCorrect == Spec => []TypeOK
  BY InitTypeOK, NextTypeOK, PTL DEF Spec

-----------------------------------------------------------------------------
(***************************************************************************)
(* What a request has behind it at each step; with what the device has     *)
(* marked and what the versions need, it is inductive.                     *)
(***************************************************************************)

Filed == invoice /\ \E d \in DOMAIN docs : docs[d].primary

\* The document a request is about to add a version to.
OwnDocument(s) ==
  /\ request[s].doc \in DOMAIN docs
  /\ docs[request[s].doc].kind = KindOf(request[s].photo)
  /\ request[s].photo = Primary => docs[request[s].doc].primary

RequestInv(s) ==
  /\ request[s].at # "idle" /\ request[s].photo # Primary => known
  /\ request[s].at \in {"lookup", "create"} => request[s].doc = 0
  /\ request[s].at = "create" => request[s].photo = Primary
  /\ request[s].at \in {"save", "document", "version", "append"} /\ request[s].photo = Primary
       => invoice
  /\ request[s].at \in {"document", "version", "append"}
       => files[KindOf(request[s].photo)] # NoFile
  /\ request[s].at = "save" => request[s].doc = 0 \/ OwnDocument(s)
  /\ request[s].at \in {"version", "append"} => OwnDocument(s)
  /\ request[s].at = "matching" => request[s].photo # Primary /\ Recorded(request[s].photo)
  /\ request[s].at = "answer" /\ request[s].ok /\ request[s].photo = Primary => Filed
  /\ request[s].at = "answer" /\ request[s].ok /\ request[s].photo # Primary
       => Recorded(request[s].photo)

UploadInv ==
  /\ TypeOK
  /\ MarkedMeansRecorded
  /\ VersionsHaveFiles
  /\ \A s \in Slots : RequestInv(s)

LEMMA InitUploadInv == Init => UploadInv
  BY InitTypeOK DEF Init, UploadInv, MarkedMeansRecorded, VersionsHaveFiles, RequestInv, Idle

\* Nothing that has been stored is taken back.
Grows ==
  /\ invoice => invoice'
  /\ known => known'
  /\ DOMAIN docs \subseteq DOMAIN docs'
  /\ \A d \in DOMAIN docs :
       /\ docs'[d].kind = docs[d].kind /\ docs'[d].primary = docs[d].primary
       /\ PhotosOf(d) \subseteq PhotosOf(d)'
  /\ \A k \in AllKinds : files[k] # NoFile => files'[k] # NoFile

LEMMA AppendRange ==
  ASSUME NEW S, NEW q \in Seq(S), NEW e \in S, NEW r, r = Append(q, e)
  PROVE  {r[n] : n \in DOMAIN r} = {q[n] : n \in DOMAIN q} \cup {e}
<1>1. /\ Len(q) \in Nat /\ DOMAIN q = 1 .. Len(q) /\ DOMAIN r = 1 .. Len(q) + 1
      /\ \A n \in 1 .. Len(q) : r[n] = q[n]
      /\ r[Len(q) + 1] = e
  OBVIOUS
<1>2. \A n \in 1 .. Len(q) + 1 : n \in 1 .. Len(q) \/ n = Len(q) + 1
  BY <1>1
<1>3. 1 .. Len(q) \subseteq 1 .. Len(q) + 1 /\ Len(q) + 1 \in 1 .. Len(q) + 1
  BY <1>1
<1> QED
  BY <1>1, <1>2, <1>3

\* The document gets the photo, the others and its columns stay.
LEMMA AddVersionGrows ==
  ASSUME docs \in Seq(Document), NEW s \in Slots, AddVersion(s),
         NEW o \in DOMAIN docs, request[s].doc = o, NEW p \in Photos, request[s].photo = p
  PROVE  /\ DOMAIN docs' = DOMAIN docs
         /\ \A d \in DOMAIN docs :
              docs'[d].kind = docs[d].kind /\ docs'[d].primary = docs[d].primary
         /\ \A d \in DOMAIN docs \ {o} : PhotosOf(d)' = PhotosOf(d)
         /\ PhotosOf(o)' = PhotosOf(o) \cup {p}
<1>1. docs \in [DOMAIN docs -> Document]
  OBVIOUS
<1>2. PICK old \in Seq(Photos) : old = docs[o].versions
  BY <1>1 DEF Document
<1>3. docs' = [docs EXCEPT ![o] = [docs[o] EXCEPT !.versions = Append(old, p)]]
  BY <1>1, <1>2 DEF AddVersion
<1>4. /\ DOMAIN docs' = DOMAIN docs
      /\ \A d \in DOMAIN docs \ {o} : docs'[d] = docs[d]
      /\ docs'[o].kind = docs[o].kind /\ docs'[o].primary = docs[o].primary
      /\ docs'[o].versions = Append(old, p)
  BY <1>1, <1>3 DEF Document
<1>5. PhotosOf(o)' = PhotosOf(o) \cup {p}
  <2>1. PICK new : new = docs'[o].versions /\ new = Append(old, p)
    BY <1>4
  <2>2. {new[n] : n \in DOMAIN new} = {old[n] : n \in DOMAIN old} \cup {p}
    BY <2>1, AppendRange
  <2>3. PhotosOf(o)' = {new[n] : n \in DOMAIN new}
    BY <2>1 DEF PhotosOf
  <2>4. PhotosOf(o) = {old[n] : n \in DOMAIN old}
    BY <1>2 DEF PhotosOf
  <2> QED
    BY <2>2, <2>3, <2>4
<1>6. ASSUME NEW d \in DOMAIN docs \ {o} PROVE PhotosOf(d)' = PhotosOf(d)
  BY <1>4 DEF PhotosOf
<1>7. ASSUME NEW d \in DOMAIN docs
      PROVE  docs'[d].kind = docs[d].kind /\ docs'[d].primary = docs[d].primary
  BY <1>4
<1> QED
  BY <1>4, <1>5, <1>6, <1>7

LEMMA CreateDocumentGrows ==
  ASSUME docs \in Seq(Document), NEW s \in Slots, request[s].photo \in Photos, CreateDocument(s)
  PROVE  /\ DOMAIN docs' = DOMAIN docs \cup {Len(docs) + 1}
         /\ Len(docs) + 1 \in Nat \ (DOMAIN docs \cup {0})
         /\ \A d \in DOMAIN docs : docs'[d] = docs[d]
         /\ docs'[Len(docs) + 1].kind = KindOf(request[s].photo)
         /\ docs'[Len(docs) + 1].primary = (request[s].photo = Primary)
         /\ docs'[Len(docs) + 1].versions = << >>
<1>1. PICK new \in Document :
         /\ docs' = Append(docs, new)
         /\ new.kind = KindOf(request[s].photo)
         /\ new.primary = (request[s].photo = Primary)
         /\ new.versions = << >>
  <2> DEFINE row == [kind |-> KindOf(request[s].photo), primary |-> request[s].photo = Primary,
                     versions |-> << >>]
  <2>1. row \in Document
    BY KindTyped DEF Document
  <2>2. docs' = Append(docs, row)
    BY DEF CreateDocument
  <2> QED
    BY <2>1, <2>2
<1>2. /\ Len(docs) \in Nat /\ DOMAIN docs = 1 .. Len(docs)
      /\ DOMAIN docs' = 1 .. Len(docs) + 1
      /\ \A d \in 1 .. Len(docs) : docs'[d] = docs[d]
      /\ docs'[Len(docs) + 1] = new
  BY <1>1
<1>3. /\ DOMAIN docs' = DOMAIN docs \cup {Len(docs) + 1}
      /\ Len(docs) + 1 \in Nat \ (DOMAIN docs \cup {0})
  BY <1>2
<1> QED
  BY <1>1, <1>2, <1>3

\* A request that is left alone keeps what it has behind it.
LEMMA GrowsKeeps ==
  ASSUME TypeOK, Grows, NEW s \in Slots, RequestInv(s),
         request'[s].at = request[s].at, request'[s].photo = request[s].photo,
         request'[s].doc = request[s].doc, request'[s].ok = request[s].ok
  PROVE  RequestInv(s)'
<1>1. PICK p \in Photos : p = request[s].photo /\ p = request'[s].photo
  BY DEF TypeOK, Request
<1>2. PICK k \in AllKinds : k = KindOf(p) /\ k = KindOf(p)'
  BY KindTyped DEF KindOf, Primary
<1>3. Filed => Filed'
  BY DEF Filed, Grows
<1>4. Recorded(p) => Recorded(p)'
  BY DEF Recorded, Grows
<1>5. OwnDocument(s) => OwnDocument(s)'
  BY <1>1, <1>2 DEF OwnDocument, Grows, KindOf, Primary
<1>6. files[k] # NoFile => files'[k] # NoFile
  BY DEF Grows
<1>7. Recorded(request[s].photo) => Recorded(request[s].photo)'
  BY <1>1, <1>4 DEF Recorded
<1> QED
  BY <1>1, <1>2, <1>3, <1>5, <1>6, <1>7 DEF RequestInv, Grows, KindOf

LEMMA IdleInv ==
  ASSUME NEW s \in Slots, request'[s] = Idle PROVE RequestInv(s)'
  BY DEF RequestInv, Idle

\* A step that files nothing but may know more.
LEMMA StoredKeepsGrows ==
  ASSUME UNCHANGED <<invoice, docs, files>>, known => known' PROVE Grows
  BY DEF Grows, PhotosOf

\* Every step of a handler only adds.
LEMMA HandleGrows ==
  ASSUME TypeOK, NEW s \in Slots, RequestInv(s), Handle(s) PROVE Grows
<1>1. PICK p \in Photos : p = request[s].photo
  BY DEF TypeOK, Request
<1>2. KindOf(p) \in AllKinds
  BY KindTyped
<1>3. CASE SaveFile(s) \/ TearFile(s)
  <2>1. /\ UNCHANGED <<known, invoice, docs>>
        /\ \/ files' = [files EXCEPT ![KindOf(p)] = p]
           \/ files' = [files EXCEPT ![KindOf(p)] = Torn]
    BY <1>1, <1>3 DEF SaveFile, TearFile, device
  <2>2. p # NoFile /\ Torn # NoFile
    BY MarkersAssumption, PhotosNat
  <2>3. \A k \in AllKinds : files[k] # NoFile => files'[k] # NoFile
    BY <1>2, <2>1, <2>2 DEF TypeOK
  <2> QED
    BY <2>1, <2>3 DEF Grows, PhotosOf
<1>4. CASE CreateDocument(s)
  <2>1. UNCHANGED <<known, invoice, files>>
    BY <1>4 DEF CreateDocument, device
  <2>2. DOMAIN docs \subseteq DOMAIN docs' /\ \A d \in DOMAIN docs : docs'[d] = docs[d]
    BY <1>1, <1>4, CreateDocumentGrows DEF TypeOK
  <2>3. ASSUME NEW d \in DOMAIN docs PROVE PhotosOf(d)' = PhotosOf(d)
    BY <2>2 DEF PhotosOf
  <2> QED
    BY <2>1, <2>2, <2>3 DEF Grows
<1>5. CASE AddVersion(s) /\ UNCHANGED <<known, invoice, files>> /\ request[s].doc \in DOMAIN docs
  <2>1. /\ DOMAIN docs' = DOMAIN docs
        /\ \A d \in DOMAIN docs :
             docs'[d].kind = docs[d].kind /\ docs'[d].primary = docs[d].primary
        /\ \A d \in DOMAIN docs : PhotosOf(d) \subseteq PhotosOf(d)'
    BY <1>1, <1>5, AddVersionGrows DEF TypeOK
  <2> QED
    BY <1>5, <2>1 DEF Grows
<1>6. CASE CreateInvoice(s)
  BY <1>6 DEF CreateInvoice, Grows, PhotosOf, device
<1>7. CASE CreateVersion(s) \/ AppendVersion(s)
  <2>1. request[s].doc \in DOMAIN docs
    BY <1>7 DEF CreateVersion, AppendVersion, AtDb, At, RequestInv, OwnDocument
  <2>2. CASE UNCHANGED docs
    <3>1. UNCHANGED <<known, invoice, docs, files>>
      BY <1>7, <2>2 DEF CreateVersion, AppendVersion, device
    <3>2. known => known'
      BY <3>1
    <3> QED
      BY <3>1, <3>2, StoredKeepsGrows
  <2> QED
    BY <1>5, <1>7, <2>1, <2>2 DEF CreateVersion, AppendVersion, device
<1>8. CASE UNCHANGED <<device, stored>>
  BY <1>8, StoredKeepsGrows DEF device, stored
<1> QED
  BY <1>3, <1>4, <1>6, <1>7, <1>8 DEF Handle, LookupInvoice, LookupDocument, Misread,
     StartMatching, RefusePrimary, Fail

LEMMA NextGrows ==
  ASSUME UploadInv, [Next]_vars PROVE Grows
<1>1. ASSUME NEW s \in Slots, Handle(s) PROVE Grows
  BY <1>1, HandleGrows DEF UploadInv
<1>2. ASSUME NEW s \in Slots, Send(s) \/ Deliver(s) \/ LoseConnection(s) \/ LoseSilently(s)
      PROVE  Grows
  <2>1. UNCHANGED <<invoice, docs, files>>
    BY <1>2 DEF Send, Deliver, LoseConnection, LoseSilently, stored
  <2>2. known' = known \/ known' = TRUE
    BY <1>2 DEF Send, Deliver, LoseConnection, LoseSilently, device
  <2>3. known => known'
    BY <2>2
  <2> QED
    BY <2>1, <2>3, StoredKeepsGrows
<1>3. CASE Sync \/ Finish \/ Kill \/ UNCHANGED vars
  BY <1>3, StoredKeepsGrows DEF Sync, Finish, Kill, vars, device, stored
<1> QED
  BY <1>1, <1>2, <1>3 DEF Next

-----------------------------------------------------------------------------
(***************************************************************************)
(* The request that takes the step.                                        *)
(***************************************************************************)

\* An answer that says yes is given only for what is on file.
LEMMA AnswerInv ==
  ASSUME TypeOK, NEW s \in Slots, NEW ok \in BOOLEAN, Answer(s, ok),
         request[s].photo # Primary => known', NEW p \in Photos, p = request[s].photo,
         ok /\ p = Primary => Filed', ok /\ p # Primary => Recorded(p)'
  PROVE  RequestInv(s)'
<1>1. CASE request[s].link = "open"
  <2>1. /\ request'[s].at = "answer" /\ request'[s].ok = ok /\ request'[s].photo = p
    BY <1>1 DEF Answer, TypeOK, Request
  <2>2. Recorded(p)' => Recorded(request[s].photo)'
    BY <2>1 DEF Recorded
  <2> QED
    BY <2>1, <2>2 DEF RequestInv
<1>2. CASE request[s].link # "open"
  BY <1>2, IdleInv DEF Answer, TypeOK
<1> QED
  BY <1>1, <1>2

\* A request sent on to a step takes along what that step needs.
LEMMA GotoInv ==
  ASSUME TypeOK, NEW s \in Slots, NEW d, NEW step \in {"create", "save", "document", "version",
                                                   "append", "matching"},
         NEW p \in Photos, p = request[s].photo,
         request'[s].at = step, request'[s].doc = d, request'[s].photo = p,
         p # Primary => known',
         step = "create" => d = 0 /\ p = Primary,
         step \in {"save", "document", "version", "append"} /\ p = Primary => invoice',
         step \in {"document", "version", "append"} => files'[KindOf(p)] # NoFile,
         step = "save" => \/ d = 0
                          \/ /\ d \in DOMAIN docs' /\ docs'[d].kind = KindOf(p)
                             /\ p = Primary => docs'[d].primary,
         step \in {"version", "append"} => d \in DOMAIN docs' /\ docs'[d].kind = KindOf(p)
                                    /\ (p = Primary => docs'[d].primary),
         step = "matching" => p # Primary /\ Recorded(p)'
  PROVE  RequestInv(s)'
<1>1. request'[s].at = step /\ request'[s].doc = d /\ request'[s].photo = p
  OBVIOUS
<1>2. Recorded(p)' => Recorded(request[s].photo)'
  BY <1>1 DEF Recorded
<1>3. PICK k : k = KindOf(p) /\ k = KindOf(request[s].photo)'
  BY <1>1 DEF KindOf
<1>4. step \in {"save", "version", "append"} /\ d # 0 => OwnDocument(s)'
  BY <1>1, <1>3 DEF OwnDocument
<1>5. step \in {"version", "append"} => OwnDocument(s)'
  BY <1>1, <1>3 DEF OwnDocument
<1> QED
  BY <1>1, <1>2, <1>3, <1>4, <1>5 DEF RequestInv

LEMMA GotoFields ==
  ASSUME TypeOK, NEW s \in Slots, NEW step, Goto(s, step)
  PROVE  /\ request'[s].at = step /\ request'[s].doc = request[s].doc
         /\ request'[s].photo = request[s].photo
  BY DEF Goto, TypeOK, Request

LEMMA SaveInv ==
  ASSUME TypeOK, NEW s \in Slots, Goto(s, "save"), request[s].doc = 0,
         NEW p \in Photos, p = request[s].photo, p # Primary => known', p = Primary => invoice'
  PROVE  RequestInv(s)'
<1>1. request'[s].at = "save" /\ request'[s].doc = 0 /\ request'[s].photo = p
  BY GotoFields
<1> QED
  BY <1>1 DEF RequestInv

\* A new version puts the photo on file.
LEMMA AddVersionRecords ==
  ASSUME UploadInv, NEW s \in Slots, request[s].at \in {"version", "append"}, AddVersion(s),
         UNCHANGED <<invoice, files>>, NEW p \in Photos, p = request[s].photo
  PROVE  /\ Recorded(p)' /\ (p = Primary => Filed')
         /\ VersionsHaveFiles'
<1>1. PICK o \in DOMAIN docs : o = request[s].doc /\ docs[o].kind = KindOf(p)
                             /\ (p = Primary => docs[o].primary)
  BY DEF UploadInv, RequestInv, OwnDocument
<1>2. /\ DOMAIN docs' = DOMAIN docs
      /\ \A d \in DOMAIN docs :
           docs'[d].kind = docs[d].kind /\ docs'[d].primary = docs[d].primary
      /\ \A d \in DOMAIN docs \ {o} : PhotosOf(d)' = PhotosOf(d)
      /\ PhotosOf(o)' = PhotosOf(o) \cup {p}
  <2>1. docs \in Seq(Document)
    BY DEF UploadInv, TypeOK
  <2> QED
    BY <1>1, <2>1, AddVersionGrows
<1>3. Recorded(p)'
  BY <1>2 DEF Recorded
<1>4. p = Primary => Filed'
  BY <1>1, <1>2 DEF Filed, UploadInv, RequestInv
<1>5. files[KindOf(p)] # NoFile
  BY DEF UploadInv, RequestInv
<1>6. \A q : KindOf(q)' = KindOf(q)
  BY DEF KindOf, Primary
<1>7. ASSUME NEW d \in DOMAIN docs', NEW q \in PhotosOf(d)'
      PROVE  KindOf(q)' = docs'[d].kind /\ files'[docs'[d].kind] # NoFile
  <2>1. d \in DOMAIN docs
    BY <1>2
  <2>2. CASE q \in PhotosOf(d)
    BY <1>2, <1>6, <2>1, <2>2 DEF UploadInv, VersionsHaveFiles
  <2>3. CASE q \notin PhotosOf(d)
    <3>1. d = o /\ q = p
      BY <1>2, <1>7, <2>1, <2>3
    <3> QED
      BY <1>1, <1>2, <1>5, <1>6, <3>1
  <2> QED
    BY <2>2, <2>3
<1> QED
  BY <1>3, <1>4, <1>7 DEF VersionsHaveFiles

LEMMA HandleRequestInv ==
  ASSUME UploadInv, NEW s \in Slots, Handle(s) PROVE RequestInv(s)'
<1> USE DEF At, AtDb
<1>a. TypeOK /\ RequestInv(s) /\ Grows
  BY HandleGrows DEF UploadInv
<1>b. PICK p \in Photos : p = request[s].photo
  BY <1>a DEF TypeOK, Request
<1>c. request[s].at # "idle" /\ p # Primary => known'
  BY <1>a, <1>b DEF RequestInv, Grows
<1>d. KindOf(p) \in AllKinds /\ (KindOf(p) = Invoice <=> p = Primary)
  BY KindTyped
<1>1. CASE LookupInvoice(s)
  <2>1. p = Primary /\ request[s].at = "lookup" /\ request[s].doc = 0
    BY <1>1, <1>a, <1>b DEF LookupInvoice, RequestInv
  <2>2. invoice' = invoice /\ docs' = docs
    BY <1>1 DEF LookupInvoice, stored
  <2>3. CASE Goto(s, "create")
    BY <2>1, <2>3, <1>a, <1>b, <1>c, GotoFields, GotoInv
  <2>4. CASE invoice /\ Goto(s, "save")
    <3>1. invoice'
      BY <2>2, <2>4
    <3> QED
      BY <2>1, <2>4, <3>1, <1>a, <1>b, <1>c, SaveInv
  <2>5. CASE invoice /\ (\E d \in DOMAIN docs : docs[d].primary) /\ Answer(s, TRUE)
    <3>1. Filed'
      BY <2>2, <2>5 DEF Filed
    <3> QED
      BY <2>1, <2>5, <3>1, <1>a, <1>b, <1>c, AnswerInv
  <2> QED
    BY <1>1, <2>3, <2>4, <2>5 DEF LookupInvoice
<1>2. CASE LookupDocument(s)
  <2>1. p # Primary /\ request[s].at = "lookup" /\ request[s].doc = 0
    BY <1>2, <1>a, <1>b DEF LookupDocument, RequestInv
  <2>2. invoice' = invoice /\ docs' = docs
    BY <1>2 DEF LookupDocument, stored
  <2>3. CASE Goto(s, "save")
    BY <2>1, <2>3, <1>a, <1>b, <1>c, SaveInv
  <2>4. CASE Answer(s, FALSE)
    BY <2>1, <2>4, <1>a, <1>b, <1>c, AnswerInv
  <2>5. ASSUME NEW d \in Oldest(KindOf(p)),
               request' = [request EXCEPT ![s].at = "save", ![s].doc = d]
        PROVE  RequestInv(s)'
    <3>1. request'[s].at = "save" /\ request'[s].doc = d /\ request'[s].photo = p
      BY <2>5, <1>a, <1>b DEF TypeOK, Request
    <3>2. d \in DOMAIN docs' /\ docs'[d].kind = KindOf(p)
      BY <2>2 DEF Oldest
    <3> QED
      BY <2>1, <3>1, <3>2, <1>a, <1>b, <1>c, GotoInv
  <2> QED
    BY <1>2, <1>b, <2>3, <2>4, <2>5 DEF LookupDocument
<1>3. CASE Misread(s)
  <2>1. request[s].at = "lookup" /\ request[s].doc = 0
    BY <1>3, <1>a DEF Misread, RequestInv
  <2>2. invoice' = invoice
    BY <1>3 DEF Misread, stored
  <2>3. CASE p = Primary /\ Goto(s, "create")
    BY <2>1, <2>3, <1>a, <1>b, <1>c, GotoFields, GotoInv
  <2>4. CASE Goto(s, "save") /\ (p = Primary => invoice)
    <3>1. p = Primary => invoice'
      BY <2>2, <2>4
    <3> QED
      BY <2>1, <2>4, <3>1, <1>a, <1>b, <1>c, SaveInv
  <2> QED
    BY <1>3, <1>b, <2>3, <2>4 DEF Misread
<1>4. CASE CreateInvoice(s)
  <2>1. request[s].at = "create" /\ request[s].doc = 0 /\ p = Primary /\ invoice'
    BY <1>4, <1>a, <1>b DEF CreateInvoice, RequestInv
  <2>2. CASE Goto(s, "save")
    BY <2>1, <2>2, <1>a, <1>b, <1>c, SaveInv
  <2>3. CASE Answer(s, FALSE)
    BY <2>1, <2>3, <1>a, <1>b, <1>c, AnswerInv
  <2> QED
    BY <1>4, <2>2, <2>3 DEF CreateInvoice
<1>5. CASE TearFile(s) \/ RefusePrimary(s) \/ Fail(s)
  <2>1. Answer(s, FALSE) /\ request[s].at # "idle"
    BY <1>5 DEF TearFile, RefusePrimary, Fail
  <2> QED
    BY <2>1, <1>a, <1>b, <1>c, AnswerInv
<1>6. CASE StartMatching(s)
  <2>1. Answer(s, TRUE) /\ request[s].at # "idle" /\ p # Primary /\ Recorded(p)
    BY <1>6, <1>a, <1>b DEF StartMatching, RequestInv
  <2>2. Recorded(p)'
    BY <2>1, <1>a DEF Recorded, Grows
  <2> QED
    BY <2>1, <2>2, <1>a, <1>b, <1>c, AnswerInv
<1>7. CASE SaveFile(s)
  <2>1. /\ request[s].at = "save" /\ (p = Primary => invoice')
        /\ request[s].doc = 0 \/ OwnDocument(s)
    BY <1>7, <1>a, <1>b DEF SaveFile, RequestInv
  <2>2. files'[KindOf(p)] # NoFile
    <3>1. p # NoFile
      BY PhotosNat, MarkersAssumption
    <3> QED
      BY <1>7, <1>a, <1>b, <1>d, <3>1 DEF SaveFile, TypeOK
  <2>3. CASE request[s].doc = 0
    <3>1. Goto(s, "document")
      BY <1>7, <2>3 DEF SaveFile, AfterSave
    <3>2. request'[s].at = "document" /\ request'[s].photo = p
      BY <3>1, <1>a, <1>b, GotoFields
    <3> QED
      BY <2>1, <2>2, <3>2, <1>a, <1>b, <1>c, GotoInv
  <2>4. CASE request[s].doc # 0
    <3>1. Goto(s, "append")
      BY <1>7, <2>4 DEF SaveFile, AfterSave
    <3>2. PICK d \in DOMAIN docs : /\ d = request[s].doc /\ docs[d].kind = KindOf(p)
                                  /\ (p = Primary => docs[d].primary)
      BY <2>1, <2>4, <1>b DEF OwnDocument
    <3>3. request'[s].at = "append" /\ request'[s].photo = p /\ request'[s].doc = d
      BY <3>1, <3>2, <1>a, <1>b, GotoFields
    <3>4. docs' = docs
      BY <1>7 DEF SaveFile
    <3> QED
      BY <2>1, <2>2, <3>2, <3>3, <3>4, <1>a, <1>b, <1>c, GotoInv
  <2> QED
    BY <2>3, <2>4
<1>8. CASE CreateDocument(s)
  <2>1. /\ request[s].at = "document" /\ (p = Primary => invoice')
        /\ files'[KindOf(p)] # NoFile
    BY <1>8, <1>a, <1>b DEF CreateDocument, RequestInv
  <2>2. PICK d : /\ d \in DOMAIN docs' /\ docs'[d].kind = KindOf(p)
                 /\ docs'[d].primary = (p = Primary) /\ d = Len(docs) + 1
    BY <1>8, <1>a, <1>b, CreateDocumentGrows DEF TypeOK
  <2>3. request'[s].at = "version" /\ request'[s].photo = p /\ request'[s].doc = d
    BY <1>8, <2>2, <1>a, <1>b DEF CreateDocument, TypeOK, Request
  <2> QED
    BY <2>1, <2>2, <2>3, <1>a, <1>b, <1>c, GotoInv
<1>9. CASE CreateVersion(s) \/ AppendVersion(s)
  <2>1. request[s].at \in {"version", "append"} /\ UNCHANGED <<invoice, files>>
    BY <1>9 DEF CreateVersion, AppendVersion
  <2>2. CASE Answer(s, FALSE)
    BY <2>1, <2>2, <1>a, <1>b, <1>c, AnswerInv
  <2>3. CASE AddVersion(s) /\ AfterVersion(s)
    <3>1. Recorded(p)' /\ (p = Primary => Filed')
      BY <2>1, <2>3, <1>b, AddVersionRecords
    <3>2. CASE Answer(s, TRUE)
      BY <2>1, <3>1, <3>2, <1>a, <1>b, <1>c, AnswerInv
    <3>3. CASE Goto(s, "matching") /\ p # Primary
      <4>1. request'[s].at = "matching" /\ request'[s].photo = p
        BY <3>3, <1>a, <1>b, GotoFields
      <4> QED
        BY <2>1, <3>1, <3>3, <4>1, <1>a, <1>b, <1>c, GotoInv
    <3> QED
      BY <2>3, <3>2, <3>3, <1>b, <1>d DEF AfterVersion
  <2> QED
    BY <1>9, <2>2, <2>3 DEF CreateVersion, AppendVersion
<1> QED
  BY <1>1, <1>2, <1>3, <1>4, <1>5, <1>6, <1>7, <1>8, <1>9 DEF Handle

\* A handler changes its own request only.
LEMMA HandleOthers ==
  ASSUME TypeOK, NEW s \in Slots, Handle(s), NEW t \in Slots \ {s}
  PROVE  request'[t] = request[t]
<1>1. ASSUME \E r : request' = [request EXCEPT ![s] = r] PROVE request'[t] = request[t]
  BY <1>1 DEF TypeOK
<1> QED
  BY <1>1 DEF Handle, LookupInvoice, LookupDocument, Misread, CreateInvoice, SaveFile, TearFile,
     CreateDocument, CreateVersion, AppendVersion, StartMatching,
     RefusePrimary, Fail, Goto, Answer, AfterVersion,
     TypeOK

LEMMA HandleVersions ==
  ASSUME UploadInv, NEW s \in Slots, Handle(s) PROVE VersionsHaveFiles'
<1>1. PICK p \in Photos : p = request[s].photo
  BY DEF UploadInv, TypeOK, Request
<1>a. /\ docs \in Seq(Document) /\ TypeOK /\ Grows /\ \A q : KindOf(q)' = KindOf(q)
  BY HandleGrows DEF UploadInv, TypeOK, KindOf, Primary
<1>2. CASE UNCHANGED docs
  <2>1. ASSUME NEW d \in DOMAIN docs PROVE docs[d].kind \in AllKinds
    <3>1. docs[d] \in Document
      BY <1>a
    <3> QED
      BY <3>1 DEF Document
  <2>2. ASSUME NEW d \in DOMAIN docs PROVE PhotosOf(d)' = PhotosOf(d)
    BY <1>2 DEF PhotosOf
  <2> QED
    BY <1>2, <1>a, <2>1, <2>2 DEF VersionsHaveFiles, UploadInv, Grows
<1>3. CASE CreateDocument(s)
  <2>1. /\ DOMAIN docs' = DOMAIN docs \cup {Len(docs) + 1}
        /\ \A d \in DOMAIN docs : docs'[d] = docs[d]
        /\ docs'[Len(docs) + 1].versions = << >>
    BY <1>1, <1>3, <1>a, CreateDocumentGrows
  <2>2. files' = files
    BY <1>3 DEF CreateDocument
  <2>3. ASSUME NEW d \in DOMAIN docs', NEW q \in PhotosOf(d)'
        PROVE  KindOf(q)' = docs'[d].kind /\ files'[docs'[d].kind] # NoFile
    <3>1. CASE d \in DOMAIN docs
      <4>1. PhotosOf(d)' = PhotosOf(d) /\ docs'[d].kind = docs[d].kind
        BY <2>1, <3>1 DEF PhotosOf
      <4> QED
        BY <1>a, <2>2, <2>3, <3>1, <4>1 DEF UploadInv, VersionsHaveFiles
    <3>2. CASE d = Len(docs) + 1
      <4>1. PhotosOf(d)' = {}
        BY <2>1, <3>2 DEF PhotosOf
      <4> QED
        BY <2>3, <4>1
    <3> QED
      BY <2>1, <3>1, <3>2
  <2> QED
    BY <2>3 DEF VersionsHaveFiles
<1>4. CASE CreateVersion(s) \/ AppendVersion(s)
  <2>1. /\ request[s].at \in {"version", "append"} /\ UNCHANGED <<invoice, files>>
        /\ UNCHANGED docs \/ AddVersion(s)
    BY <1>4 DEF CreateVersion, AppendVersion, At, AtDb
  <2> QED
    BY <1>1, <1>2, <2>1, AddVersionRecords
<1> QED
  BY <1>2, <1>3, <1>4 DEF Handle, LookupInvoice, LookupDocument, Misread, CreateInvoice, SaveFile,
     TearFile, StartMatching, RefusePrimary, Fail, stored

\* What is marked stays marked for a reason.
LEMMA MarkedStays ==
  ASSUME UploadInv, Grows, UNCHANGED <<status, known, uploaded>>
  PROVE  MarkedMeansRecorded'
<1>1. known' = known => (known' <=> known)
  OBVIOUS
<1>2. \A p : Recorded(p) => Recorded(p)'
  BY DEF Recorded, Grows
<1>3. Filed => Filed'
  BY DEF Filed, Grows
<1>4. Unsent' = Unsent
  BY DEF Unsent, Photos, Primary
<1> QED
  BY <1>1, <1>2, <1>3, <1>4 DEF UploadInv, MarkedMeansRecorded, Filed

LEMMA VersionsStay ==
  ASSUME VersionsHaveFiles, UNCHANGED stored PROVE VersionsHaveFiles'
  BY DEF VersionsHaveFiles, PhotosOf, KindOf, Primary, stored

\* A broken connection changes only who waits.
LEMMA OrphanInv ==
  ASSUME UploadInv, Grows, NEW s \in Slots, Orphan(s) PROVE \A t \in Slots : RequestInv(t)'
<1> SUFFICES ASSUME NEW t \in Slots PROVE RequestInv(t)'
  OBVIOUS
<1>1. CASE t # s
  BY <1>1, GrowsKeeps DEF Orphan, UploadInv, TypeOK
<1>2. CASE t = s
  <2>1. CASE request' = [request EXCEPT ![s] = Idle]
    BY <1>2, <2>1, IdleInv DEF UploadInv, TypeOK
  <2>2. ASSUME NEW link, request' = [request EXCEPT ![s].link = link] PROVE RequestInv(t)'
    <3>1. /\ request'[s].at = request[s].at /\ request'[s].photo = request[s].photo
          /\ request'[s].doc = request[s].doc /\ request'[s].ok = request[s].ok
      BY <2>2 DEF UploadInv, TypeOK, Request
    <3> QED
      BY <1>2, <3>1, GrowsKeeps DEF UploadInv
  <2> QED
    BY <2>1, <2>2 DEF Orphan
<1> QED
  BY <1>1, <1>2

LEMMA NextUploadInv == UploadInv /\ [Next]_vars => UploadInv'
<1> SUFFICES ASSUME UploadInv, [Next]_vars PROVE UploadInv'
  OBVIOUS
<1>a. TypeOK /\ TypeOK' /\ Grows
  BY NextTypeOK, NextGrows DEF UploadInv
<1>1. CASE Sync \/ UNCHANGED vars
  <2>1. UNCHANGED <<status, known, uploaded, request, stored>>
    BY <1>1 DEF Sync, vars, device
  <2> QED
    BY <1>a, <2>1, MarkedStays, VersionsStay, GrowsKeeps DEF UploadInv
<1>2. CASE Finish
  <2>1. UNCHANGED <<known, uploaded, request, stored>> /\ known /\ Unsent = {}
    BY <1>2 DEF Finish
  <2>2. MarkedMeansRecorded'
    BY <2>1 DEF MarkedMeansRecorded, UploadInv, Recorded, PhotosOf, Unsent, Photos, Primary, stored
  <2> QED
    BY <1>a, <2>1, <2>2, VersionsStay, GrowsKeeps DEF UploadInv
<1>3. CASE Kill
  <2>1. UNCHANGED <<status, known, uploaded, stored>>
    BY <1>3 DEF Kill
  <2>2. waiting # NoSlot => waiting \in Slots
    BY <1>a DEF TypeOK
  <2>3. \A t \in Slots : RequestInv(t)'
    BY <1>3, <1>a, <2>2, OrphanInv, GrowsKeeps DEF Kill, UploadInv
  <2> QED
    BY <1>a, <2>1, <2>3, MarkedStays, VersionsStay DEF UploadInv
<1>4. ASSUME NEW s \in Slots, LoseConnection(s) \/ LoseSilently(s) PROVE UploadInv'
  <2>1. Orphan(s) /\ UNCHANGED <<known, uploaded, stored>>
    BY <1>4 DEF LoseConnection, LoseSilently, device
  <2>2. status' = status \/ status' = "failed"
    BY <1>4 DEF LoseConnection, LoseSilently, device
  <2>3. MarkedMeansRecorded'
    BY <2>1, <2>2 DEF MarkedMeansRecorded, UploadInv, Recorded, PhotosOf, Unsent, Photos, Primary, stored
  <2> QED
    BY <1>a, <2>1, <2>3, OrphanInv, VersionsStay DEF UploadInv
<1>5. ASSUME NEW s \in Slots, Send(s) PROVE UploadInv'
  <2>1. UNCHANGED <<status, known, uploaded, stored>>
    BY <1>5 DEF Send
  <2>2. PICK p \in Photos :
           /\ IsNext(p)
           /\ request' = [request EXCEPT ![s] = [Idle EXCEPT !.at = "lookup", !.photo = p]]
    BY <1>5 DEF Send
  <2>3. /\ request'[s].at = "lookup" /\ request'[s].doc = 0 /\ request'[s].photo = p
        /\ \A t \in Slots \ {s} : request'[t] = request[t]
    BY <1>a, <2>2 DEF Idle, TypeOK
  <2>4. p # Primary => known'
    BY <2>1, <2>2 DEF IsNext
  <2>5. RequestInv(s)'
    BY <2>3, <2>4 DEF RequestInv
  <2>6. ASSUME NEW t \in Slots PROVE RequestInv(t)'
    BY <1>a, <2>3, <2>5, GrowsKeeps DEF UploadInv
  <2> QED
    BY <1>a, <2>1, <2>6, MarkedStays, VersionsStay DEF UploadInv
<1>6. ASSUME NEW s \in Slots, Deliver(s) PROVE UploadInv'
  <2>1. request' = [request EXCEPT ![s] = Idle] /\ UNCHANGED stored /\ request[s].at = "answer"
    BY <1>6 DEF Deliver
  <2>2. ASSUME NEW t \in Slots PROVE RequestInv(t)'
    BY <1>a, <2>1, IdleInv, GrowsKeeps DEF UploadInv, TypeOK
  <2>3. PICK p \in Photos : p = request[s].photo
    BY <1>a DEF TypeOK, Request
  <2>4. MarkedMeansRecorded'
    <3>1. CASE /\ request[s].ok /\ known' = TRUE /\ uploaded' = Mark(p) /\ status' = status
      <4>1. Filed /\ (p # Primary => Recorded(p))
        BY <2>1, <2>3, <3>1 DEF UploadInv, RequestInv, MarkedMeansRecorded, Filed
      <4>2. \A q \in uploaded' : Recorded(q)
        BY <3>1, <4>1 DEF Mark, UploadInv, MarkedMeansRecorded
      <4>3. status = "synced" => Unsent' = {}
        BY <3>1 DEF UploadInv, MarkedMeansRecorded, Unsent, Photos, Primary, Mark
      <4>4. Filed' /\ \A q : Recorded(q)' <=> Recorded(q)
        BY <2>1, <4>1 DEF Filed, Recorded, PhotosOf, stored
      <4> QED
        BY <3>1, <4>2, <4>3, <4>4 DEF MarkedMeansRecorded, Filed
    <3>2. CASE status' = "failed" /\ UNCHANGED <<known, uploaded>>
      BY <2>1, <3>2 DEF MarkedMeansRecorded, UploadInv, Recorded, PhotosOf, Unsent, Photos, Primary, stored
    <3> QED
      BY <1>6, <2>3, <3>1, <3>2 DEF Deliver
  <2> QED
    BY <1>a, <2>1, <2>2, <2>4, VersionsStay DEF UploadInv
<1>7. ASSUME NEW s \in Slots, Handle(s) PROVE UploadInv'
  <2>1. UNCHANGED <<status, known, uploaded>>
    BY <1>7 DEF Handle, LookupInvoice, LookupDocument, Misread, CreateInvoice, SaveFile, TearFile,
       CreateDocument, CreateVersion, AppendVersion, StartMatching, RefusePrimary, Fail, device
  <2>2. ASSUME NEW t \in Slots \ {s} PROVE RequestInv(t)'
    BY <1>a, <1>7, <2>2, HandleOthers, GrowsKeeps DEF UploadInv
  <2> QED
    BY <1>a, <1>7, <2>1, <2>2, MarkedStays, HandleVersions, HandleRequestInv DEF UploadInv
<1> QED
  BY <1>1, <1>2, <1>3, <1>4, <1>5, <1>6, <1>7 DEF Next

\* Whatever the device has marked is on file, and an invoice it knows has a row
\* and a primary document: a lost answer, a retry beside the first request or a
\* step that fails costs a second upload, never a photo believed to be safe.
THEOREM MarkedIsRecorded == Spec => []MarkedMeansRecorded
<1>1. UploadInv => MarkedMeansRecorded
  BY DEF UploadInv
<1> QED
  BY <1>1, InitUploadInv, NextUploadInv, PTL DEF Spec

\* The file is written before its row, so a version has a file behind it.
THEOREM VersionsFiled == Spec => []VersionsHaveFiles
<1>1. UploadInv => VersionsHaveFiles
  BY DEF UploadInv
<1> QED
  BY <1>1, InitUploadInv, NextUploadInv, PTL DEF Spec

\* No step takes back what is stored, whatever fails, is lost or is handled
\* twice: documents keep their kind and their photos, a key that holds something
\* is never emptied, and a device that knows the invoice goes on knowing it.
THEOREM StoredIsKept ==
  Spec => [][/\ invoice => invoice'
             /\ known => known'
             /\ DOMAIN docs \subseteq DOMAIN docs'
             /\ \A d \in DOMAIN docs :
                  /\ docs'[d].kind = docs[d].kind /\ docs'[d].primary = docs[d].primary
                  /\ PhotosOf(d) \subseteq PhotosOf(d)'
             /\ \A k \in AllKinds : files[k] # NoFile => files'[k] # NoFile]_vars
<1>1. UploadInv /\ [Next]_vars =>
        [/\ invoice => invoice'
         /\ known => known'
         /\ DOMAIN docs \subseteq DOMAIN docs'
         /\ \A d \in DOMAIN docs :
              /\ docs'[d].kind = docs[d].kind /\ docs'[d].primary = docs[d].primary
              /\ PhotosOf(d) \subseteq PhotosOf(d)'
         /\ \A k \in AllKinds : files[k] # NoFile => files'[k] # NoFile]_vars
  BY NextGrows DEF Grows
<1> QED
  BY <1>1, InitUploadInv, NextUploadInv, PTL DEF Spec

-----------------------------------------------------------------------------
(***************************************************************************)
(* A bundle that is synced rests: no loop works on it, no answer counts.   *)
(***************************************************************************)

Resting == status = "synced" => ~syncing /\ waiting = NoSlot

Synced == status = "synced"

\* All photos of the bundle are on file.
OnFile == Filed /\ \A p \in Photos \ {Primary} : Recorded(p)

LEMMA SyncedStays == Resting /\ [Next]_vars => Resting' /\ (Synced => Synced')
<1> SUFFICES ASSUME Resting, [Next]_vars PROVE Resting' /\ (Synced => Synced')
  OBVIOUS
<1>1. CASE Sync
  BY <1>1 DEF Sync, Resting, Synced
<1>2. CASE Finish
  BY <1>2 DEF Finish, Resting, Synced
<1>3. CASE Kill
  BY <1>3 DEF Kill, Resting, Synced
<1>4. ASSUME NEW s \in Slots, Send(s) PROVE Resting' /\ (Synced => Synced')
  BY <1>4 DEF Send, Resting, Synced
<1>5. ASSUME NEW s \in Slots, Deliver(s) \/ LoseConnection(s) PROVE Resting' /\ (Synced => Synced')
  <2>1. waiting = s /\ s # NoSlot /\ (status' = status \/ status' = "failed")
    BY <1>5, MarkersAssumption DEF Deliver, LoseConnection
  <2> QED
    BY <2>1 DEF Resting, Synced
<1>6. CASE UNCHANGED device
  BY <1>6 DEF device, Resting, Synced
<1>7. ASSUME NEW s \in Slots, LoseSilently(s) \/ Handle(s) PROVE UNCHANGED device
  BY <1>7 DEF LoseSilently, Handle, LookupInvoice, LookupDocument, Misread, CreateInvoice, SaveFile,
     TearFile, CreateDocument, CreateVersion, AppendVersion, StartMatching, RefusePrimary, Fail
<1> QED
  BY <1>1, <1>2, <1>3, <1>4, <1>5, <1>6, <1>7 DEF Next, vars, device

\* A bundle the device shows as synced has its invoice, a primary document and
\* a version of every other photo, and keeps them: no tap, late answer, request
\* left behind or restart opens it again (_syncBundle).
THEOREM SyncedForGood ==
  Spec => [](status = "synced" =>
               [](/\ status = "synced"
                  /\ invoice /\ \E d \in DOMAIN docs : docs[d].primary
                  /\ \A p \in Photos \ {Primary} : Recorded(p)))
<1>1. Init => Resting
  BY DEF Init, Resting
<1>2. UploadInv /\ Synced => OnFile
  BY DEF UploadInv, Synced, MarkedMeansRecorded, Unsent, OnFile, Filed
<1>3. Spec => [](Synced => [](Synced /\ OnFile))
  BY <1>1, <1>2, SyncedStays, InitUploadInv, NextUploadInv, PTL DEF Spec
<1>4. /\ Synced <=> status = "synced"
      /\ Synced /\ OnFile <=> /\ status = "synced"
                              /\ invoice /\ \E d \in DOMAIN docs : docs[d].primary
                              /\ \A p \in Photos \ {Primary} : Recorded(p)
  BY DEF Synced, OnFile, Filed
<1> QED
  BY <1>3, <1>4, PTL

-----------------------------------------------------------------------------
(***************************************************************************)
(* What retries beside a request still running can file twice: primary     *)
(* documents.                                                              *)
(***************************************************************************)

Primaries == {d \in DOMAIN docs : docs[d].primary}

\* Requests that have found no primary document and can still create one.
Heads(r) == r.photo = Primary /\ r.at \in {"save", "document"} /\ r.link # "cancelled"
Heading == {s \in Slots : Heads(request[s])}

PrimaryInv ==
  /\ UploadInv
  /\ Primaries # {} => invoice
  /\ Cardinality(Primaries) + Cardinality(Heading) <= Cardinality(Slots) + faults

LEMMA PrimariesFinite ==
  ASSUME TypeOK, IsFiniteSet(Slots)
  PROVE  /\ IsFiniteSet(Primaries) /\ Cardinality(Primaries) \in Nat
         /\ IsFiniteSet(Heading) /\ Cardinality(Heading) \in Nat
         /\ Cardinality(Heading) <= Cardinality(Slots) /\ Cardinality(Slots) \in Nat
         /\ faults \in Nat
<1>1. docs \in Seq(Document) /\ Len(docs) \in Nat /\ DOMAIN docs = 1 .. Len(docs)
  BY DEF TypeOK
<1>2. IsFiniteSet(1 .. Len(docs))
  <2>1. 1 \in Int /\ Len(docs) \in Int
    BY <1>1
  <2> QED
    BY <2>1, FS_Interval
<1>3. Primaries \in SUBSET (1 .. Len(docs)) /\ Heading \in SUBSET Slots
  BY <1>1 DEF Primaries, Heading
<1>4. faults \in Nat
  BY BoundsAssumption DEF TypeOK
<1> QED
  BY <1>2, <1>3, <1>4, FS_Subset, FS_CardinalityType

LEMMA FaultsGrow ==
  ASSUME TypeOK, [Next]_vars PROVE faults' \in Nat /\ faults <= faults'
<1>1. faults \in Nat
  BY BoundsAssumption DEF TypeOK
<1>2. faults' = faults \/ faults' = faults + 1
  BY DEF Next, vars, Sync, Finish, Kill, Send, Deliver, LoseConnection, LoseSilently, Handle,
     LookupInvoice, LookupDocument, Misread, CreateInvoice, SaveFile, TearFile, CreateDocument,
     CreateVersion, AppendVersion, StartMatching, RefusePrimary, Fail
<1> QED
  BY <1>1, <1>2

\* A step that adds no primary document and sends no other request to create one.
LEMMA QuietPrimaries ==
  ASSUME PrimaryInv, IsFiniteSet(Slots), [Next]_vars,
         Primaries' = Primaries, Heading' \subseteq Heading
  PROVE  PrimaryInv'
<1>0. TypeOK /\ UploadInv' /\ Grows
  BY NextUploadInv, NextGrows DEF PrimaryInv, UploadInv
<1>1. Cardinality(Heading') \in Nat /\ Cardinality(Heading') <= Cardinality(Heading)
  BY <1>0, PrimariesFinite, FS_Subset, FS_CardinalityType
<1>2. faults' \in Nat /\ faults <= faults'
  BY <1>0, FaultsGrow
<1> QED
  BY <1>0, <1>1, <1>2, PrimariesFinite DEF PrimaryInv, Grows

\* A step that finds no primary document on file.
LEMMA EnterPrimaries ==
  ASSUME PrimaryInv, IsFiniteSet(Slots), [Next]_vars, Primaries = {}, UNCHANGED docs
  PROVE  PrimaryInv'
<1>0. TypeOK /\ UploadInv' /\ TypeOK'
  BY NextUploadInv DEF PrimaryInv, UploadInv
<1>1. Primaries' = {}
  BY DEF Primaries
<1>2. Cardinality(Primaries') = 0
  BY <1>1, FS_EmptySet
<1>3. Heading' \in SUBSET Slots
  BY DEF Heading
<1>4. Cardinality(Heading') \in Nat /\ Cardinality(Heading') <= Cardinality(Slots)
  BY <1>3, FS_Subset, FS_CardinalityType
<1>5. faults' \in Nat
  BY <1>0, FaultsGrow
<1> QED
  BY <1>0, <1>1, <1>2, <1>4, <1>5, PrimariesFinite DEF PrimaryInv

LEMMA HeadingOf ==
  ASSUME NEW s \in Slots, \A t \in Slots \ {s} : request'[t] = request[t],
         Heads(request'[s]) => Heads(request[s])
  PROVE  Heading' \subseteq Heading
BY DEF Heading, Heads

LEMMA IdleHeads == ~Heads(Idle)
BY DEF Idle, Heads

LEMMA AnswerHeads ==
  ASSUME TypeOK, NEW s \in Slots, NEW ok \in BOOLEAN, Answer(s, ok) PROVE ~Heads(request'[s])
<1>1. CASE request[s].link = "open"
  BY <1>1 DEF Answer, TypeOK, Request, Heads
<1>2. CASE request[s].link # "open"
  BY <1>2, IdleHeads DEF Answer, TypeOK
<1> QED
  BY <1>1, <1>2

LEMMA OrphanHeads ==
  ASSUME TypeOK, NEW s \in Slots, Orphan(s), request[s].link = "open"
  PROVE  Heading' \subseteq Heading
<1>1. CASE request' = [request EXCEPT ![s] = Idle]
  <2>1. request'[s] = Idle /\ \A t \in Slots \ {s} : request'[t] = request[t]
    BY <1>1 DEF TypeOK
  <2> QED
    BY <2>1, IdleHeads, HeadingOf
<1>2. ASSUME NEW link, request' = [request EXCEPT ![s].link = link] PROVE Heading' \subseteq Heading
  <2>1. /\ request'[s].photo = request[s].photo /\ request'[s].at = request[s].at
        /\ \A t \in Slots \ {s} : request'[t] = request[t]
    BY <1>2 DEF TypeOK, Request
  <2>2. Heads(request'[s]) => Heads(request[s])
    BY <2>1 DEF Heads
  <2> QED
    BY <2>1, <2>2, HeadingOf
<1> QED
  BY <1>1, <1>2 DEF Orphan

LEMMA HandlePrimaries ==
  ASSUME PrimaryInv, IsFiniteSet(Slots), [Next]_vars, NEW s \in Slots, Handle(s)
  PROVE  PrimaryInv'
<1>0. /\ TypeOK /\ UploadInv /\ RequestInv(s) /\ request \in [Slots -> Request]
      /\ request[s].photo \in Photos /\ docs \in Seq(Document)
  BY DEF PrimaryInv, UploadInv, TypeOK, Request
<1>o. \A t \in Slots \ {s} : request'[t] = request[t]
  BY <1>0, HandleOthers
<1>q. ASSUME Primaries' = Primaries, Heads(request'[s]) => Heads(request[s]) PROVE PrimaryInv'
  BY <1>o, <1>q, HeadingOf, QuietPrimaries
<1>a. ASSUME NEW ok \in BOOLEAN, Answer(s, ok), Primaries' = Primaries PROVE PrimaryInv'
  BY <1>0, <1>a, <1>q, AnswerHeads
<1>d. UNCHANGED docs => Primaries' = Primaries
  BY DEF Primaries
<1>1. CASE LookupInvoice(s)
  <2>1. UNCHANGED docs
    BY <1>1 DEF LookupInvoice, stored
  <2>2. CASE Goto(s, "create")
    BY <1>0, <1>d, <1>q, <2>1, <2>2, GotoFields DEF Heads
  <2>3. CASE Answer(s, TRUE)
    BY <1>a, <1>d, <2>1, <2>3
  <2>4. CASE Primaries = {}
    BY <2>1, <2>4, EnterPrimaries
  <2> QED
    BY <1>1, <2>2, <2>3, <2>4 DEF LookupInvoice, Primaries
<1>2. CASE LookupDocument(s)
  <2>1. UNCHANGED docs /\ request[s].photo # Primary
    BY <1>2 DEF LookupDocument, stored
  <2>2. CASE Answer(s, FALSE)
    BY <1>a, <1>d, <2>1, <2>2
  <2>3. CASE Goto(s, "save") \/ \E d : request' = [request EXCEPT ![s].at = "save", ![s].doc = d]
    <3>1. request'[s].photo = request[s].photo
      BY <1>0, <2>3 DEF Goto, Request
    <3> QED
      BY <1>d, <1>q, <2>1, <3>1 DEF Heads
  <2> QED
    BY <1>2, <2>2, <2>3 DEF LookupDocument
<1>3. CASE Misread(s)
  <2>1. UNCHANGED docs /\ (Goto(s, "create") \/ Goto(s, "save"))
    BY <1>3 DEF Misread, stored
  <2>2. /\ request'[s].photo = request[s].photo /\ request'[s].link = request[s].link
    BY <1>0, <2>1 DEF Goto, Request
  <2>3. CASE request[s].link = "cancelled"
    BY <1>d, <1>q, <2>1, <2>2, <2>3 DEF Heads
  <2>4. CASE faults' = faults + 1
    <3>1. Heading' \subseteq Heading \cup {s}
      BY <1>o DEF Heading
    <3>2. IsFiniteSet(Heading \cup {s}) /\ Cardinality(Heading \cup {s}) <= Cardinality(Heading) + 1
          /\ Cardinality(Heading \cup {s}) \in Nat
      <4>1. IsFiniteSet(Heading) /\ Cardinality(Heading) \in Nat
        BY <1>0, PrimariesFinite
      <4>2. CASE s \in Heading
        <5>1. Heading \cup {s} = Heading
          BY <4>2
        <5> QED
          BY <4>1, <5>1
      <4>3. CASE s \notin Heading
        BY <4>1, <4>3, FS_AddElement
      <4> QED
        BY <4>2, <4>3
    <3>3. Cardinality(Heading') \in Nat /\ Cardinality(Heading') <= Cardinality(Heading) + 1
      <4>1. Cardinality(Heading') \in Nat /\ Cardinality(Heading') <= Cardinality(Heading \cup {s})
        BY <3>1, <3>2, FS_Subset, FS_CardinalityType
      <4> QED
        BY <1>0, <3>2, <4>1, PrimariesFinite
    <3>4. UploadInv' /\ Grows
      BY <1>0, NextUploadInv, NextGrows
    <3> QED
      BY <1>0, <1>d, <2>1, <2>4, <3>3, <3>4, PrimariesFinite DEF PrimaryInv, Grows
  <2> QED
    BY <1>3, <2>3, <2>4 DEF Misread
<1>4. CASE CreateInvoice(s)
  <2>1. UNCHANGED docs
    BY <1>4 DEF CreateInvoice
  <2>2. CASE invoice
    BY <1>4, <1>a, <1>d, <2>1, <2>2 DEF CreateInvoice
  <2>3. CASE ~invoice
    BY <2>1, <2>3, EnterPrimaries DEF PrimaryInv
  <2> QED
    BY <2>2, <2>3
<1>5. CASE SaveFile(s)
  <2>1. /\ UNCHANGED docs /\ At(s, "save")
        /\ request'[s].photo = request[s].photo /\ request'[s].link = request[s].link
    BY <1>0, <1>5 DEF SaveFile, Goto, Request
  <2> QED
    BY <1>d, <1>q, <2>1 DEF Heads, At
<1>6. CASE TearFile(s) \/ StartMatching(s) \/ RefusePrimary(s) \/ Fail(s)
  <2>1. UNCHANGED docs /\ \E ok \in BOOLEAN : Answer(s, ok)
    BY <1>6 DEF TearFile, StartMatching, RefusePrimary, Fail, stored
  <2> QED
    BY <1>a, <1>d, <2>1
<1>7. CASE CreateDocument(s)
  <2>1. /\ DOMAIN docs' = DOMAIN docs \cup {Len(docs) + 1} /\ Len(docs) + 1 \notin DOMAIN docs
        /\ \A d \in DOMAIN docs : docs'[d] = docs[d]
        /\ docs'[Len(docs) + 1].primary = (request[s].photo = Primary)
    BY <1>0, <1>7, CreateDocumentGrows
  <2>2. request[s].at = "document" /\ request[s].link # "cancelled" /\ request'[s].at = "version"
    BY <1>0, <1>7 DEF CreateDocument, AtDb, At, Request
  <2>3. CASE request[s].photo # Primary
    <3>1. Primaries' = Primaries
      BY <2>1, <2>3 DEF Primaries
    <3> QED
      BY <1>q, <2>2, <3>1 DEF Heads
  <2>4. CASE request[s].photo = Primary
    <3>1. Primaries' = Primaries \cup {Len(docs) + 1} /\ Len(docs) + 1 \notin Primaries
      BY <2>1, <2>4 DEF Primaries
    <3>2. Cardinality(Primaries') = Cardinality(Primaries) + 1
      BY <1>0, <3>1, PrimariesFinite, FS_AddElement
    <3>3. Heading' = Heading \ {s} /\ s \in Heading
      BY <1>o, <2>2, <2>4 DEF Heading, Heads
    <3>4. Cardinality(Heading') = Cardinality(Heading) - 1
      BY <1>0, <3>3, PrimariesFinite, FS_RemoveElement
    <3>5. UploadInv' /\ Grows /\ faults' \in Nat /\ faults <= faults'
      BY <1>0, NextUploadInv, NextGrows, FaultsGrow
    <3>6. invoice'
      BY <1>0, <2>2, <2>4, <3>5 DEF RequestInv, Grows
    <3> QED
      BY <1>0, <3>2, <3>4, <3>5, <3>6, PrimariesFinite DEF PrimaryInv
  <2> QED
    BY <2>3, <2>4
<1>8. CASE CreateVersion(s) \/ AppendVersion(s)
  <2>1. request[s].at \in {"version", "append"} /\ OwnDocument(s)
    BY <1>0, <1>8 DEF CreateVersion, AppendVersion, AtDb, At, RequestInv
  <2>2. Primaries' = Primaries
    <3>1. CASE UNCHANGED docs
      BY <1>d, <3>1
    <3>2. CASE AddVersion(s)
      <4>1. DOMAIN docs' = DOMAIN docs /\ \A d \in DOMAIN docs : docs'[d].primary = docs[d].primary
        BY <1>0, <2>1, <3>2, AddVersionGrows DEF OwnDocument
      <4> QED
        BY <4>1 DEF Primaries
    <3> QED
      BY <1>8, <3>1, <3>2 DEF CreateVersion, AppendVersion
  <2>3. CASE \E ok \in BOOLEAN : Answer(s, ok)
    BY <1>a, <2>2, <2>3
  <2>4. CASE Goto(s, "matching")
    BY <1>0, <1>q, <2>2, <2>4, GotoFields DEF Heads
  <2> QED
    BY <1>8, <2>3, <2>4 DEF CreateVersion, AppendVersion, AfterVersion
<1> QED
  BY <1>1, <1>2, <1>3, <1>4, <1>5, <1>6, <1>7, <1>8 DEF Handle

LEMMA NextPrimaryInv ==
  ASSUME PrimaryInv, IsFiniteSet(Slots), [Next]_vars
  PROVE  PrimaryInv'
<1>0. TypeOK /\ request \in [Slots -> Request]
  BY DEF PrimaryInv, UploadInv, TypeOK
<1>d. UNCHANGED docs => Primaries' = Primaries
  BY DEF Primaries
<1>1. CASE Sync \/ Finish \/ UNCHANGED vars
  <2>1. UNCHANGED <<docs, request>>
    BY <1>1 DEF Sync, Finish, vars, stored
  <2>2. Heading' \subseteq Heading
    BY <2>1 DEF Heading
  <2> QED
    BY <1>d, <2>1, <2>2, QuietPrimaries
<1>2. CASE Kill
  <2>1. UNCHANGED docs
    BY <1>2 DEF Kill, stored
  <2>2. CASE UNCHANGED request
    <3>1. Heading' \subseteq Heading
      BY <2>2 DEF Heading
    <3> QED
      BY <1>d, <2>1, <3>1, QuietPrimaries
  <2>3. CASE waiting \in Slots /\ ~Hung /\ Orphan(waiting)
    <3>0. waiting # NoSlot
      BY <2>3, MarkersAssumption
    <3>1. request[waiting].link = "open"
      BY <2>3, <3>0 DEF Hung
    <3> QED
      BY <1>0, <1>d, <2>1, <2>3, <3>1, OrphanHeads, QuietPrimaries
  <2> QED
    BY <1>0, <1>2, <2>2, <2>3 DEF Kill, TypeOK
<1>3. ASSUME NEW s \in Slots, Send(s) PROVE PrimaryInv'
  <2>1. PICK p \in Photos :
          request' = [request EXCEPT ![s] = [Idle EXCEPT !.at = "lookup", !.photo = p]]
    BY <1>3 DEF Send
  <2>2. request'[s].at = "lookup" /\ \A t \in Slots \ {s} : request'[t] = request[t]
    BY <1>0, <2>1 DEF Idle
  <2>3. Heading' \subseteq Heading
    BY <2>2, HeadingOf DEF Heads
  <2> QED
    BY <1>3, <1>d, <2>3, QuietPrimaries DEF Send, stored
<1>4. ASSUME NEW s \in Slots, Deliver(s) PROVE PrimaryInv'
  <2>1. request'[s] = Idle /\ \A t \in Slots \ {s} : request'[t] = request[t]
    BY <1>0, <1>4 DEF Deliver
  <2>2. Heading' \subseteq Heading
    BY <2>1, IdleHeads, HeadingOf
  <2> QED
    BY <1>4, <1>d, <2>2, QuietPrimaries DEF Deliver, stored
<1>5. ASSUME NEW s \in Slots, LoseConnection(s) \/ LoseSilently(s) PROVE PrimaryInv'
  <2>1. Orphan(s) /\ request[s].link = "open" /\ UNCHANGED docs
    BY <1>5 DEF LoseConnection, LoseSilently, stored
  <2> QED
    BY <1>0, <1>d, <2>1, OrphanHeads, QuietPrimaries
<1>6. ASSUME NEW s \in Slots, Handle(s) PROVE PrimaryInv'
  BY <1>6, HandlePrimaries
<1> QED
  BY <1>1, <1>2, <1>3, <1>4, <1>5, <1>6 DEF Next

\* However often a bundle is sent again, an invoice has no more primary documents
\* than requests that can run at once and lookups that failed: a retry files a
\* second one only beside a request that is still running, or when the error of
\* its lookup was taken for "not found" (handleUploadLedgerInvoice).
THEOREM PrimaryDocumentsBounded ==
  ASSUME IsFiniteSet(Slots)
  PROVE  Spec => [](/\ IsFiniteSet(Primaries)
                    /\ Cardinality(Primaries) <= Cardinality(Slots) + faults)
<1>1. Init => PrimaryInv
  <2> SUFFICES ASSUME Init PROVE PrimaryInv
    OBVIOUS
  <2>1. Primaries = {} /\ Heading = {} /\ faults = 0
    BY IdleHeads DEF Init, Primaries, Heading
  <2>2. Cardinality(Primaries) = 0 /\ Cardinality(Heading) = 0
    BY <2>1, FS_EmptySet
  <2>3. Cardinality(Slots) \in Nat
    BY FS_CardinalityType
  <2> QED
    BY <2>1, <2>2, <2>3, InitUploadInv DEF PrimaryInv
<1>2. PrimaryInv /\ [Next]_vars => PrimaryInv'
  BY NextPrimaryInv
<1>3. PrimaryInv =>
        IsFiniteSet(Primaries) /\ Cardinality(Primaries) <= Cardinality(Slots) + faults
  BY PrimariesFinite DEF PrimaryInv, UploadInv
<1> QED
  BY <1>1, <1>2, <1>3, PTL DEF Spec
=============================================================================
