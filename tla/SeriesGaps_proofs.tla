-------------------------- MODULE SeriesGaps_proofs --------------------------
(***************************************************************************)
(* Proofs about SeriesGaps, for any papers, series, workers and bounds:    *)
(* type correctness, that a flagged number was missing when the scan read  *)
(* its series, that a scan leaves none of them out, and that the scan      *)
(* implements GapRegister.                                                 *)
(***************************************************************************)
EXTENDS SeriesGaps, FiniteSetTheorems, TLAPS

-----------------------------------------------------------------------------
(***************************************************************************)
(* Type correctness.                                                       *)
(***************************************************************************)

LEMMA IdleType ==
  /\ Idle \in Scan /\ Idle.at = "idle" /\ Idle.seen = {} /\ Idle.flag = {} /\ Idle.clear = {}
BY DEF Idle, Scan

LEMMA TypeInit == Init => TypeOK
<1> SUFFICES ASSUME Init PROVE TypeOK
  OBVIOUS
<1>1. gaps = << >> /\ judged = << >>
  BY DEF Init
<1>2. DOMAIN gaps = {} /\ DOMAIN judged = {}
  BY <1>1
<1>3. gaps \in [DOMAIN gaps -> Status] /\ judged \in [DOMAIN judged -> Status \ {"open"}]
  BY <1>1, <1>2
<1>4. scan \in [Worker -> Scan]
  BY IdleType DEF Init
<1> QED BY <1>2, <1>3, <1>4, BoundAssumption DEF Init, TypeOK

LEMMA FaultType == ASSUME TypeOK, Fault \/ UNCHANGED faults PROVE faults' \in 0 .. MaxFaults
BY BoundAssumption DEF TypeOK, Fault

\* A scan goes on with another record of the type.
LEMMA ScanType ==
  ASSUME TypeOK, NEW w \in Worker, NEW r \in Scan, scan' = [scan EXCEPT ![w] = r]
  PROVE  scan' \in [Worker -> Scan]
BY DEF TypeOK

\* Every scan step that leaves what is stored alone.
LEMMA TypeStored ==
  ASSUME TypeOK, UNCHANGED stored, Fault \/ UNCHANGED faults, scan' \in [Worker -> Scan]
  PROVE  TypeOK'
BY FaultType DEF TypeOK, stored

LEMMA TypeUpload ==
  ASSUME TypeOK, NEW text \in Paper, NEW supplied \in Series \cup {NoSeries},
         StampSeries(text, supplied)
  PROVE  TypeOK'
<1>1. PICK series \in Series \cup {NoSeries} :
        /\ Fault \/ UNCHANGED faults
        /\ stamping' = stamping \cup {[text |-> text, series |-> series]}
  BY DEF StampSeries
<1>2. [text |-> text, series |-> series] \in Invoice
  BY PaperAssumption DEF Invoice
<1>3. stamping' \subseteq Invoice
  BY <1>1, <1>2 DEF TypeOK
<1>4. UNCHANGED <<filed, registry, gaps, judged, scan>>
  BY DEF StampSeries
<1> QED BY <1>1, <1>3, <1>4, FaultType DEF TypeOK

LEMMA TypeMaster ==
  ASSUME TypeOK, \/ \E s \in Series : RegisterSeries(s) \/ DeleteSeries(s)
                 \/ \E i \in stamping : CreateInvoice(i)
  PROVE  TypeOK'
<1>1. CASE \E s \in Series : RegisterSeries(s) \/ DeleteSeries(s)
  BY <1>1 DEF RegisterSeries, DeleteSeries, TypeOK
<1>2. CASE \E i \in stamping : CreateInvoice(i)
  BY <1>2 DEF CreateInvoice, TypeOK
<1> QED BY <1>1, <1>2

\* The texts of a series, and the numbers missing among them.
LEMMA ReadType ==
  ASSUME TypeOK, NEW s
  PROVE  Of(s) \subseteq Text /\ MissingNumbers(Of(s)) \subseteq Number
<1>1. \A i \in filed : i.text \in Text
  BY DEF TypeOK, Invoice
<1> QED BY <1>1 DEF Of, MissingNumbers

LEMMA DistinctType == ASSUME TypeOK PROVE DistinctSeries \subseteq Series
<1>1. \A i \in filed : i.series \in Series \cup {NoSeries}
  BY DEF TypeOK, Invoice
<1> QED BY <1>1 DEF DistinctSeries

\* What is printed for a number is a text.
LEMMA PrintType ==
  ASSUME NEW t \in Text, NEW n \in Number
  PROVE  PrintLike(t, n) \in Text /\ PrintLike(t, n).prefix = t.prefix /\ PrintLike(t, n).number = n
<1>1. Digits[n] \in 0 .. MaxWidth /\ t.width \in 0 .. MaxWidth /\ t.prefix \in Prefix
  BY NumberAssumption DEF Text
<1>2. (IF t.width < Digits[n] THEN Digits[n] ELSE t.width) \in 0 .. MaxWidth
  BY <1>1
<1> QED BY <1>1, <1>2 DEF PrintLike, Text

\* A row that is raised is one more open one, or was there already.
LEMMA RaiseType ==
  ASSUME TypeOK, NEW row \in Row, Raise(row)
  PROVE  /\ DOMAIN gaps' = DOMAIN gaps \cup {row}
         /\ gaps' \in [DOMAIN gaps' -> Status]
         /\ row \in DOMAIN gaps => gaps' = gaps
<1>1. gaps' = [g \in DOMAIN gaps \cup {row} |-> IF g \in DOMAIN gaps THEN gaps[g] ELSE "open"]
  BY DEF Raise
<1>2. DOMAIN gaps' = DOMAIN gaps \cup {row}
  BY <1>1
<1>3. \A g \in DOMAIN gaps : gaps[g] \in Status
  BY DEF TypeOK
<1>4. gaps' \in [DOMAIN gaps' -> Status]
  BY <1>1, <1>2, <1>3 DEF Status
<1>5. ASSUME row \in DOMAIN gaps PROVE gaps' = gaps
  <2>1. gaps' \in [DOMAIN gaps -> Status] /\ gaps \in [DOMAIN gaps -> Status]
    BY <1>2, <1>4, <1>5 DEF TypeOK
  <2>2. \A g \in DOMAIN gaps : gaps'[g] = gaps[g]
    BY <1>1
  <2> QED BY <2>1, <2>2
<1> QED BY <1>2, <1>4, <1>5

LEMMA ResolveType ==
  ASSUME TypeOK, NEW row, ResolveIfOpen(row)
  PROVE  DOMAIN gaps' = DOMAIN gaps /\ gaps' \in [DOMAIN gaps' -> Status]
<1>1. \A g \in DOMAIN gaps : gaps[g] \in Status
  BY DEF TypeOK
<1> QED BY <1>1 DEF ResolveIfOpen, Status

\* The records of a scan that reads, flags and clears.
LEMMA TypeRead ==
  ASSUME TypeOK, NEW w \in Worker, NEW s \in scan[w].left, ReadSeries(w, s) \/ SkipSeries(w, s)
  PROVE  TypeOK'
<1>a. scan[w] \in Scan /\ s \in Series
  BY DEF TypeOK, Scan
<1>1. CASE ReadSeries(w, s)
  <2> DEFINE r == IF Worth(Of(s))
                    THEN [at |-> "flag", left |-> scan[w].left \ {s}, series |-> s, seen |-> Of(s),
                          flag |-> MissingNumbers(Of(s)), clear |-> Of(s)]
                    ELSE [scan[w] EXCEPT !.left = @ \ {s}]
  <2>1. [at |-> "flag", left |-> scan[w].left \ {s}, series |-> s, seen |-> Of(s),
         flag |-> MissingNumbers(Of(s)), clear |-> Of(s)] \in Scan
    BY <1>a, ReadType DEF Scan
  <2>2. [scan[w] EXCEPT !.left = @ \ {s}] \in Scan
    BY <1>a DEF Scan
  <2>3. r \in Scan
    BY <2>1, <2>2
  <2>4. scan' = [scan EXCEPT ![w] = r]
    <3>1. w \in DOMAIN scan
      BY DEF TypeOK
    <3>2. CASE Worth(Of(s))
      BY <1>1, <3>1, <3>2 DEF ReadSeries
    <3>3. CASE ~Worth(Of(s))
      BY <1>1, <3>1, <3>3 DEF ReadSeries
    <3> QED BY <3>2, <3>3
  <2> HIDE DEF r
  <2>5. scan' \in [Worker -> Scan]
    BY <2>3, <2>4, ScanType
  <2> QED BY <1>1, <2>5, TypeStored DEF ReadSeries
<1>2. CASE SkipSeries(w, s)
  <2> DEFINE r == [scan[w] EXCEPT !.left = @ \ {s}]
  <2>1. r \in Scan
    BY <1>a DEF Scan
  <2>2. scan' = [scan EXCEPT ![w] = r]
    BY <1>2, <1>a DEF SkipSeries, TypeOK
  <2> HIDE DEF r
  <2>3. scan' \in [Worker -> Scan]
    BY <2>1, <2>2, ScanType
  <2> QED BY <1>2, <2>3, TypeStored DEF SkipSeries
<1> QED BY <1>1, <1>2

LEMMA TypeFlag ==
  ASSUME TypeOK, NEW w \in Worker, NEW n \in scan[w].flag, FlagNumber(w, n),
         scan[w].series \in Series
  PROVE  TypeOK'
<1>a. scan[w] \in Scan /\ n \in Number /\ scan[w].seen \subseteq Text
  BY DEF TypeOK, Scan
<1>1. scan' \in [Worker -> Scan]
  <2> DEFINE r == [scan[w] EXCEPT !.flag = @ \ {n}]
  <2>1. r \in Scan
    BY <1>a DEF Scan
  <2>2. scan' = [scan EXCEPT ![w] = r]
    BY <1>a DEF FlagNumber, TypeOK
  <2> HIDE DEF r
  <2> QED BY <2>1, <2>2, ScanType
<1>2. CASE Fault /\ UNCHANGED gaps
  BY <1>1, <1>2, FaultType DEF FlagNumber, TypeOK
<1>3. ASSUME NEW t \in Nearest(scan[w].seen, n), UNCHANGED faults,
             Raise([series |-> scan[w].series, text |-> PrintLike(t, n)])
      PROVE  TypeOK'
  <2>1. t \in Text
    BY <1>a DEF Nearest, Numeric
  <2> DEFINE row == [series |-> scan[w].series, text |-> PrintLike(t, n)]
  <2>2. row \in Row
    BY <1>a, <2>1, PrintType DEF Row
  <2>3. Raise(row)
    BY <1>3
  <2> HIDE DEF row
  <2>4. DOMAIN gaps' = DOMAIN gaps \cup {row} /\ gaps' \in [DOMAIN gaps' -> Status]
    BY <2>2, <2>3, RaiseType
  <2>5. UNCHANGED <<filed, registry, stamping, judged>>
    BY DEF FlagNumber
  <2> QED BY <1>1, <1>3, <2>2, <2>4, <2>5 DEF TypeOK
<1> QED BY <1>2, <1>3 DEF FlagNumber

LEMMA TypeClear ==
  ASSUME TypeOK, NEW w \in Worker, NEW t \in scan[w].clear, ClearNumber(w, t)
  PROVE  TypeOK'
<1>a. scan[w] \in Scan
  BY DEF TypeOK
<1>1. scan' \in [Worker -> Scan]
  <2> DEFINE r == [scan[w] EXCEPT !.clear = @ \ {t}]
  <2>1. r \in Scan
    BY <1>a DEF Scan
  <2>2. scan' = [scan EXCEPT ![w] = r]
    BY <1>a DEF ClearNumber, TypeOK
  <2> HIDE DEF r
  <2> QED BY <2>1, <2>2, ScanType
<1>2. CASE Fault /\ UNCHANGED gaps
  BY <1>1, <1>2, FaultType DEF ClearNumber, TypeOK
<1>3. CASE ResolveIfOpen([series |-> scan[w].series, text |-> t]) /\ UNCHANGED faults
  <2>1. DOMAIN gaps' = DOMAIN gaps /\ gaps' \in [DOMAIN gaps' -> Status]
    BY <1>3, ResolveType
  <2>2. UNCHANGED <<filed, registry, stamping, judged>>
    BY DEF ClearNumber
  <2> QED BY <1>1, <1>3, <2>1, <2>2 DEF TypeOK
<1> QED BY <1>2, <1>3 DEF ClearNumber

\* The steps of a scan that only go from one part of it to the next.
LEMMA TypePhase ==
  ASSUME TypeOK, NEW w \in Worker,
         BeginScan(w) \/ EndFlags(w) \/ EndClears(w) \/ EndScan(w) \/ Kill(w)
  PROVE  TypeOK'
<1>a. scan[w] \in Scan
  BY DEF TypeOK
<1>1. CASE BeginScan(w)
  <2> DEFINE r == [Idle EXCEPT !.at = "list", !.left = DistinctSeries]
  <2>1. r \in Scan
    BY DistinctType DEF Idle, Scan
  <2>2. scan' = [scan EXCEPT ![w] = r]
    BY <1>1 DEF BeginScan
  <2> HIDE DEF r
  <2> QED BY <1>1, <2>1, <2>2, ScanType, TypeStored DEF BeginScan
<1>2. CASE EndFlags(w)
  <2> DEFINE r == [scan[w] EXCEPT !.at = "clear"]
  <2>1. r \in Scan
    BY <1>a DEF Scan
  <2>2. scan' = [scan EXCEPT ![w] = r]
    BY <1>2, <1>a DEF EndFlags, TypeOK
  <2> HIDE DEF r
  <2> QED BY <1>2, <2>1, <2>2, ScanType, TypeStored DEF EndFlags
<1>3. CASE EndClears(w)
  <2> DEFINE r == [Idle EXCEPT !.at = "list", !.left = scan[w].left]
  <2>1. r \in Scan
    BY <1>a DEF Idle, Scan
  <2>2. scan' = [scan EXCEPT ![w] = r]
    BY <1>3 DEF EndClears
  <2> HIDE DEF r
  <2> QED BY <1>3, <2>1, <2>2, ScanType, TypeStored DEF EndClears
<1>4. CASE EndScan(w) \/ Kill(w)
  <2>1. scan' = [scan EXCEPT ![w] = Idle] /\ UNCHANGED stored /\ (Fault \/ UNCHANGED faults)
    BY <1>4 DEF EndScan, Kill
  <2> QED BY <2>1, IdleType, ScanType, TypeStored
<1> QED BY <1>1, <1>2, <1>3, <1>4

LEMMA TypeJudge ==
  ASSUME TypeOK, NEW row \in DOMAIN gaps, NEW status \in Status \ {"open"},
         ResolveMissing(row, status)
  PROVE  TypeOK'
<1>1. gaps' \in [DOMAIN gaps -> Status] /\ DOMAIN gaps' = DOMAIN gaps
  BY DEF TypeOK, ResolveMissing
<1>2. /\ DOMAIN judged' = DOMAIN judged \cup {row}
      /\ judged' \in [DOMAIN judged \cup {row} -> Status \ {"open"}]
  <2>1. judged' = [g \in DOMAIN judged \cup {row} |-> IF g = row THEN status ELSE judged[g]]
    BY DEF ResolveMissing
  <2>2. \A g \in DOMAIN judged : judged[g] \in Status \ {"open"}
    BY DEF TypeOK
  <2> QED BY <2>1, <2>2
<1>3. UNCHANGED <<filed, registry, stamping, scan, faults>>
  BY DEF ResolveMissing
<1> QED BY <1>1, <1>2, <1>3 DEF TypeOK

-----------------------------------------------------------------------------
(***************************************************************************)
(* What a scan has in hand.                                                *)
(***************************************************************************)

\* The invoices of a series the scan works with are on file, as invoices are
\* never taken back; what it will flag lies between two of them and is none of
\* them; what it will clear is one of them.
Held(r) ==
  /\ r.at \in {"flag", "clear"} => r.series \in Series
  /\ \A t \in r.seen : [text |-> t, series |-> r.series] \in filed
  /\ r.flag \subseteq MissingNumbers(r.seen)
  /\ r.clear \subseteq r.seen

ScanInv == \A w \in Worker : Held(scan[w])

LEMMA IdleHeld ==
  ASSUME NEW left
  PROVE  Held(Idle) /\ Held([Idle EXCEPT !.at = "list", !.left = left])
BY DEF Held, Idle

\* A step of one worker that stores nothing new about invoices.
LEMMA HeldStep ==
  ASSUME TypeOK, ScanInv, NEW w \in Worker, NEW r,
         scan' = [scan EXCEPT ![w] = r], filed' = filed, Held(r)
  PROVE  ScanInv'
<1> SUFFICES ASSUME NEW v \in Worker PROVE Held(scan[v])'
  BY DEF ScanInv
<1>1. CASE v = w
  BY <1>1 DEF Held, TypeOK
<1>2. CASE v # w
  BY <1>2 DEF Held, ScanInv, TypeOK
<1> QED BY <1>1, <1>2

\* Other steps leave the scans alone and take no invoice back.
LEMMA HeldOther ==
  ASSUME ScanInv, scan' = scan, filed \subseteq filed'
  PROVE  ScanInv'
<1> SUFFICES ASSUME NEW v \in Worker PROVE Held(scan[v])'
  BY DEF ScanInv
<1> QED BY DEF Held, ScanInv

\* What is read of a series.
LEMMA ReadHeld ==
  ASSUME TypeOK, NEW left, NEW s \in Series
  PROVE  Held([at |-> "flag", left |-> left, series |-> s, seen |-> Of(s),
               flag |-> MissingNumbers(Of(s)), clear |-> Of(s)])
<1>1. ASSUME NEW t \in Of(s) PROVE [text |-> t, series |-> s] \in filed
  <2>1. PICK i \in filed : i.series = s /\ i.text = t
    BY <1>1 DEF Of
  <2>2. i \in Invoice
    BY DEF TypeOK
  <2> QED BY <2>1, <2>2 DEF Invoice
<1> QED BY <1>1 DEF Held

LEMMA HeldScan ==
  ASSUME TypeOK, ScanInv, NEW w \in Worker, ScanStep(w) \/ Kill(w)
  PROVE  ScanInv'
<1>a. scan[w] \in Scan /\ Held(scan[w]) /\ w \in DOMAIN scan
  BY DEF TypeOK, ScanInv
<1>1. CASE BeginScan(w) \/ EndClears(w) \/ EndScan(w) \/ Kill(w)
  <2>1. filed' = filed
    BY <1>1 DEF BeginScan, EndClears, EndScan, Kill, stored
  <2>2. \/ scan' = [scan EXCEPT ![w] = Idle]
        \/ \E left \in {DistinctSeries, scan[w].left} :
             scan' = [scan EXCEPT ![w] = [Idle EXCEPT !.at = "list", !.left = left]]
    BY <1>1 DEF BeginScan, EndClears, EndScan, Kill
  <2> QED BY <2>1, <2>2, IdleHeld, HeldStep
<1>2. CASE EndFlags(w)
  <2> DEFINE r == [scan[w] EXCEPT !.at = "clear"]
  <2>1. Held(r)
    BY <1>2, <1>a DEF Held, Scan, EndFlags
  <2>2. scan' = [scan EXCEPT ![w] = r] /\ filed' = filed
    BY <1>2, <1>a DEF EndFlags, stored
  <2> HIDE DEF r
  <2> QED BY <2>1, <2>2, HeldStep
<1>3. ASSUME NEW s \in scan[w].left, ReadSeries(w, s) \/ SkipSeries(w, s)
      PROVE  ScanInv'
  <2>a. s \in Series /\ filed' = filed
    BY <1>3, <1>a DEF Scan, ReadSeries, SkipSeries, stored
  <2> DEFINE read == [at |-> "flag", left |-> scan[w].left \ {s}, series |-> s, seen |-> Of(s),
                      flag |-> MissingNumbers(Of(s)), clear |-> Of(s)]
             rest == [scan[w] EXCEPT !.left = @ \ {s}]
  <2>1. Held(read)
    BY <2>a, ReadHeld
  <2>2. Held(rest)
    <3>1. /\ rest.at = scan[w].at /\ rest.series = scan[w].series /\ rest.seen = scan[w].seen
          /\ rest.flag = scan[w].flag /\ rest.clear = scan[w].clear
      BY <1>a DEF Scan
    <3> HIDE DEF rest
    <3> QED BY <1>a, <3>1 DEF Held
  <2>3. scan' = [scan EXCEPT ![w] = read] \/ scan' = [scan EXCEPT ![w] = rest]
    <3>1. CASE ReadSeries(w, s) /\ Worth(Of(s))
      BY <3>1, <1>a DEF ReadSeries
    <3>2. CASE ReadSeries(w, s) /\ ~Worth(Of(s))
      BY <3>2, <1>a DEF ReadSeries
    <3>3. CASE SkipSeries(w, s)
      BY <3>3, <1>a DEF SkipSeries
    <3> QED BY <1>3, <3>1, <3>2, <3>3
  <2> HIDE DEF read, rest
  <2> QED BY <2>a, <2>1, <2>2, <2>3, HeldStep
<1>4. ASSUME NEW n \in scan[w].flag, FlagNumber(w, n)
      PROVE  ScanInv'
  <2> DEFINE r == [scan[w] EXCEPT !.flag = @ \ {n}]
  <2>1. Held(r)
    BY <1>a DEF Held, Scan
  <2>2. scan' = [scan EXCEPT ![w] = r] /\ filed' = filed
    BY <1>4, <1>a DEF FlagNumber
  <2> HIDE DEF r
  <2> QED BY <2>1, <2>2, HeldStep
<1>5. ASSUME NEW t \in scan[w].clear, ClearNumber(w, t)
      PROVE  ScanInv'
  <2> DEFINE r == [scan[w] EXCEPT !.clear = @ \ {t}]
  <2>1. Held(r)
    BY <1>a DEF Held, Scan
  <2>2. scan' = [scan EXCEPT ![w] = r] /\ filed' = filed
    BY <1>5, <1>a DEF ClearNumber
  <2> HIDE DEF r
  <2> QED BY <2>1, <2>2, HeldStep
<1> QED BY <1>1, <1>2, <1>3, <1>4, <1>5 DEF ScanStep

Inv == TypeOK /\ ScanInv

LEMMA InvInit == Init => Inv
<1> SUFFICES ASSUME Init, NEW w \in Worker PROVE Held(scan[w])
  BY TypeInit DEF Inv, ScanInv
<1>1. scan[w] = Idle
  BY DEF Init
<1> QED BY <1>1, IdleHeld

LEMMA InvNext == Inv /\ [Next]_vars => Inv'
<1> SUFFICES ASSUME TypeOK, ScanInv, [Next]_vars PROVE TypeOK' /\ ScanInv'
  BY DEF Inv
<1>1. ASSUME NEW w \in Worker, ScanStep(w) \/ Kill(w)
      PROVE  TypeOK' /\ ScanInv'
  <2>1. \A n \in scan[w].flag : FlagNumber(w, n) => scan[w].series \in Series
    BY DEF FlagNumber, ScanInv, Held
  <2> QED BY <1>1, <2>1, HeldScan, TypePhase, TypeRead, TypeFlag, TypeClear DEF ScanStep
<1>2. CASE \/ \E s \in Series : RegisterSeries(s) \/ DeleteSeries(s)
           \/ \E i \in stamping : CreateInvoice(i)
  <2>1. scan' = scan /\ filed \subseteq filed'
    BY <1>2 DEF RegisterSeries, DeleteSeries, CreateInvoice
  <2> QED BY <1>2, <2>1, TypeMaster, HeldOther
<1>3. ASSUME NEW t \in Paper, NEW s \in Series \cup {NoSeries}, StampSeries(t, s)
      PROVE  TypeOK' /\ ScanInv'
  BY <1>3, TypeUpload, HeldOther DEF StampSeries
<1>4. ASSUME NEW g \in DOMAIN gaps, NEW status \in Status \ {"open"}, ResolveMissing(g, status)
      PROVE  TypeOK' /\ ScanInv'
  BY <1>4, TypeJudge, HeldOther DEF ResolveMissing
<1>5. CASE UNCHANGED vars
  <2>1. TypeOK'
    BY <1>5 DEF TypeOK, vars, stored
  <2> QED BY <1>5, <2>1, HeldOther DEF vars, stored
<1> QED BY <1>1, <1>2, <1>3, <1>4, <1>5 DEF Next

\* Workers hold parts of what is on file, and act on those parts only.
THEOREM Invariant == Spec => []Inv
BY InvInit, InvNext, PTL DEF Spec

\* The state of SeriesGaps keeps its type.
THEOREM TypeCorrect == Spec => []TypeOK
<1>1. Inv => TypeOK
  BY DEF Inv
<1> QED BY <1>1, Invariant, PTL

-----------------------------------------------------------------------------
(***************************************************************************)
(* What is flagged.                                                        *)
(***************************************************************************)

\* Only FlagNumber adds a row, and adds the one it raises.
LEMMA AddedRow ==
  ASSUME TypeOK, [Next]_vars, NEW g \in DOMAIN gaps' \ DOMAIN gaps
  PROVE  \E w \in Worker : \E n \in scan[w].flag : \E t \in Nearest(scan[w].seen, n) :
           /\ scan[w].at = "flag"
           /\ g = [series |-> scan[w].series, text |-> PrintLike(t, n)]
<1>0. ~UNCHANGED gaps
  OBVIOUS
<1>1. ASSUME NEW w \in Worker, ScanStep(w) \/ Kill(w)
      PROVE  \E n \in scan[w].flag : FlagNumber(w, n)
  <2>1. ASSUME NEW t \in scan[w].clear, ClearNumber(w, t) PROVE FALSE
    <3>1. DOMAIN gaps' = DOMAIN gaps
      BY <1>0, <2>1, ResolveType DEF ClearNumber
    <3> QED BY <3>1
  <2> QED BY <1>0, <1>1, <2>1
        DEF ScanStep, BeginScan, EndFlags, EndClears, EndScan, Kill, ReadSeries, SkipSeries, stored
<1>2. \E w \in Worker : \E n \in scan[w].flag : FlagNumber(w, n)
  <2>1. ASSUME NEW row \in DOMAIN gaps, NEW status \in Status \ {"open"},
               ResolveMissing(row, status)
        PROVE  FALSE
    <3>1. DOMAIN gaps' = DOMAIN gaps
      BY <2>1 DEF ResolveMissing
    <3> QED BY <3>1
  <2> QED BY <1>0, <1>1, <2>1
        DEF Next, vars, stored, RegisterSeries, DeleteSeries, StampSeries, CreateInvoice
<1>3. PICK w \in Worker : \E n \in scan[w].flag : FlagNumber(w, n)
  BY <1>2
<1>4. PICK n \in scan[w].flag : FlagNumber(w, n)
  BY <1>3
<1>5. PICK t \in Nearest(scan[w].seen, n) :
        Raise([series |-> scan[w].series, text |-> PrintLike(t, n)])
  BY <1>0, <1>4 DEF FlagNumber
<1>6. DOMAIN gaps' = DOMAIN gaps \cup {[series |-> scan[w].series, text |-> PrintLike(t, n)]}
  BY <1>5 DEF Raise
<1>7. g = [series |-> scan[w].series, text |-> PrintLike(t, n)] /\ scan[w].at = "flag"
  BY <1>4, <1>6 DEF FlagNumber
<1> QED BY <1>7

\* The nearest invoice below a missing number leaves none between the two.
LEMMA NearestMissing ==
  ASSUME NEW seen \in SUBSET Text, NEW n \in MissingNumbers(seen), NEW t \in Nearest(seen, n)
  PROVE  /\ t \in seen /\ t.width > 0 /\ t.number < n
         /\ \A u \in seen : u.width > 0 => u.number <= t.number \/ u.number > n
         /\ \E u \in seen : u.width > 0 /\ u.number > n
<1>1. t \in seen /\ t.width > 0 /\ t.number < n
  BY DEF Nearest, Numeric
<1>2. ASSUME NEW u \in seen, u.width > 0
      PROVE  u.number <= t.number \/ u.number > n
  <2>1. u.number # n
    BY <1>2 DEF MissingNumbers, Present, Numeric
  <2>2. u.number < n => u.number <= t.number
    BY <1>2 DEF Nearest, Numeric
  <2>3. u.number \in Nat /\ n \in Nat
    BY NumberAssumption DEF Text, Number, MissingNumbers
  <2> QED BY <2>1, <2>2, <2>3
<1>3. \E u \in seen : u.width > 0 /\ u.number > n
  <2>1. PICK high \in Present(seen) : n < high
    BY DEF MissingNumbers
  <2>2. PICK u \in seen : u.width > 0 /\ u.number = high
    BY DEF Present, Numeric
  <2>3. u.number \in Nat /\ n \in Nat
    BY NumberAssumption DEF Text, Number, MissingNumbers
  <2> QED BY <2>1, <2>2, <2>3
<1> QED BY <1>1, <1>2, <1>3

\* What a worker about to flag n, next to t, has in hand.
LEMMA FlagHeld ==
  ASSUME Inv, NEW w \in Worker, scan[w].at = "flag",
         NEW n \in scan[w].flag, NEW t \in Nearest(scan[w].seen, n)
  PROVE  /\ scan[w].seen \in SUBSET Text /\ n \in MissingNumbers(scan[w].seen)
         /\ scan[w].series \in Series /\ t \in Text /\ n \in Number
         /\ \A u \in scan[w].seen : [text |-> u, series |-> scan[w].series] \in filed
<1>1. scan[w] \in Scan /\ Held(scan[w])
  BY DEF Inv, TypeOK, ScanInv
<1>2. scan[w].seen \in SUBSET Text
  BY <1>1 DEF Scan
<1>3. t \in Text
  BY <1>2 DEF Nearest, Numeric
<1> QED BY <1>1, <1>2, <1>3 DEF Held, Scan

\* However filings, scans and judgements cross, a row that is added is for a
\* number its series skipped when the scan read it: FlaggedWasMissing.
THEOREM FlaggedIsMissing == Spec => FlaggedWasMissing
<1>1. ASSUME Inv, [Next]_vars, NEW g \in DOMAIN gaps' \ DOMAIN gaps
      PROVE  \E w \in Worker : \E t \in scan[w].seen :
               /\ t.number < g.text.number /\ t.prefix = g.text.prefix
               /\ \A u \in scan[w].seen :
                    u.width > 0 => u.number <= t.number \/ u.number > g.text.number
               /\ \E u \in scan[w].seen : u.width > 0 /\ u.number > g.text.number
               /\ \A u \in scan[w].seen : [text |-> u, series |-> g.series] \in filed
  <2>1. PICK w \in Worker : \E n \in scan[w].flag : \E t \in Nearest(scan[w].seen, n) :
          scan[w].at = "flag" /\ g = [series |-> scan[w].series, text |-> PrintLike(t, n)]
    BY <1>1, AddedRow DEF Inv
  <2>a. PICK n \in scan[w].flag : \E t \in Nearest(scan[w].seen, n) :
          scan[w].at = "flag" /\ g = [series |-> scan[w].series, text |-> PrintLike(t, n)]
    BY <2>1
  <2>2. PICK t \in Nearest(scan[w].seen, n) :
          scan[w].at = "flag" /\ g = [series |-> scan[w].series, text |-> PrintLike(t, n)]
    BY <2>a
  <2>3. /\ scan[w].seen \in SUBSET Text /\ n \in MissingNumbers(scan[w].seen)
        /\ t \in Text /\ n \in Number
        /\ \A u \in scan[w].seen : [text |-> u, series |-> scan[w].series] \in filed
    BY <1>1, <2>2, FlagHeld
  <2>4. g.text.prefix = t.prefix /\ g.text.number = n /\ g.series = scan[w].series
    BY <2>2, <2>3, PrintType
  <2> QED BY <2>3, <2>4, NearestMissing
<1>2. Inv /\ [Next]_vars =>
        \A g \in DOMAIN gaps' \ DOMAIN gaps :
          \E w \in Worker : \E t \in scan[w].seen :
            /\ t.number < g.text.number /\ t.prefix = g.text.prefix
            /\ \A u \in scan[w].seen :
                 u.width > 0 => u.number <= t.number \/ u.number > g.text.number
            /\ \E u \in scan[w].seen : u.width > 0 /\ u.number > g.text.number
            /\ \A u \in scan[w].seen : [text |-> u, series |-> g.series] \in filed
  BY <1>1
<1> QED BY <1>2, Invariant, PTL DEF Spec, FlaggedWasMissing

-----------------------------------------------------------------------------
(***************************************************************************)
(* What is not left out.                                                   *)
(***************************************************************************)

\* Every non-empty collection of subsets of a finite set has a member that
\* contains no other: what the least number of a set rests on.
LEMMA SmallestSet ==
  ASSUME NEW S, IsFiniteSet(S), NEW C \in SUBSET SUBSET S, C # {}
  PROVE  \E T \in C : \A U \in C : U \subseteq T => U = T
<1>1. IsWellFoundedOn(StrictSubsetOrdering(S), FiniteSubsetsOf(S))
  BY FS_StrictSubsetOrderingWellFounded
<1>2. C \subseteq FiniteSubsetsOf(S)
  BY FS_FiniteSubsetsOfFinite
<1>3. PICK T \in C : \A U \in C : ~(<<U, T>> \in StrictSubsetOrdering(S))
  BY <1>1, <1>2, WFMin
<1> QED
  BY <1>3 DEF StrictSubsetOrdering

\* A non-empty set of naturals has a least number.
LEMMA SmallestNat ==
  ASSUME NEW C \in SUBSET Nat, C # {}
  PROVE  \E n \in C : \A m \in C : n <= m
<1>1. PICK k \in C : TRUE
  OBVIOUS
<1> DEFINE R == 0 .. k
           D == {0 .. n : n \in {n \in C : n <= k}}
<1>2. D \in SUBSET SUBSET R /\ D # {}
  BY <1>1
<1>3. IsFiniteSet(R)
  BY FS_Interval
<1> HIDE DEF D, R
<1>4. PICK T \in D : \A U \in D : U \subseteq T => U = T
  BY <1>2, <1>3, SmallestSet
<1>5. PICK n \in C : n <= k /\ T = 0 .. n
  BY <1>4 DEF D
<1>6. ASSUME NEW m \in C, m < n PROVE FALSE
  <2>1. 0 .. m \in D
    BY <1>1, <1>5, <1>6 DEF D
  <2>2. 0 .. m \subseteq T /\ n \in T /\ n \notin 0 .. m
    BY <1>5, <1>6
  <2> QED
    BY <1>4, <2>1, <2>2
<1> QED
  BY <1>5, <1>6

\* Every missing number has a filed neighbour below to be printed like, so that
\* a scan never finds none (the neighbour is the number before in sorted order).
THEOREM NeighbourExists ==
  ASSUME NEW seen \in SUBSET Text, NEW n \in MissingNumbers(seen)
  PROVE  Nearest(seen, n) # {}
<1> DEFINE Gap == {n - t.number : t \in {t \in Numeric(seen) : t.number < n}}
<1>1. n \in Nat /\ \A t \in seen : t.number \in Nat
  BY NumberAssumption DEF MissingNumbers, Number, Text
<1>2. PICK low \in Numeric(seen) : low.number < n
  BY DEF MissingNumbers, Present
<1>3. Gap \in SUBSET Nat /\ n - low.number \in Gap
  BY <1>1, <1>2 DEF Numeric
<1> HIDE DEF Gap
<1>4. PICK gap \in Gap : \A m \in Gap : gap <= m
  BY <1>3, SmallestNat
<1>5. PICK t \in Numeric(seen) : t.number < n /\ gap = n - t.number
  BY <1>4 DEF Gap
<1>6. ASSUME NEW u \in Numeric(seen), u.number < n PROVE u.number <= t.number
  <2>1. n - u.number \in Gap
    BY <1>6 DEF Gap
  <2> QED BY <1>1, <1>4, <1>5, <2>1 DEF Numeric
<1> QED BY <1>5, <1>6 DEF Nearest

Registered(s, n) == \E g \in DOMAIN gaps : g.series = s /\ g.text.number = n

\* Of the numbers a scan found missing, those it no longer has to raise have a
\* row, unless a call has failed.
Complete(r) ==
  r.at \in {"flag", "clear"} =>
    /\ \A n \in MissingNumbers(r.seen) \ r.flag : Registered(r.series, n) \/ faults > 0
    /\ r.at = "clear" => r.flag = {}

CompleteInv == Inv /\ \A w \in Worker : Complete(scan[w])

\* No row is ever deleted, and no failure taken back.
LEMMA RowsStay ==
  ASSUME Inv, [Next]_vars
  PROVE  DOMAIN gaps \subseteq DOMAIN gaps' /\ (faults > 0 => faults' > 0)
<1>0. faults \in Nat
  BY BoundAssumption DEF Inv, TypeOK
<1>1. faults > 0 => faults' > 0
  <2>1. Fault \/ UNCHANGED faults
    BY DEF Next, vars, stored, ScanStep, RegisterSeries, DeleteSeries, StampSeries, CreateInvoice,
           BeginScan, ReadSeries, SkipSeries, FlagNumber, EndFlags, ClearNumber, EndClears,
           EndScan, Kill, ResolveMissing
  <2> QED BY <1>0, <2>1 DEF Fault
<1>2. \/ UNCHANGED gaps
      \/ \E row : Raise(row) \/ ResolveIfOpen(row)
      \/ \E row, status : gaps' = [gaps EXCEPT ![row] = status]
  <2>1. ASSUME NEW w \in Worker, NEW n \in scan[w].flag, FlagNumber(w, n)
        PROVE  UNCHANGED gaps \/ \E row : Raise(row)
    BY <2>1 DEF FlagNumber
  <2>2. ASSUME NEW w \in Worker, NEW t \in scan[w].clear, ClearNumber(w, t)
        PROVE  UNCHANGED gaps \/ \E row : ResolveIfOpen(row)
    BY <2>2 DEF ClearNumber
  <2>3. ASSUME NEW g \in DOMAIN gaps, NEW status \in Status \ {"open"}, ResolveMissing(g, status)
        PROVE  gaps' = [gaps EXCEPT ![g] = status]
    BY <2>3 DEF ResolveMissing
  <2> QED BY <2>1, <2>2, <2>3
        DEF Next, vars, stored, ScanStep, RegisterSeries, DeleteSeries, StampSeries,
            CreateInvoice, BeginScan, ReadSeries, SkipSeries, EndFlags, EndClears, EndScan, Kill
<1>3. ASSUME NEW row, Raise(row) PROVE DOMAIN gaps \subseteq DOMAIN gaps'
  BY <1>3 DEF Raise
<1>4. ASSUME NEW row, ResolveIfOpen(row) PROVE DOMAIN gaps \subseteq DOMAIN gaps'
  BY <1>4 DEF ResolveIfOpen
<1>5. ASSUME NEW row, NEW status, gaps' = [gaps EXCEPT ![row] = status]
      PROVE  DOMAIN gaps \subseteq DOMAIN gaps'
  BY <1>5
<1> QED BY <1>1, <1>2, <1>3, <1>4, <1>5

\* A scan that is complete stays so while others go on.
LEMMA CompleteStays ==
  ASSUME Inv, [Next]_vars, NEW r, Complete(r)
  PROVE  /\ \A n : Registered(r.series, n) => Registered(r.series, n)'
         /\ r.at \in {"flag", "clear"} =>
              /\ \A n \in MissingNumbers(r.seen) \ r.flag : Registered(r.series, n)' \/ faults' > 0
              /\ r.at = "clear" => r.flag = {}
BY RowsStay DEF Complete, Registered

\* The number a scan raises has a row afterwards, or the insert has failed.
LEMMA FlagRegisters ==
  ASSUME Inv, NEW w \in Worker, NEW n \in scan[w].flag, FlagNumber(w, n)
  PROVE  Registered(scan[w].series, n)' \/ faults' > 0
<1>1. CASE Fault
  BY <1>1, BoundAssumption DEF Fault, Inv, TypeOK
<1>2. CASE \E t \in Nearest(scan[w].seen, n) :
             Raise([series |-> scan[w].series, text |-> PrintLike(t, n)])
  <2>1. PICK t \in Nearest(scan[w].seen, n) :
          Raise([series |-> scan[w].series, text |-> PrintLike(t, n)])
    BY <1>2
  <2>2. t \in Text /\ n \in Number
    BY <2>1, FlagHeld DEF FlagNumber
  <2>3. PICK row : row = [series |-> scan[w].series, text |-> PrintLike(t, n)]
    OBVIOUS
  <2>4. row.series = scan[w].series /\ row.text.number = n
    BY <2>2, <2>3, PrintType
  <2>5. row \in DOMAIN gaps'
    BY <2>1, <2>3 DEF Raise
  <2>6. PICK s : s = scan[w].series
    OBVIOUS
  <2>7. scan'[w].series = s
    BY <2>6 DEF FlagNumber, Inv, TypeOK, Scan
  <2> QED BY <2>4, <2>5, <2>6, <2>7 DEF Registered
<1> QED BY <1>1, <1>2 DEF FlagNumber

LEMMA NextComplete == CompleteInv /\ [Next]_vars => CompleteInv'
<1> SUFFICES ASSUME CompleteInv, [Next]_vars, NEW w \in Worker PROVE Complete(scan[w])'
  BY InvNext DEF CompleteInv
<1>0. Inv /\ Complete(scan[w]) /\ scan \in [Worker -> Scan] /\ scan[w] \in Scan
  BY DEF CompleteInv, Inv, TypeOK
<1>a. PICK r, after : r = scan[w] /\ after = scan'[w]
  OBVIOUS
<1>b. SUFFICES ASSUME after.at \in {"flag", "clear"}
      PROVE  /\ \A n \in MissingNumbers(after.seen) \ after.flag :
                  Registered(after.series, n)' \/ faults' > 0
             /\ after.at = "clear" => after.flag = {}
  BY <1>a DEF Complete, Registered, MissingNumbers, Present, Numeric
<1>c. r.at \in {"flag", "clear"} =>
        /\ \A n \in MissingNumbers(r.seen) \ r.flag : Registered(r.series, n)' \/ faults' > 0
        /\ r.at = "clear" => r.flag = {}
  BY <1>0, <1>a, CompleteStays
<1>1. CASE after = r
  BY <1>1, <1>b, <1>c
<1>2. ASSUME NEW s \in r.left, ReadSeries(w, s), after # r
      PROVE  /\ \A n \in MissingNumbers(after.seen) \ after.flag :
                  Registered(after.series, n)' \/ faults' > 0
             /\ after.at = "clear" => after.flag = {}
  <2>1. CASE Worth(Of(s))
    <3>1. after = [at |-> "flag", left |-> r.left \ {s}, series |-> s, seen |-> Of(s),
                   flag |-> MissingNumbers(Of(s)), clear |-> Of(s)]
      BY <1>0, <1>2, <1>a, <2>1 DEF ReadSeries
    <3>2. after.flag = MissingNumbers(after.seen) /\ after.at = "flag"
      BY <3>1
    <3> QED BY <3>2
  <2>2. CASE ~Worth(Of(s))
    <3>1. after.at = "list"
      BY <1>0, <1>2, <1>a, <2>2 DEF ReadSeries, Scan
    <3> QED BY <1>b, <3>1
  <2> QED BY <2>1, <2>2
<1>3. ASSUME NEW n \in r.flag, FlagNumber(w, n)
      PROVE  /\ \A k \in MissingNumbers(after.seen) \ after.flag :
                  Registered(after.series, k)' \/ faults' > 0
             /\ after.at = "clear" => after.flag = {}
  <2>1. /\ r.at = "flag" /\ after.at = "flag" /\ after.seen = r.seen /\ after.series = r.series
        /\ after.flag = r.flag \ {n}
    BY <1>0, <1>3, <1>a DEF FlagNumber, Scan
  <2>2. Registered(r.series, n)' \/ faults' > 0
    <3>1. scan'[w].series = scan[w].series
      BY <1>a, <2>1
    <3>2. Registered(scan[w].series, n)' \/ faults' > 0
      BY <1>0, <1>3, <1>a, FlagRegisters
    <3> QED BY <1>a, <3>1, <3>2 DEF Registered
  <2> QED BY <1>c, <2>1, <2>2
<1>4. CASE EndFlags(w)
  <2>1. /\ r.at = "flag" /\ r.flag = {} /\ after.seen = r.seen /\ after.series = r.series
        /\ after.flag = r.flag
    BY <1>0, <1>4, <1>a DEF EndFlags, Scan
  <2> QED BY <1>c, <2>1
<1>5. ASSUME NEW t \in r.clear, ClearNumber(w, t)
      PROVE  /\ \A k \in MissingNumbers(after.seen) \ after.flag :
                  Registered(after.series, k)' \/ faults' > 0
             /\ after.at = "clear" => after.flag = {}
  <2>1. /\ after.at = r.at /\ after.seen = r.seen /\ after.series = r.series
        /\ after.flag = r.flag
    BY <1>0, <1>5, <1>a DEF ClearNumber, Scan
  <2> QED BY <1>b, <1>c, <2>1
<1>6. ASSUME NEW v \in Worker, ScanStep(v) \/ Kill(v), v # w PROVE after = r
  <2>1. \E x : scan' = [scan EXCEPT ![v] = x]
    BY <1>6 DEF ScanStep, BeginScan, ReadSeries, SkipSeries, FlagNumber, EndFlags, ClearNumber,
                EndClears, EndScan, Kill
  <2> QED BY <1>0, <1>6, <1>a, <2>1
<1>7. CASE BeginScan(w) \/ EndClears(w) \/ EndScan(w) \/ Kill(w)
  <2>1. \/ scan' = [scan EXCEPT ![w] = Idle]
        \/ \E left \in {DistinctSeries, scan[w].left} :
             scan' = [scan EXCEPT ![w] = [Idle EXCEPT !.at = "list", !.left = left]]
    BY <1>7 DEF BeginScan, EndClears, EndScan, Kill
  <2>2. after = Idle \/ \E left : after = [Idle EXCEPT !.at = "list", !.left = left]
    BY <1>0, <1>a, <2>1
  <2>3. ASSUME NEW left PROVE [Idle EXCEPT !.at = "list", !.left = left].at = "list"
    BY DEF Idle
  <2>4. after.at \notin {"flag", "clear"}
    <3>1. CASE after = Idle
      BY <3>1, IdleType
    <3>2. ASSUME NEW left, after = [Idle EXCEPT !.at = "list", !.left = left] PROVE after.at = "list"
      BY <2>3, <3>2
    <3> QED BY <2>2, <3>1, <3>2
  <2> QED BY <1>b, <2>4
<1>8. ASSUME NEW s \in r.left, SkipSeries(w, s) PROVE after.at = "list"
  BY <1>0, <1>8, <1>a DEF SkipSeries, Scan
<1>9. CASE UNCHANGED scan
  BY <1>1, <1>9, <1>a
<1>10. CASE ScanStep(w)
  BY <1>1, <1>2, <1>3, <1>4, <1>5, <1>7, <1>8, <1>10, <1>a, <1>b DEF ScanStep
<1> QED BY <1>1, <1>6, <1>7, <1>9, <1>10
      DEF Next, vars, RegisterSeries, DeleteSeries, StampSeries, CreateInvoice, ResolveMissing

\* A scan that has gone through a series has left a row for every number the
\* series skipped when it was read, unless a call has failed: however scans,
\* filings and judgements cross, nothing missing is passed over.
THEOREM ScansLeaveNothingOut ==
  Spec => [](\A w \in Worker : scan[w].at = "clear" =>
               \A n \in MissingNumbers(scan[w].seen) :
                 (\E g \in DOMAIN gaps : g.series = scan[w].series /\ g.text.number = n)
                 \/ faults > 0)
<1>1. Init => CompleteInv
  <2> SUFFICES ASSUME Init, NEW w \in Worker PROVE Complete(scan[w])
    BY InvInit DEF CompleteInv
  <2>1. scan[w].at = "idle"
    BY IdleType DEF Init
  <2> QED BY <2>1 DEF Complete
<1>2. CompleteInv =>
        \A w \in Worker : scan[w].at = "clear" =>
          \A n \in MissingNumbers(scan[w].seen) :
            (\E g \in DOMAIN gaps : g.series = scan[w].series /\ g.text.number = n) \/ faults > 0
  BY DEF CompleteInv, Complete, Registered
<1> QED BY <1>1, <1>2, NextComplete, PTL DEF Spec

-----------------------------------------------------------------------------
(***************************************************************************)
(* The scan implements the register.                                       *)
(***************************************************************************)

LEMMA RegisterFlag ==
  ASSUME Inv, NEW w \in Worker, NEW n \in scan[w].flag, FlagNumber(w, n)
  PROVE  [Register!Next]_(Register!vars)
<1>0. UNCHANGED <<filed, judged>> /\ scan[w].at = "flag"
  BY DEF FlagNumber
<1>1. CASE UNCHANGED gaps
  BY <1>0, <1>1 DEF Register!vars
<1>2. ASSUME NEW t \in Nearest(scan[w].seen, n),
             Raise([series |-> scan[w].series, text |-> PrintLike(t, n)])
      PROVE  [Register!Next]_(Register!vars)
  <2> DEFINE row == [series |-> scan[w].series, text |-> PrintLike(t, n)]
  <2>1. /\ scan[w].seen \in SUBSET Text /\ n \in MissingNumbers(scan[w].seen)
        /\ scan[w].series \in Series /\ t \in Text /\ n \in Number
        /\ \A u \in scan[w].seen : [text |-> u, series |-> scan[w].series] \in filed
    BY <1>0, FlagHeld
  <2>2. row \in Row /\ row.series = scan[w].series /\ row.text.number = n
    BY <2>1, PrintType DEF Row
  <2>3. Raise(row)
    BY <1>2
  <2> HIDE DEF row
  <2>4. CASE row \in DOMAIN gaps
    <3>1. gaps' = gaps
      BY <2>2, <2>3, <2>4, RaiseType DEF Inv
    <3> QED BY <1>0, <3>1 DEF Register!vars
  <2>5. CASE row \notin DOMAIN gaps
    <3>1. gaps' = [g \in DOMAIN gaps \cup {row} |-> IF g = row THEN "open" ELSE gaps[g]]
      BY <2>3, <2>5 DEF Raise
    <3>2. Register!Bracketed(row)
      <4>1. PICK high \in scan[w].seen : high.width > 0 /\ high.number > n
        BY <2>1, NearestMissing
      <4>2. t \in scan[w].seen /\ t.width > 0 /\ t.number < n
        BY <2>1, NearestMissing
      <4> DEFINE a == [text |-> t, series |-> scan[w].series]
                 b == [text |-> high, series |-> scan[w].series]
      <4>3. a \in filed /\ b \in filed
        BY <2>1, <4>1, <4>2
      <4>4. /\ a.series = row.series /\ b.series = row.series
            /\ a.text.width > 0 /\ b.text.width > 0
            /\ a.text.number < row.text.number
        BY <2>2, <4>1, <4>2
      <4>5. row.text.number < b.text.number
        <5>1. high.number \in Nat /\ n \in Nat
          BY <2>1, NumberAssumption DEF Text, Number
        <5> QED BY <2>2, <4>1, <5>1
      <4> HIDE DEF a, b
      <4> QED BY <4>3, <4>4, <4>5 DEF Register!Bracketed
    <3>3. Register!Flag(row)
      BY <1>0, <3>1, <3>2 DEF Register!Flag
    <3>4. row \in Register!Row
      BY <2>2 DEF Row, Register!Row
    <3> QED BY <2>5, <3>3, <3>4 DEF Register!Next
  <2> QED BY <2>4, <2>5
<1> QED BY <1>1, <1>2 DEF FlagNumber

LEMMA RegisterClear ==
  ASSUME Inv, NEW w \in Worker, NEW t \in scan[w].clear, ClearNumber(w, t)
  PROVE  [Register!Next]_(Register!vars)
<1>0. UNCHANGED <<filed, judged>>
  BY DEF ClearNumber
<1>1. CASE UNCHANGED gaps
  BY <1>0, <1>1 DEF Register!vars
<1>2. CASE ResolveIfOpen([series |-> scan[w].series, text |-> t])
  <2> DEFINE row == [series |-> scan[w].series, text |-> t]
  <2>1. [text |-> row.text, series |-> row.series] \in filed
    BY DEF Inv, ScanInv, Held
  <2>2. gaps' = [g \in DOMAIN gaps |->
                  IF g = row /\ gaps[g] = "open" THEN "resolved" ELSE gaps[g]]
    BY <1>2 DEF ResolveIfOpen
  <2> HIDE DEF row
  <2>a. gaps \in [DOMAIN gaps -> Status]
    BY DEF Inv, TypeOK
  <2>3. CASE row \in DOMAIN gaps /\ gaps[row] = "open"
    <3>1. gaps' = [gaps EXCEPT ![row] = "resolved"]
      BY <2>2, <2>3, <2>a
    <3>2. Register!Clear(row)
      BY <1>0, <2>1, <2>3, <3>1 DEF Register!Clear
    <3> QED BY <2>3, <3>2 DEF Register!Next
  <2>4. CASE ~(row \in DOMAIN gaps /\ gaps[row] = "open")
    <3>1. gaps' = gaps
      BY <2>2, <2>4, <2>a
    <3> QED BY <1>0, <3>1 DEF Register!vars
  <2> QED BY <2>3, <2>4
<1> QED BY <1>1, <1>2 DEF ClearNumber

LEMMA RegisterStep == Inv /\ [Next]_vars => [Register!Next]_(Register!vars)
<1> SUFFICES ASSUME Inv, [Next]_vars PROVE [Register!Next]_(Register!vars)
  OBVIOUS
<1>1. ASSUME NEW w \in Worker, ScanStep(w) \/ Kill(w)
      PROVE  [Register!Next]_(Register!vars)
  <2>1. CASE \E n \in scan[w].flag : FlagNumber(w, n)
    BY <2>1, RegisterFlag
  <2>2. CASE \E t \in scan[w].clear : ClearNumber(w, t)
    BY <2>2, RegisterClear
  <2>3. CASE UNCHANGED stored
    BY <2>3 DEF stored, Register!vars
  <2> QED BY <1>1, <2>1, <2>2, <2>3
        DEF ScanStep, BeginScan, EndFlags, EndClears, EndScan, Kill, ReadSeries, SkipSeries
<1>2. CASE \E s \in Series : RegisterSeries(s) \/ DeleteSeries(s)
  BY <1>2 DEF RegisterSeries, DeleteSeries, Register!vars
<1>3. ASSUME NEW t \in Paper, NEW s \in Series \cup {NoSeries}, StampSeries(t, s)
      PROVE  [Register!Next]_(Register!vars)
  BY <1>3 DEF StampSeries, Register!vars
<1>4. ASSUME NEW i \in stamping, CreateInvoice(i)
      PROVE  [Register!Next]_(Register!vars)
  <2>1. i \in Register!Invoice
    BY DEF Inv, TypeOK, Invoice, Register!Invoice
  <2>2. Register!File(i)
    BY <1>4 DEF CreateInvoice, Register!File
  <2> QED BY <2>1, <2>2 DEF Register!Next
<1>5. ASSUME NEW g \in DOMAIN gaps, NEW status \in Status \ {"open"}, ResolveMissing(g, status)
      PROVE  [Register!Next]_(Register!vars)
  <2>1. Register!Judge(g, status)
    BY <1>5 DEF ResolveMissing, Register!Judge
  <2>2. status \in {"resolved", "not_applicable"}
    BY DEF Status
  <2> QED BY <2>1, <2>2 DEF Register!Next
<1>6. CASE UNCHANGED vars
  BY <1>6 DEF vars, stored, Register!vars
<1> QED BY <1>1, <1>2, <1>3, <1>4, <1>5, <1>6 DEF Next

\* The scan, with its races, failures and kills, implements the register of
\* missing numbers: ImplementsRegister.
THEOREM ScanImplementsRegister == Spec => ImplementsRegister
<1>1. Init => Register!Init
  BY DEF Init, Register!Init
<1> QED BY <1>1, RegisterStep, Invariant, PTL DEF Spec, ImplementsRegister, Register!Spec
=============================================================================
