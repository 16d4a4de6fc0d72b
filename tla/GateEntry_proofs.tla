--------------------------- MODULE GateEntry_proofs ---------------------------
(***************************************************************************)
(* Type correctness of GateEntry, and what holds of shortages, of stacked  *)
(* disputes and of a person's rows however calls overlap, for any          *)
(* documents, any calls and any bounds.                                    *)
(***************************************************************************)
EXTENDS GateEntry, FiniteSetTheorems, TLAPS

\* Updating a function within its range keeps its type.
LEMMA ExceptTyped ==
  ASSUME NEW A, NEW B, NEW f \in [A -> B], NEW a, NEW b, a \in A => b \in B
  PROVE  [f EXCEPT ![a] = b] \in [A -> B]
  OBVIOUS

LEMMA InitTypeOK == Init => TypeOK
  BY BoundsAssumption DEF Init, TypeOK, NoRow, Row, Idle, Call, Readings

\* Every step of Next keeps every variable in its set.
LEMMA NextTypeOK == TypeOK /\ [Next]_vars => TypeOK'
<1> SUFFICES ASSUME TypeOK, [Next]_vars PROVE TypeOK'
  OBVIOUS
<1> USE BoundsAssumption DEF TypeOK
<1>1. ASSUME NEW d \in Docs, Upload(d) PROVE TypeOK'
  <2>0. versions[d] + 1 \in 0 .. MaxVersions
    BY <1>1 DEF Upload
  <2>1. versions' \in [Docs -> 0 .. MaxVersions]
    <3>1. versions \in [Docs -> 0 .. MaxVersions]
      OBVIOUS
    <3>2. versions' = [versions EXCEPT ![d] = versions[d] + 1]
      BY <1>1 DEF Upload
    <3> HIDE DEF TypeOK
    <3> QED
      BY <2>0, <3>1, <3>2, ExceptTyped
  <2>2. matching' \in [Docs -> 0 .. MaxVersions]
    <3>1. matching \in [Docs -> 0 .. MaxVersions]
      OBVIOUS
    <3>2. \/ matching' = [matching EXCEPT ![d] = versions[d] + 1]
          \/ matching' = matching
      BY <1>1 DEF Upload
    <3> HIDE DEF TypeOK
    <3> QED
      BY <2>0, <3>1, <3>2, ExceptTyped
  <2>3. reading' \in [Docs -> Readings]
    BY <1>1 DEF Upload
  <2> QED
    BY <1>1, <2>1, <2>2, <2>3 DEF Upload
<1>2. ASSUME NEW d \in Docs, UploadUnmatched(d) PROVE TypeOK'
  BY <1>2 DEF UploadUnmatched
<1>3. ASSUME NEW c \in Calls, NEW d \in Docs, StartAttempt(c, d) PROVE TypeOK'
  <2>1. \A step \in {"save", "log"} : Attempt(step, d) \in Call
    BY DEF Attempt, Call
  <2>2. call' \in [Calls -> Call]
    BY <1>3, <2>1 DEF StartAttempt
  <2> QED
    BY <1>3, <2>2 DEF StartAttempt
<1>4. ASSUME NEW c \in Calls, NEW d \in Docs, NEW short \in BOOLEAN,
             SubmitEntry(c, d, short)
      PROVE TypeOK'
  <2>1. row' \in [Docs -> Row]
    BY <1>4 DEF SubmitEntry, Upsert, Row
  <2>2. call' \in [Calls -> Call]
    BY <1>4 DEF SubmitEntry, Idle, Call
  <2> QED
    BY <1>4, <2>1, <2>2 DEF SubmitEntry
<1>5. ASSUME NEW c \in Calls, SaveExtraction(c) PROVE TypeOK'
  <2>1. row' \in [Docs -> Row]
    BY <1>5 DEF SaveExtraction, Upsert, Row, Call
  <2>2. call' \in [Calls -> Call]
    <3>1. \A step \in {"check", "log"} : [call[c] EXCEPT !.at = step] \in Call
      BY DEF Call
    <3> QED
      BY <1>5, <3>1 DEF SaveExtraction, Goto
  <2> QED
    BY <1>5, <2>1, <2>2 DEF SaveExtraction
<1>6. \A c \in Calls : Finish(c) => call' \in [Calls -> Call]
  BY DEF Finish, Idle, Call
<1>g. \A c \in Calls : \A step \in {"raise", "log"} :
        Goto(c, step) => call' \in [Calls -> Call]
  <2>1. \A c \in Calls : \A step \in {"raise", "log"} :
          [call[c] EXCEPT !.at = step] \in Call
    BY DEF Call
  <2> QED
    BY <2>1 DEF Goto
<1>7. \A c \in Calls : AfterDispute(c) => call' \in [Calls -> Call]
  BY <1>6, <1>g DEF AfterDispute
<1>8. ASSUME NEW c \in Calls, CheckDispute(c) PROVE TypeOK'
  <2>1. call' \in [Calls -> Call]
    BY <1>7, <1>8, <1>g DEF CheckDispute
  <2> QED
    BY <1>8, <2>1 DEF CheckDispute
<1>9. ASSUME NEW c \in Calls, RaiseDispute(c) PROVE TypeOK'
  <2>1. disputes' \in Seq(Statuses)
    BY <1>9 DEF RaiseDispute, Statuses
  <2> QED
    BY <1>7, <1>9, <2>1 DEF RaiseDispute
<1>10. ASSUME NEW c \in Calls, SkipDispute(c) PROVE TypeOK'
  BY <1>7, <1>10 DEF SkipDispute
<1>11. ASSUME NEW c \in Calls, FinishAttempt(c) PROVE TypeOK'
  <2>1. matching' \in [Docs -> 0 .. MaxVersions]
    <3>1. CASE call[c].late
      BY <1>11, <3>1 DEF FinishAttempt
    <3>2. CASE ~call[c].late
      <4>1. matching' = [matching EXCEPT ![call[c].doc] = 0]
        BY <1>11, <3>2 DEF FinishAttempt
      <4>2. matching \in [Docs -> 0 .. MaxVersions] /\ 0 \in 0 .. MaxVersions
        OBVIOUS
      <4> HIDE DEF TypeOK
      <4> QED
        BY <4>1, <4>2, ExceptTyped
    <3> QED
      BY <3>1, <3>2
  <2> QED
    BY <1>6, <1>11, <2>1 DEF FinishAttempt
<1>12. ASSUME NEW c \in Calls, BreakOff(c) PROVE TypeOK'
  BY <1>6, <1>12 DEF BreakOff
<1>13. ASSUME NEW c \in Calls, OutliveLimit(c) PROVE TypeOK'
  <2>1. call' \in [Calls -> Call]
    BY <1>13 DEF OutliveLimit, Call
  <2> QED
    BY <1>13, <2>1 DEF OutliveLimit
<1>14. CASE CreateDispute
  <2>1. disputes' \in Seq(Statuses)
    BY <1>14 DEF CreateDispute, Statuses
  <2> QED
    BY <1>14, <2>1 DEF CreateDispute
<1>15. ASSUME NEW i \in DOMAIN disputes, NEW status \in Statuses, UpdateDispute(i, status)
       PROVE TypeOK'
  <2>1. disputes' \in Seq(Statuses)
    BY <1>15 DEF UpdateDispute
  <2> QED
    BY <1>15, <2>1 DEF UpdateDispute
<1>16. CASE UNCHANGED vars
  BY <1>16 DEF vars
<1> QED
  BY <1>1, <1>2, <1>3, <1>4, <1>5, <1>8, <1>9, <1>10, <1>11, <1>12, <1>13, <1>14,
     <1>15, <1>16 DEF Next, CallStep

\* Every variable of GateEntry keeps its type, for any calls in flight.
THEOREM TypeCorrect == Spec => []TypeOK
  BY InitTypeOK, NextTypeOK, PTL DEF Spec

-----------------------------------------------------------------------------
(***************************************************************************)
(* A shortage on file is disputed, however calls overlap.                  *)
(***************************************************************************)

\* The document's shortage is being disputed, or the invoice has a dispute, or
\* a call has failed.
Failed == faults > 0 \/ skips > 0

Accounted(d) ==
  \/ \E c \in Calls : Disputing(c) /\ call[c].doc = d
  \/ disputes # << >>
  \/ Failed

ShortInv == TypeOK /\ \A d \in Docs : row[d].short => Accounted(d)

\* A call that goes on with another record, and the rest as they are.
LEMMA CallMoves ==
  ASSUME TypeOK, NEW c \in Calls, NEW r, call' = [call EXCEPT ![c] = r]
  PROVE  call'[c] = r /\ \A x \in Calls : x # c => call'[x] = call[x]
  BY DEF TypeOK

\* What stays accounted for: the calls at a dispute go on with it, and neither
\* disputes nor failures are taken back.
LEMMA AccountedStays ==
  ASSUME ShortInv, TypeOK',
         \A d \in Docs : row'[d].short => row[d].short \/ Accounted(d)',
         \A c \in Calls : Disputing(c) =>
           \/ Disputing(c)' /\ call'[c].doc = call[c].doc
           \/ disputes' # << >>
           \/ Failed',
         disputes # << >> => disputes' # << >>, Failed => Failed'
  PROVE  ShortInv'
  BY DEF ShortInv, Accounted

LEMMA NextShortInv == ShortInv /\ [Next]_vars => ShortInv'
<1> SUFFICES ASSUME ShortInv, [Next]_vars PROVE ShortInv'
  OBVIOUS
<1>0. TypeOK /\ TypeOK'
  BY NextTypeOK DEF ShortInv
<1>a. faults \in Nat /\ skips \in Nat /\ disputes \in Seq(Statuses) /\ call \in [Calls -> Call]
  BY <1>0, BoundsAssumption DEF TypeOK
<1>f. ASSUME row' = row, disputes' = disputes,
             faults' = faults + 1 \/ skips' = skips + 1
      PROVE  ShortInv'
  <2>1. Failed'
    <3>1. CASE faults' = faults + 1
      BY <1>a, <3>1 DEF Failed
    <3>2. CASE skips' = skips + 1
      BY <1>a, <3>2 DEF Failed
    <3> QED
      BY <1>f, <3>1, <3>2
  <2> QED
    BY <1>0, <1>f, <2>1, AccountedStays
<1>c. ASSUME row' = row, call' = call, UNCHANGED <<faults, skips>>, disputes # << >> => disputes' # << >>
      PROVE  ShortInv'
  BY <1>0, <1>c, AccountedStays DEF Disputing, Failed
<1>1. ASSUME NEW d \in Docs, Upload(d) \/ UploadUnmatched(d) PROVE ShortInv'
  BY <1>1, <1>f, <1>c DEF Upload, UploadUnmatched
<1>2. ASSUME NEW c \in Calls, NEW d \in Docs, StartAttempt(c, d) PROVE ShortInv'
  <2>1. call[c].at = "idle" /\ UNCHANGED <<row, disputes, faults, skips>>
    BY <1>2 DEF StartAttempt
  <2>2. \A x \in Calls : x # c => call'[x] = call[x]
    BY <1>0, <1>2, CallMoves DEF StartAttempt
  <2>3. \A x \in Calls : Disputing(x) => x # c
    BY <2>1 DEF Disputing
  <2> QED
    BY <1>0, <2>1, <2>2, <2>3, AccountedStays DEF Disputing, Failed
<1>3. ASSUME NEW c \in Calls, NEW d \in Docs, NEW short \in BOOLEAN, SubmitEntry(c, d, short)
      PROVE  ShortInv'
  <2>1. /\ call[c].at = "idle" /\ UNCHANGED <<disputes, faults, skips>>
        /\ \A x \in Docs : x # d => row'[x] = row[x]
        /\ row'[d].short = short
    BY <1>0, <1>3 DEF SubmitEntry, Upsert, TypeOK
  <2>2. \A x \in Calls : x # c => call'[x] = call[x]
    BY <1>0, <1>3, CallMoves DEF SubmitEntry
  <2>3. short => Disputing(c)' /\ call'[c].doc = d
    BY <1>3, <1>a DEF SubmitEntry, Disputing, Idle
  <2>4. \A x \in Docs : row'[x].short => row[x].short \/ Accounted(x)'
    BY <2>1, <2>3 DEF Accounted
  <2>5. \A x \in Calls : Disputing(x) => x # c
    BY <2>1 DEF Disputing
  <2> QED
    BY <1>0, <2>1, <2>2, <2>4, <2>5, AccountedStays DEF Disputing, Failed
<1>4. ASSUME NEW c \in Calls, SaveExtraction(c) PROVE ShortInv'
  <2>1. /\ call[c].at = "save" /\ UNCHANGED <<disputes, faults, skips>>
        /\ \A x \in Docs : x # call[c].doc => row'[x] = row[x]
        /\ call[c].doc \in Docs => row'[call[c].doc].short = call[c].short
    BY <1>0, <1>4 DEF SaveExtraction, Upsert, TypeOK
  <2>2. \A x \in Calls : x # c => call'[x] = call[x]
    BY <1>a, <1>4 DEF SaveExtraction, Goto
  <2>3. call[c].short => Disputing(c)' /\ call'[c].doc = call[c].doc
    BY <1>4, <1>a DEF SaveExtraction, Disputing, Goto, Call
  <2>4. \A x \in Docs : row'[x].short => row[x].short \/ Accounted(x)'
    BY <2>1, <2>3 DEF Accounted
  <2>5. \A x \in Calls : Disputing(x) => x # c
    BY <2>1 DEF Disputing
  <2> QED
    BY <1>0, <2>1, <2>2, <2>4, <2>5, AccountedStays DEF Disputing, Failed
<1>5. ASSUME NEW c \in Calls, CheckDispute(c) PROVE ShortInv'
  <2>1. UNCHANGED <<row, disputes, faults, skips>>
    BY <1>5 DEF CheckDispute
  <2>2. CASE SomeOpen
    <3>1. disputes # << >>
      BY <2>2 DEF SomeOpen
    <3> QED
      BY <1>0, <2>1, <3>1, AccountedStays DEF Failed
  <2>3. CASE ~SomeOpen
    <3>1. call' = [call EXCEPT ![c].at = "raise"]
      BY <1>5, <2>3 DEF CheckDispute, Goto
    <3>2. \A x \in Calls : Disputing(x) => Disputing(x)' /\ call'[x].doc = call[x].doc
      BY <1>a, <3>1 DEF Disputing, Call
    <3> QED
      BY <1>0, <2>1, <3>2, AccountedStays DEF Failed
  <2> QED
    BY <2>2, <2>3
<1>6. ASSUME NEW c \in Calls, RaiseDispute(c) PROVE ShortInv'
  <2>1. disputes' # << >> /\ row' = row /\ UNCHANGED <<faults, skips>>
    BY <1>6, <1>a DEF RaiseDispute
  <2> QED
    BY <1>0, <2>1, AccountedStays DEF Failed
<1>7. ASSUME NEW c \in Calls, FinishAttempt(c) PROVE ShortInv'
  <2>1. call[c].at = "log" /\ UNCHANGED <<row, disputes, faults, skips>>
    BY <1>7 DEF FinishAttempt
  <2>2. \A x \in Calls : x # c => call'[x] = call[x]
    BY <1>a, <1>7 DEF FinishAttempt, Finish
  <2>3. \A x \in Calls : Disputing(x) => x # c
    BY <2>1 DEF Disputing
  <2> QED
    BY <1>0, <2>1, <2>2, <2>3, AccountedStays DEF Disputing, Failed
<1>8. ASSUME NEW c \in Calls, SkipDispute(c) \/ BreakOff(c) \/ OutliveLimit(c) PROVE ShortInv'
  BY <1>8, <1>f DEF SkipDispute, BreakOff, OutliveLimit
<1>9. CASE CreateDispute
  <2>1. disputes' # << >>
    BY <1>9, <1>a DEF CreateDispute
  <2> QED
    BY <1>9, <2>1, <1>c DEF CreateDispute
<1>10. ASSUME NEW i \in DOMAIN disputes, NEW status \in Statuses, UpdateDispute(i, status)
       PROVE  ShortInv'
  <2>1. disputes' # << >>
    <3>1. DOMAIN disputes' = DOMAIN disputes
      BY <1>10 DEF UpdateDispute
    <3> QED
      BY <3>1
  <2> QED
    BY <1>10, <2>1, <1>c DEF UpdateDispute
<1>11. CASE UNCHANGED vars
  BY <1>11, <1>c DEF vars
<1> QED
  BY <1>1, <1>2, <1>3, <1>4, <1>5, <1>6, <1>7, <1>8, <1>9, <1>10, <1>11 DEF Next, CallStep

\* However forms and attempts overlap, and whatever people do to the disputes, a
\* document whose quantities show a shortage has a call at its dispute or the
\* invoice has had a dispute, as long as no call has failed (handleSetGateEntry
\* and recordGateEntryFromExtraction save first and dispute after).
THEOREM ShortagesAccountedFor ==
  Spec => [](\A d \in Docs : row[d].short =>
               \/ \E c \in Calls : call[c].at \in {"check", "raise"} /\ call[c].doc = d
               \/ disputes # << >>
               \/ faults > 0
               \/ skips > 0)
<1>1. Init => ShortInv
  BY InitTypeOK DEF Init, ShortInv, NoRow
<1>2. ShortInv => \A d \in Docs : row[d].short =>
                    \/ \E c \in Calls : call[c].at \in {"check", "raise"} /\ call[c].doc = d
                    \/ disputes # << >>
                    \/ faults > 0
                    \/ skips > 0
  BY DEF ShortInv, Accounted, Disputing, Failed
<1> QED
  BY <1>1, <1>2, NextShortInv, PTL DEF Spec

\* A call leaves its dispute behind only with a dispute open or under review or
\* because it fails itself, whatever the other calls do between its check and
\* its insert: the safety half of ShortageIsDisputed.
THEOREM DisputeLeftBehind ==
  Spec => [][\A c \in Calls : (Disputing(c) /\ ~Disputing(c)') =>
                Unsettled' \/ faults' # faults \/ skips' # skips]_vars
<1>1. TypeOK /\ [Next]_vars =>
        [\A c \in Calls : (Disputing(c) /\ ~Disputing(c)') =>
            Unsettled' \/ faults' # faults \/ skips' # skips]_vars
  <2> SUFFICES ASSUME TypeOK, Next, NEW c \in Calls, Disputing(c), ~Disputing(c)',
                      UNCHANGED <<faults, skips>>
               PROVE  Unsettled'
    OBVIOUS
  <2>0. call \in [Calls -> Call] /\ disputes \in Seq(Statuses) /\ faults \in Nat /\ skips \in Nat
    BY BoundsAssumption DEF TypeOK
  <2>1. ~UNCHANGED call /\ faults' # faults + 1 /\ skips' # skips + 1
    BY <2>0 DEF Disputing
  <2>3. ASSUME NEW x \in Calls, CheckDispute(x) PROVE Unsettled'
    <3>1. CASE SomeOpen
      <4>1. Unsettled /\ disputes' = disputes
        BY <2>3, <3>1 DEF SomeOpen, Unsettled, Standing, OpenStatuses, CheckDispute
      <4> QED
        BY <4>1 DEF Unsettled, Standing
    <3>2. CASE ~SomeOpen
      <4>1. call' = [call EXCEPT ![x].at = "raise"]
        BY <2>3, <3>2 DEF CheckDispute, Goto
      <4> QED
        BY <2>0, <4>1 DEF Disputing, Call
    <3> QED
      BY <3>1, <3>2
  <2>4. ASSUME NEW x \in Calls, RaiseDispute(x) PROVE Unsettled'
    <3>1. disputes' = Append(disputes, "OPEN")
      BY <2>4 DEF RaiseDispute
    <3>2. Len(disputes) + 1 \in DOMAIN disputes' /\ disputes'[Len(disputes) + 1] = "OPEN"
      BY <2>0, <3>1
    <3> QED
      BY <3>2 DEF Unsettled, Standing
  <2>5. ASSUME NEW x \in Calls, NEW d \in Docs,
               StartAttempt(x, d) \/ \E short \in BOOLEAN : SubmitEntry(x, d, short)
        PROVE  FALSE
    <3>1. x # c
      BY <2>5 DEF StartAttempt, SubmitEntry, Disputing
    <3>2. call'[c] = call[c]
      BY <2>0, <2>5, <3>1 DEF StartAttempt, SubmitEntry
    <3> QED
      BY <3>2 DEF Disputing
  <2>6. ASSUME NEW x \in Calls, SaveExtraction(x) \/ FinishAttempt(x) PROVE FALSE
    <3>1. x # c
      BY <2>6 DEF SaveExtraction, FinishAttempt, Disputing
    <3>2. call'[c] = call[c]
      BY <2>0, <2>6, <3>1 DEF SaveExtraction, FinishAttempt, Goto, Finish
    <3> QED
      BY <3>2 DEF Disputing
  <2> QED
    BY <2>1, <2>3, <2>4, <2>5, <2>6
       DEF Next, CallStep, Upload, UploadUnmatched, SkipDispute, BreakOff, OutliveLimit,
           CreateDispute, UpdateDispute
<1> QED
  BY <1>1, InitTypeOK, NextTypeOK, PTL DEF Spec

-----------------------------------------------------------------------------
(***************************************************************************)
(* What overlapping calls can stack: disputes nobody asked for.            *)
(***************************************************************************)

\* The unsettled disputes and those about to be raised: no more than before, or,
\* when none was unsettled, no more than there are calls.
Stacking ==
  \/ Cardinality(Standing') + Cardinality(Raising') <= Cardinality(Standing) + Cardinality(Raising)
  \/ Standing = {} /\ Cardinality(Standing') + Cardinality(Raising') <= Cardinality(Calls)

LEMMA StandingFinite ==
  ASSUME TypeOK, IsFiniteSet(Calls)
  PROVE  /\ IsFiniteSet(Standing) /\ Cardinality(Standing) \in Nat
         /\ IsFiniteSet(Raising) /\ Cardinality(Raising) \in Nat
         /\ Cardinality(Raising) <= Cardinality(Calls) /\ Cardinality(Calls) \in Nat
         /\ Standing = {} <=> ~SomeOpen
<1>1. disputes \in Seq(Statuses) /\ Len(disputes) \in Nat /\ DOMAIN disputes = 1 .. Len(disputes)
  BY DEF TypeOK
<1>2. IsFiniteSet(1 .. Len(disputes))
  <2>1. 1 \in Int /\ Len(disputes) \in Int
    BY <1>1
  <2> QED
    BY <2>1, FS_Interval
<1>3. Standing \in SUBSET (1 .. Len(disputes)) /\ Raising \in SUBSET Calls
  BY <1>1 DEF Standing, Raising
<1>4. \A i \in DOMAIN disputes : disputes[i] \in Statuses
  BY <1>1
<1>5. Standing = {} <=> ~SomeOpen
  BY <1>4 DEF Standing, SomeOpen, OpenStatuses, Statuses
<1> QED
  BY <1>2, <1>3, <1>5, FS_Subset, FS_CardinalityType

\* A call that does not go on to raise leaves the sum or lowers it.
LEMMA QuietStacking ==
  ASSUME TypeOK, IsFiniteSet(Calls), UNCHANGED disputes, Raising' \subseteq Raising
  PROVE  Stacking
<1>1. Standing' = Standing
  BY DEF Standing
<1>2. Cardinality(Raising') \in Nat /\ Cardinality(Raising') <= Cardinality(Raising)
  BY StandingFinite, FS_Subset, FS_CardinalityType
<1> QED
  BY <1>1, <1>2, StandingFinite DEF Stacking

LEMMA CheckStacking ==
  ASSUME TypeOK, TypeOK', IsFiniteSet(Calls), NEW c \in Calls, CheckDispute(c)
  PROVE  Stacking
<1>0. call \in [Calls -> Call]
  BY DEF TypeOK
<1>1. CASE SomeOpen
  <2>1. AfterDispute(c) /\ UNCHANGED disputes
    BY <1>1 DEF CheckDispute
  <2>2. Raising' \subseteq Raising
    BY <1>0, <2>1 DEF AfterDispute, Goto, Finish, Idle, Raising, Call
  <2> QED
    BY <2>1, <2>2, QuietStacking
<1>2. CASE ~SomeOpen
  <2>1. Standing = {} /\ UNCHANGED disputes
    BY <1>2, StandingFinite DEF CheckDispute
  <2>2. Standing' = {}
    BY <2>1 DEF Standing
  <2>3. Cardinality(Standing') = 0
    BY <2>2, FS_EmptySet
  <2>4. Raising' \in SUBSET Calls
    BY DEF Raising
  <2>5. Cardinality(Raising') \in Nat /\ Cardinality(Raising') <= Cardinality(Calls)
    BY <2>4, FS_Subset, FS_CardinalityType
  <2> QED
    BY <2>1, <2>3, <2>5, StandingFinite DEF Stacking
<1> QED
  BY <1>1, <1>2

LEMMA RaiseStacking ==
  ASSUME TypeOK, TypeOK', IsFiniteSet(Calls), NEW c \in Calls, RaiseDispute(c)
  PROVE  Stacking
<1>0. call \in [Calls -> Call] /\ disputes \in Seq(Statuses) /\ Len(disputes) \in Nat
  BY DEF TypeOK
<1>1. call[c].at = "raise" /\ disputes' = Append(disputes, "OPEN") /\ AfterDispute(c)
  BY DEF RaiseDispute
<1>2. Raising' = Raising \ {c} /\ c \in Raising
  BY <1>0, <1>1 DEF AfterDispute, Goto, Finish, Idle, Raising, Call
<1>3. Cardinality(Raising') = Cardinality(Raising) - 1
  BY <1>2, StandingFinite, FS_RemoveElement
<1>4. Standing' = Standing \cup {Len(disputes) + 1} /\ Len(disputes) + 1 \notin Standing
  <2>1. /\ DOMAIN disputes' = 1 .. Len(disputes) + 1 /\ DOMAIN disputes = 1 .. Len(disputes)
        /\ disputes'[Len(disputes) + 1] = "OPEN"
        /\ \A i \in 1 .. Len(disputes) : disputes'[i] = disputes[i]
    BY <1>0, <1>1
  <2>2. /\ 1 .. Len(disputes) + 1 = (1 .. Len(disputes)) \cup {Len(disputes) + 1}
        /\ Len(disputes) + 1 \notin 1 .. Len(disputes)
    BY <1>0
  <2> QED
    BY <2>1, <2>2 DEF Standing
<1>5. Cardinality(Standing') = Cardinality(Standing) + 1
  BY <1>4, StandingFinite, FS_AddElement
<1> QED
  BY <1>3, <1>5, StandingFinite DEF Stacking

\* However calls overlap, what they stack is bounded by how many overlap: while
\* a dispute is unsettled they add none beyond those already about to be raised,
\* and without one no more than one for each call (the check and the insert of
\* handleSetGateEntry and recordGateEntryFromExtraction are not one step).
THEOREM StackingIsBounded ==
  ASSUME IsFiniteSet(Calls)
  PROVE  Spec => StackingBounded
<1>1. TypeOK /\ TypeOK' /\ [Next]_vars =>
       [call' # call =>
         \/ Cardinality(Standing') + Cardinality(Raising')
              <= Cardinality(Standing) + Cardinality(Raising)
         \/ Standing = {} /\ Cardinality(Standing') + Cardinality(Raising') <= Cardinality(Calls)]_vars
  <2> SUFFICES ASSUME TypeOK, TypeOK', Next, call' # call PROVE Stacking
    BY DEF Stacking
  <2>0. call \in [Calls -> Call]
    BY DEF TypeOK
  <2>1. ASSUME NEW c \in Calls, NEW d \in Docs, StartAttempt(c, d) PROVE Stacking
    <3>1. Raising' \subseteq Raising
      BY <2>0, <2>1 DEF StartAttempt, Attempt, Raising
    <3> QED
      BY <2>1, <3>1, QuietStacking DEF StartAttempt
  <2>2. ASSUME NEW c \in Calls, NEW d \in Docs, NEW short \in BOOLEAN, SubmitEntry(c, d, short)
        PROVE  Stacking
    <3>1. Raising' \subseteq Raising
      BY <2>0, <2>2 DEF SubmitEntry, Idle, Raising
    <3> QED
      BY <2>2, <3>1, QuietStacking DEF SubmitEntry
  <2>3. ASSUME NEW c \in Calls, SaveExtraction(c) PROVE Stacking
    <3>1. Raising' \subseteq Raising
      BY <2>0, <2>3 DEF SaveExtraction, Goto, Raising, Call
    <3> QED
      BY <2>3, <3>1, QuietStacking DEF SaveExtraction
  <2>4. ASSUME NEW c \in Calls, FinishAttempt(c) \/ BreakOff(c) \/ OutliveLimit(c) PROVE Stacking
    <3>1. Raising' \subseteq Raising
      BY <2>0, <2>4 DEF FinishAttempt, BreakOff, OutliveLimit, Finish, Idle, Raising, Call
    <3> QED
      BY <2>4, <3>1, QuietStacking DEF FinishAttempt, BreakOff, OutliveLimit
  <2>5. ASSUME NEW c \in Calls, SkipDispute(c) PROVE Stacking
    <3>1. Raising' \subseteq Raising
      BY <2>0, <2>5 DEF SkipDispute, AfterDispute, Goto, Finish, Idle, Raising, Call
    <3> QED
      BY <2>5, <3>1, QuietStacking DEF SkipDispute
  <2> QED
    BY <2>1, <2>2, <2>3, <2>4, <2>5, CheckStacking, RaiseStacking
       DEF Next, CallStep, Upload, UploadUnmatched, CreateDispute, UpdateDispute
<1> QED
  BY <1>1, TypeCorrect, PTL DEF Spec, StackingBounded

-----------------------------------------------------------------------------
(***************************************************************************)
(* What overlapping attempts can do to a row a person inserted.            *)
(***************************************************************************)

\* What one step does to the row of a document and to the attempts that are
\* about to save the AI's read of it.
Yielding(d) ==
  /\ row'[d].entered
  /\ Unaware(d)' \subseteq Unaware(d)
  /\ (row'[d].figures = "ai" /\ row'[d] # row[d]) => Unaware(d)' # Unaware(d)

\* A row a person inserted is a row: saving figures into it is an update.
EnteredInv == TypeOK /\ \A d \in Docs : row[d].entered => row[d].figures # "none"

LEMMA NextEnteredInv == EnteredInv /\ [Next]_vars => EnteredInv'
<1> SUFFICES ASSUME EnteredInv, [Next]_vars, NEW d \in Docs, row'[d].entered
             PROVE  row'[d].figures # "none"
  BY NextTypeOK DEF EnteredInv
<1>0. row \in [Docs -> Row] /\ (row[d].entered => row[d].figures # "none")
  BY DEF EnteredInv, TypeOK
<1>1. CASE row' = row
  BY <1>0, <1>1
<1>2. ASSUME NEW e \in Docs \cup {NoDoc}, NEW figures \in {"person", "ai"}, NEW short,
             Upsert(e, figures, short)
      PROVE  row'[d].figures # "none"
  <2>1. CASE e = d
    BY <1>0, <1>2, <2>1 DEF Upsert
  <2>2. CASE e # d
    <3>1. row'[d] = row[d]
      BY <1>0, <1>2, <2>2 DEF Upsert
    <3> QED
      BY <1>0, <3>1
  <2> QED
    BY <2>1, <2>2
<1>3. ASSUME NEW c \in Calls, SaveExtraction(c) PROVE row'[d].figures # "none"
  <2>1. call[c].doc \in Docs \cup {NoDoc}
    BY DEF EnteredInv, TypeOK, Call
  <2> QED
    BY <1>2, <1>3, <2>1 DEF SaveExtraction
<1> QED
  BY <1>1, <1>2, <1>3 DEF Next, CallStep, Upload, UploadUnmatched, StartAttempt, SubmitEntry,
     CheckDispute, RaiseDispute, FinishAttempt, SkipDispute, BreakOff, OutliveLimit,
     CreateDispute, UpdateDispute, vars

\* A step that changes no row and sends no call to save the document's read.
LEMMA QuietRow ==
  ASSUME NEW d \in Docs, row[d].entered, row' = row, Unaware(d)' \subseteq Unaware(d)
  PROVE  Yielding(d)
  BY DEF Yielding

\* However attempts, late attempts and forms overlap, the AI overwrites a row a
\* person inserted no more often than attempts had looked before the insert.
THEOREM ReadsYield == Spec => AIReadsYield
<1>1. EnteredInv /\ [Next]_vars => [\A d \in Docs : row[d].entered => Yielding(d)]_vars
  <2> SUFFICES ASSUME EnteredInv, Next, NEW d \in Docs, row[d].entered PROVE Yielding(d)
    OBVIOUS
  <2>0. call \in [Calls -> Call] /\ row \in [Docs -> Row] /\ row[d].figures # "none"
    BY DEF EnteredInv, TypeOK
  <2>1. ASSUME NEW c \in Calls, NEW e \in Docs, StartAttempt(c, e) PROVE Yielding(d)
    <3>1. row' = row
      BY <2>1 DEF StartAttempt
    <3>2. \A x \in Calls : x # c => call'[x] = call[x]
      BY <2>0, <2>1 DEF StartAttempt
    <3>3. c \notin Unaware(d)'
      BY <2>0, <2>1 DEF StartAttempt, Attempt, Unaware
    <3> QED
      BY <3>1, <3>2, <3>3, QuietRow DEF Unaware
  <2>2. ASSUME NEW c \in Calls, NEW e \in Docs, NEW short \in BOOLEAN, SubmitEntry(c, e, short)
        PROVE  Yielding(d)
    <3>1. row'[d].entered /\ (row'[d].figures = "ai" => row'[d] = row[d])
      <4>1. CASE e = d
        BY <2>0, <2>2, <4>1 DEF SubmitEntry, Upsert, Row
      <4>2. CASE e # d
        BY <2>0, <2>2, <4>2 DEF SubmitEntry, Upsert
      <4> QED
        BY <4>1, <4>2
    <3>2. Unaware(d)' \subseteq Unaware(d)
      BY <2>0, <2>2 DEF SubmitEntry, Idle, Unaware
    <3> QED
      BY <3>1, <3>2 DEF Yielding
  <2>3. ASSUME NEW c \in Calls, SaveExtraction(c) PROVE Yielding(d)
    <3>1. Unaware(d)' = Unaware(d) \ {c}
      BY <2>0, <2>3 DEF SaveExtraction, Goto, Unaware, Call
    <3>2. CASE call[c].doc = d
      <4>1. c \in Unaware(d)
        BY <2>3, <3>2 DEF SaveExtraction, Unaware
      <4>2. row'[d].entered
        BY <2>0, <2>3, <3>2 DEF SaveExtraction, Upsert, Row
      <4> QED
        BY <3>1, <4>1, <4>2 DEF Yielding
    <3>3. CASE call[c].doc # d
      <4>1. row'[d] = row[d]
        BY <2>0, <2>3, <3>3 DEF SaveExtraction, Upsert
      <4> QED
        BY <3>1, <4>1 DEF Yielding
    <3> QED
      BY <3>2, <3>3
  <2>4. ASSUME NEW c \in Calls, CheckDispute(c) \/ RaiseDispute(c) \/ SkipDispute(c)
        PROVE  Yielding(d)
    <3>1. row' = row
      BY <2>4 DEF CheckDispute, RaiseDispute, SkipDispute
    <3>2. Unaware(d)' \subseteq Unaware(d)
      BY <2>0, <2>4 DEF CheckDispute, RaiseDispute, SkipDispute, AfterDispute, Goto, Finish,
         Idle, Unaware, Call
    <3> QED
      BY <3>1, <3>2, QuietRow
  <2>5. ASSUME NEW c \in Calls, FinishAttempt(c) \/ BreakOff(c) \/ OutliveLimit(c)
        PROVE  Yielding(d)
    <3>1. row' = row
      BY <2>5 DEF FinishAttempt, BreakOff, OutliveLimit
    <3>2. Unaware(d)' \subseteq Unaware(d)
      BY <2>0, <2>5 DEF FinishAttempt, BreakOff, OutliveLimit, Finish, Idle, Unaware, Call
    <3> QED
      BY <3>1, <3>2, QuietRow
  <2>6. CASE UNCHANGED <<row, call>>
    <3>1. Unaware(d)' = Unaware(d)
      BY <2>6 DEF Unaware
    <3> QED
      BY <2>6, <3>1, QuietRow
  <2> QED
    BY <2>1, <2>2, <2>3, <2>4, <2>5, <2>6
       DEF Next, CallStep, Upload, UploadUnmatched, CreateDispute, UpdateDispute
<1>2. Init => EnteredInv
  BY InitTypeOK DEF Init, EnteredInv, NoRow
<1> QED
  BY <1>1, <1>2, NextEnteredInv, PTL DEF Spec, AIReadsYield, Yielding
=============================================================================
