--------------------------- MODULE AuditChain_proofs ---------------------------
(***************************************************************************)
(* What holds of the audit trail for any contents and any number of        *)
(* writers, and what holds when writes do not overlap: what a hash covers, *)
(* what the links show, what a removed event does to them, and how often   *)
(* the trail can begin.                                                    *)
(***************************************************************************)
EXTENDS AuditChain, FiniteSetTheorems, TLAPS

\* Every event's hash covers its link, and a hash about to be linked to is on
\* file.
LinkInv ==
  /\ TypeOK
  /\ \A e \in events : e.current_hash = Append(e.previous_hash, e.content)
  /\ \A e \in events :
       e.previous_hash = Genesis \/ \E f \in events : e.previous_hash = f.current_hash
  /\ \A w \in Writers : writer[w].at = "insert" =>
       writer[w].seen = Genesis \/ \E f \in events : writer[w].seen = f.current_hash

LEMMA GenesisType == Genesis \in Hashes
  BY DEF Genesis, Hashes

LEMMA InitLinkInv == Init => LinkInv
  BY GenesisType, BoundAssumption DEF Init, LinkInv, TypeOK, Writer

\* A read finds the genesis hash in an empty trail, or that of a latest event.
LEMMA ReadFinds ==
  ASSUME LinkInv, NEW w \in Writers, ReadLatest(w)
  PROVE  \E seen \in Hashes :
           /\ writer' = [writer EXCEPT ![w].at = "insert", ![w].seen = seen]
           /\ \/ events = {} /\ seen = Genesis
              \/ \E f \in events : /\ \A g \in events : g.created_at <= f.created_at
                                   /\ seen = f.current_hash
<1>1. CASE HashesOnFile = {} /\ Read(w, Genesis)
  BY <1>1, GenesisType DEF HashesOnFile, Read
<1>2. CASE \E h \in HashesOnFile : (\A g \in HashesOnFile : g[1] <= h[1]) /\ Read(w, h[2])
  <2>1. PICK h \in HashesOnFile : (\A g \in HashesOnFile : g[1] <= h[1]) /\ Read(w, h[2])
    BY <1>2
  <2>2. PICK f \in events : h = <<f.created_at, f.current_hash>>
    BY DEF HashesOnFile
  <2>3. \A g \in events : g.created_at <= f.created_at
    <3> TAKE g \in events
    <3>1. <<g.created_at, g.current_hash>> \in HashesOnFile
      BY DEF HashesOnFile
    <3> QED
      BY <2>1, <2>2, <3>1
  <2>4. f.current_hash \in Hashes
    BY DEF LinkInv, TypeOK, Event
  <2> QED
    BY <2>1, <2>2, <2>3, <2>4 DEF Read
<1> QED
  BY <1>1, <1>2 DEF ReadLatest

\* What an insert adds.
LEMMA NewEventType ==
  ASSUME LinkInv, NEW w \in Writers, writer[w].at = "insert"
  PROVE  /\ NewEvent(w) \in Event
         /\ NewEvent(w).created_at = writer[w].began
         /\ NewEvent(w).previous_hash = writer[w].seen
         /\ NewEvent(w).current_hash = Append(writer[w].seen, NewEvent(w).content)
  BY DEF LinkInv, TypeOK, Writer, NewEvent, Event, Digest, Hashes

\* One step per action.
LEMMA NextLinkInv == LinkInv /\ [Next]_vars => LinkInv'
<1> SUFFICES ASSUME LinkInv, [Next]_vars PROVE LinkInv'
  OBVIOUS
<1>1. ASSUME NEW w \in Writers, NEW content \in Contents, Begin(w, content) PROVE LinkInv'
  <2>1. [at |-> "read", began |-> clock + 1, content |-> content, seen |-> Genesis] \in Writer
    BY GenesisType DEF LinkInv, TypeOK, Writer
  <2>2. TypeOK'
    BY <1>1, <2>1, BoundAssumption DEF Begin, LinkInv, TypeOK
  <2> QED
    BY <1>1, <2>2 DEF Begin, LinkInv, TypeOK
<1>2. ASSUME NEW w \in Writers, ReadLatest(w) PROVE LinkInv'
  <2>1. PICK seen \in Hashes :
          /\ writer' = [writer EXCEPT ![w].at = "insert", ![w].seen = seen]
          /\ seen = Genesis \/ \E f \in events : seen = f.current_hash
    BY <1>2, ReadFinds
  <2>2. writer' \in [Writers -> Writer]
    BY <2>1 DEF LinkInv, TypeOK, Writer
  <2>3. UNCHANGED <<events, clock>>
    BY <1>2 DEF ReadLatest
  <2>4. writer'[w].seen = seen /\ \A v \in Writers : v # w => writer'[v] = writer[v]
    BY <2>1 DEF LinkInv, TypeOK, Writer
  <2> QED
    BY <2>1, <2>2, <2>3, <2>4 DEF LinkInv, TypeOK
<1>3. ASSUME NEW w \in Writers, Insert(w) PROVE LinkInv'
  <2>1. writer[w].at = "insert" /\ events' = events \cup {NewEvent(w)} /\ UNCHANGED clock
    BY <1>3 DEF Insert
  <2>2. writer' \in [Writers -> Writer]
    BY <1>3 DEF Insert, LinkInv, TypeOK, Writer
  <2>3. \A v \in Writers : writer'[v].at = "insert" => writer'[v] = writer[v]
    BY <1>3 DEF Insert, LinkInv, TypeOK, Writer
  <2>4. TypeOK'
    BY <2>1, <2>2, NewEventType DEF LinkInv, TypeOK
  <2>5. \A e \in events' : e.current_hash = Append(e.previous_hash, e.content)
    BY <2>1, NewEventType DEF LinkInv
  <2>6. \A e \in events' :
          e.previous_hash = Genesis \/ \E f \in events' : e.previous_hash = f.current_hash
    BY <2>1, NewEventType DEF LinkInv
  <2> QED
    BY <2>1, <2>3, <2>4, <2>5, <2>6 DEF LinkInv
<1>4. ASSUME NEW w \in Writers, RollBack(w) PROVE LinkInv'
  <2>1. writer' \in [Writers -> Writer]
    BY <1>4 DEF RollBack, LinkInv, TypeOK, Writer
  <2>2. \A v \in Writers : writer'[v].at = "insert" => writer'[v] = writer[v]
    BY <1>4 DEF RollBack, LinkInv, TypeOK, Writer
  <2> QED
    BY <1>4, <2>1, <2>2 DEF RollBack, LinkInv, TypeOK
<1>5. CASE UNCHANGED vars
  BY <1>5 DEF vars, LinkInv, TypeOK
<1> QED
  BY <1>1, <1>2, <1>3, <1>4, <1>5 DEF Next

\* The variables keep their types for any contents and writers (WriteAuditLog).
THEOREM TypeCorrect == Spec => []TypeOK
<1>1. LinkInv => TypeOK
  BY DEF LinkInv
<1> QED
  BY <1>1, InitLinkInv, NextLinkInv, PTL DEF Spec

\* However many transactions overlap, following the links from any event leads
\* to the start of the trail (WriteAuditLog).
THEOREM LinksLead == Spec => []LinksLeadToStart
<1>1. LinkInv => LinksLeadToStart
  <2> SUFFICES ASSUME LinkInv, NEW e \in events, NEW f \in events,
                      e.previous_hash = f.current_hash
               PROVE  Len(f.current_hash) < Len(e.current_hash)
    BY DEF LinkInv, LinksLeadToStart
  <2>1. e.current_hash = Append(e.previous_hash, e.content) /\ e.previous_hash \in Seq(Contents)
    BY DEF LinkInv, TypeOK, Event, Hashes
  <2> QED
    BY <2>1
<1> QED
  BY <1>1, InitLinkInv, NextLinkInv, PTL DEF Spec

-----------------------------------------------------------------------------
\* The hash is that of a filed event, which adds the hash's last content to
\* what it is linked to.
Filed(hash) ==
  \E f \in events :
    /\ f.current_hash = hash
    /\ f.content = hash[Len(hash)]
    /\ f.previous_hash = SubSeq(hash, 1, Len(hash) - 1)

\* Every beginning of a hash is the hash of a filed event.
Covered(hash) == \A n \in 1 .. Len(hash) : Filed(SubSeq(hash, 1, n))

CoverInv ==
  /\ LinkInv
  /\ \A e \in events : Covered(e.current_hash)

LEMMA AppendBeginnings ==
  ASSUME NEW S, NEW s \in Seq(S), NEW c \in S
  PROVE  /\ Append(s, c) \in Seq(S) /\ Len(Append(s, c)) = Len(s) + 1
         /\ Append(s, c)[Len(s) + 1] = c
         /\ SubSeq(Append(s, c), 1, Len(s) + 1) = Append(s, c)
         /\ \A n \in 0 .. Len(s) : SubSeq(Append(s, c), 1, n) = SubSeq(s, 1, n)
         /\ SubSeq(s, 1, Len(s)) = s
<1>1. SubSeq(s, 1, Len(s)) = s
  OBVIOUS
<1>2. SubSeq(Append(s, c), 1, Len(s) + 1) = Append(s, c)
  OBVIOUS
<1>3. ASSUME NEW n \in 0 .. Len(s) PROVE SubSeq(Append(s, c), 1, n) = SubSeq(s, 1, n)
  OBVIOUS
<1> QED
  BY <1>1, <1>2, <1>3

\* The new event's hash is a filed one with one more content, or has just that.
LEMMA InsertCovers ==
  ASSUME CoverInv, NEW w \in Writers, Insert(w)
  PROVE  CoverInv'
<1>0. LinkInv /\ LinkInv'
  BY NextLinkInv DEF CoverInv, Next
<1> PICK seen, c, hash, new :
      /\ seen = writer[w].seen /\ c = writer[w].content
      /\ hash = Append(seen, c) /\ new = NewEvent(w)
  OBVIOUS
<1>1. writer[w].at = "insert" /\ events' = events \cup {new}
  BY DEF Insert
<1>2. /\ seen \in Seq(Contents) /\ c \in Contents
      /\ seen = Genesis \/ \E f \in events : seen = f.current_hash
  BY <1>0, <1>1 DEF LinkInv, TypeOK, Writer, Hashes
<1>3. /\ new \in events' /\ new.content = c
      /\ new.current_hash = hash /\ new.previous_hash = seen
  BY <1>1 DEF NewEvent, Digest
<1>4. \A h : Filed(h) => Filed(h)'
  BY <1>1 DEF Filed
<1>5. Filed(hash)'
  <2>1. /\ Len(hash) = Len(seen) + 1 /\ hash[Len(hash)] = c
        /\ SubSeq(hash, 1, Len(hash) - 1) = seen
    BY <1>2, AppendBeginnings
  <2> QED
    BY <1>3, <2>1 DEF Filed
<1>6. Covered(seen)
  <2>1. CASE seen = Genesis
    BY <2>1 DEF Covered, Genesis
  <2>2. CASE \E f \in events : seen = f.current_hash
    BY <2>2 DEF CoverInv
  <2> QED
    BY <1>2, <2>1, <2>2
<1>7. \A n \in 1 .. Len(hash) : Filed(SubSeq(hash, 1, n))'
  <2> SUFFICES ASSUME NEW n \in 1 .. Len(seen) + 1 PROVE Filed(SubSeq(hash, 1, n))'
    BY <1>2, AppendBeginnings
  <2>1. CASE n = Len(seen) + 1
    <3>1. SubSeq(hash, 1, n) = hash
      BY <1>2, <2>1, AppendBeginnings
    <3> QED
      BY <1>5, <3>1
  <2>2. CASE n # Len(seen) + 1
    <3>1. n \in 1 .. Len(seen)
      BY <1>2, <2>2
    <3>2. SubSeq(hash, 1, n) = SubSeq(seen, 1, n)
      BY <1>2, <3>1, AppendBeginnings
    <3>3. Filed(SubSeq(seen, 1, n))
      BY <1>6, <3>1 DEF Covered
    <3> QED
      BY <1>4, <3>2, <3>3
  <2> QED
    BY <2>1, <2>2
<1>8. \A h : Covered(h) => Covered(h)'
  BY <1>4 DEF Covered
<1>9. Covered(hash)'
  BY <1>7 DEF Covered
<1> QED
  BY <1>0, <1>1, <1>3, <1>8, <1>9 DEF CoverInv

LEMMA NextCoverInv == CoverInv /\ [Next]_vars => CoverInv'
<1> SUFFICES ASSUME CoverInv, [Next]_vars PROVE CoverInv'
  OBVIOUS
<1>1. CASE UNCHANGED events
  BY <1>1, NextLinkInv DEF CoverInv, Covered, Filed
<1>2. CASE \E w \in Writers : Insert(w)
  BY <1>2, InsertCovers
<1> QED
  BY <1>1, <1>2 DEF Next, vars, Begin, ReadLatest, RollBack

\* However many transactions overlap, an event's hash covers filed events only:
\* each of its contents is that of an event whose hash is the beginning up to
\* there and whose link is the beginning before (WriteAuditLog).
THEOREM HashesCoverFiledEvents ==
  Spec => [](\A e \in events : \A n \in 1 .. Len(e.current_hash) :
               \E f \in events :
                 /\ f.content = e.current_hash[n]
                 /\ f.current_hash = SubSeq(e.current_hash, 1, n)
                 /\ f.previous_hash = SubSeq(e.current_hash, 1, n - 1))
<1>1. Init => CoverInv
  BY InitLinkInv DEF Init, CoverInv
<1>2. CoverInv =>
        \A e \in events : \A n \in 1 .. Len(e.current_hash) :
          \E f \in events :
            /\ f.content = e.current_hash[n]
            /\ f.current_hash = SubSeq(e.current_hash, 1, n)
            /\ f.previous_hash = SubSeq(e.current_hash, 1, n - 1)
  <2> SUFFICES ASSUME CoverInv, NEW e \in events, NEW n \in 1 .. Len(e.current_hash)
               PROVE  \E f \in events :
                        /\ f.content = e.current_hash[n]
                        /\ f.current_hash = SubSeq(e.current_hash, 1, n)
                        /\ f.previous_hash = SubSeq(e.current_hash, 1, n - 1)
    OBVIOUS
  <2> DEFINE hash == e.current_hash
             begin == SubSeq(hash, 1, n)
  <2>1. hash \in Seq(Contents)
    BY DEF CoverInv, LinkInv, TypeOK, Event, Hashes
  <2>2. Filed(begin)
    BY DEF CoverInv, Covered
  <2> HIDE DEF hash
  <2>3. n \in 1 .. Len(hash)
    BY DEF hash
  <2>4. Len(begin) = n /\ begin[n] = hash[n] /\ SubSeq(begin, 1, n - 1) = SubSeq(hash, 1, n - 1)
    BY <2>1, <2>3
  <2> HIDE DEF begin
  <2>5. \E f \in events :
          f.content = hash[n] /\ f.current_hash = begin /\ f.previous_hash = SubSeq(hash, 1, n - 1)
    BY <2>2, <2>4 DEF Filed
  <2> QED
    BY <2>5 DEF hash, begin
<1> QED
  BY <1>1, <1>2, NextCoverInv, PTL DEF Spec

-----------------------------------------------------------------------------
\* e is linked to the last of the events in S.
LinkedToLast(S, hash) ==
  \/ S = {} /\ hash = Genesis
  \/ \E f \in S : (\A g \in S : g.created_at <= f.created_at) /\ hash = f.current_hash

\* The trail is a chain, and the open transaction comes after all of it.
ChainInv ==
  /\ LinkInv
  /\ \A e \in events : e.created_at <= clock
  /\ \A e, f \in events : e.created_at = f.created_at => e = f
  /\ \A e, f \in events : f.created_at < e.created_at => Len(f.current_hash) < Len(e.current_hash)
  /\ \A e \in events : LinkedToLast(Earlier(e), e.previous_hash)
  /\ \A w \in Writers : writer[w].at # "idle" =>
       writer[w].began = clock /\ \A e \in events : e.created_at < clock
  /\ \A w \in Writers : writer[w].at = "insert" => LinkedToLast(events, writer[w].seen)

LEMMA InitChainInv == Init => ChainInv
  BY InitLinkInv DEF Init, ChainInv

LEMMA ChainInvImplies == ChainInv => ChainLinked
<1> SUFFICES ASSUME ChainInv PROVE ChainLinked
  OBVIOUS
<1>1. ASSUME NEW e \in events, NEW f \in events, e.current_hash = f.current_hash PROVE e = f
  <2>1. e.created_at \in Nat /\ f.created_at \in Nat
    BY DEF ChainInv, LinkInv, TypeOK, Event
  <2>2. Len(e.current_hash) \in Nat /\ Len(f.current_hash) \in Nat
    BY DEF ChainInv, LinkInv, TypeOK, Event, Hashes
  <2> QED
    BY <1>1, <2>1, <2>2 DEF ChainInv
<1> QED
  BY <1>1 DEF ChainInv, ChainLinked, LinkedToLast

LEMMA InsertChainInv ==
  ASSUME ChainInv, OneOpen, NEW w \in Writers, Insert(w)
  PROVE  ChainInv'
<1> PICK new : new = NewEvent(w)
  OBVIOUS
<1>0. LinkInv /\ LinkInv'
  BY NextLinkInv DEF ChainInv, Next
<1>1. /\ writer[w].at = "insert" /\ events' = events \cup {new} /\ clock' = clock
      /\ writer' = [writer EXCEPT ![w].at = "idle"]
  BY DEF Insert
<1>2. /\ new \in Event /\ new.created_at = clock /\ new.previous_hash = writer[w].seen
      /\ new.current_hash = Append(writer[w].seen, new.content)
  BY <1>0, <1>1, NewEventType DEF ChainInv
<1>3. /\ \A e \in events : e.created_at < clock
      /\ LinkedToLast(events, writer[w].seen)
  BY <1>1 DEF ChainInv
<1>4. \A v \in Writers : writer'[v].at = "idle"
  BY <1>0, <1>1 DEF OneOpen, LinkInv, TypeOK, Writer
<1>5. clock \in Nat /\ \A e \in events : e.created_at \in Nat /\ e.current_hash \in Seq(Contents)
  BY <1>0, BoundAssumption DEF LinkInv, TypeOK, Event, Hashes
<1>6. \A e, f \in events' : e.created_at = f.created_at => e = f
  BY <1>1, <1>2, <1>3, <1>5 DEF ChainInv
<1>7. \A f \in events : Len(f.current_hash) < Len(new.current_hash)
  <2> TAKE f \in events
  <2>1. PICK g \in events : (\A h \in events : h.created_at <= g.created_at)
                            /\ writer[w].seen = g.current_hash
    BY <1>3 DEF LinkedToLast
  <2>2. Len(new.current_hash) = Len(g.current_hash) + 1
    <3>1. writer[w].seen \in Seq(Contents) /\ new.content \in Contents
      BY <1>0, <1>2 DEF LinkInv, TypeOK, Writer, Hashes, Event
    <3> QED
      BY <1>2, <2>1, <3>1
  <2>3. Len(f.current_hash) <= Len(g.current_hash)
    <3>1. f.created_at < g.created_at \/ f = g
      BY <1>5, <2>1 DEF ChainInv
    <3>2. Len(f.current_hash) \in Nat /\ Len(g.current_hash) \in Nat
      BY <1>5
    <3> QED
      BY <3>1, <3>2 DEF ChainInv
  <2> QED
    BY <1>5, <2>2, <2>3
<1>8. \A e, f \in events' : f.created_at < e.created_at => Len(f.current_hash) < Len(e.current_hash)
  BY <1>1, <1>2, <1>3, <1>5, <1>7 DEF ChainInv
<1>9. \A e \in events' : LinkedToLast(Earlier(e)', e.previous_hash)
  <2>1. ASSUME NEW e \in events PROVE Earlier(e)' = Earlier(e)
    BY <1>1, <1>2, <1>3, <1>5, <2>1 DEF Earlier
  <2>2. Earlier(new)' = events
    BY <1>1, <1>2, <1>3, <1>5 DEF Earlier
  <2> QED
    BY <1>1, <1>2, <1>3, <2>1, <2>2 DEF ChainInv
<1>10. \A e \in events' : e.created_at <= clock'
  BY <1>1, <1>2, <1>5 DEF ChainInv
<1> QED
  BY <1>0, <1>4, <1>6, <1>8, <1>9, <1>10 DEF ChainInv

\* One step per action; beginning is where writes must not overlap.
LEMMA NextChainInv == ChainInv /\ OneOpen /\ OneOpen' /\ [Next]_vars => ChainInv'
<1> SUFFICES ASSUME ChainInv, OneOpen, OneOpen', [Next]_vars PROVE ChainInv'
  OBVIOUS
<1>0. LinkInv /\ LinkInv'
  BY NextLinkInv DEF ChainInv
<1>a. clock \in Nat /\ \A e \in events : e.created_at \in Nat
  BY <1>0, BoundAssumption DEF LinkInv, TypeOK, Event
<1>b. UNCHANGED events => \A e : Earlier(e)' = Earlier(e)
  BY DEF Earlier
<1>1. ASSUME NEW w \in Writers, NEW content \in Contents, Begin(w, content) PROVE ChainInv'
  <2>1. UNCHANGED events /\ clock' = clock + 1 /\ writer'[w].at = "read" /\ writer'[w].began = clock'
    BY <1>0, <1>1 DEF Begin, LinkInv, TypeOK
  <2>2. \A v \in Writers : v # w => writer'[v].at = "idle"
    BY <2>1 DEF OneOpen
  <2>3. \A e \in events : e.created_at < clock'
    BY <1>a, <2>1 DEF ChainInv
  <2>4. /\ \A e \in events' : e.created_at <= clock'
        /\ \A e, f \in events' : e.created_at = f.created_at => e = f
        /\ \A e, f \in events' : f.created_at < e.created_at => Len(f.current_hash) < Len(e.current_hash)
    BY <1>a, <2>1, <2>3 DEF ChainInv
  <2>5. \A e \in events' : LinkedToLast(Earlier(e)', e.previous_hash)
    BY <1>b, <2>1 DEF ChainInv
  <2>6. \A v \in Writers : writer'[v].at # "idle" => v = w
    BY <2>2
  <2> QED
    BY <1>0, <2>1, <2>3, <2>4, <2>5, <2>6 DEF ChainInv
<1>2. ASSUME NEW w \in Writers, ReadLatest(w) PROVE ChainInv'
  <2>1. PICK seen \in Hashes :
          /\ writer' = [writer EXCEPT ![w].at = "insert", ![w].seen = seen]
          /\ LinkedToLast(events, seen)
    BY <1>0, <1>2, ReadFinds DEF LinkedToLast
  <2>2. UNCHANGED <<events, clock>> /\ writer[w].at # "idle"
    BY <1>2 DEF ReadLatest
  <2>3. /\ writer'[w].seen = seen /\ writer'[w].began = writer[w].began
        /\ \A v \in Writers : v # w => writer'[v] = writer[v]
    BY <1>0, <2>1 DEF LinkInv, TypeOK, Writer
  <2> QED
    BY <1>0, <1>b, <2>1, <2>2, <2>3 DEF ChainInv
<1>3. ASSUME NEW w \in Writers, Insert(w) PROVE ChainInv'
  BY <1>3, InsertChainInv
<1>4. ASSUME NEW w \in Writers, RollBack(w) PROVE ChainInv'
  <2>1. \A v \in Writers : writer'[v].at # "idle" => writer'[v] = writer[v]
    BY <1>0, <1>4 DEF RollBack, LinkInv, TypeOK, Writer
  <2>2. UNCHANGED <<events, clock>>
    BY <1>4 DEF RollBack
  <2> QED
    BY <1>0, <1>b, <2>1, <2>2 DEF ChainInv
<1>5. CASE UNCHANGED vars
  BY <1>0, <1>b, <1>5 DEF ChainInv, vars
<1> QED
  BY <1>1, <1>2, <1>3, <1>4, <1>5 DEF Next

\* If writes to an invoice's trail do not overlap, the trail is one chain, for
\* any contents and any number of writers (WriteAuditLog).
THEOREM TrailIsOneChain == Spec => SerialTrailIsChain
  BY ChainInvImplies, InitChainInv, NextChainInv, PTL DEF Spec, SerialTrailIsChain

-----------------------------------------------------------------------------
\* Every non-empty collection of subsets of a finite set has a member that
\* contains no other: what the least number of a set rests on.
LEMMA SmallestSet ==
  ASSUME NEW S, IsFiniteSet(S), NEW C \in SUBSET SUBSET S, C # {}
  PROVE  \E T \in C : \A U \in C : U \subseteq T => U = T
<1>1. IsWellFoundedOn(StrictSubsetOrdering(S), FiniteSubsetsOf(S))
  BY FS_StrictSubsetOrderingWellFounded
<1>2. C \subseteq FiniteSubsetsOf(S)
  BY FS_FiniteSubsetsOfFinite
<1>3. PICK T \in C : \A U \in C : ~(<<U, T>> \in StrictSubsetOrdering(S))
  BY <1>1, <1>2, WFMin
<1> QED
  BY <1>3 DEF StrictSubsetOrdering

\* A non-empty set of naturals has a least number.
LEMMA SmallestNat ==
  ASSUME NEW C \in SUBSET Nat, C # {}
  PROVE  \E n \in C : \A m \in C : n <= m
<1>1. PICK k \in C : TRUE
  OBVIOUS
<1> DEFINE R == 0 .. k
           D == {0 .. n : n \in {n \in C : n <= k}}
<1>2. D \in SUBSET SUBSET R /\ D # {}
  BY <1>1
<1>3. IsFiniteSet(R)
  BY FS_Interval
<1> HIDE DEF D, R
<1>4. PICK T \in D : \A U \in D : U \subseteq T => U = T
  BY <1>2, <1>3, SmallestSet
<1>5. PICK n \in C : n <= k /\ T = 0 .. n
  BY <1>4 DEF D
<1>6. ASSUME NEW m \in C, m < n PROVE FALSE
  <2>1. 0 .. m \in D
    BY <1>1, <1>5, <1>6 DEF D
  <2>2. 0 .. m \subseteq T /\ n \in T /\ n \notin 0 .. m
    BY <1>5, <1>6
  <2> QED
    BY <1>4, <2>1, <2>2
<1> QED
  BY <1>5, <1>6

\* In a chain an event's hash begins with that of every earlier one.
LEMMA EarlierIsBeginning ==
  ASSUME ChainInv, CoverInv, NEW e \in events, NEW f \in events, f.created_at <= e.created_at
  PROVE  /\ Len(f.current_hash) <= Len(e.current_hash)
         /\ f.current_hash = SubSeq(e.current_hash, 1, Len(f.current_hash))
<1> DEFINE n == Len(f.current_hash)
<1>0. \A g \in events :
        /\ g.created_at \in Nat /\ g.current_hash \in Seq(Contents)
        /\ Len(g.current_hash) \in Nat /\ Len(g.current_hash) > 0
  <2> TAKE g \in events
  <2>1. /\ g.created_at \in Nat /\ g.current_hash \in Seq(Contents)
        /\ g.previous_hash \in Seq(Contents) /\ g.content \in Contents
        /\ g.current_hash = Append(g.previous_hash, g.content)
    BY DEF ChainInv, LinkInv, TypeOK, Event, Hashes
  <2> QED
    BY <2>1
<1>1. n <= Len(e.current_hash)
  <2>1. f.created_at < e.created_at \/ f = e
    BY <1>0 DEF ChainInv
  <2> QED
    BY <1>0, <2>1 DEF ChainInv
<1>2. n \in 1 .. Len(e.current_hash)
  BY <1>0, <1>1
<1>3. PICK g \in events : g.current_hash = SubSeq(e.current_hash, 1, n)
  BY <1>2 DEF CoverInv, Covered, Filed
<1>4. Len(g.current_hash) = n
  BY <1>0, <1>2, <1>3
<1>5. g = f
  <2>1. ~(g.created_at < f.created_at) /\ ~(f.created_at < g.created_at)
    BY <1>0, <1>4 DEF ChainInv
  <2>2. g.created_at = f.created_at
    BY <1>0, <2>1
  <2> QED
    BY <2>2 DEF ChainInv
<1> QED
  BY <1>1, <1>3, <1>5

\* If writes do not overlap, nothing is left out of a hash: it begins with the
\* hash of every event before, so that any of them changes it (WriteAuditLog).
THEOREM HashCoversWholeTrail ==
  Spec /\ []OneOpen =>
    [](\A e, f \in events : f.created_at <= e.created_at =>
         /\ Len(f.current_hash) <= Len(e.current_hash)
         /\ f.current_hash = SubSeq(e.current_hash, 1, Len(f.current_hash)))
<1>1. Init => CoverInv
  BY InitLinkInv DEF Init, CoverInv
<1>2. ChainInv /\ CoverInv =>
        \A e, f \in events : f.created_at <= e.created_at =>
          /\ Len(f.current_hash) <= Len(e.current_hash)
          /\ f.current_hash = SubSeq(e.current_hash, 1, Len(f.current_hash))
  BY EarlierIsBeginning
<1> QED
  BY <1>1, <1>2, InitChainInv, NextChainInv, NextCoverInv, PTL DEF Spec

\* What the invoice page shows as verified, of the events it is given: every
\* one but the first is linked to the one before it.
ShownAsLinked(S) ==
  \A e \in S : \A f \in S :
    /\ f.created_at < e.created_at
    /\ \A g \in S : g.created_at < e.created_at => g.created_at <= f.created_at
    => e.previous_hash = f.current_hash

\* Between two events that it shows, a set shown as linked shows all there are.
LEMMA LinkedShowsAll ==
  ASSUME ChainInv, NEW S \in SUBSET events, ShownAsLinked(S),
         NEW a \in S, NEW b \in S, NEW f \in events,
         a.created_at < f.created_at, f.created_at < b.created_at
  PROVE  f \in S
<1> SUFFICES ASSUME f \notin S PROVE FALSE
  OBVIOUS
<1>0. /\ \A e \in events : e.created_at \in Nat
      /\ \A e, g \in events : e.created_at = g.created_at => e = g
      /\ \A e, g \in events : e.current_hash = g.current_hash => e = g
  <2>1. ChainLinked
    BY ChainInvImplies
  <2> QED
    BY <2>1 DEF ChainLinked, ChainInv, LinkInv, TypeOK, Event
<1> DEFINE After == {e.created_at : e \in {e \in S : e.created_at > f.created_at}}
<1>1. After \in SUBSET Nat /\ b.created_at \in After
  BY <1>0
<1> HIDE DEF After
<1>2. PICK least \in After : \A m \in After : least <= m
  BY <1>1, SmallestNat
<1>3. PICK x \in S : x.created_at = least /\ x.created_at > f.created_at
  BY <1>2 DEF After
<1>4. \A e \in S : e.created_at > f.created_at => x.created_at <= e.created_at
  BY <1>2, <1>3 DEF After
<1> DEFINE Before == {least - e.created_at : e \in {e \in S : e.created_at < x.created_at}}
<1>5. Before \in SUBSET Nat /\ least - a.created_at \in Before
  BY <1>0, <1>3
<1> HIDE DEF Before
<1>6. PICK gap \in Before : \A m \in Before : gap <= m
  BY <1>5, SmallestNat
<1>7. PICK h \in S : gap = least - h.created_at /\ h.created_at < x.created_at
  BY <1>6 DEF Before
<1>8. \A g \in S : g.created_at < x.created_at => g.created_at <= h.created_at
  <2> SUFFICES ASSUME NEW g \in S, g.created_at < x.created_at PROVE g.created_at <= h.created_at
    OBVIOUS
  <2>1. least - g.created_at \in Before
    BY DEF Before
  <2> QED
    BY <1>0, <1>3, <1>6, <1>7, <2>1
<1>9. x.previous_hash = h.current_hash
  BY <1>7, <1>8 DEF ShownAsLinked
<1>10. PICK k \in Earlier(x) : (\A g \in Earlier(x) : g.created_at <= k.created_at)
                               /\ x.previous_hash = k.current_hash
  <2>1. a \in Earlier(x)
    BY <1>0, <1>3 DEF Earlier
  <2> QED
    BY <2>1 DEF ChainInv, LinkedToLast
<1>11. k = h
  BY <1>0, <1>9, <1>10 DEF Earlier
<1>12. f.created_at <= h.created_at
  BY <1>0, <1>3, <1>10, <1>11 DEF Earlier
<1>13. h.created_at > f.created_at
  BY <1>0, <1>12
<1> QED
  BY <1>0, <1>4, <1>7, <1>13

\* If writes do not overlap, no event can be missing unseen between two events
\* that the invoice page shows: the page would show a broken link.
THEOREM RemovalBreaksLinks ==
  Spec /\ []OneOpen =>
    [](\A S \in SUBSET events : ShownAsLinked(S) =>
         \A a, b \in S, f \in events :
           a.created_at < f.created_at /\ f.created_at < b.created_at => f \in S)
<1>1. ChainInv =>
        \A S \in SUBSET events : ShownAsLinked(S) =>
          \A a, b \in S, f \in events :
            a.created_at < f.created_at /\ f.created_at < b.created_at => f \in S
  BY LinkedShowsAll
<1> QED
  BY <1>1, InitChainInv, NextChainInv, PTL DEF Spec

-----------------------------------------------------------------------------
(***************************************************************************)
(* What overlapping writes can fork: the beginning of the trail.           *)
(***************************************************************************)

Firsts == {e \in events : e.previous_hash = Genesis}
Starting == {w \in Writers : writer[w].at = "insert" /\ writer[w].seen = Genesis}

\* The first events and those about to be inserted: one for each writer at most.
ForkInv ==
  /\ LinkInv
  /\ IsFiniteSet(Firsts)
  /\ Cardinality(Firsts) + Cardinality(Starting) <= Cardinality(Writers)

LEMMA StartingFinite ==
  ASSUME IsFiniteSet(Writers)
  PROVE  /\ IsFiniteSet(Starting) /\ Cardinality(Starting) \in Nat
         /\ Cardinality(Starting) <= Cardinality(Writers) /\ Cardinality(Writers) \in Nat
<1>1. Starting \in SUBSET Writers
  BY DEF Starting
<1> QED
  BY <1>1, FS_Subset, FS_CardinalityType

LEMMA FewerStarting ==
  ASSUME ForkInv, IsFiniteSet(Writers), [Next]_vars, UNCHANGED events, Starting' \subseteq Starting
  PROVE  ForkInv'
<1>1. Firsts' = Firsts
  BY DEF Firsts
<1>2. Cardinality(Starting') \in Nat /\ Cardinality(Starting') <= Cardinality(Starting)
  BY StartingFinite, FS_Subset, FS_CardinalityType
<1>3. Cardinality(Firsts) \in Nat
  BY FS_CardinalityType DEF ForkInv
<1> QED
  BY <1>1, <1>2, <1>3, StartingFinite, NextLinkInv DEF ForkInv

LEMMA NextForkInv ==
  ASSUME IsFiniteSet(Writers), ForkInv, [Next]_vars
  PROVE  ForkInv'
<1>0. writer \in [Writers -> Writer] /\ LinkInv /\ LinkInv'
  BY NextLinkInv DEF ForkInv, LinkInv, TypeOK
<1>a. Cardinality(Firsts) \in Nat /\ IsFiniteSet(Firsts)
  BY FS_CardinalityType DEF ForkInv
<1>1. ASSUME NEW w \in Writers, NEW content \in Contents, Begin(w, content) PROVE ForkInv'
  <2>1. Starting' \subseteq Starting
    BY <1>0, <1>1 DEF Begin, Starting
  <2> QED
    BY <1>1, <2>1, FewerStarting DEF Begin
<1>2. ASSUME NEW w \in Writers, ReadLatest(w) PROVE ForkInv'
  <2>1. PICK seen \in Hashes :
          /\ writer' = [writer EXCEPT ![w].at = "insert", ![w].seen = seen]
          /\ \/ events = {} /\ seen = Genesis
             \/ \E f \in events : seen = f.current_hash
    BY <1>0, <1>2, ReadFinds
  <2>2. UNCHANGED events
    BY <1>2 DEF ReadLatest
  <2>3. CASE events = {}
    <3>1. Firsts' = {}
      BY <2>2, <2>3 DEF Firsts
    <3>2. Cardinality(Firsts') = 0 /\ IsFiniteSet(Firsts')
      BY <3>1, FS_EmptySet
    <3>3. Starting' \in SUBSET Writers
      BY DEF Starting
    <3>4. Cardinality(Starting') \in Nat /\ Cardinality(Starting') <= Cardinality(Writers)
      BY <3>3, FS_Subset, FS_CardinalityType
    <3> QED
      BY <1>0, <3>2, <3>4, StartingFinite DEF ForkInv
  <2>4. CASE events # {}
    <3>1. PICK f \in events : seen = f.current_hash
      BY <2>1, <2>4
    <3>2. seen # Genesis
      <4>1. f.previous_hash \in Seq(Contents) /\ f.content \in Contents
            /\ f.current_hash = Append(f.previous_hash, f.content)
        BY <1>0 DEF LinkInv, TypeOK, Event, Hashes
      <4>2. Len(f.current_hash) = Len(f.previous_hash) + 1 /\ Len(f.previous_hash) \in Nat
        BY <4>1
      <4>3. Len(Genesis) = 0
        BY DEF Genesis
      <4> QED
        BY <3>1, <4>2, <4>3
    <3>3. writer'[w].seen = seen /\ \A v \in Writers : v # w => writer'[v] = writer[v]
      BY <1>0, <2>1 DEF Writer
    <3>4. Starting' \subseteq Starting
      BY <3>2, <3>3 DEF Starting
    <3> QED
      BY <2>2, <3>4, FewerStarting
  <2> QED
    BY <2>3, <2>4
<1>3. ASSUME NEW w \in Writers, Insert(w) PROVE ForkInv'
  <2>1. writer[w].at = "insert" /\ events' = events \cup {NewEvent(w)}
    BY <1>3 DEF Insert
  <2>2. NewEvent(w).previous_hash = writer[w].seen
    BY <1>0, <2>1, NewEventType
  <2>3. Starting' = Starting \ {w}
    BY <1>0, <1>3 DEF Insert, Starting, Writer
  <2>4. CASE writer[w].seen = Genesis
    <3>1. Firsts' = Firsts \cup {NewEvent(w)}
      BY <2>1, <2>2, <2>4 DEF Firsts
    <3>2. IsFiniteSet(Firsts') /\ Cardinality(Firsts') \in Nat
          /\ Cardinality(Firsts') <= Cardinality(Firsts) + 1
      BY <1>a, <3>1, FS_AddElement, FS_CardinalityType
    <3>3. w \in Starting
      BY <2>1, <2>4 DEF Starting
    <3>4. Cardinality(Starting') = Cardinality(Starting) - 1
      BY <2>3, <3>3, StartingFinite, FS_RemoveElement
    <3> QED
      BY <1>0, <1>a, <3>2, <3>4, StartingFinite DEF ForkInv
  <2>5. CASE writer[w].seen # Genesis
    <3>1. Firsts' = Firsts
      BY <2>1, <2>2, <2>5 DEF Firsts
    <3>2. Starting \ {w} = Starting
      BY <2>5 DEF Starting
    <3> QED
      BY <1>0, <2>3, <3>1, <3>2 DEF ForkInv
  <2> QED
    BY <2>4, <2>5
<1>4. ASSUME NEW w \in Writers, RollBack(w) PROVE ForkInv'
  <2>1. Starting' \subseteq Starting
    BY <1>0, <1>4 DEF RollBack, Starting, Writer
  <2> QED
    BY <1>4, <2>1, FewerStarting DEF RollBack
<1>5. CASE UNCHANGED vars
  <2>1. Starting' \subseteq Starting /\ UNCHANGED events
    BY <1>5 DEF vars, Starting
  <2> QED
    BY <2>1, FewerStarting
<1> QED
  BY <1>1, <1>2, <1>3, <1>4, <1>5 DEF Next

\* However long the trail grows, it has no more beginnings than transactions
\* that can be open at once: once an event is on file, no write that starts to
\* read takes the genesis hash for the latest (WriteAuditLog).
THEOREM BeginningsBounded ==
  ASSUME IsFiniteSet(Writers)
  PROVE  Spec => [](/\ IsFiniteSet(Firsts)
                    /\ Cardinality(Firsts) <= Cardinality(Writers))
<1>1. Init => ForkInv
  <2> SUFFICES ASSUME Init PROVE ForkInv
    OBVIOUS
  <2>1. Firsts = {}
    BY DEF Init, Firsts
  <2>2. IsFiniteSet(Firsts) /\ Cardinality(Firsts) = 0
    BY <2>1, FS_EmptySet
  <2> QED
    BY <2>2, InitLinkInv, StartingFinite DEF ForkInv
<1>2. ForkInv /\ [Next]_vars => ForkInv'
  BY NextForkInv
<1>3. ForkInv => IsFiniteSet(Firsts) /\ Cardinality(Firsts) <= Cardinality(Writers)
  BY StartingFinite, FS_CardinalityType DEF ForkInv
<1> QED
  BY <1>1, <1>2, <1>3, PTL DEF Spec
=============================================================================
