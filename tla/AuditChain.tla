------------------------------ MODULE AuditChain ------------------------------
(***************************************************************************)
(* The audit trail of one invoice: WriteAuditLog, as it is called by API   *)
(* requests and workflow activities.  A write is a transaction that reads  *)
(* the latest hash on file and inserts an event chained to it; statements  *)
(* see what has been committed, and nothing is locked.                     *)
(*                                                                         *)
(* created_at is the time the transaction began; two transactions do not   *)
(* begin in the same microsecond.  SHA-256 is taken as injective: a hash   *)
(* is the sequence of what it covers, the empty one being the genesis.     *)
(***************************************************************************)
EXTENDS Naturals, Sequences

CONSTANTS
  Writers,     \* transactions that can be open at once
  Contents,    \* event type and payload, what a hash covers
  MaxWrites    \* bound: transactions begun

ASSUME BoundAssumption == MaxWrites \in Nat

Hashes == Seq(Contents)
Genesis == << >>

VARIABLES
  events,   \* audit_events
  writer,   \* the open transactions
  clock     \* transactions begun so far

vars == <<events, writer, clock>>

Event == [created_at : Nat, content : Contents, previous_hash : Hashes, current_hash : Hashes]

\* seen is the hash read, meaningful at "insert" only.
Writer == [at : {"idle", "read", "insert"}, began : Nat, content : Contents, seen : Hashes]

\* Mutant: the hash covers the previous hash as one more content.
DigestOfPair(previous, content) == <<previous, content>>

Digest(previous, content) == Append(previous, content)

TypeOK ==
  /\ events \subseteq Event
  /\ writer \in [Writers -> Writer]
  /\ clock \in 0 .. MaxWrites

Init ==
  /\ events = {}
  /\ \E c \in Contents :
       writer = [w \in Writers |-> [at |-> "idle", began |-> 0, content |-> c, seen |-> Genesis]]
  /\ clock = 0

Begin(w, content) ==
  /\ writer[w].at = "idle"
  /\ clock < MaxWrites
  /\ clock' = clock + 1
  /\ writer' = [writer EXCEPT ![w] =
       [at |-> "read", began |-> clock + 1, content |-> content, seen |-> Genesis]]
  /\ UNCHANGED events

\* Mutant: the hash an open transaction is about to insert is read too.
DirtyHashes ==
  {<<e.created_at, e.current_hash>> : e \in events} \cup
    {<<writer[w].began, Digest(writer[w].seen, writer[w].content)>> :
       w \in {x \in Writers : writer[x].at = "insert"}}

\* The hashes on file, each with its created_at.
HashesOnFile == {<<e.created_at, e.current_hash>> : e \in events}

\* The hash that the open transaction will link to.
Read(w, hash) == writer' = [writer EXCEPT ![w].at = "insert", ![w].seen = hash]

\* Mutant: a scan that fails leaves the genesis hash.
ReadGenesis(w) ==
  /\ writer[w].at = "read"
  /\ Read(w, Genesis)
  /\ UNCHANGED <<events, clock>>

\* ORDER BY created_at DESC LIMIT 1, the genesis hash when there is no event.
ReadLatest(w) ==
  /\ writer[w].at = "read"
  /\ \/ HashesOnFile = {} /\ Read(w, Genesis)
     \/ \E h \in HashesOnFile : (\A g \in HashesOnFile : g[1] <= h[1]) /\ Read(w, h[2])
  /\ UNCHANGED <<events, clock>>

NewEvent(w) ==
  [created_at |-> writer[w].began, content |-> writer[w].content,
   previous_hash |-> writer[w].seen, current_hash |-> Digest(writer[w].seen, writer[w].content)]

Insert(w) ==
  /\ writer[w].at = "insert"
  /\ events' = events \cup {NewEvent(w)}
  /\ writer' = [writer EXCEPT ![w].at = "idle"]
  /\ UNCHANGED clock

\* A failed transaction leaves nothing.  Requests ignore the error; an activity
\* is attempted again, which is another write of the same content.
RollBack(w) ==
  /\ writer[w].at # "idle"
  /\ writer' = [writer EXCEPT ![w].at = "idle"]
  /\ UNCHANGED <<events, clock>>

Next ==
  \E w \in Writers :
    \/ \E content \in Contents : Begin(w, content)
    \/ ReadLatest(w)
    \/ Insert(w)
    \/ RollBack(w)

Spec == Init /\ [][Next]_vars

-----------------------------------------------------------------------------
(***************************************************************************)
(* Properties.                                                             *)
(***************************************************************************)

Earlier(e) == {f \in events : f.created_at < e.created_at}

\* The trail is one chain: in the order in which it is shown, every event is
\* linked to the one before it and the first to the genesis hash, and no hash
\* occurs twice.
ChainLinked ==
  /\ \A e \in events :
       IF Earlier(e) = {} THEN e.previous_hash = Genesis
       ELSE \E f \in Earlier(e) :
              /\ \A g \in Earlier(e) : g.created_at <= f.created_at
              /\ e.previous_hash = f.current_hash
  /\ \A e, f \in events : e.current_hash = f.current_hash => e = f

\* As long as one transaction at most is open, the trail is one chain.
OneOpen == \A v, w \in Writers : writer[v].at # "idle" /\ writer[w].at # "idle" => v = w

SerialTrailIsChain == []OneOpen => []ChainLinked

\* However transactions overlap, every event is linked to an event that is on
\* file, or to the genesis hash: following the links from any event leads to
\* the start of the trail, over one event fewer each time.
LinksLeadToStart ==
  \A e \in events :
    \/ e.previous_hash = Genesis
    \/ \E f \in events :
         e.previous_hash = f.current_hash /\ Len(f.current_hash) < Len(e.current_hash)
=============================================================================
