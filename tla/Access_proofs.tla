---------------------------- MODULE Access_proofs ----------------------------
(***************************************************************************)
(* Proofs about Access, for any users, clients, passwords and limits: type *)
(* correctness, the bound on the failures kept for an address, who         *)
(* overwrites a password, and what the limiter counts and for how long it  *)
(* blocks.                                                                 *)
(***************************************************************************)
EXTENDS Access, FiniteSetTheorems, SequenceTheorems, TLAPS

-----------------------------------------------------------------------------
(***************************************************************************)
(* The failures of the window.                                             *)
(***************************************************************************)

\* Forgetting old failures leaves a sequence of ages that is no longer.
LEMMA RecentType ==
  ASSUME NEW ages \in Seq(0 .. Window)
  PROVE  Recent(ages) \in Seq(0 .. Window) /\ Len(Recent(ages)) <= Len(ages)
<1> DEFINE old == {k \in DOMAIN ages : ages[k] >= Window}
<1>1. Len(ages) \in Nat /\ DOMAIN ages = 1 .. Len(ages)
  OBVIOUS
<1>2. IsFiniteSet(1 .. Len(ages)) /\ Cardinality(1 .. Len(ages)) = Len(ages)
  <2>1. 1 \in Int /\ Len(ages) \in Int
    BY <1>1
  <2> QED BY <2>1, <1>1, FS_Interval
<1>3. old \subseteq 1 .. Len(ages)
  BY <1>1
<1>4. IsFiniteSet(old) /\ Cardinality(old) <= Len(ages)
  BY <1>2, <1>3, FS_Subset
<1>5. Cardinality(old) \in Nat
  BY <1>4, FS_CardinalityType
<1> DEFINE from == Cardinality(old) + 1
<1>6. from \in 1 .. Len(ages) + 1
  BY <1>1, <1>4, <1>5
<1>7. Recent(ages) = SubSeq(ages, from, Len(ages))
  BY DEF Recent
<1> HIDE DEF from, old
<1>8. from \in Int /\ Len(ages) \in Int /\ \A i \in from .. Len(ages) : ages[i] \in 0 .. Window
  <2>1. from \in Nat /\ from >= 1
    BY <1>1, <1>6
  <2>2. ASSUME NEW i \in from .. Len(ages) PROVE ages[i] \in 0 .. Window
    <3>1. i \in 1 .. Len(ages)
      BY <2>1, <1>1
    <3> QED BY <3>1, ElementOfSeq
  <2> QED BY <2>1, <2>2, <1>1
<1>9. /\ SubSeq(ages, from, Len(ages)) \in Seq(0 .. Window)
      /\ Len(SubSeq(ages, from, Len(ages)))
           = IF from <= Len(ages) THEN Len(ages) - from + 1 ELSE 0
  BY <1>8, SubSeqProperties
<1>10. Len(SubSeq(ages, from, Len(ages))) <= Len(ages)
  BY <1>1, <1>6, <1>9
<1> QED BY <1>7, <1>9, <1>10

LEMMA LimiterType ==
  ASSUME TypeOK, NEW a \in Address,
         \/ attempts' = [attempts EXCEPT ![a] = Recent(@)]
         \/ attempts' = [attempts EXCEPT ![a] = Append(@, 0)]
  PROVE  attempts' \in [Address -> Seq(0 .. Window)]
<1>1. attempts[a] \in Seq(0 .. Window)
  BY DEF TypeOK
<1>2. Recent(attempts[a]) \in Seq(0 .. Window)
  BY <1>1, RecentType
<1>3. Append(attempts[a], 0) \in Seq(0 .. Window)
  BY <1>1, LimitAssumption
<1> QED BY <1>2, <1>3 DEF TypeOK

-----------------------------------------------------------------------------
(***************************************************************************)
(* Type correctness.                                                       *)
(***************************************************************************)

LEMMA IdleType == Idle.at = "idle" /\ Idle.kind = "none" /\ Idle.user = Stranger
BY DEF Idle

LEMMA TypeInit == Init => TypeOK
<1> SUFFICES ASSUME Init PROVE TypeOK
  OBVIOUS
<1>1. password \in [User -> Password]
  BY PasswordAssumption DEF Init
<1>2. attempts \in [Address -> Seq(0 .. Window)]
  BY DEF Init
<1>3. request \in [Client -> Request \cup {Idle}]
  BY DEF Init
<1>4. token \in [Client -> [user : User \cup {Stranger}, age : 0 .. TokenTTL]]
  BY LimitAssumption DEF Init, NoToken
<1>5. faults \in 0 .. MaxFaults
  BY LimitAssumption DEF Init
<1> QED BY <1>1, <1>2, <1>3, <1>4, <1>5 DEF TypeOK

\* A request that ends or goes on leaves every other one as it is.
LEMMA RequestType ==
  ASSUME TypeOK, NEW c \in Client, NEW r \in Request \cup {Idle},
         request' = [request EXCEPT ![c] = r]
  PROVE  request' \in [Client -> Request \cup {Idle}]
BY DEF TypeOK

LEMMA EndType ==
  ASSUME TypeOK, NEW c \in Client, End(c)
  PROVE  request' \in [Client -> Request \cup {Idle}]
BY DEF TypeOK, End

\* A failed call is one of the budget.
LEMMA FaultType == ASSUME TypeOK, Fault PROVE faults' \in 0 .. MaxFaults
BY LimitAssumption DEF TypeOK, Fault

LEMMA TypeLogin ==
  ASSUME TypeOK, NEW c \in Client, LoginStep(c)
  PROVE  TypeOK'
<1> USE ClientAssumption
<1>a. AddressOf[c] \in Address
  OBVIOUS
<1>1. ASSUME NEW u \in User \cup {Stranger}, NEW p \in Password, BeginLogin(c, u, p)
      PROVE  TypeOK'
  <2> DEFINE r == [Idle EXCEPT !.at = "lookup", !.kind = "login", !.user = u, !.sent = p]
  <2>1. r \in Request /\ r.at = "lookup"
    BY PasswordAssumption DEF Idle, Request
  <2>2. request' = [request EXCEPT ![c] = r]
    BY <1>1 DEF BeginLogin
  <2> HIDE DEF r
  <2>3. request' \in [Client -> Request \cup {Idle}]
    BY <2>1, <2>2, RequestType
  <2>4. attempts' \in [Address -> Seq(0 .. Window)]
    BY <1>a, <1>1, LimiterType DEF BeginLogin, Allow
  <2> QED BY <1>1, <2>3, <2>4 DEF TypeOK, BeginLogin
<1>2. CASE RefuseLogin(c) \/ MalformedLogin(c)
  <2>1. attempts' \in [Address -> Seq(0 .. Window)]
    BY <1>a, <1>2, LimiterType DEF RefuseLogin, MalformedLogin, Allow, Deny
  <2>2. UNCHANGED <<password, request, token, faults>>
    BY <1>2 DEF RefuseLogin, MalformedLogin
  <2> QED BY <2>1, <2>2 DEF TypeOK
<1>3. CASE UnknownUser(c) \/ WrongPassword(c)
  <2>1. attempts' \in [Address -> Seq(0 .. Window)]
    BY <1>a, <1>3, LimiterType DEF UnknownUser, WrongPassword, RecordFailure
  <2>2. End(c) /\ UNCHANGED <<password, token>>
    BY <1>3 DEF UnknownUser, WrongPassword
  <2>3. Fault \/ UNCHANGED faults
    BY <1>3 DEF UnknownUser, WrongPassword
  <2> QED BY <2>1, <2>2, <2>3, EndType, FaultType DEF TypeOK
<1>4. CASE IssueToken(c)
  <2>1. End(c) /\ UNCHANGED <<password, attempts, faults>>
    BY <1>4 DEF IssueToken
  <2>a. request[c] \in Request
    BY <1>4 DEF IssueToken, TypeOK, Idle
  <2>2. request[c].user \in User
    BY <1>4, <2>a DEF IssueToken, Request
  <2>3. token' \in [Client -> [user : User \cup {Stranger}, age : 0 .. TokenTTL]]
    BY <1>4, <2>2, LimitAssumption DEF IssueToken, TypeOK
  <2> QED BY <2>1, <2>3, EndType DEF TypeOK
<1> QED BY <1>1, <1>2, <1>3, <1>4 DEF LoginStep

LEMMA TypePassword ==
  ASSUME TypeOK, NEW c \in Client, PasswordStep(c)
  PROVE  TypeOK'
<1>a. token[c].user \in User \cup {Stranger}
  BY DEF TypeOK
<1>1. ASSUME NEW p \in Password, NEW q \in Password, BeginChange(c, p, q)
      PROVE  TypeOK'
  <2> DEFINE r == [Idle EXCEPT !.at = "lookup", !.kind = "change", !.user = token[c].user,
                               !.by = token[c].user, !.sent = p, !.new = q]
  <2>1. r \in Request /\ r.at = "lookup"
    BY <1>a, PasswordAssumption DEF Idle, Request
  <2>2. request' = [request EXCEPT ![c] = r]
    BY <1>1 DEF BeginChange
  <2> HIDE DEF r
  <2>3. request' \in [Client -> Request \cup {Idle}]
    BY <2>1, <2>2, RequestType
  <2> QED BY <1>1, <2>3 DEF TypeOK, BeginChange
<1>2. ASSUME NEW u \in User \cup {Stranger}, NEW q \in Password, BeginReset(c, u, q)
      PROVE  TypeOK'
  <2> DEFINE r == [Idle EXCEPT !.at = "lookup", !.kind = "reset", !.user = u,
                               !.by = token[c].user, !.new = q]
  <2>1. r \in Request /\ r.at = "lookup"
    BY <1>a, PasswordAssumption DEF Idle, Request
  <2>2. request' = [request EXCEPT ![c] = r]
    BY <1>2 DEF BeginReset
  <2> HIDE DEF r
  <2>3. request' \in [Client -> Request \cup {Idle}]
    BY <2>1, <2>2, RequestType
  <2> QED BY <1>2, <2>3 DEF TypeOK, BeginReset
<1>3. CASE LookUp(c)
  <2> DEFINE r == IF request[c].kind = "reset" THEN [request[c] EXCEPT !.at = "write"]
                  ELSE [request[c] EXCEPT !.at = "check", !.seen = password[request[c].user]]
  <2>1. request[c] \in Request
    BY <1>3 DEF LookUp, TypeOK, Idle
  <2>2. request[c].user \in User
    BY <1>3, <2>1 DEF LookUp, Request
  <2>3. password[request[c].user] \in Password
    BY <2>2 DEF TypeOK
  <2>4. r \in Request
    <3>1. CASE request[c].kind = "reset"
      BY <3>1, <2>1, <2>2 DEF Request
    <3>2. CASE request[c].kind # "reset"
      BY <3>2, <2>1, <2>2, <2>3 DEF Request
    <3> QED BY <3>1, <3>2
  <2>5. request' = [request EXCEPT ![c] = r]
    BY <1>3, <2>1 DEF LookUp, TypeOK
  <2> HIDE DEF r
  <2>6. request' \in [Client -> Request \cup {Idle}]
    BY <2>4, <2>5, RequestType
  <2> QED BY <1>3, <2>6 DEF TypeOK, LookUp
<1>4. CASE Refuse(c)
  <2>1. End(c) /\ UNCHANGED <<password, attempts, token>>
    BY <1>4 DEF Refuse
  <2>2. Fault \/ UNCHANGED faults
    BY <1>4 DEF Refuse
  <2> QED BY <2>1, <2>2, EndType, FaultType DEF TypeOK
<1>5. CASE ProveCurrent(c)
  <2> DEFINE r == [request[c] EXCEPT !.at = "write"]
  <2>1. request[c] \in Request
    BY <1>5 DEF ProveCurrent, TypeOK, Idle
  <2>2. r \in Request
    BY <1>5, <2>1 DEF Request, ProveCurrent
  <2>3. request' = [request EXCEPT ![c] = r]
    BY <1>5 DEF ProveCurrent, TypeOK
  <2> HIDE DEF r
  <2>4. request' \in [Client -> Request \cup {Idle}]
    BY <2>2, <2>3, RequestType
  <2> QED BY <1>5, <2>4 DEF TypeOK, ProveCurrent
<1>6. CASE UpdateUserPassword(c)
  <2>1. request[c] \in Request
    BY <1>6 DEF UpdateUserPassword, TypeOK, Idle
  <2>2. request[c].user \in User /\ request[c].new \in Password
    BY <1>6, <2>1 DEF UpdateUserPassword, Request
  <2>3. password' \in [User -> Password]
    BY <1>6, <2>2 DEF UpdateUserPassword, TypeOK
  <2>4. ASSUME NEW d \in Client
        PROVE  request'[d] \in Request \cup {Idle}
    <3>1. CASE request[d].at \in {"check", "write"}
      <4>1. request[d] \in Request
        BY <3>1 DEF TypeOK, Idle
      <4>2. [request[d] EXCEPT !.rivalled = TRUE] \in Request
        BY <4>1 DEF Request
      <4> QED BY <1>6, <4>1, <4>2 DEF UpdateUserPassword
    <3>2. CASE request[d].at \notin {"check", "write"}
      BY <1>6, <3>2 DEF UpdateUserPassword, TypeOK
    <3> QED BY <3>1, <3>2
  <2>5. request' \in [Client -> Request \cup {Idle}]
    BY <1>6, <2>4 DEF UpdateUserPassword
  <2> QED BY <1>6, <2>3, <2>5 DEF UpdateUserPassword, TypeOK
<1> QED BY <1>1, <1>2, <1>3, <1>4, <1>5, <1>6 DEF PasswordStep

\* Ages grow up to their limit.
LEMMA TypeTick == ASSUME TypeOK, Tick PROVE TypeOK'
<1>1. ASSUME NEW limit \in Nat, NEW age \in 0 .. limit
      PROVE  Older(age, limit) \in 0 .. limit
  BY DEF Older
<1>2. attempts' \in [Address -> Seq(0 .. Window)]
  <2>1. ASSUME NEW a \in Address
        PROVE  [k \in 1 .. Len(attempts[a]) |-> Older(attempts[a][k], Window)]
                 \in Seq(0 .. Window)
    <3>1. attempts[a] \in Seq(0 .. Window) /\ Len(attempts[a]) \in Nat
      BY DEF TypeOK
    <3>2. ASSUME NEW k \in 1 .. Len(attempts[a])
          PROVE  Older(attempts[a][k], Window) \in 0 .. Window
      <4>1. attempts[a][k] \in 0 .. Window /\ Window \in Nat
        BY <3>1, LimitAssumption
      <4> QED BY <4>1, <1>1
    <3>3. [k \in 1 .. Len(attempts[a]) |-> Older(attempts[a][k], Window)]
            \in [1 .. Len(attempts[a]) -> 0 .. Window]
      BY <3>2
    <3> QED BY <3>1, <3>3, SeqDef
  <2> QED BY <2>1 DEF Tick
<1>3. token' \in [Client -> [user : User \cup {Stranger}, age : 0 .. TokenTTL]]
  <2>1. ASSUME NEW c \in Client
        PROVE  [token[c] EXCEPT !.age = Older(@, TokenTTL)]
                 \in [user : User \cup {Stranger}, age : 0 .. TokenTTL]
    <3>1. token[c] \in [user : User \cup {Stranger}, age : 0 .. TokenTTL]
      BY DEF TypeOK
    <3>2. Older(token[c].age, TokenTTL) \in 0 .. TokenTTL
      BY <3>1, <1>1, LimitAssumption
    <3> QED BY <3>1, <3>2
  <2> QED BY <2>1 DEF Tick
<1> QED BY <1>2, <1>3 DEF TypeOK, Tick

\* A restart leaves no failure and no request.
LEMMA TypeRestart == ASSUME TypeOK, RestartServer PROVE TypeOK'
<1>1. attempts' \in [Address -> Seq(0 .. Window)]
  BY DEF RestartServer
<1>2. request' \in [Client -> Request \cup {Idle}]
  BY DEF RestartServer
<1> QED BY <1>1, <1>2, FaultType DEF TypeOK, RestartServer

LEMMA TypeNext == TypeOK /\ [Next]_vars => TypeOK'
<1> SUFFICES ASSUME TypeOK, [Next]_vars PROVE TypeOK'
  OBVIOUS
<1>1. CASE UNCHANGED vars
  BY <1>1 DEF TypeOK, vars
<1>2. CASE Next
  BY <1>2, TypeLogin, TypePassword, TypeTick, TypeRestart DEF Next
<1> QED BY <1>1, <1>2

\* The state of Access keeps its type.
THEOREM TypeCorrect == Spec => []TypeOK
BY TypeInit, TypeNext, PTL DEF Spec

-----------------------------------------------------------------------------
(***************************************************************************)
(* The bound on the failures kept.                                         *)
(***************************************************************************)

LEMMA FromFinite == ASSUME NEW a PROVE IsFiniteSet(From(a)) /\ Cardinality(From(a)) \in Nat
<1>1. From(a) \subseteq Client
  BY DEF From
<1> QED BY <1>1, ClientAssumption, FS_Subset, FS_CardinalityType

\* Some of the clients of an address are trying.
LEMMA TryingBounded ==
  ASSUME NEW a
  PROVE  /\ IsFiniteSet(Trying(a)) /\ Cardinality(Trying(a)) \in Nat
         /\ Cardinality(Trying(a)) <= Cardinality(From(a))
<1>1. Trying(a) \subseteq From(a)
  BY DEF Trying
<1> QED BY <1>1, FromFinite, FS_Subset, FS_CardinalityType

\* Ending the request of a login leaves one client fewer trying; ending another
\* one changes nothing.
LEMMA TryingAfterEnd ==
  ASSUME TypeOK, NEW c \in Client, End(c), NEW a
  PROVE  Trying(a)' = Trying(a) \ {c}
BY IdleType DEF TypeOK, End, Trying, From

\* A failure is recorded for a client that stops trying.
LEMMA FailureCounted ==
  ASSUME TypeOK, FailuresBounded, NEW c \in Client, request[c].kind = "login",
         RecordFailure(AddressOf[c]), End(c)
  PROVE  FailuresBounded'
<1> SUFFICES ASSUME NEW a \in Address
             PROVE  Len(attempts'[a]) + Cardinality(Trying(a)')
                      <= MaxAttempts - 1 + Cardinality(From(a))
  BY DEF FailuresBounded, From
<1>1. Trying(a)' = Trying(a) \ {c}
  BY TryingAfterEnd
<1>2. /\ Len(attempts[a]) \in Nat /\ MaxAttempts \in Nat
      /\ Cardinality(Trying(a)) \in Nat /\ Cardinality(From(a)) \in Nat
      /\ Len(attempts[a]) + Cardinality(Trying(a)) <= MaxAttempts - 1 + Cardinality(From(a))
  BY TryingBounded, FromFinite, LimitAssumption DEF TypeOK, FailuresBounded
<1>3. CASE a = AddressOf[c]
  <2>1. c \in Trying(a)
    BY <1>3 DEF Trying, From
  <2>2. Cardinality(Trying(a) \ {c}) = Cardinality(Trying(a)) - 1
    BY <2>1, TryingBounded, FS_RemoveElement
  <2>3. attempts'[a] = Append(attempts[a], 0) /\ attempts[a] \in Seq(0 .. Window)
    BY <1>3 DEF RecordFailure, TypeOK
  <2>4. Len(attempts'[a]) = Len(attempts[a]) + 1
    BY <2>3
  <2> QED BY <1>1, <1>2, <2>2, <2>4
<1>4. CASE a # AddressOf[c]
  <2>1. c \notin Trying(a)
    BY <1>4 DEF Trying, From
  <2>2. Trying(a) \ {c} = Trying(a)
    BY <2>1
  <2>3. attempts'[a] = attempts[a]
    BY <1>4 DEF RecordFailure, TypeOK
  <2> QED BY <1>1, <1>2, <2>2, <2>3
<1> QED BY <1>3, <1>4

\* The sum falls or stays when no failure is added and nobody starts to try.
LEMMA BoundKept ==
  ASSUME TypeOK, FailuresBounded, NEW a \in Address,
         Len(attempts'[a]) \in Nat, Len(attempts'[a]) <= Len(attempts[a]),
         Trying(a)' \subseteq Trying(a)
  PROVE  Len(attempts'[a]) + Cardinality(Trying(a)') <= MaxAttempts - 1 + Cardinality(From(a))
<1>1. /\ Cardinality(Trying(a)') \in Nat
      /\ Cardinality(Trying(a)') <= Cardinality(Trying(a))
  BY TryingBounded, FS_Subset, FS_CardinalityType
<1>2. /\ Len(attempts[a]) \in Nat /\ MaxAttempts \in Nat
      /\ Cardinality(Trying(a)) \in Nat /\ Cardinality(From(a)) \in Nat
      /\ Len(attempts[a]) + Cardinality(Trying(a)) <= MaxAttempts - 1 + Cardinality(From(a))
  BY TryingBounded, FromFinite, LimitAssumption DEF TypeOK, FailuresBounded
<1> QED BY <1>1, <1>2

\* The step of a login: the limiter lets in below the limit, so that the sum is
\* within the bound when every client of the address is trying.
LEMMA BoundLogin ==
  ASSUME TypeOK, FailuresBounded, NEW c \in Client, LoginStep(c)
  PROVE  FailuresBounded'
<1> USE ClientAssumption
<1>a. AddressOf[c] \in Address
  OBVIOUS
<1>b. ASSUME NEW a \in Address
      PROVE  /\ attempts[a] \in Seq(0 .. Window) /\ Len(attempts[a]) \in Nat
             /\ Recent(attempts[a]) \in Seq(0 .. Window)
             /\ Len(Recent(attempts[a])) \in Nat
             /\ Len(Recent(attempts[a])) <= Len(attempts[a])
  <2>1. attempts[a] \in Seq(0 .. Window)
    BY DEF TypeOK
  <2> QED BY <2>1, RecentType
<1>1. ASSUME NEW u \in User \cup {Stranger}, NEW p \in Password, BeginLogin(c, u, p)
      PROVE  FailuresBounded'
  <2> SUFFICES ASSUME NEW a \in Address
               PROVE  Len(attempts'[a]) + Cardinality(Trying(a)')
                        <= MaxAttempts - 1 + Cardinality(From(a))
    BY DEF FailuresBounded, From
  <2>1. CASE a = AddressOf[c]
    <3>1. Len(attempts'[a]) < MaxAttempts /\ Len(attempts'[a]) \in Nat
      BY <1>1, <1>b, <2>1 DEF BeginLogin, Allow, TypeOK
    <3>2. Trying(a)' \subseteq From(a)
      BY DEF Trying, From
    <3>3. Cardinality(Trying(a)') <= Cardinality(From(a)) /\ Cardinality(Trying(a)') \in Nat
      BY <3>2, FromFinite, FS_Subset, FS_CardinalityType
    <3> QED BY <3>1, <3>3, FromFinite, LimitAssumption
  <2>2. CASE a # AddressOf[c]
    <3>1. attempts'[a] = attempts[a]
      BY <1>1, <2>2 DEF BeginLogin, Allow, TypeOK
    <3>2. Trying(a)' \subseteq Trying(a)
      BY <1>1, <2>2 DEF BeginLogin, Trying, From, TypeOK
    <3>3. Len(attempts'[a]) \in Nat /\ Len(attempts'[a]) <= Len(attempts[a])
      BY <3>1, <1>b
    <3> QED BY <3>2, <3>3, BoundKept
  <2> QED BY <2>1, <2>2
<1>2. CASE RefuseLogin(c) \/ MalformedLogin(c)
  <2> SUFFICES ASSUME NEW a \in Address
               PROVE  Len(attempts'[a]) + Cardinality(Trying(a)')
                        <= MaxAttempts - 1 + Cardinality(From(a))
    BY DEF FailuresBounded, From
  <2>1. attempts' = [attempts EXCEPT ![AddressOf[c]] = Recent(attempts[AddressOf[c]])]
    BY <1>2 DEF RefuseLogin, MalformedLogin, Allow, Deny
  <2>2. attempts'[a] = attempts[a] \/ attempts'[a] = Recent(attempts[a])
    BY <2>1 DEF TypeOK
  <2>3. Len(attempts'[a]) \in Nat /\ Len(attempts'[a]) <= Len(attempts[a])
    BY <2>2, <1>b
  <2>4. Trying(a)' = Trying(a)
    BY <1>2 DEF RefuseLogin, MalformedLogin, Trying, From
  <2> QED BY <2>3, <2>4, BoundKept
<1>3. CASE UnknownUser(c) \/ WrongPassword(c)
  <2>1. RecordFailure(AddressOf[c]) /\ End(c) /\ request[c].kind = "login"
    BY <1>3 DEF UnknownUser, WrongPassword
  <2> QED BY <2>1, FailureCounted
<1>4. CASE IssueToken(c)
  <2> SUFFICES ASSUME NEW a \in Address
               PROVE  Len(attempts'[a]) + Cardinality(Trying(a)')
                        <= MaxAttempts - 1 + Cardinality(From(a))
    BY DEF FailuresBounded, From
  <2>1. attempts'[a] = attempts[a] /\ End(c)
    BY <1>4 DEF IssueToken
  <2>2. Trying(a)' \subseteq Trying(a)
    BY <2>1, TryingAfterEnd
  <2>3. Len(attempts'[a]) \in Nat /\ Len(attempts'[a]) <= Len(attempts[a])
    BY <2>1, <1>b
  <2> QED BY <2>2, <2>3, BoundKept
<1> QED BY <1>1, <1>2, <1>3, <1>4 DEF LoginStep

\* A change or a reset records nothing and starts no try.
LEMMA PasswordKeepsTrying ==
  ASSUME TypeOK, NEW c \in Client, PasswordStep(c), NEW a \in Address
  PROVE  Trying(a)' \subseteq Trying(a) /\ attempts'[a] = attempts[a]
<1>0. \/ \E p, q \in Password : BeginChange(c, p, q)
      \/ \E u \in User \cup {Stranger}, q \in Password : BeginReset(c, u, q)
      \/ LookUp(c) \/ Refuse(c) \/ ProveCurrent(c) \/ UpdateUserPassword(c)
  BY Zenon DEF PasswordStep
<1>1. CASE \E p, q \in Password : BeginChange(c, p, q)
  BY <1>1 DEF BeginChange, Trying, From, TypeOK, Idle
<1>2. CASE \E u \in User \cup {Stranger}, q \in Password : BeginReset(c, u, q)
  BY <1>2 DEF BeginReset, Trying, From, TypeOK, Idle
<1>3. CASE LookUp(c)
  <2>1. request[c] \in Request
    BY <1>3 DEF LookUp, TypeOK, Idle
  <2>2. request'[c].kind = request[c].kind
    BY <1>3, <2>1 DEF LookUp, TypeOK, Request
  <2> QED BY <1>3, <2>2 DEF LookUp, Trying, From, TypeOK
<1>4. CASE Refuse(c)
  BY <1>4, TryingAfterEnd DEF Refuse
<1>5. CASE ProveCurrent(c)
  BY <1>5 DEF ProveCurrent, Trying, From, TypeOK
<1>6. CASE UpdateUserPassword(c)
  <2>1. ASSUME NEW d \in Client PROVE request'[d].kind \in {"none", request[d].kind}
    <3>1. CASE d = c
      BY <1>6, <3>1, IdleType DEF UpdateUserPassword
    <3>2. CASE d # c /\ request[d].at \in {"check", "write"}
      <4>1. request[d] \in Request
        BY <3>2 DEF TypeOK, Idle
      <4>2. [request[d] EXCEPT !.rivalled = TRUE].kind = request[d].kind
        BY <4>1 DEF Request
      <4> QED BY <1>6, <3>2, <4>2 DEF UpdateUserPassword
    <3>3. CASE d # c /\ request[d].at \notin {"check", "write"}
      BY <1>6, <3>3 DEF UpdateUserPassword
    <3> QED BY <3>1, <3>2, <3>3
  <2> QED BY <1>6, <2>1 DEF UpdateUserPassword, Trying, From
<1> QED BY <1>0, <1>1, <1>2, <1>3, <1>4, <1>5, <1>6, Zenon

\* What is not a login records nothing and starts no try.
LEMMA BoundOther ==
  ASSUME TypeOK, FailuresBounded,
         \/ \E c \in Client : PasswordStep(c)
         \/ Tick \/ RestartServer \/ UNCHANGED vars
  PROVE  FailuresBounded'
<1> SUFFICES ASSUME NEW a \in Address
             PROVE  Len(attempts'[a]) + Cardinality(Trying(a)')
                      <= MaxAttempts - 1 + Cardinality(From(a))
  BY DEF FailuresBounded, From
<1>b. attempts[a] \in Seq(0 .. Window) /\ Len(attempts[a]) \in Nat
  BY DEF TypeOK
<1>1. ASSUME NEW c \in Client, PasswordStep(c)
      PROVE  Trying(a)' \subseteq Trying(a) /\ attempts'[a] = attempts[a]
  BY <1>1, PasswordKeepsTrying
<1>2. CASE \E c \in Client : PasswordStep(c)
  BY <1>b, <1>1, <1>2, BoundKept
<1>3. CASE Tick
  <2>1. Len(attempts'[a]) = Len(attempts[a]) /\ Trying(a)' = Trying(a)
    BY <1>3, <1>b DEF Tick, Trying, From
  <2> QED BY <2>1, <1>b, BoundKept
<1>4. CASE RestartServer
  <2>1. Trying(a)' = {}
    BY <1>4, IdleType DEF RestartServer, Trying, From
  <2>2. attempts'[a] = << >>
    BY <1>4 DEF RestartServer
  <2>3. Len(attempts'[a]) \in Nat /\ Len(attempts'[a]) <= Len(attempts[a])
    BY <2>2, <1>b
  <2> QED BY <2>1, <2>3, BoundKept
<1>5. CASE UNCHANGED vars
  <2>1. attempts'[a] = attempts[a] /\ Trying(a)' = Trying(a)
    BY <1>5 DEF vars, Trying, From
  <2>2. Len(attempts'[a]) \in Nat /\ Len(attempts'[a]) <= Len(attempts[a])
    BY <2>1, <1>b
  <2> QED BY <2>1, <2>2, BoundKept
<1> QED BY <1>2, <1>3, <1>4, <1>5

\* However logins overlap and the server restarts, the failures kept for an
\* address go past the limit by its other clients at most: FailuresBounded.
THEOREM FailuresAreBounded == Spec => []FailuresBounded
<1>1. Init => FailuresBounded
  <2> SUFFICES ASSUME Init, NEW a \in Address
               PROVE  Len(attempts[a]) + Cardinality(Trying(a))
                        <= MaxAttempts - 1 + Cardinality(From(a))
    BY DEF FailuresBounded
  <2>1. Len(attempts[a]) = 0
    BY DEF Init
  <2>2. Trying(a) = {}
    BY IdleType DEF Init, Trying, From
  <2>3. Cardinality(Trying(a)) = 0
    BY <2>2, FS_EmptySet
  <2> QED BY <2>1, <2>3, FromFinite, LimitAssumption
<1>2. TypeOK /\ FailuresBounded /\ [Next]_vars => FailuresBounded'
  BY BoundLogin, BoundOther DEF Next
<1> QED BY <1>1, <1>2, TypeCorrect, PTL DEF Spec

-----------------------------------------------------------------------------
(***************************************************************************)
(* Who overwrites a password.                                              *)
(***************************************************************************)

\* What stands behind a request: a reset is an administrator's, a change its own
\* user's; what a change has read is in force or has been overwritten since, and
\* what it is about to overwrite is what it claimed.
Entitled(r) ==
  /\ r.kind = "reset" => r.by \in Admin
  /\ r.kind = "change" => r.by = r.user
  /\ r.kind = "change" /\ r.at \in {"check", "write"} =>
       r.seen = password[r.user] \/ r.rivalled
  /\ r.kind = "change" /\ r.at = "write" => r.sent = r.seen
  /\ r.at = "write" => r.kind \in {"change", "reset"}

EntitledInv == \A c \in Client : Entitled(request[c])

\* A step that leaves the passwords alone and gives one client a new request.
LEMMA EntitledStep ==
  ASSUME TypeOK, EntitledInv, NEW c \in Client, NEW r,
         request' = [request EXCEPT ![c] = r], password' = password, Entitled(r)
  PROVE  EntitledInv'
<1> SUFFICES ASSUME NEW d \in Client PROVE Entitled(request[d])'
  BY DEF EntitledInv
<1>1. CASE d = c
  BY <1>1 DEF Entitled, TypeOK
<1>2. CASE d # c
  BY <1>2 DEF Entitled, EntitledInv, TypeOK
<1> QED BY <1>1, <1>2

LEMMA IdleEntitled == Entitled(Idle)
BY DEF Entitled, Idle

LEMMA EntitledLogin ==
  ASSUME TypeOK, EntitledInv, NEW c \in Client, LoginStep(c)
  PROVE  EntitledInv'
<1>1. ASSUME NEW u \in User \cup {Stranger}, NEW p \in Password, BeginLogin(c, u, p)
      PROVE  EntitledInv'
  <2> DEFINE r == [Idle EXCEPT !.at = "lookup", !.kind = "login", !.user = u, !.sent = p]
  <2>1. Entitled(r)
    BY DEF Entitled, Idle
  <2>2. request' = [request EXCEPT ![c] = r] /\ password' = password
    BY <1>1 DEF BeginLogin
  <2> HIDE DEF r
  <2> QED BY <2>1, <2>2, EntitledStep
<1>2. CASE RefuseLogin(c) \/ MalformedLogin(c)
  BY <1>2 DEF RefuseLogin, MalformedLogin, EntitledInv, Entitled
<1>3. CASE UnknownUser(c) \/ WrongPassword(c) \/ IssueToken(c)
  <2>1. request' = [request EXCEPT ![c] = Idle] /\ password' = password
    BY <1>3 DEF UnknownUser, WrongPassword, IssueToken, End
  <2> QED BY <2>1, IdleEntitled, EntitledStep
<1> QED BY <1>1, <1>2, <1>3 DEF LoginStep

\* The write itself: the others that hold a request for the same user are marked.
LEMMA EntitledWrite ==
  ASSUME TypeOK, EntitledInv, NEW c \in Client, UpdateUserPassword(c)
  PROVE  EntitledInv'
<1> SUFFICES ASSUME NEW d \in Client PROVE Entitled(request[d])'
  BY DEF EntitledInv
<1>a. Entitled(request[d]) /\ request[d] \in Request \cup {Idle}
  BY DEF EntitledInv, TypeOK
<1>1. CASE d = c
  <2>1. request'[d] = Idle
    BY <1>1 DEF UpdateUserPassword
  <2> QED BY <2>1 DEF Entitled, Idle
<1>2. CASE d # c /\ request[d].kind # "change"
  <2>1. request'[d] = request[d]
    BY <1>2 DEF UpdateUserPassword
  <2> QED BY <1>2, <1>a, <2>1 DEF Entitled
<1>3. CASE d # c /\ request[d].kind = "change"
  <2>1. request[d] \in Request
    BY <1>3, <1>a, IdleType
  <2>2. CASE request[d].at = "lookup"
    <3>1. request'[d] = request[d]
      BY <1>3, <2>2 DEF UpdateUserPassword
    <3> QED BY <1>3, <1>a, <2>2, <3>1 DEF Entitled
  <2>3. CASE request[d].at \in {"check", "write"} /\ request[d].user = request[c].user
    <3>1. request'[d] = [request[d] EXCEPT !.rivalled = TRUE]
      BY <1>3, <2>3 DEF UpdateUserPassword
    <3>2. /\ request'[d].kind = request[d].kind /\ request'[d].at = request[d].at
          /\ request'[d].by = request[d].by /\ request'[d].user = request[d].user
          /\ request'[d].sent = request[d].sent /\ request'[d].seen = request[d].seen
          /\ request'[d].rivalled = TRUE
      BY <2>1, <3>1 DEF Request
    <3> QED BY <1>3, <1>a, <3>2 DEF Entitled
  <2>4. CASE request[d].at \in {"check", "write"} /\ request[d].user # request[c].user
    <3>1. request'[d] = request[d]
      BY <1>3, <2>4 DEF UpdateUserPassword
    <3>2. request[d].user \in User
      BY <2>1, <2>4 DEF Request
    <3>3. password'[request[d].user] = password[request[d].user]
      BY <2>4, <3>2 DEF UpdateUserPassword, TypeOK
    <3> QED BY <1>3, <1>a, <3>1, <3>3 DEF Entitled
  <2> QED BY <2>1, <2>2, <2>3, <2>4 DEF Request
<1> QED BY <1>1, <1>2, <1>3

LEMMA EntitledPassword ==
  ASSUME TypeOK, EntitledInv, NEW c \in Client, PasswordStep(c)
  PROVE  EntitledInv'
<1>0. \/ \E p, q \in Password : BeginChange(c, p, q)
      \/ \E u \in User \cup {Stranger}, q \in Password : BeginReset(c, u, q)
      \/ LookUp(c) \/ Refuse(c) \/ ProveCurrent(c) \/ UpdateUserPassword(c)
  BY Zenon DEF PasswordStep
<1>a. Entitled(request[c])
  BY DEF EntitledInv
<1>1. ASSUME NEW p \in Password, NEW q \in Password, BeginChange(c, p, q)
      PROVE  EntitledInv'
  <2> DEFINE r == [Idle EXCEPT !.at = "lookup", !.kind = "change", !.user = token[c].user,
                               !.by = token[c].user, !.sent = p, !.new = q]
  <2>1. Entitled(r)
    BY DEF Entitled, Idle
  <2>2. request' = [request EXCEPT ![c] = r] /\ password' = password
    BY <1>1 DEF BeginChange
  <2> HIDE DEF r
  <2> QED BY <2>1, <2>2, EntitledStep
<1>2. ASSUME NEW u \in User \cup {Stranger}, NEW q \in Password, BeginReset(c, u, q)
      PROVE  EntitledInv'
  <2> DEFINE r == [Idle EXCEPT !.at = "lookup", !.kind = "reset", !.user = u,
                               !.by = token[c].user, !.new = q]
  <2>1. Entitled(r)
    BY <1>2 DEF Entitled, Idle, BeginReset
  <2>2. request' = [request EXCEPT ![c] = r] /\ password' = password
    BY <1>2 DEF BeginReset
  <2> HIDE DEF r
  <2> QED BY <2>1, <2>2, EntitledStep
<1>3. CASE LookUp(c)
  <2> DEFINE r == IF request[c].kind = "reset" THEN [request[c] EXCEPT !.at = "write"]
                  ELSE [request[c] EXCEPT !.at = "check", !.seen = password[request[c].user]]
  <2>1. request[c] \in Request
    BY <1>3 DEF LookUp, TypeOK, Idle
  <2>2. CASE request[c].kind = "reset"
    <3>1. /\ r.kind = "reset" /\ r.by = request[c].by
      BY <2>1, <2>2 DEF Request
    <3> QED
      <4>1. Entitled(r)
        BY <1>a, <2>2, <3>1 DEF Entitled
      <4>2. request' = [request EXCEPT ![c] = r] /\ password' = password
        BY <1>3 DEF LookUp, TypeOK
      <4> HIDE DEF r
      <4> QED BY <4>1, <4>2, EntitledStep
  <2>3. CASE request[c].kind # "reset"
    <3>1. /\ r.kind = request[c].kind /\ r.by = request[c].by /\ r.at = "check"
          /\ r.user = request[c].user /\ r.seen = password[request[c].user]
      BY <2>1, <2>3 DEF Request
    <3> QED
      <4>1. Entitled(r)
        BY <1>a, <2>3, <3>1 DEF Entitled
      <4>2. request' = [request EXCEPT ![c] = r] /\ password' = password
        BY <1>3 DEF LookUp, TypeOK
      <4> HIDE DEF r
      <4> QED BY <4>1, <4>2, EntitledStep
  <2> QED BY <2>2, <2>3
<1>4. CASE Refuse(c)
  <2>1. request' = [request EXCEPT ![c] = Idle] /\ password' = password
    BY <1>4 DEF Refuse, End
  <2> QED BY <2>1, IdleEntitled, EntitledStep
<1>5. CASE ProveCurrent(c)
  <2> DEFINE r == [request[c] EXCEPT !.at = "write"]
  <2>1. request[c] \in Request
    BY <1>5 DEF ProveCurrent, TypeOK, Idle
  <2>2. /\ r.kind = "change" /\ r.by = request[c].by /\ r.at = "write"
        /\ r.user = request[c].user /\ r.seen = request[c].seen /\ r.sent = request[c].seen
        /\ r.rivalled = request[c].rivalled
    BY <1>5, <2>1 DEF ProveCurrent, Request
  <2>3. Entitled(r)
    BY <1>5, <1>a, <2>2 DEF ProveCurrent, Entitled
  <2>4. request' = [request EXCEPT ![c] = r] /\ password' = password
    BY <1>5 DEF ProveCurrent, TypeOK
  <2> HIDE DEF r
  <2> QED BY <2>3, <2>4, EntitledStep
<1> QED BY <1>0, <1>1, <1>2, <1>3, <1>4, <1>5, EntitledWrite

\* Only UpdateUserPassword touches a password.
LEMMA OverwriteStep ==
  ASSUME TypeOK, EntitledInv, [Next]_vars, NEW u \in User, password'[u] # password[u]
  PROVE  \E c \in Client :
           /\ request[c].user = u
           /\ \/ request[c].by \in Admin
              \/ request[c].by = u /\ (request[c].sent = password[u] \/ request[c].rivalled)
<1>1. PICK c \in Client : UpdateUserPassword(c)
  BY DEF Next, vars, LoginStep, PasswordStep, BeginLogin, RefuseLogin, MalformedLogin, UnknownUser,
         WrongPassword, IssueToken, BeginChange, BeginReset, LookUp, Refuse, ProveCurrent, Tick,
         RestartServer
<1>2. request[c].user = u
  BY <1>1 DEF UpdateUserPassword, TypeOK
<1>3. request[c].at = "write" /\ Entitled(request[c])
  BY <1>1 DEF UpdateUserPassword, EntitledInv
<1>4. \/ request[c].by \in Admin
      \/ request[c].by = u /\ (request[c].sent = password[u] \/ request[c].rivalled)
  BY <1>2, <1>3 DEF Entitled
<1> QED BY <1>2, <1>4

\* What is overwritten is what the request proved it knew, or an administrator
\* overwrites it, or another write came between: OverwritesWhatIsKnown.
THEOREM PasswordsOverwrittenKnown == Spec => OverwritesWhatIsKnown
<1>1. Init => EntitledInv
  <2> SUFFICES ASSUME Init, NEW c \in Client PROVE Entitled(request[c])
    BY DEF EntitledInv
  <2>1. request[c] = Idle
    BY DEF Init
  <2> QED BY <2>1, IdleEntitled
<1>2. TypeOK /\ EntitledInv /\ [Next]_vars => EntitledInv'
  <2> SUFFICES ASSUME TypeOK, EntitledInv, [Next]_vars PROVE EntitledInv'
    OBVIOUS
  <2>1. CASE \E c \in Client : LoginStep(c) \/ PasswordStep(c)
    BY <2>1, EntitledLogin, EntitledPassword
  <2>2. CASE Tick \/ UNCHANGED vars
    BY <2>2 DEF Tick, vars, EntitledInv, Entitled
  <2>3. CASE RestartServer
    BY <2>3 DEF RestartServer, EntitledInv, Entitled, Idle
  <2> QED BY <2>1, <2>2, <2>3 DEF Next
<1>3. TypeOK /\ EntitledInv /\ [Next]_vars =>
        \A u \in User :
          password'[u] # password[u] =>
            \E c \in Client :
              /\ request[c].user = u
              /\ \/ request[c].by \in Admin
                 \/ request[c].by = u /\ (request[c].sent = password[u] \/ request[c].rivalled)
  BY OverwriteStep
<1> QED BY <1>1, <1>2, <1>3, TypeCorrect, PTL DEF Spec, OverwritesWhatIsKnown

-----------------------------------------------------------------------------
(***************************************************************************)
(* What the limiter counts: the failures of the window, and no other.      *)
(***************************************************************************)

Old(ages) == {k \in DOMAIN ages : ages[k] >= Window}
Falling(ages) == \A j, k \in DOMAIN ages : j < k => ages[j] >= ages[k]

-----------------------------------------------------------------------------
\* Every non-empty collection of subsets of a finite set has a member that
\* contains no other: what the least number of a set rests on.
LEMMA SmallestSet ==
  ASSUME NEW S, IsFiniteSet(S), NEW C \in SUBSET SUBSET S, C # {}
  PROVE  \E T \in C : \A U \in C : U \subseteq T => U = T
<1>1. IsWellFoundedOn(StrictSubsetOrdering(S), FiniteSubsetsOf(S))
  BY FS_StrictSubsetOrderingWellFounded
<1>2. C \subseteq FiniteSubsetsOf(S)
  BY FS_FiniteSubsetsOfFinite
<1>3. PICK T \in C : \A U \in C : ~(<<U, T>> \in StrictSubsetOrdering(S))
  BY <1>1, <1>2, WFMin
<1> QED
  BY <1>3 DEF StrictSubsetOrdering

\* A non-empty set of naturals has a least number.
LEMMA SmallestNat ==
  ASSUME NEW C \in SUBSET Nat, C # {}
  PROVE  \E n \in C : \A m \in C : n <= m
<1>1. PICK k \in C : TRUE
  OBVIOUS
<1> DEFINE R == 0 .. k
           D == {0 .. n : n \in {n \in C : n <= k}}
<1>2. D \in SUBSET SUBSET R /\ D # {}
  BY <1>1
<1>3. IsFiniteSet(R)
  BY FS_Interval
<1> HIDE DEF D, R
<1>4. PICK T \in D : \A U \in D : U \subseteq T => U = T
  BY <1>2, <1>3, SmallestSet
<1>5. PICK n \in C : n <= k /\ T = 0 .. n
  BY <1>4 DEF D
<1>6. ASSUME NEW m \in C, m < n PROVE FALSE
  <2>1. 0 .. m \in D
    BY <1>1, <1>5, <1>6 DEF D
  <2>2. 0 .. m \subseteq T /\ n \in T /\ n \notin 0 .. m
    BY <1>5, <1>6
  <2> QED
    BY <1>4, <2>1, <2>2
<1> QED
  BY <1>5, <1>6

LEMMA TailCount ==
  ASSUME NEW n \in Nat, NEW c \in Nat, c <= n
  PROVE  IsFiniteSet((c + 1) .. n) /\ Cardinality((c + 1) .. n) = n - c
<1>1. c + 1 \in Int /\ n \in Int
  OBVIOUS
<1>2. /\ IsFiniteSet((c + 1) .. n)
      /\ Cardinality((c + 1) .. n) = IF c + 1 > n THEN 0 ELSE n - (c + 1) + 1
  BY <1>1, FS_Interval
<1> QED BY <1>2

\* Some of the failures are old, and the rest is what Recent keeps.
LEMMA RecentLength ==
  ASSUME NEW ages \in Seq(0 .. Window)
  PROVE  /\ Old(ages) \subseteq 1 .. Len(ages) /\ IsFiniteSet(Old(ages))
         /\ Cardinality(Old(ages)) \in 0 .. Len(ages)
         /\ Recent(ages) = SubSeq(ages, Cardinality(Old(ages)) + 1, Len(ages))
         /\ Len(Recent(ages)) = Len(ages) - Cardinality(Old(ages))
         /\ \A k \in 1 .. Len(ages) - Cardinality(Old(ages)) :
              Recent(ages)[k] = ages[Cardinality(Old(ages)) + k]
<1>1. Len(ages) \in Nat /\ DOMAIN ages = 1 .. Len(ages)
  OBVIOUS
<1>2. Old(ages) \subseteq 1 .. Len(ages)
  BY <1>1 DEF Old
<1>3. IsFiniteSet(1 .. Len(ages)) /\ Cardinality(1 .. Len(ages)) = Len(ages)
  <2>1. 1 \in Int /\ Len(ages) \in Int
    BY <1>1
  <2> QED BY <2>1, <1>1, FS_Interval
<1>4. IsFiniteSet(Old(ages)) /\ Cardinality(Old(ages)) <= Len(ages)
  BY <1>2, <1>3, FS_Subset
<1>5. Cardinality(Old(ages)) \in Nat
  BY <1>4, FS_CardinalityType
<1>6. Recent(ages) = SubSeq(ages, Cardinality(Old(ages)) + 1, Len(ages))
  BY DEF Recent, Old
<1> DEFINE from == Cardinality(Old(ages)) + 1
<1>7. from \in Int /\ from >= 1 /\ from - 1 = Cardinality(Old(ages)) /\ from - 1 <= Len(ages)
  BY <1>4, <1>5
<1> HIDE DEF from
<1>8. \A i \in from .. Len(ages) : ages[i] \in 0 .. Window
  <2> SUFFICES ASSUME NEW i \in from .. Len(ages) PROVE ages[i] \in 0 .. Window
    OBVIOUS
  <2>1. i \in 1 .. Len(ages)
    BY <1>1, <1>7
  <2> QED BY <2>1, ElementOfSeq
<1>9. /\ Len(SubSeq(ages, from, Len(ages)))
           = IF from <= Len(ages) THEN Len(ages) - from + 1 ELSE 0
      /\ \A k \in 1 .. Len(ages) - from + 1 :
           SubSeq(ages, from, Len(ages))[k] = ages[from + k - 1]
  <2>1. Len(ages) \in Int
    BY <1>1
  <2> QED BY <2>1, <1>7, <1>8, SubSeqProperties
<1>10. Recent(ages) = SubSeq(ages, from, Len(ages))
  BY <1>6 DEF from
<1>11. Len(Recent(ages)) = Len(ages) - Cardinality(Old(ages))
  BY <1>1, <1>7, <1>9, <1>10
<1>12. ASSUME NEW k \in 1 .. Len(ages) - Cardinality(Old(ages))
       PROVE  Recent(ages)[k] = ages[Cardinality(Old(ages)) + k]
  <2>1. k \in 1 .. Len(ages) - from + 1 /\ from + k - 1 = Cardinality(Old(ages)) + k
    BY <1>1, <1>5, <1>7
  <2> QED BY <2>1, <1>9, <1>10
<1> QED BY <1>1, <1>2, <1>4, <1>5, <1>6, <1>11, <1>12

\* The ages fall, so that the old ones are the first.
LEMMA OldOnesAreFirst ==
  ASSUME NEW ages \in Seq(0 .. Window), Falling(ages)
  PROVE  Old(ages) = 1 .. Cardinality(Old(ages))
<1> DEFINE n == Len(ages)
           Fresh == (1 .. n) \ Old(ages)
<1>1. n \in Nat /\ DOMAIN ages = 1 .. n /\ Window \in Nat
  BY LimitAssumption
<1>2. Old(ages) \subseteq 1 .. n
  BY RecentLength
<1>3. CASE Fresh = {}
  <2>1. Old(ages) = 1 .. n
    BY <1>2, <1>3
  <2>2. Cardinality(1 .. n) = n
    <3>1. 0 \in Nat /\ 0 <= n
      BY <1>1
    <3> HIDE DEF n
    <3>2. Cardinality((0 + 1) .. n) = n - 0
      BY <1>1, <3>1, TailCount
    <3> QED BY <3>2, <1>1
  <2> QED BY <2>1, <2>2
<1>4. CASE Fresh # {}
  <2>1. PICK m \in Fresh : \A k \in Fresh : m <= k
    <3>1. Fresh \in SUBSET Nat
      BY <1>1
    <3> QED BY <3>1, <1>4, SmallestNat
  <2>2. m \in 1 .. n /\ m \in Nat /\ ages[m] \in 0 .. Window /\ ages[m] < Window
    <3>1. m \in 1 .. n /\ ~(ages[m] >= Window)
      BY <1>1, <2>1 DEF Old
    <3>2. ages[m] \in 0 .. Window
      BY <3>1, ElementOfSeq
    <3> QED BY <3>1, <3>2, <1>1
  <2>3. ASSUME NEW k \in 1 .. n, k < m PROVE k \in Old(ages)
    BY <1>1, <2>1, <2>2, <2>3
  <2>4. ASSUME NEW k \in Old(ages), ~(k < m) PROVE FALSE
    <3>1. k \in 1 .. n /\ ages[k] >= Window
      BY <1>1, <2>4 DEF Old
    <3>2. CASE k = m
      BY <3>2, <2>1
    <3>3. CASE m < k
      <4>1. ages[m] >= ages[k]
        BY <1>1, <2>2, <3>1, <3>3 DEF Falling
      <4>2. ages[k] \in 0 .. Window
        BY <3>1, ElementOfSeq
      <4> QED BY <4>1, <4>2, <3>1, <2>2, <1>1
    <3> QED BY <3>1, <3>2, <3>3, <2>2, <2>4
  <2>5. Old(ages) = 1 .. m - 1
    <3>1. ASSUME NEW k \in Old(ages) PROVE k \in 1 .. m - 1
      <4>1. k \in 1 .. n /\ k < m
        BY <1>2, <2>4
      <4> QED BY <4>1, <2>2, <1>1
    <3>2. ASSUME NEW k \in 1 .. m - 1 PROVE k \in Old(ages)
      <4>1. k \in 1 .. n /\ k < m
        BY <2>2, <1>1
      <4> QED BY <4>1, <2>3
    <3> QED BY <3>1, <3>2
  <2>6. Cardinality(1 .. m - 1) = m - 1
    <3>1. 1 \in Int /\ m - 1 \in Int /\ m >= 1
      BY <2>2
    <3> QED BY <3>1, FS_Interval
  <2> QED BY <2>5, <2>6
<1> QED BY <1>3, <1>4

\* Of falling ages Recent keeps those below the window, and each of them.
LEMMA RecentIsTheWindow ==
  ASSUME NEW ages \in Seq(0 .. Window), Falling(ages)
  PROVE  /\ \A k \in DOMAIN Recent(ages) : Recent(ages)[k] < Window
         /\ Falling(Recent(ages))
         /\ Len(Recent(ages)) = Cardinality({k \in DOMAIN ages : ages[k] < Window})
<1> DEFINE n == Len(ages)
           c == Cardinality(Old(ages))
<1>1. n \in Nat /\ DOMAIN ages = 1 .. n /\ Window \in Nat
  BY LimitAssumption
<1>2. /\ c \in 0 .. n /\ Len(Recent(ages)) = n - c /\ Old(ages) = 1 .. c
      /\ \A k \in 1 .. n - c : Recent(ages)[k] = ages[c + k]
  BY RecentLength, OldOnesAreFirst
<1>3. DOMAIN Recent(ages) = 1 .. n - c
  BY <1>2, RecentType
<1>4. \A k \in 1 .. n : ages[k] \in 0 .. Window
  BY <1>1, ElementOfSeq
<1>5. c \in Nat /\ c <= n
  BY <1>1, <1>2
<1> HIDE DEF c
<1>6. ASSUME NEW k \in DOMAIN Recent(ages) PROVE Recent(ages)[k] < Window
  <2>1. k \in 1 .. n - c /\ c + k \in 1 .. n /\ c + k \notin 1 .. c
    BY <1>1, <1>3, <1>5
  <2>2. ~(ages[c + k] >= Window)
    BY <1>1, <1>2, <2>1 DEF Old
  <2> QED BY <2>1, <2>2, <1>1, <1>2, <1>4
<1>7. ASSUME NEW j \in DOMAIN Recent(ages), NEW k \in DOMAIN Recent(ages), j < k
      PROVE  Recent(ages)[j] >= Recent(ages)[k]
  <2>1. /\ j \in 1 .. n - c /\ k \in 1 .. n - c
        /\ c + j \in 1 .. n /\ c + k \in 1 .. n /\ c + j < c + k
    BY <1>1, <1>3, <1>5, <1>7
  <2>2. ages[c + j] >= ages[c + k]
    BY <1>1, <2>1 DEF Falling
  <2> QED BY <2>1, <2>2, <1>2
<1>8. {k \in DOMAIN ages : ages[k] < Window} = (1 .. n) \ Old(ages)
  BY <1>1, <1>4 DEF Old
<1>9. Cardinality((1 .. n) \ Old(ages)) = n - c
  <2>1. (1 .. n) \ Old(ages) = (c + 1) .. n
    BY <1>1, <1>2, <1>5
  <2>2. Cardinality((c + 1) .. n) = n - c
    <3> HIDE DEF n
    <3> QED BY <1>1, <1>5, TailCount
  <2> QED BY <2>1, <2>2
<1> QED BY <1>2, <1>6, <1>7, <1>8, <1>9 DEF Falling

\* Looking again keeps what it kept; a failure more is one more; a tick keeps
\* no more than before, and leaves the ages falling.
LEMMA RecentAgain ==
  ASSUME NEW ages \in Seq(0 .. Window), Falling(ages)
  PROVE  Len(Recent(Recent(ages))) = Len(Recent(ages))
<1>1. Recent(ages) \in Seq(0 .. Window) /\ \A k \in DOMAIN Recent(ages) : Recent(ages)[k] < Window
  BY RecentType, RecentIsTheWindow
<1>2. \A k \in DOMAIN Recent(ages) : Recent(ages)[k] \in 0 .. Window
  <2> DEFINE r == Recent(ages)
  <2>1. r \in Seq(0 .. Window)
    BY <1>1
  <2> HIDE DEF r
  <2>2. DOMAIN r = 1 .. Len(r)
    BY <2>1
  <2>3. \A k \in 1 .. Len(r) : r[k] \in 0 .. Window
    BY <2>1, ElementOfSeq
  <2> QED BY <2>2, <2>3 DEF r
<1>3. Old(Recent(ages)) = {}
  BY <1>1, <1>2, LimitAssumption DEF Old
<1>4. Cardinality(Old(Recent(ages))) = 0
  BY <1>3, FS_EmptySet
<1> QED BY <1>1, <1>4, RecentLength

LEMMA AppendedIsRecent ==
  ASSUME NEW ages \in Seq(0 .. Window), Falling(ages)
  PROVE  /\ Append(ages, 0) \in Seq(0 .. Window) /\ Falling(Append(ages, 0))
         /\ Len(Recent(Append(ages, 0))) = Len(Recent(ages)) + 1
<1> DEFINE s == Append(ages, 0)
<1>1. /\ s \in Seq(0 .. Window) /\ Len(s) = Len(ages) + 1 /\ Len(ages) \in Nat
      /\ DOMAIN s = 1 .. Len(ages) + 1 /\ DOMAIN ages = 1 .. Len(ages)
      /\ s[Len(ages) + 1] = 0 /\ \A k \in 1 .. Len(ages) : s[k] = ages[k]
  BY LimitAssumption
<1>2. \A k \in 1 .. Len(ages) + 1 : s[k] \in 0 .. Window
  BY <1>1, ElementOfSeq
<1> HIDE DEF s
<1>3. Old(s) = Old(ages)
  <2>1. \A k \in 1 .. Len(ages) + 1 : k \in 1 .. Len(ages) \/ s[k] = 0
    BY <1>1
  <2>2. ~(0 >= Window)
    BY LimitAssumption
  <2>3. 1 .. Len(ages) \subseteq 1 .. Len(ages) + 1
    BY <1>1
  <2> QED BY <1>1, <2>1, <2>2, <2>3 DEF Old
<1>4. Falling(s)
  <2> SUFFICES ASSUME NEW j \in 1 .. Len(ages) + 1, NEW k \in 1 .. Len(ages) + 1, j < k
               PROVE  s[j] >= s[k]
    BY <1>1 DEF Falling
  <2>1. CASE k = Len(ages) + 1
    BY <1>1, <1>2, <2>1, LimitAssumption
  <2>2. CASE k # Len(ages) + 1
    <3>1. j \in 1 .. Len(ages) /\ k \in 1 .. Len(ages)
      BY <1>1, <2>2
    <3> QED BY <1>1, <3>1 DEF Falling
  <2> QED BY <2>1, <2>2
<1>5. /\ Len(Recent(s)) = Len(s) - Cardinality(Old(s))
      /\ Len(Recent(ages)) = Len(ages) - Cardinality(Old(ages))
      /\ Cardinality(Old(ages)) \in 0 .. Len(ages)
  BY <1>1, RecentLength
<1>6. Len(Recent(s)) = Len(Recent(ages)) + 1
  BY <1>1, <1>3, <1>5
<1> QED BY <1>1, <1>4, <1>6 DEF s

LEMMA OlderIsRecent ==
  ASSUME NEW ages \in Seq(0 .. Window), Falling(ages), NEW s,
         s = [k \in 1 .. Len(ages) |-> Older(ages[k], Window)]
  PROVE  /\ s \in Seq(0 .. Window) /\ Falling(s)
         /\ Len(Recent(s)) <= Len(Recent(ages))
<1>1. /\ Len(ages) \in Nat /\ DOMAIN ages = 1 .. Len(ages) /\ Window \in Nat
      /\ \A k \in 1 .. Len(ages) : ages[k] \in 0 .. Window
  BY ElementOfSeq, LimitAssumption
<1>2. \A k \in 1 .. Len(ages) : Older(ages[k], Window) \in 0 .. Window
  BY <1>1 DEF Older
<1>3. /\ s \in Seq(0 .. Window) /\ Len(s) = Len(ages) /\ DOMAIN s = 1 .. Len(ages)
      /\ \A k \in 1 .. Len(ages) : s[k] = Older(ages[k], Window)
  BY <1>1, <1>2
<1>4. Falling(s)
  <2> SUFFICES ASSUME NEW j \in 1 .. Len(ages), NEW k \in 1 .. Len(ages), j < k
               PROVE  s[j] >= s[k]
    BY <1>3 DEF Falling
  <2>1. ages[j] >= ages[k]
    BY <1>1 DEF Falling
  <2> QED BY <1>1, <1>3, <2>1 DEF Older
<1>5. Old(ages) \subseteq Old(s)
  BY <1>1, <1>3 DEF Old, Older
<1>6. /\ IsFiniteSet(Old(s)) /\ Cardinality(Old(s)) \in 0 .. Len(ages)
      /\ Cardinality(Old(ages)) \in 0 .. Len(ages)
      /\ Len(Recent(s)) = Len(ages) - Cardinality(Old(s))
      /\ Len(Recent(ages)) = Len(ages) - Cardinality(Old(ages))
  BY <1>3, RecentLength
<1>7. Cardinality(Old(ages)) <= Cardinality(Old(s))
  BY <1>5, <1>6, FS_Subset
<1> QED BY <1>1, <1>3, <1>4, <1>6, <1>7

AgesFall == \A a \in Address : Falling(attempts[a])

\* What a step does to the failures of an address.
LEMMA AttemptsStep ==
  ASSUME TypeOK, [Next]_vars, NEW a \in Address
  PROVE  \/ attempts'[a] = attempts[a]
         \/ attempts'[a] = Recent(attempts[a])
         \/ attempts'[a] = Append(attempts[a], 0)
         \/ attempts'[a] = [k \in 1 .. Len(attempts[a]) |-> Older(attempts[a][k], Window)]
         \/ attempts'[a] = << >>
<1>1. CASE UNCHANGED vars
  BY <1>1 DEF vars
<1>2. CASE Tick
  BY <1>2 DEF Tick
<1>3. CASE RestartServer
  BY <1>3 DEF RestartServer
<1>4. ASSUME NEW c \in Client, PasswordStep(c) PROVE attempts'[a] = attempts[a]
  BY <1>4 DEF PasswordStep, BeginChange, BeginReset, LookUp, Refuse, ProveCurrent,
              UpdateUserPassword
<1>5. ASSUME NEW c \in Client, LoginStep(c)
      PROVE  \/ attempts'[a] = attempts[a]
             \/ attempts'[a] = Recent(attempts[a])
             \/ attempts'[a] = Append(attempts[a], 0)
  <2>1. \/ attempts' = attempts
        \/ attempts' = [attempts EXCEPT ![AddressOf[c]] = Recent(attempts[AddressOf[c]])]
        \/ attempts' = [attempts EXCEPT ![AddressOf[c]] = Append(attempts[AddressOf[c]], 0)]
    BY <1>5 DEF LoginStep, BeginLogin, RefuseLogin, MalformedLogin, UnknownUser, WrongPassword,
                IssueToken, Allow, Deny, RecordFailure
  <2> QED BY <2>1 DEF TypeOK
<1> QED BY <1>1, <1>2, <1>3, <1>4, <1>5 DEF Next

LEMMA AgesKeepFalling == TypeOK /\ AgesFall /\ [Next]_vars => AgesFall'
<1> SUFFICES ASSUME TypeOK, AgesFall, [Next]_vars, NEW a \in Address PROVE Falling(attempts'[a])
  BY DEF AgesFall, Falling
<1>1. attempts[a] \in Seq(0 .. Window) /\ Falling(attempts[a])
  BY DEF TypeOK, AgesFall
<1>2. Falling(<< >>)
  BY DEF Falling
<1> QED
  BY <1>1, <1>2, AttemptsStep, RecentIsTheWindow, AppendedIsRecent, OlderIsRecent

LEMMA AgesAlwaysFall == Spec => []AgesFall
<1>1. Init => AgesFall
  BY DEF Init, AgesFall, Falling
<1> QED BY <1>1, AgesKeepFalling, TypeCorrect, PTL DEF Spec

\* The limiter forgets what is older than its window and nothing else: what it
\* counts for an address is as many failures as that address has in the window
\* (allow keeps a suffix of the list, which is the window only because failures
\* are recorded in order and age together).
THEOREM LimiterCountsTheWindow ==
  Spec => [](\A a \in Address :
               /\ \A k \in DOMAIN Recent(attempts[a]) : Recent(attempts[a])[k] < Window
               /\ Len(Recent(attempts[a]))
                    = Cardinality({k \in DOMAIN attempts[a] : attempts[a][k] < Window}))
<1>1. TypeOK /\ AgesFall =>
        \A a \in Address :
          /\ \A k \in DOMAIN Recent(attempts[a]) : Recent(attempts[a])[k] < Window
          /\ Len(Recent(attempts[a]))
               = Cardinality({k \in DOMAIN attempts[a] : attempts[a][k] < Window})
  BY RecentIsTheWindow DEF TypeOK, AgesFall
<1> QED BY <1>1, AgesAlwaysFall, TypeCorrect, PTL

Blocked(a) == Len(Recent(attempts[a])) >= MaxAttempts

\* While an address is blocked none of its clients starts to try, and a failure
\* is one of a client that was trying and stops.
LEMMA BlockedStep ==
  ASSUME TypeOK, [Next]_vars, NEW a \in Address, Blocked(a)
  PROVE  \/ /\ Trying(a)' \subseteq Trying(a)
            /\ attempts'[a] # Append(attempts[a], 0)
         \/ \E c \in Trying(a) : Trying(a)' = Trying(a) \ {c} /\ attempts'[a] = Append(attempts[a], 0)
<1>0. attempts[a] \in Seq(0 .. Window) /\ Len(attempts[a]) \in Nat
  BY DEF TypeOK
<1>a. /\ Len(Append(attempts[a], 0)) = Len(attempts[a]) + 1
      /\ Len(Recent(attempts[a])) \in Nat /\ Len(Recent(attempts[a])) <= Len(attempts[a])
  BY <1>0, RecentType
<1>b. attempts[a] # Append(attempts[a], 0) /\ Recent(attempts[a]) # Append(attempts[a], 0)
  BY <1>0, <1>a
<1>1. ASSUME NEW c \in Client, LoginStep(c)
      PROVE  \/ Trying(a)' \subseteq Trying(a) /\ attempts'[a] # Append(attempts[a], 0)
             \/ \E d \in Trying(a) : Trying(a)' = Trying(a) \ {d} /\ attempts'[a] = Append(attempts[a], 0)
  <2>1. CASE \E u \in User \cup {Stranger}, p \in Password : BeginLogin(c, u, p)
    <3>1. AddressOf[c] # a
      BY <2>1, LimitAssumption, <1>a DEF BeginLogin, Allow, Blocked
    <3>2. attempts'[a] = attempts[a]
      BY <2>1, <3>1 DEF BeginLogin, Allow, TypeOK
    <3>3. Trying(a)' \subseteq Trying(a)
      BY <2>1, <3>1 DEF BeginLogin, Trying, From, TypeOK
    <3> QED BY <1>b, <3>2, <3>3
  <2>2. CASE RefuseLogin(c) \/ MalformedLogin(c)
    <3>1. attempts' = [attempts EXCEPT ![AddressOf[c]] = Recent(attempts[AddressOf[c]])]
      BY <2>2 DEF RefuseLogin, MalformedLogin, Allow, Deny
    <3>2. attempts'[a] = attempts[a] \/ attempts'[a] = Recent(attempts[a])
      BY <3>1 DEF TypeOK
    <3>3. Trying(a)' = Trying(a)
      BY <2>2 DEF RefuseLogin, MalformedLogin, Trying, From
    <3> QED BY <1>b, <3>2, <3>3
  <2>3. CASE UnknownUser(c) \/ WrongPassword(c)
    <3>1. RecordFailure(AddressOf[c]) /\ End(c) /\ request[c].kind = "login"
      BY <2>3 DEF UnknownUser, WrongPassword
    <3>2. Trying(a)' = Trying(a) \ {c}
      BY <3>1, TryingAfterEnd
    <3>3. CASE a = AddressOf[c]
      <4>1. c \in Trying(a)
        BY <3>1, <3>3 DEF Trying, From
      <4>2. attempts'[a] = Append(attempts[a], 0)
        BY <3>1, <3>3 DEF RecordFailure, TypeOK
      <4> QED BY <3>2, <4>1, <4>2
    <3>4. CASE a # AddressOf[c]
      <4>1. attempts'[a] = attempts[a]
        BY <3>1, <3>4 DEF RecordFailure, TypeOK
      <4> QED BY <1>b, <3>2, <4>1
    <3> QED BY <3>3, <3>4
  <2>4. CASE IssueToken(c)
    <3>1. attempts'[a] = attempts[a] /\ End(c)
      BY <2>4 DEF IssueToken
    <3>2. Trying(a)' = Trying(a) \ {c}
      BY <3>1, TryingAfterEnd
    <3> QED BY <1>b, <3>1, <3>2
  <2> QED BY <1>1, <2>1, <2>2, <2>3, <2>4 DEF LoginStep
<1>2. ASSUME NEW c \in Client, PasswordStep(c)
      PROVE  Trying(a)' \subseteq Trying(a) /\ attempts'[a] # Append(attempts[a], 0)
  BY <1>2, <1>b, PasswordKeepsTrying
<1>3. CASE Tick
  <2>1. Len(attempts'[a]) = Len(attempts[a]) /\ Trying(a)' = Trying(a)
    BY <1>3, <1>0 DEF Tick, Trying, From
  <2> QED BY <2>1, <1>0, <1>a
<1>4. CASE RestartServer
  <2>1. Trying(a)' = {}
    BY <1>4, IdleType DEF RestartServer, Trying, From
  <2>2. Len(attempts'[a]) = 0
    BY <1>4 DEF RestartServer
  <2> QED BY <2>1, <2>2, <1>0, <1>a
<1>5. CASE UNCHANGED vars
  <2>1. attempts'[a] = attempts[a] /\ Trying(a)' = Trying(a)
    BY <1>5 DEF vars, Trying, From
  <2> QED BY <2>1, <1>b
<1> QED BY <1>1, <1>2, <1>3, <1>4, <1>5 DEF Next

\* What a block can still grow to.
LEMMA BlockedBudget ==
  ASSUME TypeOK, AgesFall, [Next]_vars, NEW a \in Address, Blocked(a)
  PROVE  Len(Recent(attempts'[a])) + Cardinality(Trying(a)')
           <= Len(Recent(attempts[a])) + Cardinality(Trying(a))
<1>1. attempts[a] \in Seq(0 .. Window) /\ Falling(attempts[a])
  BY DEF TypeOK, AgesFall
<1>2. Recent(attempts[a]) \in Seq(0 .. Window) /\ Len(Recent(attempts[a])) \in Nat
  BY <1>1, RecentType
<1>3. IsFiniteSet(Trying(a)) /\ Cardinality(Trying(a)) \in Nat
  BY TryingBounded
<1>4. CASE Trying(a)' \subseteq Trying(a) /\ attempts'[a] # Append(attempts[a], 0)
  <2>1. Cardinality(Trying(a)') \in Nat /\ Cardinality(Trying(a)') <= Cardinality(Trying(a))
    BY <1>3, <1>4, FS_Subset, FS_CardinalityType
  <2>2. Len(Recent(attempts'[a])) \in Nat /\ Len(Recent(attempts'[a])) <= Len(Recent(attempts[a]))
    <3>1. CASE attempts'[a] = attempts[a]
      BY <1>2, <3>1
    <3>2. CASE attempts'[a] = Recent(attempts[a])
      BY <1>1, <1>2, <3>2, RecentAgain
    <3>3. CASE attempts'[a] = [k \in 1 .. Len(attempts[a]) |-> Older(attempts[a][k], Window)]
      <4>1. /\ attempts'[a] \in Seq(0 .. Window)
            /\ Len(Recent(attempts'[a])) <= Len(Recent(attempts[a]))
        BY <1>1, <3>3, OlderIsRecent
      <4>2. Len(Recent(attempts'[a])) \in Nat
        BY <4>1, RecentType
      <4> QED BY <4>1, <4>2
    <3>4. CASE attempts'[a] = << >>
      <4>1. << >> \in Seq(0 .. Window) /\ Len(<< >>) = 0
        OBVIOUS
      <4>2. Recent(<< >>) \in Seq(0 .. Window) /\ Len(Recent(<< >>)) <= 0
        BY <4>1, RecentType
      <4> QED BY <1>2, <3>4, <4>2
    <3> QED BY <1>4, <3>1, <3>2, <3>3, <3>4, AttemptsStep
  <2> QED BY <1>2, <1>3, <2>1, <2>2
<1>5. CASE \E c \in Trying(a) : Trying(a)' = Trying(a) \ {c} /\ attempts'[a] = Append(attempts[a], 0)
  <2>1. PICK c \in Trying(a) : Trying(a)' = Trying(a) \ {c} /\ attempts'[a] = Append(attempts[a], 0)
    BY <1>5
  <2>2. Cardinality(Trying(a)') = Cardinality(Trying(a)) - 1
    BY <1>3, <2>1, FS_RemoveElement
  <2>3. Len(Recent(attempts'[a])) = Len(Recent(attempts[a])) + 1
    BY <1>1, <2>1, AppendedIsRecent
  <2> QED BY <1>2, <1>3, <2>2, <2>3
<1> QED BY <1>4, <1>5, BlockedStep

\* Asking while refused does not prolong a block: as long as an address is
\* blocked, the failures of the window and the tries under way, together, never
\* grow (the safety that BlockLifts rests on: a refusal records no failure).
THEOREM RefusalsDoNotProlong ==
  Spec => [][\A a \in Address :
               Blocked(a) =>
                 Len(Recent(attempts'[a])) + Cardinality(Trying(a)')
                   <= Len(Recent(attempts[a])) + Cardinality(Trying(a))]_vars
<1>1. TypeOK /\ AgesFall /\ [Next]_vars =>
        \A a \in Address :
          Blocked(a) =>
            Len(Recent(attempts'[a])) + Cardinality(Trying(a)')
              <= Len(Recent(attempts[a])) + Cardinality(Trying(a))
  BY BlockedBudget
<1> QED BY <1>1, AgesAlwaysFall, TypeCorrect, PTL DEF Spec
=============================================================================
