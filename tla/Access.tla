-------------------------------- MODULE Access --------------------------------
(***************************************************************************)
(* Sign-in and passwords: the login limiter of one API process, the        *)
(* password each user has, and the requests that read a password in one    *)
(* step, compare it in another and write a new one in a third.             *)
(*                                                                         *)
(* Time passes in ticks.  A failure is its age, a token is its user and    *)
(* its age; an age stops at the limit that makes it old.                   *)
(***************************************************************************)
EXTENDS Naturals, Sequences, FiniteSets

CONSTANTS
  User,        \* the users of the organisation
  Admin,       \* those whose role is ADMIN; a role never changes
  Stranger,    \* an email without a user
  Password,    \* passwords a client can send
  Strong,      \* those validatePilotPassword lets through
  Seed,        \* the password of a new user
  Client,      \* clients, each with one request at a time
  Address,     \* the addresses they come from
  AddressOf,   \* AddressOf[c]: the address of client c
  None,        \* no password, no token
  MaxAttempts, \* loginRateLimitMaxAttempts
  Window,      \* loginRateLimitWindow, in ticks
  TokenTTL,    \* tokenTTL, in ticks
  MaxFaults    \* bound: failed calls

ASSUME UserAssumption == Admin \subseteq User /\ Stranger \notin User
ASSUME PasswordAssumption == Strong \subseteq Password /\ Seed \in Password /\ None \notin Password
ASSUME ClientAssumption == IsFiniteSet(Client) /\ AddressOf \in [Client -> Address]
ASSUME LimitAssumption ==
  /\ MaxAttempts \in Nat \ {0} /\ Window \in Nat \ {0} /\ TokenTTL \in Nat \ {0}
  /\ MaxFaults \in Nat

VARIABLES
  password, \* the password each user's hash is of
  attempts, \* the ages of the failures kept for each address, oldest first
  request,  \* the request each client has under way
  token,    \* the token each client holds
  faults    \* failures so far

vars == <<password, attempts, request, token, faults>>

\* sent: the password the client claims; new: the one it asks for; seen: the
\* one whose hash was read; by: the user its token names; rivalled, a history:
\* the password was written by another request after this one read it.
Request ==
  {r \in [at : {"lookup", "check", "write"}, kind : {"login", "change", "reset"},
          user : User \cup {Stranger}, by : User \cup {Stranger},
          sent : Password \cup {None}, new : Password \cup {None},
          seen : Password \cup {None}, rivalled : BOOLEAN] :
     /\ r.at # "lookup" => r.user \in User
     /\ r.kind # "login" => r.new \in Password
     /\ r.at = "write" => r.kind # "login"}

Idle ==
  [at |-> "idle", kind |-> "none", user |-> Stranger, by |-> Stranger,
   sent |-> None, new |-> None, seen |-> None, rivalled |-> FALSE]

NoToken == [user |-> Stranger, age |-> TokenTTL]

TypeOK ==
  /\ password \in [User -> Password]
  /\ attempts \in [Address -> Seq(0 .. Window)]
  /\ request \in [Client -> Request \cup {Idle}]
  /\ token \in [Client -> [user : User \cup {Stranger}, age : 0 .. TokenTTL]]
  /\ faults \in 0 .. MaxFaults

Init ==
  /\ password = [u \in User |-> Seed]
  /\ attempts = [a \in Address |-> << >>]
  /\ request = [c \in Client |-> Idle]
  /\ token = [c \in Client |-> NoToken]
  /\ faults = 0

Fault == faults < MaxFaults /\ faults' = faults + 1

End(c) == request' = [request EXCEPT ![c] = Idle]

-----------------------------------------------------------------------------
(* The limiter. *)

\* The failures of the window: the ages fall, so that they are the tail.
Recent(ages) == SubSeq(ages, Cardinality({k \in DOMAIN ages : ages[k] >= Window}) + 1, Len(ages))

\* Mutant: one failure more than the limit.
AllowOneMore(a) ==
  /\ attempts' = [attempts EXCEPT ![a] = Recent(@)]
  /\ Len(Recent(attempts[a])) <= MaxAttempts

Allow(a) ==
  /\ attempts' = [attempts EXCEPT ![a] = Recent(@)]
  /\ Len(Recent(attempts[a])) < MaxAttempts

\* Mutant: the request refused is one more failure.
DenyAndRecord(a) ==
  /\ attempts' = [attempts EXCEPT ![a] = Append(Recent(@), 0)]
  /\ Len(Recent(attempts[a])) >= MaxAttempts
  /\ Len(Recent(attempts[a])) < MaxAttempts + Cardinality(Client)

\* A refusal forgets what is old, and records nothing.
Deny(a) ==
  /\ attempts' = [attempts EXCEPT ![a] = Recent(@)]
  /\ Len(Recent(attempts[a])) >= MaxAttempts

RecordFailure(a) == attempts' = [attempts EXCEPT ![a] = Append(@, 0)]

-----------------------------------------------------------------------------
(* Login. *)

BeginLogin(c, u, p) ==
  /\ request[c] = Idle
  /\ Allow(AddressOf[c])
  /\ request' = [request EXCEPT ![c] =
       [Idle EXCEPT !.at = "lookup", !.kind = "login", !.user = u, !.sent = p]]
  /\ UNCHANGED <<password, token, faults>>

RefuseLogin(c) ==
  /\ request[c] = Idle
  /\ Deny(AddressOf[c])
  /\ UNCHANGED <<password, request, token, faults>>

\* A body that is no JSON: the limiter was asked, nothing is recorded.
MalformedLogin(c) ==
  /\ request[c] = Idle
  /\ Allow(AddressOf[c])
  /\ UNCHANGED <<password, request, token, faults>>

\* No such email, or a query that fails: a failure all the same.
UnknownUser(c) ==
  /\ request[c].at = "lookup"
  /\ request[c].kind = "login"
  /\ \/ request[c].user = Stranger /\ UNCHANGED faults
     \/ request[c].user # Stranger /\ Fault
  /\ RecordFailure(AddressOf[c])
  /\ End(c)
  /\ UNCHANGED <<password, token>>

WrongPassword(c) ==
  /\ request[c].at = "check"
  /\ request[c].kind = "login"
  /\ request[c].seen # request[c].sent
  /\ RecordFailure(AddressOf[c])
  /\ End(c)
  /\ UNCHANGED <<password, token, faults>>

IssueToken(c) ==
  /\ request[c].at = "check"
  /\ request[c].kind = "login"
  /\ request[c].seen = request[c].sent
  /\ token' = [token EXCEPT ![c] = [user |-> request[c].user, age |-> 0]]
  /\ End(c)
  /\ UNCHANGED <<password, attempts, faults>>

-----------------------------------------------------------------------------
(* Changing and resetting a password. *)

\* A token is verified when a request arrives, and not again.
Accepted(c) == token[c].user # Stranger /\ token[c].age < TokenTTL

BeginChange(c, current, new) ==
  /\ request[c] = Idle
  /\ Accepted(c)
  /\ new \in Strong
  /\ current # new
  /\ request' = [request EXCEPT ![c] =
       [Idle EXCEPT !.at = "lookup", !.kind = "change", !.user = token[c].user,
                    !.by = token[c].user, !.sent = current, !.new = new]]
  /\ UNCHANGED <<password, attempts, token, faults>>

BeginReset(c, u, new) ==
  /\ request[c] = Idle
  /\ Accepted(c)
  /\ token[c].user \in Admin
  /\ new \in Strong
  /\ request' = [request EXCEPT ![c] =
       [Idle EXCEPT !.at = "lookup", !.kind = "reset", !.user = u,
                    !.by = token[c].user, !.new = new]]
  /\ UNCHANGED <<password, attempts, token, faults>>

\* Mutant: the error of the query is not looked at.
LookUpUnchecked(c) ==
  /\ request[c].at = "lookup"
  /\ request' = [request EXCEPT ![c].at = IF request[c].kind = "reset" THEN "write" ELSE "check",
       ![c].seen = IF request[c].user = Stranger \/ request[c].kind = "reset" THEN None ELSE password[request[c].user]]
  /\ UNCHANGED <<password, attempts, token, faults>>

\* GetUserByEmail and GetUserByID; a reset compares nothing.
LookUp(c) ==
  /\ request[c].at = "lookup"
  /\ request[c].user # Stranger
  /\ request' = [request EXCEPT ![c] =
       IF @.kind = "reset" THEN [@ EXCEPT !.at = "write"]
       ELSE [@ EXCEPT !.at = "check", !.seen = password[request[c].user]]]
  /\ UNCHANGED <<password, attempts, token, faults>>

\* The answer is an error: nothing has been written.
Refuse(c) ==
  /\ request[c].kind \in {"change", "reset"}
  /\ \/ request[c].at = "check" /\ request[c].seen # request[c].sent /\ UNCHANGED faults
     \/ request[c].at = "lookup" /\ request[c].user = Stranger /\ UNCHANGED faults
     \/ Fault
  /\ End(c)
  /\ UNCHANGED <<password, attempts, token>>

\* Mutant: nothing is compared.
ProveNothing(c) ==
  /\ request[c].at = "check"
  /\ request[c].kind = "change"
  /\ request' = [request EXCEPT ![c].at = "write"]
  /\ UNCHANGED <<password, attempts, token, faults>>

ProveCurrent(c) ==
  /\ request[c].at = "check"
  /\ request[c].kind = "change"
  /\ request[c].seen = request[c].sent
  /\ request' = [request EXCEPT ![c].at = "write"]
  /\ UNCHANGED <<password, attempts, token, faults>>

\* UpdateUserPassword asks only who the user is, not what the hash was.
UpdateUserPassword(c) ==
  /\ request[c].at = "write"
  /\ password' = [password EXCEPT ![request[c].user] = request[c].new]
  /\ request' = [d \in Client |->
       IF d = c THEN Idle
       ELSE IF request[d].at \in {"check", "write"} /\ request[d].kind = "change"
               /\ request[d].user = request[c].user
         THEN [request[d] EXCEPT !.rivalled = TRUE]
         ELSE request[d]]
  /\ UNCHANGED <<attempts, token, faults>>

-----------------------------------------------------------------------------
(* Time and the process. *)

Older(age, limit) == IF age < limit THEN age + 1 ELSE limit

Tick ==
  /\ attempts' = [a \in Address |->
       [k \in 1 .. Len(attempts[a]) |-> Older(attempts[a][k], Window)]]
  /\ token' = [c \in Client |-> [token[c] EXCEPT !.age = Older(@, TokenTTL)]]
  /\ UNCHANGED <<password, request, faults>>

\* The limiter is memory, the tokens are signed: a restart forgets the one.
RestartServer ==
  /\ attempts' = [a \in Address |-> << >>]
  /\ request' = [c \in Client |-> Idle]
  /\ Fault
  /\ UNCHANGED <<password, token>>

LoginStep(c) ==
  \/ \E u \in User \cup {Stranger}, p \in Password : BeginLogin(c, u, p)
  \/ RefuseLogin(c) \/ MalformedLogin(c)
  \/ UnknownUser(c) \/ WrongPassword(c) \/ IssueToken(c)

PasswordStep(c) ==
  \/ \E p, q \in Password : BeginChange(c, p, q)
  \/ \E u \in User \cup {Stranger}, q \in Password : BeginReset(c, u, q)
  \/ LookUp(c) \/ Refuse(c) \/ ProveCurrent(c) \/ UpdateUserPassword(c)

Next ==
  \/ \E c \in Client : LoginStep(c) \/ PasswordStep(c)
  \/ Tick
  \/ RestartServer

Spec == Init /\ [][Next]_vars

\* Nothing is asked of the clients; the clock goes on.
FairSpec == Spec /\ WF_vars(Tick)

-----------------------------------------------------------------------------
(* Properties. *)

From(a) == {c \in Client : AddressOf[c] = a}
Trying(a) == {c \in From(a) : request[c].kind = "login"}

\* The limiter asks before a password is compared and counts afterwards, so
\* that requests pass it together: the failures kept for an address, with those
\* still to come, go past the limit by its other clients and never further.
FailuresBounded ==
  \A a \in Address :
    Len(attempts[a]) + Cardinality(Trying(a)) <= MaxAttempts - 1 + Cardinality(From(a))

\* An address whose failures fill the window can sign in again, though its
\* clients keep asking while they are refused.
BlockLifts ==
  \A a \in Address :
    (Len(Recent(attempts[a])) >= MaxAttempts) ~> (Len(Recent(attempts[a])) < MaxAttempts)

\* The users of an organisation change their passwords for themselves: what is
\* overwritten is what the request proved it knew, or else an administrator
\* overwrites it, or another request wrote between the proof and the update.
OverwritesWhatIsKnown ==
  [][\A u \in User :
       password'[u] # password[u] =>
         \E c \in Client :
           /\ request[c].user = u
           /\ \/ request[c].by \in Admin
              \/ request[c].by = u /\ (request[c].sent = password[u] \/ request[c].rivalled)]_vars
=============================================================================
