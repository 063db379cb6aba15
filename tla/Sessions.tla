------------------------------ MODULE Sessions ------------------------------
(***************************************************************************)
(* Accounts and sessions: auth.service.ts, the access token guard and the  *)
(* administration of users.                                                *)
(*                                                                         *)
(* A session is a family of refresh tokens, each issued by rotating the    *)
(* one before; an access token names its family and counts while a token   *)
(* of the family does.  Every transaction that touches the tokens of an    *)
(* account locks its row first and reads again what it had read before, so *)
(* it is one step from there on; only an administrator's update keeps the  *)
(* lock over several steps, because it takes the lock of all updates       *)
(* first and one of the row after it.                                      *)
(***************************************************************************)
EXTENDS Integers, FiniteSets

CONSTANTS
  Users, Families,  \* identifiers of accounts and of sessions, each used once
  Staff,            \* the administrators there are at the beginning
  Opened,           \* whose sessions are open at the beginning
  Desks,            \* slots for the requests of administrators
  Inputs,           \* what an administrator may ask of an account
  MaxRotations,     \* bound: refreshes of a session
  MaxPasswords      \* bound: passwords of an account

ASSUME SessionAssumption ==
  /\ Staff \subseteq Users /\ Staff # {}
  /\ "none" \notin Users
  /\ Opened \in [Families -> Staff \cup {"none"}]
  /\ Inputs \subseteq [role : {"keep", "USER", "ADMIN"},
                       status : {"keep", "ACTIVE", "SUSPENDED"}, password : BOOLEAN]
  /\ MaxRotations \in Nat /\ MaxPasswords \in Nat \ {0}

VARIABLES
  account,  \* User rows with their StaffCredential
  session,  \* RefreshToken rows of each family
  job,      \* administrators' requests in flight
  ended,    \* families that were revoked as a whole
  alarmed   \* those of them where a revoked token came back

server == <<account, session, job, ended, alarmed>>

Account == [role : {"USER", "ADMIN"}, status : {"none", "ACTIVE", "SUSPENDED"},
            credential : BOOLEAN, password : 0..MaxPasswords]
NoAccount == [role |-> "USER", status |-> "none", credential |-> FALSE, password |-> 0]
NewAdmin  == [role |-> "ADMIN", status |-> "ACTIVE", credential |-> TRUE, password |-> 1]
NewUser   == [role |-> "USER", status |-> "ACTIVE", credential |-> FALSE, password |-> 0]

(***************************************************************************)
(* The tokens of a family are 0 to last; live are those not revoked.  The  *)
(* role and the password are those of the sign-in.                         *)
(***************************************************************************)
Session == [user : Users \cup {"none"}, role : {"USER", "ADMIN"}, password : 0..MaxPasswords,
            last : 0..MaxRotations, live : SUBSET (0..MaxRotations), expired : BOOLEAN]
NoSession == [user |-> "none", role |-> "USER", password |-> 0, last |-> 0,
              live |-> {}, expired |-> FALSE]

NewSession(u, role, password) ==
  [user |-> u, role |-> role, password |-> password, last |-> 0, live |-> {0},
   expired |-> FALSE]

\* An update that asks for nothing is refused.
NoInput == [role |-> "keep", status |-> "keep", password |-> FALSE]

Job == [pc : {"idle", "update", "write", "create"}, actor : Users \cup {"none"},
        target : Users \cup {"none"}, input : Inputs \cup {NoInput}]
NoJob == [pc |-> "idle", actor |-> "none", target |-> "none", input |-> NoInput]

Active(u, role) == account[u].status = "ACTIVE" /\ account[u].role = role

\* The row of u is locked by an update that has not committed.
Locked(u) == \E d \in Desks : job[d].pc = "write" /\ job[d].target = u

(***************************************************************************)
(* The guard of every protected route.                                     *)
(***************************************************************************)
Admits(f) ==
  /\ session[f].live # {} /\ ~session[f].expired
  /\ Active(session[f].user, session[f].role)

(***************************************************************************)
(* Issuing a session, and revoking all tokens of a family or an account.   *)
(***************************************************************************)
\* Mutant: the account is not read again before a session is issued.
IssueToAnyone(f, u, role) ==
  /\ session[f] = NoSession
  /\ session' = [session EXCEPT ![f] = NewSession(u, role, account[u].password)]

IssueSession(f, u, role) ==
  /\ session[f] = NoSession
  /\ Active(u, role)
  /\ session' = [session EXCEPT ![f] = NewSession(u, role, account[u].password)]

OfUser(u) == {f \in Families : session[f].user = u}

RevokeAll(F) ==
  /\ session' = [f \in Families |-> IF f \in F THEN [session[f] EXCEPT !.live = {}]
                                               ELSE session[f]]
  /\ ended' = ended \cup F

(***************************************************************************)
(* Sign-in of an administrator: the credential was read, and is read again *)
(* under the lock.                                                         *)
(***************************************************************************)
CredentialRead(u) == Active(u, "ADMIN") /\ account[u].credential

Unchanged(u, read) == account[u].credential /\ account[u].password = read

SignInStaff(u, read, typed, f) ==
  /\ ~Locked(u)
  /\ Unchanged(u, read)
  /\ typed = read
  /\ IssueSession(f, u, "ADMIN")
  /\ UNCHANGED <<account, job, ended, alarmed>>

(***************************************************************************)
(* Sign-in through a provider: one transaction finds or registers the      *)
(* account, another issues the session.                                    *)
(***************************************************************************)
Register(u) ==
  /\ account[u].status = "none"
  /\ account' = [account EXCEPT ![u] = NewUser]
  /\ UNCHANGED <<session, job, ended, alarmed>>

SignInOAuth(u, f) ==
  /\ ~Locked(u)
  /\ IssueSession(f, u, "USER")
  /\ UNCHANGED <<account, job, ended, alarmed>>

(***************************************************************************)
(* A refresh token is used.  One that was revoked revokes its family.      *)
(***************************************************************************)
Revoked(f, n) == n \notin session[f].live

Alarm(f, n) ==
  /\ session[f].user # "none" /\ ~Locked(session[f].user)
  /\ Revoked(f, n)
  /\ RevokeAll({f})
  /\ alarmed' = alarmed \cup {f}
  /\ UNCHANGED <<account, job>>

Usable(f) == ~session[f].expired /\ account[session[f].user].status = "ACTIVE"

Rotate(f, n) ==
  /\ session[f].user # "none" /\ ~Locked(session[f].user)
  /\ ~Revoked(f, n) /\ Usable(f)
  /\ session[f].last < MaxRotations
  /\ session' = [session EXCEPT ![f].last = @ + 1,
                                ![f].live = (@ \ {n}) \cup {session[f].last + 1}]
  /\ UNCHANGED <<account, job, ended, alarmed>>

Logout(f) ==
  /\ session[f].user # "none" /\ ~Locked(session[f].user)
  /\ RevokeAll({f})
  /\ UNCHANGED <<account, job, alarmed>>

(***************************************************************************)
(* A new password revokes every session of the account.                    *)
(***************************************************************************)
NewPassword(a) == [a EXCEPT !.credential = TRUE, !.password = @ + 1]

ChangePassword(u, typed) ==
  /\ ~Locked(u)
  /\ Unchanged(u, typed) /\ account[u].role = "ADMIN"
  /\ account[u].password < MaxPasswords
  /\ account' = [account EXCEPT ![u] = NewPassword(@)]
  /\ RevokeAll(OfUser(u))
  /\ UNCHANGED <<job, alarmed>>

(***************************************************************************)
(* An administrator's request: the guard, then the transaction.  Passwords *)
(* of one's own go through ChangePassword.                                 *)
(***************************************************************************)
BeginUpdate(d, f, u, i) ==
  /\ job[d] = NoJob
  /\ Admits(f) /\ session[f].role = "ADMIN"
  /\ ~(u = session[f].user /\ i.password)
  /\ job' = [job EXCEPT ![d] = [pc |-> "update", actor |-> session[f].user,
                                target |-> u, input |-> i]]
  /\ UNCHANGED <<account, session, ended, alarmed>>

BeginCreate(d, f, u) ==
  /\ job[d] = NoJob
  /\ Admits(f) /\ session[f].role = "ADMIN"
  /\ job' = [job EXCEPT ![d] = [pc |-> "create", actor |-> session[f].user,
                                target |-> u, input |-> NoInput]]
  /\ UNCHANGED <<account, session, ended, alarmed>>

Ends(d) == job' = [job EXCEPT ![d] = NoJob]

NewRole(u, i) == IF i.role = "keep" THEN account[u].role ELSE i.role

NewStatus(u, i) == IF i.status = "keep" THEN account[u].status ELSE i.status

OwnAccess(i) == i.status # "SUSPENDED" /\ i.role # "USER"

ActiveAdmins == {u \in Users : Active(u, "ADMIN")}

MayUpdate(a, u, i) ==
  /\ Active(a, "ADMIN")
  /\ account[u].status # "none"
  /\ a = u => OwnAccess(i)
  /\ i.password => NewRole(u, i) = "ADMIN"
  /\ NewRole(u, i) = "ADMIN" => account[u].credential \/ i.password
  /\ Active(u, "ADMIN") /\ (i.role = "USER" \/ i.status = "SUSPENDED")
       => Cardinality(ActiveAdmins) > 1

\* Mutant: updates lock their target only.
LockTarget(d) == ~Locked(job[d].target)

\* The advisory lock of all updates, then the row of the target.
Lockable(d) ==
  /\ \A e \in Desks : job[e].pc # "write"
  /\ ~Locked(job[d].target)

CheckUpdate(d) ==
  LET j == job[d] IN
    /\ j.pc = "update"
    /\ Lockable(d)
    /\ IF MayUpdate(j.actor, j.target, j.input)
       THEN job' = [job EXCEPT ![d].pc = "write"]
       ELSE Ends(d)
    /\ UNCHANGED <<account, session, ended, alarmed>>

Updated(u, i) ==
  [(IF i.password THEN NewPassword(account[u]) ELSE account[u])
     EXCEPT !.role = NewRole(u, i), !.status = NewStatus(u, i),
            !.credential = i.role # "USER" /\ (account[u].credential \/ i.password)]

WriteUpdate(d) ==
  LET j == job[d] IN
    /\ j.pc = "write"
    /\ j.input.password => account[j.target].password < MaxPasswords
    /\ account' = [account EXCEPT ![j.target] = Updated(j.target, j.input)]
    /\ RevokeAll(OfUser(j.target))
    /\ Ends(d)
    /\ UNCHANGED alarmed

\* An e-mail or a name that is taken is a conflict.
CreateStaff(d) ==
  LET u == job[d].target IN
    /\ job[d].pc = "create"
    /\ account' = IF account[u].status = "none"
                  THEN [account EXCEPT ![u] = NewAdmin] ELSE account
    /\ Ends(d)
    /\ UNCHANGED <<session, ended, alarmed>>

(***************************************************************************)
(* The tokens of a family expire together.                                 *)
(***************************************************************************)
Expire(f) ==
  /\ session[f].user # "none" /\ ~session[f].expired
  /\ session' = [session EXCEPT ![f].expired = TRUE]
  /\ UNCHANGED <<account, job, ended, alarmed>>

-----------------------------------------------------------------------------
SessionsInit ==
  /\ account = [u \in Users |-> IF u \in Staff THEN NewAdmin ELSE NoAccount]
  /\ session = [f \in Families |-> IF Opened[f] = "none" THEN NoSession
                                   ELSE NewSession(Opened[f], "ADMIN", 1)]
  /\ job = [d \in Desks |-> NoJob]
  /\ ended = {} /\ alarmed = {}

DeskStep(d) == CheckUpdate(d) \/ WriteUpdate(d) \/ CreateStaff(d)

(***************************************************************************)
(* The server on its own: any request, any token, any earlier reading.     *)
(***************************************************************************)
ServerNext ==
  \/ \E u \in Users :
       \/ Register(u)
       \/ \E p \in 0..MaxPasswords : ChangePassword(u, p)
       \/ \E f \in Families : SignInOAuth(u, f)
       \/ \E p, q \in 0..MaxPasswords, f \in Families : SignInStaff(u, p, q, f)
  \/ \E f \in Families :
       \/ Logout(f) \/ Expire(f)
       \/ \E n \in 0..MaxRotations : Alarm(f, n) \/ Rotate(f, n)
  \/ \E d \in Desks :
       \/ DeskStep(d)
       \/ \E f \in Families, u \in Users :
            BeginCreate(d, f, u) \/ \E i \in Inputs : BeginUpdate(d, f, u, i)

ServerSpec == SessionsInit /\ [][ServerNext]_server

SessionsTypeOK ==
  /\ account \in [Users -> Account]
  /\ session \in [Families -> Session]
  /\ job \in [Desks -> Job]
  /\ ended \subseteq Families /\ alarmed \subseteq ended

(***************************************************************************)
(* Immediate revocation: no token of a family counts once the family was   *)
(* revoked, by a logout, a new password, a suspension or a change of role, *)
(* whatever refresh, sign-in or update was under way.                      *)
(***************************************************************************)
EndedStaysEnded == \A f \in ended : session[f].live = {}

(***************************************************************************)
(* A token that counts is the last one of its family, which was never      *)
(* revoked, and it belongs to an active account with the role and the      *)
(* password of the sign-in.                                                *)
(***************************************************************************)
SessionsMatchAccount ==
  \A f \in Families : session[f].live # {} =>
    /\ f \notin ended
    /\ session[f].live = {session[f].last}
    /\ Active(session[f].user, session[f].role)
    /\ session[f].role = "ADMIN" => Unchanged(session[f].user, session[f].password)

(***************************************************************************)
(* Administrators who update one another at the same time leave one who is *)
(* active.                                                                 *)
(***************************************************************************)
AnAdminRemains == ActiveAdmins # {}

=============================================================================
