---------------------------- MODULE ClientProofs ----------------------------
(* Theorems about Sessions, Client and Pages.  The server: what was revoked *)
(* stays revoked, a session that counts matches its account, and an         *)
(* administrator remains.  The web client uses it as Sessions allows, and   *)
(* so this holds with any tabs around it.  The tabs: with a lock they raise *)
(* no false alarm, and stay signed out.  And the pages: what they show is   *)
(* current, and nothing in them gets stuck.                                 *)
EXTENDS Client, Pages, TLAPS

----------------------------------------------------------------------------
(* The server. *)

USE SessionAssumption

(* The inductive invariant.  A family that is revoked was issued, so that  *)
(* no sign-in can take it again; and an update that has been checked was   *)
(* asked for by somebody who still is an active administrator, because it  *)
(* is the only one of its kind and no other step takes a role away.        *)

Issued == \A f \in ended : session[f].user \in Users

LiveOf(f) ==
  /\ session[f].user \in Users
  /\ f \notin ended
  /\ session[f].live = {session[f].last}
  /\ Active(session[f].user, session[f].role)
  /\ session[f].role = "ADMIN" => Unchanged(session[f].user, session[f].password)

Matching == \A f \in Families : session[f].live # {} => LiveOf(f)

Asked ==
  \A d \in Desks : job[d].pc # "idle" =>
    /\ job[d].actor \in Users /\ job[d].target \in Users
    /\ job[d].pc # "create" => job[d].input \in Inputs

Granted(d) ==
  /\ Active(job[d].actor, "ADMIN")
  /\ job[d].actor = job[d].target => OwnAccess(job[d].input)

Checked == \A d \in Desks : job[d].pc = "write" => Granted(d)

OneWrites == \A d, e \in Desks : job[d].pc = "write" /\ job[e].pc = "write" => d = e

SessionsInv ==
  /\ SessionsTypeOK
  /\ Issued /\ Matching
  /\ Asked /\ Checked /\ OneWrites
  /\ AnAdminRemains

----------------------------------------------------------------------------
LEMMA InputFacts ==
  ASSUME NEW i \in Inputs \cup {NoInput}
  PROVE  /\ i.role \in {"keep", "USER", "ADMIN"}
         /\ i.status \in {"keep", "ACTIVE", "SUSPENDED"}
         /\ i.password \in BOOLEAN
<1>1. CASE i = NoInput
  BY <1>1 DEF NoInput
<1>2. CASE i \in Inputs
  <2>1. i \in [role : {"keep", "USER", "ADMIN"},
               status : {"keep", "ACTIVE", "SUSPENDED"}, password : BOOLEAN]
    BY <1>2
  <2> QED
    BY <2>1
<1> QED
  BY <1>1, <1>2

LEMMA AccountFacts ==
  ASSUME SessionsTypeOK, NEW u \in Users
  PROVE  /\ account[u] \in Account
         /\ account[u].password \in 0..MaxPasswords
         /\ account[u].role \in {"USER", "ADMIN"}
         /\ account[u].status \in {"none", "ACTIVE", "SUSPENDED"}
         /\ account[u].credential \in BOOLEAN
  BY DEF SessionsTypeOK, Account

LEMMA SessionFacts ==
  ASSUME SessionsTypeOK, NEW f \in Families
  PROVE  /\ session[f] \in Session
         /\ session[f].user \in Users \cup {"none"}
         /\ session[f].role \in {"USER", "ADMIN"}
         /\ session[f].password \in 0..MaxPasswords
         /\ session[f].last \in 0..MaxRotations
         /\ session[f].live \in SUBSET (0..MaxRotations)
         /\ session[f].expired \in BOOLEAN
  BY DEF SessionsTypeOK, Session

LEMMA InitSessions == SessionsInit => SessionsInv
<1> SUFFICES ASSUME SessionsInit PROVE SessionsInv
  OBVIOUS
<1> USE DEF SessionsInit
<1>1. NewAdmin \in Account /\ NoAccount \in Account
  BY DEF NewAdmin, NoAccount, Account
<1>2. \A u \in Staff : NewSession(u, "ADMIN", 1) \in Session
  BY DEF NewSession, Session
<1>3. NoSession \in Session
  BY DEF NoSession, Session
<1>4. NoJob \in Job
  BY DEF NoJob, Job
<1>5. SessionsTypeOK
  BY <1>1, <1>2, <1>3, <1>4 DEF SessionsTypeOK
<1>6. Issued
  BY DEF Issued
<1>7. Matching
  BY DEF Matching, LiveOf, NewSession, NoSession, Active, Unchanged, NewAdmin
<1>8. Asked /\ Checked /\ OneWrites
  BY DEF Asked, Checked, OneWrites, NoJob
<1>9. AnAdminRemains
  <2>1. PICK u \in Staff : TRUE
    OBVIOUS
  <2>2. u \in ActiveAdmins
    BY <2>1 DEF ActiveAdmins, Active, NewAdmin
  <2> QED
    BY <2>2 DEF AnAdminRemains
<1> QED
  BY <1>5, <1>6, <1>7, <1>8, <1>9 DEF SessionsInv

----------------------------------------------------------------------------
(* Steps that issue and revoke sessions. *)

\* What the sessions need of the accounts and the other way round.
AccountsInv == Issued /\ Matching /\ AnAdminRemains

LEMMA IssueKeeps ==
  ASSUME SessionsInv, NEW f \in Families, NEW u \in Users,
         NEW role \in {"USER", "ADMIN"}, role = "ADMIN" => account[u].credential,
         IssueSession(f, u, role), UNCHANGED <<account, ended>>
  PROVE  session' \in [Families -> Session] /\ AccountsInv'
<1> USE DEF SessionsInv
<1>1. session' = [session EXCEPT ![f] = NewSession(u, role, account[u].password)]
  BY DEF IssueSession
<1>2. NewSession(u, role, account[u].password) \in Session
  BY AccountFacts DEF NewSession, Session
<1>3. session' \in [Families -> Session]
  BY <1>1, <1>2 DEF SessionsTypeOK
<1>4. f \notin ended
  <2>1. session[f].user = "none"
    BY DEF IssueSession, NoSession
  <2>2. "none" \notin Users
    OBVIOUS
  <2> QED
    BY <2>1, <2>2 DEF Issued
<1>5. Issued'
  BY <1>1, <1>4 DEF Issued, SessionsTypeOK
<1>6. Matching'
  <2> SUFFICES ASSUME NEW g \in Families, session'[g].live # {} PROVE LiveOf(g)'
    BY DEF Matching
  <2>1. CASE g = f
    <3>1. session'[g] = NewSession(u, role, account[u].password)
      BY <2>1, <1>1 DEF SessionsTypeOK
    <3>2. Active(u, role)
      BY DEF IssueSession
    <3> QED
      BY <2>1, <3>1, <3>2, <1>4 DEF LiveOf, NewSession, Active, Unchanged
  <2>2. CASE g # f
    BY <2>2, <1>1 DEF LiveOf, Active, Unchanged, SessionsTypeOK, Matching
  <2> QED
    BY <2>1, <2>2
<1>7. AnAdminRemains'
  BY DEF AnAdminRemains, ActiveAdmins, Active
<1> QED
  BY <1>3, <1>5, <1>6, <1>7 DEF AccountsInv

\* The sessions of F end; an account that differs has none that counts.
LEMMA RevokeKeeps ==
  ASSUME SessionsInv, NEW F \in SUBSET Families, RevokeAll(F),
         \A f \in F : session[f].user \in Users,
         \A f \in Families \ F : session[f].live # {} =>
           account'[session[f].user] = account[session[f].user],
         AnAdminRemains'
  PROVE  session' \in [Families -> Session] /\ ended' = ended \cup F /\ AccountsInv'
<1> USE DEF SessionsInv
<1>1. /\ session' = [f \in Families |-> IF f \in F THEN [session[f] EXCEPT !.live = {}]
                                                  ELSE session[f]]
      /\ ended' = ended \cup F
  BY DEF RevokeAll
<1>2. session' \in [Families -> Session]
  <2>1. \A f \in Families : session[f] \in Session
    BY DEF SessionsTypeOK
  <2>2. \A f \in Families : [session[f] EXCEPT !.live = {}] \in Session
    BY <2>1 DEF Session
  <2> QED
    BY <1>1, <2>1, <2>2
<1>3. \A f \in Families : session'[f].user = session[f].user
  BY <1>1, SessionFacts DEF Session
<1>4. Issued'
  BY <1>1, <1>3 DEF Issued, SessionsTypeOK
<1>5. Matching'
  <2> SUFFICES ASSUME NEW g \in Families, session'[g].live # {} PROVE LiveOf(g)'
    BY DEF Matching
  <2>1. g \notin F
    BY <1>1, SessionFacts DEF Session
  <2>2. session'[g] = session[g]
    BY <2>1, <1>1
  <2>3. LiveOf(g)
    BY <2>2 DEF Matching
  <2>4. account'[session[g].user] = account[session[g].user]
    BY <2>1, <2>2
  <2> QED
    BY <1>1, <2>1, <2>2, <2>3, <2>4 DEF LiveOf, Active, Unchanged
<1> QED
  BY <1>1, <1>2, <1>4, <1>5 DEF AccountsInv

\* Requests in flight are untouched, and nobody loses a role.
LEMMA JobsKept ==
  ASSUME SessionsInv, UNCHANGED job,
         \A u \in Users : Active(u, "ADMIN") => Active(u, "ADMIN")'
  PROVE  Asked' /\ Checked' /\ OneWrites'
<1> USE DEF SessionsInv
<1>1. Asked' /\ OneWrites'
  BY DEF Asked, OneWrites
<1>2. Checked'
  <2> SUFFICES ASSUME NEW d \in Desks, job[d].pc = "write" PROVE Granted(d)'
    BY DEF Checked
  <2>1. Granted(d) /\ job[d].actor \in Users
    BY DEF Checked, Asked
  <2> QED
    BY <2>1 DEF Granted, OwnAccess
<1> QED
  BY <1>1, <1>2

----------------------------------------------------------------------------
(* The requests of users and of their clients. *)

LEMMA RegisterKeeps ==
  ASSUME SessionsInv, NEW u \in Users, Register(u)
  PROVE  SessionsInv'
<1> USE DEF SessionsInv, Register
<1>1. NewUser \in Account
  BY DEF NewUser, Account
<1>2. SessionsTypeOK'
  BY <1>1 DEF SessionsTypeOK
<1>3. \A v \in Users : \A role \in {"USER", "ADMIN"} : Active(v, role) => account'[v] = account[v]
  BY DEF Active, SessionsTypeOK
<1>4. \A v \in Users : Active(v, "ADMIN") => Active(v, "ADMIN")'
  BY <1>3 DEF Active
<1>5. Issued'
  BY DEF Issued
<1>6. Matching'
  <2> SUFFICES ASSUME NEW g \in Families, session[g].live # {} PROVE LiveOf(g)'
    BY DEF Matching
  <2>1. LiveOf(g)
    BY DEF Matching
  <2>2. account'[session[g].user] = account[session[g].user]
    BY <2>1, <1>3, SessionFacts DEF LiveOf
  <2> QED
    BY <2>1, <2>2 DEF LiveOf, Active, Unchanged
<1>7. AnAdminRemains'
  BY <1>4 DEF AnAdminRemains, ActiveAdmins
<1> QED
  BY <1>2, <1>4, <1>5, <1>6, <1>7, JobsKept

LEMMA SignInStaffKeeps ==
  ASSUME SessionsInv, NEW u \in Users, NEW p, NEW q, NEW f \in Families,
         SignInStaff(u, p, q, f)
  PROVE  SessionsInv'
<1> USE DEF SignInStaff
<1>1. session' \in [Families -> Session] /\ AccountsInv'
  BY IssueKeeps DEF Unchanged
<1>2. SessionsTypeOK'
  BY <1>1 DEF SessionsTypeOK, SessionsInv
<1>3. Asked' /\ Checked' /\ OneWrites'
  BY JobsKept DEF Active
<1> QED
  BY <1>1, <1>2, <1>3 DEF SessionsInv, AccountsInv

LEMMA SignInOAuthKeeps ==
  ASSUME SessionsInv, NEW u \in Users, NEW f \in Families, SignInOAuth(u, f)
  PROVE  SessionsInv'
<1> USE DEF SignInOAuth
<1>1. session' \in [Families -> Session] /\ AccountsInv'
  BY IssueKeeps
<1>2. SessionsTypeOK'
  BY <1>1 DEF SessionsTypeOK, SessionsInv
<1>3. Asked' /\ Checked' /\ OneWrites'
  BY JobsKept DEF Active
<1> QED
  BY <1>1, <1>2, <1>3 DEF SessionsInv, AccountsInv

LEMMA EndFamilyKeeps ==
  ASSUME SessionsInv, NEW f \in Families, session[f].user # "none", RevokeAll({f}),
         alarmed' \subseteq alarmed \cup {f}, UNCHANGED <<account, job>>
  PROVE  SessionsInv'
<1>1. session[f].user \in Users
  BY SessionFacts DEF SessionsInv
<1>2. AnAdminRemains'
  BY DEF AnAdminRemains, ActiveAdmins, Active, SessionsInv
<1>3. session' \in [Families -> Session] /\ ended' = ended \cup {f} /\ AccountsInv'
  BY <1>1, <1>2, RevokeKeeps
<1>4. SessionsTypeOK'
  BY <1>3 DEF SessionsTypeOK, SessionsInv
<1>5. Asked' /\ Checked' /\ OneWrites'
  BY JobsKept DEF Active
<1> QED
  BY <1>3, <1>4, <1>5 DEF SessionsInv, AccountsInv

LEMMA RotateKeeps ==
  ASSUME SessionsInv, NEW f \in Families, NEW n \in 0..MaxRotations, Rotate(f, n)
  PROVE  SessionsInv'
<1> USE DEF SessionsInv
<1> DEFINE s == [session[f] EXCEPT !.last = session[f].last + 1,
                                   !.live = (session[f].live \ {n}) \cup {session[f].last + 1}]
<1>1. /\ session' = [session EXCEPT ![f] = s]
      /\ UNCHANGED <<account, job, ended, alarmed>>
      /\ session[f].last < MaxRotations /\ n \in session[f].live
  BY SessionFacts DEF Rotate, Revoked, SessionsTypeOK
<1>2. LiveOf(f)
  BY <1>1 DEF Matching
<1>3. session[f].live \ {n} = {}
  BY <1>1, <1>2 DEF LiveOf
<1>4. s \in Session
  <2>1. session[f].last + 1 \in 0..MaxRotations
    BY <1>1, SessionFacts
  <2>2. (session[f].live \ {n}) \cup {session[f].last + 1} \in SUBSET (0..MaxRotations)
    BY <1>3, <2>1
  <2> QED
    BY <2>1, <2>2, SessionFacts DEF Session
<1>5. SessionsTypeOK'
  BY <1>1, <1>4 DEF SessionsTypeOK
<1>6. /\ s.user = session[f].user /\ s.role = session[f].role
      /\ s.password = session[f].password
      /\ s.last = session[f].last + 1 /\ s.live = {s.last}
  BY <1>3, SessionFacts DEF Session
<1> HIDE DEF s
<1>7. \A g \in Families : session'[g] = IF g = f THEN s ELSE session[g]
  BY <1>1 DEF SessionsTypeOK
<1>8. Issued'
  BY <1>1, <1>6, <1>7 DEF Issued, SessionsTypeOK
<1>9. Matching'
  <2> SUFFICES ASSUME NEW g \in Families, session'[g].live # {} PROVE LiveOf(g)'
    BY DEF Matching
  <2>1. CASE g = f
    BY <2>1, <1>1, <1>2, <1>6, <1>7 DEF LiveOf, Active, Unchanged
  <2>2. CASE g # f
    BY <2>2, <1>1, <1>7 DEF Matching, LiveOf, Active, Unchanged
  <2> QED
    BY <2>1, <2>2
<1>10. AnAdminRemains'
  BY <1>1 DEF AnAdminRemains, ActiveAdmins, Active
<1>11. Asked' /\ Checked' /\ OneWrites'
  BY <1>1, JobsKept DEF Active
<1> QED
  BY <1>5, <1>8, <1>9, <1>10, <1>11

LEMMA ExpireKeeps ==
  ASSUME SessionsInv, NEW f \in Families, Expire(f)
  PROVE  SessionsInv'
<1> USE DEF SessionsInv, Expire
<1>1. [session[f] EXCEPT !.expired = TRUE] \in Session
  BY SessionFacts DEF Session
<1>2. SessionsTypeOK'
  BY <1>1 DEF SessionsTypeOK
<1>3. \A g \in Families : /\ session'[g].user = session[g].user
                          /\ session'[g].role = session[g].role
                          /\ session'[g].password = session[g].password
                          /\ session'[g].last = session[g].last
                          /\ session'[g].live = session[g].live
  BY SessionFacts DEF SessionsTypeOK, Session
<1>4. Issued'
  BY <1>3 DEF Issued, SessionsTypeOK
<1>7. Matching'
  <2> SUFFICES ASSUME NEW g \in Families, session'[g].live # {} PROVE LiveOf(g)'
    BY DEF Matching
  <2>1. LiveOf(g)
    BY <1>3 DEF Matching
  <2> QED
    BY <1>3, <2>1 DEF LiveOf, Active, Unchanged
<1>5. AnAdminRemains'
  BY DEF AnAdminRemains, ActiveAdmins, Active
<1>6. Asked' /\ Checked' /\ OneWrites'
  BY JobsKept DEF Active
<1> QED
  BY <1>2, <1>4, <1>5, <1>6, <1>7

----------------------------------------------------------------------------
(* Steps that write an account, and end its sessions. *)

LEMMA WriteKeeps ==
  ASSUME SessionsInv, NEW u \in Users, NEW a \in Account,
         account' = [account EXCEPT ![u] = a], RevokeAll(OfUser(u)), AnAdminRemains'
  PROVE  /\ account' \in [Users -> Account] /\ session' \in [Families -> Session]
         /\ ended \subseteq ended' /\ ended' \subseteq Families
         /\ AccountsInv'
<1>1. OfUser(u) \in SUBSET Families /\ \A f \in OfUser(u) : session[f].user \in Users
  BY DEF OfUser
<1>2. account' \in [Users -> Account]
  BY DEF SessionsInv, SessionsTypeOK
<1>3. \A f \in Families \ OfUser(u) : session[f].live # {} =>
        account'[session[f].user] = account[session[f].user]
  BY DEF OfUser, SessionsInv, SessionsTypeOK, Matching, LiveOf
<1>4. session' \in [Families -> Session] /\ ended' = ended \cup OfUser(u) /\ AccountsInv'
  BY <1>1, <1>3, RevokeKeeps
<1> QED
  BY <1>1, <1>2, <1>4 DEF SessionsInv, SessionsTypeOK

LEMMA NewPasswordType ==
  ASSUME NEW a \in Account, a.password < MaxPasswords
  PROVE  /\ NewPassword(a) \in Account
         /\ NewPassword(a).role = a.role /\ NewPassword(a).status = a.status
         /\ NewPassword(a).password \in 0..MaxPasswords
<1>1. a.password + 1 \in 0..MaxPasswords
  BY DEF Account
<1> QED
  BY <1>1 DEF NewPassword, Account

LEMMA ChangePasswordKeeps ==
  ASSUME SessionsInv, NEW u \in Users, NEW p, ChangePassword(u, p)
  PROVE  SessionsInv'
<1> USE DEF ChangePassword
<1>1. account' = [account EXCEPT ![u] = NewPassword(account[u])]
  BY DEF SessionsInv, SessionsTypeOK
<1>2. /\ NewPassword(account[u]) \in Account
      /\ NewPassword(account[u]).role = account[u].role
      /\ NewPassword(account[u]).status = account[u].status
  BY NewPasswordType, AccountFacts DEF SessionsInv
<1>3. \A v \in Users : Active(v, "ADMIN") => Active(v, "ADMIN")'
  BY <1>1, <1>2 DEF Active, SessionsInv, SessionsTypeOK
<1>4. AnAdminRemains'
  BY <1>3 DEF AnAdminRemains, ActiveAdmins, SessionsInv
<1>5. /\ account' \in [Users -> Account] /\ session' \in [Families -> Session]
      /\ ended \subseteq ended' /\ ended' \subseteq Families
      /\ AccountsInv'
  BY <1>1, <1>2, <1>4, WriteKeeps
<1>6. SessionsTypeOK'
  BY <1>5 DEF SessionsTypeOK, SessionsInv
<1>7. Asked' /\ Checked' /\ OneWrites'
  BY <1>3, JobsKept
<1> QED
  BY <1>5, <1>6, <1>7 DEF SessionsInv, AccountsInv

LEMMA UpdatedType ==
  ASSUME SessionsTypeOK, NEW u \in Users, NEW i \in Inputs,
         i.password => account[u].password < MaxPasswords
  PROVE  /\ Updated(u, i) \in Account
         /\ Updated(u, i).role = NewRole(u, i)
         /\ Updated(u, i).status = NewStatus(u, i)
<1> DEFINE a == IF i.password THEN NewPassword(account[u]) ELSE account[u]
<1>1. account[u] \in Account
  BY AccountFacts
<1>2. a \in Account
  BY <1>1, NewPasswordType
<1>3. NewRole(u, i) \in {"USER", "ADMIN"}
  BY AccountFacts, InputFacts DEF NewRole
<1>4. NewStatus(u, i) \in {"none", "ACTIVE", "SUSPENDED"}
  BY AccountFacts, InputFacts DEF NewStatus
<1>5. (i.role # "USER" /\ (account[u].credential \/ i.password)) \in BOOLEAN
  BY AccountFacts, InputFacts
<1>6. Updated(u, i) = [a EXCEPT !.role = NewRole(u, i), !.status = NewStatus(u, i),
                         !.credential = i.role # "USER" /\ (account[u].credential \/ i.password)]
  BY DEF Updated
<1> HIDE DEF a
<1> QED
  BY <1>2, <1>3, <1>4, <1>5, <1>6 DEF Account

LEMMA WriteUpdateKeeps ==
  ASSUME SessionsInv, NEW d \in Desks, WriteUpdate(d)
  PROVE  SessionsInv'
<1> DEFINE j == job[d]
<1>1. /\ j.pc = "write" /\ j.actor \in Users /\ j.target \in Users
      /\ j.input \in Inputs /\ Granted(d)
  BY DEF WriteUpdate, SessionsInv, Asked, Checked
<1>2. /\ account' = [account EXCEPT ![j.target] = Updated(j.target, j.input)]
      /\ RevokeAll(OfUser(j.target))
      /\ job' = [job EXCEPT ![d] = NoJob]
      /\ alarmed' = alarmed
      /\ j.input.password => account[j.target].password < MaxPasswords
  BY DEF WriteUpdate, Ends
<1>3. /\ Updated(j.target, j.input) \in Account
      /\ Updated(j.target, j.input).role = NewRole(j.target, j.input)
      /\ Updated(j.target, j.input).status = NewStatus(j.target, j.input)
  BY <1>1, <1>2, UpdatedType DEF Granted, SessionsInv
<1>4. account'[j.actor].role = "ADMIN" /\ account'[j.actor].status = "ACTIVE"
  <2>1. CASE j.actor = j.target
    <3>1. NewRole(j.target, j.input) = "ADMIN"
      BY <2>1, <1>1, InputFacts DEF Granted, OwnAccess, NewRole, Active
    <3>2. NewStatus(j.target, j.input) = "ACTIVE"
      BY <2>1, <1>1, InputFacts DEF Granted, OwnAccess, NewStatus, Active
    <3>3. account'[j.actor] = Updated(j.target, j.input)
      BY <1>1, <1>2, <2>1 DEF SessionsInv, SessionsTypeOK
    <3> QED
      BY <3>1, <3>2, <3>3, <1>3
  <2>2. CASE j.actor # j.target
    <3>1. account'[j.actor] = account[j.actor]
      BY <2>2, <1>1, <1>2 DEF SessionsInv, SessionsTypeOK
    <3> QED
      BY <3>1, <1>1 DEF Granted, Active
  <2> QED
    BY <2>1, <2>2
<1>5. AnAdminRemains'
  BY <1>1, <1>4 DEF AnAdminRemains, ActiveAdmins, Active
<1>6. /\ account' \in [Users -> Account] /\ session' \in [Families -> Session]
      /\ ended \subseteq ended' /\ ended' \subseteq Families
      /\ AccountsInv'
  BY <1>1, <1>2, <1>3, <1>5, WriteKeeps
<1>7. NoJob \in Job
  BY DEF NoJob, Job
<1>8. SessionsTypeOK'
  BY <1>2, <1>6, <1>7 DEF SessionsTypeOK, SessionsInv
<1>9. \A e \in Desks : job'[e] = IF e = d THEN NoJob ELSE job[e]
  BY <1>2 DEF SessionsInv, SessionsTypeOK
<1>10. \A e \in Desks : job'[e].pc # "write"
  BY <1>1, <1>9 DEF NoJob, SessionsInv, OneWrites
<1>11. Asked' /\ Checked' /\ OneWrites'
  BY <1>9, <1>10 DEF Asked, Checked, OneWrites, NoJob, SessionsInv
<1> QED
  BY <1>6, <1>8, <1>11 DEF SessionsInv, AccountsInv

----------------------------------------------------------------------------
(* Administrators' requests up to their last step. *)

\* A step that changes the request of desk d alone.
LEMMA DeskKeeps ==
  ASSUME SessionsInv, UNCHANGED <<account, session, ended, alarmed>>,
         NEW d \in Desks, NEW j \in Job, job' = [job EXCEPT ![d] = j],
         j.pc # "idle" => /\ j.actor \in Users /\ j.target \in Users
                          /\ j.pc # "create" => j.input \in Inputs,
         j.pc = "write" => /\ Active(j.actor, "ADMIN")
                           /\ j.actor = j.target => OwnAccess(j.input)
                           /\ \A e \in Desks : job[e].pc # "write"
  PROVE  SessionsInv'
<1> USE DEF SessionsInv
<1>1. \A e \in Desks : job'[e] = IF e = d THEN j ELSE job[e]
  BY DEF SessionsTypeOK
<1>2. SessionsTypeOK'
  BY DEF SessionsTypeOK
<1>3. Asked'
  BY <1>1 DEF Asked
<1>4. Checked'
  BY <1>1 DEF Checked, Granted, Active
<1>5. OneWrites'
  BY <1>1 DEF OneWrites
<1>6. Issued' /\ AnAdminRemains'
  BY DEF Issued, AnAdminRemains, ActiveAdmins, Active
<1>7. Matching'
  BY DEF Matching, LiveOf, Active, Unchanged
<1> QED
  BY <1>2, <1>3, <1>4, <1>5, <1>6, <1>7

LEMMA AdmitsFacts ==
  ASSUME SessionsInv, NEW f \in Families, Admits(f)
  PROVE  session[f].user \in Users
  BY DEF Admits, SessionsInv, Matching, LiveOf

LEMMA BeginUpdateKeeps ==
  ASSUME SessionsInv, NEW d \in Desks, NEW f \in Families, NEW u \in Users,
         NEW i \in Inputs, BeginUpdate(d, f, u, i)
  PROVE  SessionsInv'
<1> DEFINE j == [pc |-> "update", actor |-> session[f].user, target |-> u, input |-> i]
<1>1. job' = [job EXCEPT ![d] = j] /\ UNCHANGED <<account, session, ended, alarmed>>
  BY DEF BeginUpdate
<1>2. session[f].user \in Users
  BY AdmitsFacts DEF BeginUpdate
<1>3. j \in Job
  BY <1>2 DEF Job
<1> QED
  BY <1>1, <1>2, <1>3, DeskKeeps

LEMMA BeginCreateKeeps ==
  ASSUME SessionsInv, NEW d \in Desks, NEW f \in Families, NEW u \in Users,
         BeginCreate(d, f, u)
  PROVE  SessionsInv'
<1> DEFINE j == [pc |-> "create", actor |-> session[f].user, target |-> u, input |-> NoInput]
<1>1. job' = [job EXCEPT ![d] = j] /\ UNCHANGED <<account, session, ended, alarmed>>
  BY DEF BeginCreate
<1>2. session[f].user \in Users
  BY AdmitsFacts DEF BeginCreate
<1>3. j \in Job
  BY <1>2 DEF Job
<1> QED
  BY <1>1, <1>2, <1>3, DeskKeeps

LEMMA CheckUpdateKeeps ==
  ASSUME SessionsInv, NEW d \in Desks, CheckUpdate(d)
  PROVE  SessionsInv'
<1> USE DEF CheckUpdate
<1>1. job[d] \in Job /\ job[d].actor \in Users /\ job[d].target \in Users
  BY DEF SessionsInv, SessionsTypeOK, Asked
<1>2. CASE MayUpdate(job[d].actor, job[d].target, job[d].input)
  <2> DEFINE j == [job[d] EXCEPT !.pc = "write"]
  <2>1. job' = [job EXCEPT ![d] = j]
    BY <1>2 DEF SessionsInv, SessionsTypeOK
  <2>2. /\ j \in Job
        /\ j.actor = job[d].actor /\ j.target = job[d].target /\ j.input = job[d].input
    BY <1>1 DEF Job
  <2>3. /\ Active(job[d].actor, "ADMIN")
        /\ job[d].actor = job[d].target => OwnAccess(job[d].input)
    BY <1>2 DEF MayUpdate
  <2>4. \A e \in Desks : job[e].pc # "write"
    BY DEF Lockable
  <2>5. job[d].input \in Inputs
    BY DEF SessionsInv, Asked
  <2> HIDE DEF j
  <2> QED
    BY <1>1, <2>1, <2>2, <2>3, <2>4, <2>5, DeskKeeps
<1>3. CASE ~MayUpdate(job[d].actor, job[d].target, job[d].input)
  <2>1. job' = [job EXCEPT ![d] = NoJob]
    BY <1>3 DEF Ends
  <2>2. NoJob \in Job /\ NoJob.pc = "idle"
    BY DEF NoJob, Job
  <2> QED
    BY <2>1, <2>2, DeskKeeps
<1> QED
  BY <1>2, <1>3

LEMMA CreateStaffKeeps ==
  ASSUME SessionsInv, NEW d \in Desks, CreateStaff(d)
  PROVE  SessionsInv'
<1> DEFINE u == job[d].target
<1>1. u \in Users /\ job' = [job EXCEPT ![d] = NoJob] /\ UNCHANGED <<session, ended, alarmed>>
  BY DEF CreateStaff, Ends, SessionsInv, Asked
<1>2. NoJob \in Job /\ NoJob.pc = "idle"
  BY DEF NoJob, Job
<1>3. CASE account[u].status # "none"
  <2>1. UNCHANGED account
    BY <1>3 DEF CreateStaff
  <2> QED
    BY <1>1, <1>2, <2>1, DeskKeeps
<1>4. CASE account[u].status = "none"
  <2>1. account' = [account EXCEPT ![u] = NewAdmin]
    BY <1>4 DEF CreateStaff
  <2>2. NewAdmin \in Account
    BY DEF NewAdmin, Account
  <2> USE DEF SessionsInv
  <2>3. SessionsTypeOK'
    BY <1>1, <1>2, <2>1, <2>2 DEF SessionsTypeOK
  <2>4. \A v \in Users : account[v].status = "ACTIVE" => account'[v] = account[v]
    BY <1>4, <2>1 DEF SessionsTypeOK
  <2>5. Matching'
    <3> SUFFICES ASSUME NEW g \in Families, session'[g].live # {} PROVE LiveOf(g)'
      BY DEF Matching
    <3>1. LiveOf(g)
      BY <1>1 DEF Matching
    <3>2. account'[session[g].user] = account[session[g].user]
      BY <3>1, <2>4 DEF LiveOf, Active
    <3> QED
      BY <1>1, <3>1, <3>2 DEF LiveOf, Active, Unchanged
  <2>6. Issued'
    BY <1>1 DEF Issued
  <2>7. \A v \in Users : Active(v, "ADMIN") => Active(v, "ADMIN")'
    BY <2>4 DEF Active
  <2>8. AnAdminRemains'
    BY <2>7 DEF AnAdminRemains, ActiveAdmins
  <2>9. \A e \in Desks : job'[e] = IF e = d THEN NoJob ELSE job[e]
    BY <1>1 DEF SessionsTypeOK
  <2>10. Asked' /\ OneWrites'
    BY <1>2, <2>9 DEF Asked, OneWrites
  <2>11. Checked'
    <3> SUFFICES ASSUME NEW e \in Desks, job'[e].pc = "write" PROVE Granted(e)'
      BY DEF Checked
    <3>1. e # d /\ job'[e] = job[e] /\ Granted(e) /\ job[e].actor \in Users
      BY <1>2, <2>9 DEF Checked, Asked
    <3> QED
      BY <2>7, <3>1 DEF Granted, OwnAccess
  <2> QED
    BY <2>3, <2>5, <2>6, <2>8, <2>10, <2>11
<1> QED
  BY <1>3, <1>4

----------------------------------------------------------------------------
(* The steps together. *)

LEMMA ServerStepKeeps == SessionsInv /\ [ServerNext]_server => SessionsInv'
<1> SUFFICES ASSUME SessionsInv, [ServerNext]_server PROVE SessionsInv'
  OBVIOUS
<1>1. CASE \E u \in Users : \/ Register(u)
                            \/ \E p \in 0..MaxPasswords : ChangePassword(u, p)
                            \/ \E f \in Families : SignInOAuth(u, f)
                            \/ \E p, q \in 0..MaxPasswords, f \in Families : SignInStaff(u, p, q, f)
  BY <1>1, RegisterKeeps, ChangePasswordKeeps, SignInOAuthKeeps, SignInStaffKeeps
<1>2. ASSUME NEW f \in Families, Logout(f)
      PROVE  SessionsInv'
  BY <1>2, EndFamilyKeeps DEF Logout
<1>3. ASSUME NEW f \in Families, NEW n \in 0..MaxRotations, Alarm(f, n)
      PROVE  SessionsInv'
  BY <1>3, EndFamilyKeeps DEF Alarm
<1>4. CASE \E f \in Families : \/ Logout(f) \/ Expire(f)
                               \/ \E n \in 0..MaxRotations : Alarm(f, n) \/ Rotate(f, n)
  BY <1>2, <1>3, <1>4, RotateKeeps, ExpireKeeps
<1>5. CASE \E d \in Desks :
             \/ DeskStep(d)
             \/ \E f \in Families, u \in Users :
                  BeginCreate(d, f, u) \/ \E i \in Inputs : BeginUpdate(d, f, u, i)
  BY <1>5, CheckUpdateKeeps, WriteUpdateKeeps, CreateStaffKeeps, BeginCreateKeeps,
     BeginUpdateKeeps DEF DeskStep
<1>6. CASE UNCHANGED server
  BY <1>6 DEF server, SessionsInv, SessionsTypeOK, Issued, Matching, LiveOf, Asked, Checked,
              Granted, OneWrites, AnAdminRemains, ActiveAdmins, Active, Unchanged
<1> QED
  BY <1>1, <1>4, <1>5, <1>6 DEF ServerNext

LEMMA SessionsInvImplies ==
  ASSUME SessionsInv
  PROVE  SessionsTypeOK /\ SessionsMatchAccount /\ EndedStaysEnded /\ AnAdminRemains
<1>1. SessionsMatchAccount
  BY DEF SessionsMatchAccount, SessionsInv, Matching, LiveOf
<1>2. EndedStaysEnded
  BY DEF EndedStaysEnded, SessionsInv, SessionsTypeOK, Matching, LiveOf
<1> QED
  BY <1>1, <1>2 DEF SessionsInv

LEMMA ServerInvariant == ServerSpec => []SessionsInv
  BY InitSessions, ServerStepKeeps, PTL DEF ServerSpec

(* Accounts, sessions, requests and histories keep their types: no counter *)
(* of tokens or passwords leaves its range.                                *)
THEOREM ServerTypes == ServerSpec => []SessionsTypeOK
  BY ServerInvariant, SessionsInvImplies, PTL

(* No token of a family that was revoked counts again, whatever sign-in,   *)
(* refresh or update of an administrator was under way (auth.service.ts).  *)
THEOREM RevokedForGood == ServerSpec => []EndedStaysEnded
  BY ServerInvariant, SessionsInvImplies, PTL

(* A token that counts is the last of its family and belongs to an active  *)
(* account with the role and the password of the sign-in.                  *)
THEOREM SessionsMatch == ServerSpec => []SessionsMatchAccount
  BY ServerInvariant, SessionsInvImplies, PTL

(* Administrators who update one another at once leave one who is active   *)
(* (admin-users.service.ts).                                               *)
THEOREM AdminRemains == ServerSpec => []AnAdminRemains
  BY ServerInvariant, SessionsInvImplies, PTL

----------------------------------------------------------------------------
(* The tabs. *)

USE ClientAssumption, SessionAssumption DEF vars, client

(* A call that is for an account names it; tokens are of a family.         *)
ForAccount == {"login", "oauth", "password"}

GoodCalls == {c \in Call : c.kind \in ForAccount /\ c.phase # "idle" => c.user \in Users}

Tokens == Token \cup {NoToken}

ClientInv ==
  /\ cookie \in [Browsers -> Tokens]
  /\ shown \in [Tabs -> Tokens]
  /\ call \in [Tabs -> [Kinds -> GoodCalls]]
  /\ stray \subseteq GoodCalls

\* What a step of a tab or of the server on its behalf keeps.
Fits == [ServerNext]_server /\ ClientInv'

----------------------------------------------------------------------------
LEMMA TokenFacts ==
  ASSUME NEW c \in Tokens, c # NoToken
  PROVE  c.family \in Families /\ c.n \in 0..MaxRotations
  BY DEF Tokens, Token

LEMMA NoTokenType == NoToken \in Tokens
  BY DEF Tokens

LEMMA FirstTokenType ==
  ASSUME NEW f \in Families
  PROVE  TokenOf(f, 0) \in Tokens
  BY DEF TokenOf, Tokens, Token

LEMMA TokenType ==
  ASSUME NEW f \in Families, NEW n \in 0..MaxRotations
  PROVE  TokenOf(f, n) \in Tokens
  BY DEF TokenOf, Tokens, Token

LEMMA GoodFacts ==
  ASSUME NEW c \in GoodCalls
  PROVE  /\ c \in Call
         /\ c.kind \in Kinds /\ c.token \in Tokens
         /\ c.phase \in {"idle", "queued", "sent", "read", "answered"}
         /\ c.kind \in ForAccount /\ c.phase # "idle" => c.user \in Users
         /\ c.typed \in 0..MaxPasswords /\ c.read \in 0..MaxPasswords
  BY DEF GoodCalls, Call, Tokens

LEMMA IdleGood ==
  ASSUME NEW k \in Kinds
  PROVE  Idle(k) \in GoodCalls
<1>1. Idle(k) \in Call
  BY DEF Idle, Call, Answer, Kinds
<1>2. Idle(k).phase = "idle"
  BY DEF Idle
<1> QED
  BY <1>1, <1>2 DEF GoodCalls

LEMMA QueuedGood ==
  ASSUME NEW k \in {"refresh", "logout"}
  PROVE  Queued(k) \in GoodCalls
<1>1. Idle(k) \in Call /\ Idle(k).kind = k
  BY IdleGood, GoodFacts DEF Idle, Kinds, LockedKinds
<1>2. Queued(k) \in Call /\ Queued(k).kind = k
  BY <1>1 DEF Queued, Call
<1> QED
  BY <1>2 DEF GoodCalls, ForAccount

LEMMA StaleGood ==
  ASSUME NEW c \in GoodCalls
  PROVE  Stale(c) \in GoodCalls
<1>1. Stale(c) \in Call /\ Stale(c).kind = c.kind /\ Stale(c).phase = c.phase
      /\ Stale(c).user = c.user
  BY GoodFacts DEF Stale, Call
<1> QED
  BY <1>1, GoodFacts DEF GoodCalls

\* A call goes on for the account it is for.
LEMMA NextPhaseGood ==
  ASSUME NEW c \in GoodCalls, c.phase # "idle", NEW d \in Call,
         d.kind = c.kind, d.user = c.user
  PROVE  d \in GoodCalls
  BY GoodFacts DEF GoodCalls

LEMMA AnsweredGood ==
  ASSUME NEW c \in GoodCalls, c.phase # "idle", NEW a \in Answer, NEW x \in Tokens
  PROVE  Answered(c, a, x) \in GoodCalls /\ Answered(c, a, x).kind = c.kind
<1>1. /\ Answered(c, a, x) \in Call
      /\ Answered(c, a, x).kind = c.kind /\ Answered(c, a, x).user = c.user
  BY GoodFacts DEF Answered, Call, Tokens
<1> QED
  BY <1>1, NextPhaseGood

LEMMA DeniedGood ==
  ASSUME NEW c \in GoodCalls, c.phase # "idle"
  PROVE  Denied(c) \in GoodCalls /\ Denied(c).kind = c.kind
  BY AnsweredGood, GoodFacts DEF Denied, Answer

LEMMA EpochGood ==
  ASSUME ClientInv, NEW t \in Tabs, NEW K
  PROVE  NextEpoch(t, K) \in [Kinds -> GoodCalls]
<1>1. \A k \in Kinds : call[t][k] \in GoodCalls
  BY DEF ClientInv
<1> QED
  BY <1>1, StaleGood DEF NextEpoch

LEMMA PutCall ==
  ASSUME ClientInv, NEW t \in Tabs, NEW k \in Kinds, NEW c \in GoodCalls,
         call' = [call EXCEPT ![t][k] = c]
  PROVE  call' \in [Tabs -> [Kinds -> GoodCalls]]
<1>1. [call[t] EXCEPT ![k] = c] \in [Kinds -> GoodCalls]
  BY DEF ClientInv
<1>2. call' = [call EXCEPT ![t] = [call[t] EXCEPT ![k] = c]]
  BY DEF ClientInv
<1> QED
  BY <1>1, <1>2 DEF ClientInv

LEMMA PutCalls ==
  ASSUME ClientInv, NEW t \in Tabs, NEW r \in [Kinds -> GoodCalls],
         call' = [call EXCEPT ![t] = r]
  PROVE  call' \in [Tabs -> [Kinds -> GoodCalls]]
  BY DEF ClientInv

----------------------------------------------------------------------------
(* What the server makes of a call is a step of the server on its own.     *)

\* The call p is served with the answer d.
LEMMA ReplyKeeps ==
  ASSUME ClientInv, NEW p, p.call \in GoodCalls, p.own => p.tab \in Tabs,
         NEW d \in GoodCalls, Reply(p, d), UNCHANGED <<cookie, shown>>
  PROVE  ClientInv'
<1>1. d.kind \in Kinds
  BY GoodFacts
<1>2. call' \in [Tabs -> [Kinds -> GoodCalls]]
  BY <1>1, PutCall DEF Reply, ClientInv
<1>3. stray' \subseteq GoodCalls
  BY DEF Reply, ClientInv
<1> QED
  BY <1>2, <1>3 DEF ClientInv

LEMMA RefreshFits ==
  ASSUME SessionsInv, ClientInv, NEW p, p.call \in GoodCalls, p.own => p.tab \in Tabs,
         HandleRefresh(p), UNCHANGED <<cookie, shown>>
  PROVE  Fits
<1> DEFINE c == p.call  f == c.token.family  n == c.token.n
<1>1. c.phase = "sent" /\ c.token \in Tokens /\ Denied(c) \in GoodCalls
  BY GoodFacts, DeniedGood DEF HandleRefresh
<1>2. c.token # NoToken => f \in Families /\ n \in 0..MaxRotations
  BY <1>1, TokenFacts
<1>3. CASE Reply(p, Denied(c)) /\ UNCHANGED server
  BY <1>1, <1>3, ReplyKeeps DEF Fits
<1>4. CASE c.token # NoToken /\ Alarm(f, n) /\ Reply(p, Denied(c))
  BY <1>1, <1>2, <1>4, ReplyKeeps DEF Fits, ServerNext
<1>5. CASE c.token # NoToken /\ Rotate(f, n)
           /\ Reply(p, Answered(c, "ok", TokenOf(f, session[f].last + 1)))
  <2>1. session[f].last + 1 \in 0..MaxRotations
    <3>1. session[f].last \in 0..MaxRotations
      BY <1>2, <1>5, SessionFacts DEF SessionsInv
    <3>2. session[f].last < MaxRotations
      BY <1>5 DEF Rotate
    <3> QED
      BY <3>1, <3>2
  <2>2. TokenOf(f, session[f].last + 1) \in Tokens
    BY <1>2, <1>5, <2>1, TokenType
  <2>3. Answered(c, "ok", TokenOf(f, session[f].last + 1)) \in GoodCalls
    BY <1>1, <2>2, AnsweredGood DEF Answer
  <2>4. ClientInv'
    BY <1>5, <2>3, ReplyKeeps
  <2> QED
    BY <1>2, <1>5, <2>4 DEF Fits, ServerNext
<1> QED
  BY <1>3, <1>4, <1>5 DEF HandleRefresh

LEMMA LogoutFits ==
  ASSUME ClientInv, NEW p, p.call \in GoodCalls, p.own => p.tab \in Tabs,
         HandleLogout(p), UNCHANGED <<cookie, shown>>
  PROVE  Fits
<1> DEFINE c == p.call
<1>1. c.phase = "sent" /\ c.token \in Tokens
  BY GoodFacts DEF HandleLogout
<1>2. Answered(c, "ok", NoToken) \in GoodCalls
  BY <1>1, AnsweredGood, NoTokenType DEF Answer
<1>3. ClientInv'
  BY <1>2, ReplyKeeps DEF HandleLogout
<1>4. [ServerNext]_server
  BY <1>1, TokenFacts DEF HandleLogout, ServerNext
<1> QED
  BY <1>3, <1>4 DEF Fits

LEMMA CredentialFits ==
  ASSUME SessionsInv, ClientInv, NEW p, p.call \in GoodCalls, p.own => p.tab \in Tabs,
         ReadCredential(p), UNCHANGED <<cookie, shown>>
  PROVE  Fits
<1> DEFINE c == p.call
<1>1. c.phase = "sent" /\ c.user \in Users /\ Denied(c) \in GoodCalls
  BY GoodFacts, DeniedGood DEF ReadCredential, ForAccount
<1>2. account[c.user].password \in 0..MaxPasswords
  BY <1>1, AccountFacts DEF SessionsInv
<1>3. [c EXCEPT !.phase = "read", !.read = account[c.user].password] \in GoodCalls
  <2> DEFINE d == [c EXCEPT !.phase = "read", !.read = account[c.user].password]
  <2>1. c \in Call
    BY GoodFacts
  <2>2. d \in Call /\ d.kind = c.kind /\ d.user = c.user
    BY <2>1, <1>2 DEF Call
  <2> HIDE DEF d
  <2>3. d \in GoodCalls
    BY <1>1, <2>2, NextPhaseGood
  <2> QED
    BY <2>3 DEF d
<1>4. ClientInv'
  BY <1>1, <1>3, ReplyKeeps DEF ReadCredential
<1> QED
  BY <1>4 DEF Fits, ReadCredential

LEMMA LoginFits ==
  ASSUME ClientInv, NEW p, p.call \in GoodCalls, p.own => p.tab \in Tabs,
         HandleLogin(p), UNCHANGED <<cookie, shown>>
  PROVE  Fits
<1> DEFINE c == p.call
<1>1. /\ c.phase = "read" /\ c.user \in Users /\ Denied(c) \in GoodCalls
      /\ c.read \in 0..MaxPasswords /\ c.typed \in 0..MaxPasswords
  BY GoodFacts, DeniedGood DEF HandleLogin, ForAccount
<1>2. ASSUME NEW f \in Families, SignInStaff(c.user, c.read, c.typed, f),
             Reply(p, Answered(c, "ok", TokenOf(f, 0)))
      PROVE  Fits
  <2>1. Answered(c, "ok", TokenOf(f, 0)) \in GoodCalls
    BY <1>1, AnsweredGood, FirstTokenType DEF Answer
  <2>2. ClientInv'
    BY <1>2, <2>1, ReplyKeeps
  <2> QED
    BY <1>1, <1>2, <2>2 DEF Fits, ServerNext
<1>3. CASE Reply(p, Denied(c)) /\ UNCHANGED server
  BY <1>1, <1>3, ReplyKeeps DEF Fits
<1> QED
  BY <1>2, <1>3 DEF HandleLogin

LEMMA IdentityFits ==
  ASSUME ClientInv, NEW p, p.call \in GoodCalls, p.own => p.tab \in Tabs,
         FindIdentity(p), UNCHANGED <<cookie, shown>>
  PROVE  Fits
<1> DEFINE c == p.call  d == [c EXCEPT !.phase = "read"]
<1>1. c.phase = "sent" /\ c.user \in Users /\ Denied(c) \in GoodCalls
  BY GoodFacts, DeniedGood DEF FindIdentity, ForAccount
<1>2. d \in GoodCalls
  <2>1. d \in Call /\ d.kind = c.kind /\ d.user = c.user
    BY GoodFacts DEF Call
  <2> HIDE DEF d
  <2> QED
    BY <1>1, <2>1, NextPhaseGood
<1>3. ClientInv'
  BY <1>1, <1>2, ReplyKeeps DEF FindIdentity
<1>4. [ServerNext]_server
  BY <1>1 DEF FindIdentity, ServerNext
<1> QED
  BY <1>3, <1>4 DEF Fits

LEMMA OAuthFits ==
  ASSUME ClientInv, NEW p, p.call \in GoodCalls, p.own => p.tab \in Tabs,
         HandleOAuth(p), UNCHANGED <<cookie, shown>>
  PROVE  Fits
<1> DEFINE c == p.call
<1>1. c.phase = "read" /\ c.user \in Users /\ Denied(c) \in GoodCalls
  BY GoodFacts, DeniedGood DEF HandleOAuth, ForAccount
<1>2. ASSUME NEW f \in Families, SignInOAuth(c.user, f),
             Reply(p, Answered(c, "ok", TokenOf(f, 0)))
      PROVE  Fits
  <2>1. Answered(c, "ok", TokenOf(f, 0)) \in GoodCalls
    BY <1>1, AnsweredGood, FirstTokenType DEF Answer
  <2>2. ClientInv'
    BY <1>2, <2>1, ReplyKeeps
  <2> QED
    BY <1>1, <1>2, <2>2 DEF Fits, ServerNext
<1>3. CASE Reply(p, Denied(c)) /\ UNCHANGED server
  BY <1>1, <1>3, ReplyKeeps DEF Fits
<1> QED
  BY <1>2, <1>3 DEF HandleOAuth

LEMMA PasswordFits ==
  ASSUME ClientInv, NEW p, p.call \in GoodCalls, p.own => p.tab \in Tabs,
         HandlePassword(p), UNCHANGED <<cookie, shown>>
  PROVE  Fits
<1> DEFINE c == p.call
<1>1. /\ c.phase = "read" /\ c.user \in Users /\ Denied(c) \in GoodCalls
      /\ c.typed \in 0..MaxPasswords
  BY GoodFacts, DeniedGood DEF HandlePassword, ForAccount
<1>2. Answered(c, "ok", NoToken) \in GoodCalls
  BY <1>1, AnsweredGood, NoTokenType DEF Answer
<1>3. ClientInv'
  BY <1>1, <1>2, ReplyKeeps DEF HandlePassword
<1>4. [ServerNext]_server
  BY <1>1 DEF HandlePassword, ServerNext
<1> QED
  BY <1>3, <1>4 DEF Fits

LEMMA ServeFits ==
  ASSUME SessionsInv, ClientInv, NEW p, p.call \in GoodCalls, p.own => p.tab \in Tabs,
         Serve(p)
  PROVE  Fits
  BY RefreshFits, LogoutFits, CredentialFits, LoginFits, IdentityFits, OAuthFits,
     PasswordFits DEF Serve

----------------------------------------------------------------------------
(* The tabs. *)

LEMMA UnloadsKeeps ==
  ASSUME ClientInv, NEW t \in Tabs, Unloads(t)
  PROVE  shown' \in [Tabs -> Tokens] /\ stray' \subseteq GoodCalls
  BY NoTokenType DEF Unloads, ClientInv

LEMMA AskFits ==
  ASSUME SessionsInv, ClientInv, NEW t \in Tabs, Ask(t)
  PROVE  Fits
<1>1. shown[t] \in Tokens
  BY DEF ClientInv
<1>2. ASSUME RefreshSession(t)
      PROVE  Fits
  <2>1. Queued("refresh") \in GoodCalls
    BY QueuedGood
  <2>2. call' \in [Tabs -> [Kinds -> GoodCalls]]
    BY <1>2, <2>1, PutCall DEF RefreshSession, Kinds, LockedKinds
  <2> QED
    BY <1>2, <2>2 DEF RefreshSession, Fits, ClientInv
<1>3. ASSUME SignOut(t)
      PROVE  Fits
  <2>1. [NextEpoch(t, {}) EXCEPT !["logout"] = Queued("logout")] \in [Kinds -> GoodCalls]
    BY EpochGood, QueuedGood DEF Kinds, LockedKinds
  <2>2. call' \in [Tabs -> [Kinds -> GoodCalls]]
    BY <1>3, <2>1, PutCalls DEF SignOut
  <2> QED
    BY <1>3, <2>2 DEF SignOut, Fits, ClientInv
<1>4. ASSUME SendPassword(t)
      PROVE  Fits
  <2> DEFINE u == session[shown[t].family].user
             d == [Idle("password") EXCEPT !.phase = "read", !.user = u,
                                           !.typed = account[u].password]
  <2>1. u \in Users
    BY <1>1, <1>4, TokenFacts, AdmitsFacts DEF SendPassword
  <2>2. account[u].password \in 0..MaxPasswords
    BY <2>1, AccountFacts DEF SessionsInv
  <2>3. call' = [call EXCEPT ![t]["password"] = d]
    BY <1>4 DEF SendPassword
  <2>4. Idle("password") \in Call /\ "password" \in Kinds
    BY IdleGood, GoodFacts DEF Kinds
  <2> HIDE DEF u
  <2>5. d \in Call /\ d.user = u
    BY <2>1, <2>2, <2>4 DEF Call
  <2> HIDE DEF d
  <2>6. d \in GoodCalls
    BY <2>1, <2>5 DEF GoodCalls
  <2>7. call' \in [Tabs -> [Kinds -> GoodCalls]]
    BY <2>3, <2>4, <2>6, PutCall
  <2> QED
    BY <1>4, <2>7 DEF SendPassword, Fits, ClientInv
<1>5. ASSUME Administer(t)
      PROVE  Fits
  <2>1. shown[t].family \in Families
    BY <1>1, <1>5, TokenFacts DEF Administer
  <2> QED
    BY <1>5, <2>1 DEF Administer, Fits, ClientInv, ServerNext
<1>6. ASSUME NEW u \in Owners[Home[t]], StaffLogin(t, u)
      PROVE  Fits
  <2> DEFINE d == [Queued("login") EXCEPT !.user = u, !.typed = account[u].password]
  <2>1. u \in Users /\ account[u].password \in 0..MaxPasswords
    BY AccountFacts DEF SessionsInv
  <2>2. Queued("login") \in Call
    <3>1. Idle("login") \in Call
      BY IdleGood, GoodFacts DEF Kinds, LockedKinds
    <3> QED
      BY <3>1 DEF Queued, Call
  <2>3. d \in Call /\ d.user = u
    BY <2>1, <2>2 DEF Call
  <2>4. call' = [call EXCEPT ![t] = [NextEpoch(t, {}) EXCEPT !["login"] = d]]
    BY <1>6 DEF StaffLogin
  <2> HIDE DEF d
  <2>5. d \in GoodCalls
    BY <2>1, <2>3 DEF GoodCalls
  <2>6. [NextEpoch(t, {}) EXCEPT !["login"] = d] \in [Kinds -> GoodCalls]
    BY <2>5, EpochGood
  <2>7. call' \in [Tabs -> [Kinds -> GoodCalls]]
    BY <2>4, <2>6, PutCalls
  <2> QED
    BY <1>6, <2>7 DEF StaffLogin, Fits, ClientInv
<1>7. ASSUME NEW u \in Owners[Home[t]], BeginOAuth(t, u)
      PROVE  Fits
  <2> DEFINE d == [Idle("oauth") EXCEPT !.phase = "sent", !.user = u]
             r == [k \in Kinds |-> IF k = "oauth" THEN d ELSE Idle(k)]
  <2>1. u \in Users
    OBVIOUS
  <2>2. Idle("oauth") \in Call
    BY IdleGood, GoodFacts DEF Kinds
  <2>3. d \in Call /\ d.user = u
    BY <2>1, <2>2 DEF Call
  <2>4. call' = [call EXCEPT ![t] = r]
    BY <1>7 DEF BeginOAuth
  <2> HIDE DEF d
  <2>5. d \in GoodCalls
    BY <2>1, <2>3 DEF GoodCalls
  <2>6. r \in [Kinds -> GoodCalls]
    BY <2>5, IdleGood
  <2> HIDE DEF r
  <2>7. call' \in [Tabs -> [Kinds -> GoodCalls]]
    BY <2>4, <2>6, PutCalls
  <2> QED
    BY <1>7, <2>7, UnloadsKeeps DEF BeginOAuth, Fits, ClientInv
<1> QED
  BY <1>2, <1>3, <1>4, <1>5, <1>6, <1>7 DEF Ask

LEMMA ReceiveFits ==
  ASSUME ClientInv, NEW t \in Tabs, Receive(t)
  PROVE  Fits
<1>1. \A k \in Kinds : call[t][k] \in GoodCalls /\ call[t][k].token \in Tokens
  BY GoodFacts DEF ClientInv
<1>2. Home[t] \in Browsers
  OBVIOUS
<1>3. ASSUME NEW k \in Kinds, ReceiveSession(t, k)
      PROVE  Fits
  <2>1. call' \in [Tabs -> [Kinds -> GoodCalls]]
    BY <1>3, IdleGood, PutCall DEF ReceiveSession, EndCall
  <2>2. cookie' \in [Browsers -> Tokens]
    BY <1>1, <1>2, <1>3 DEF ReceiveSession, Takes, SetCookie, ClientInv
  <2>3. shown' \in [Tabs -> Tokens]
    BY <1>1, <1>3, NoTokenType DEF ReceiveSession, Shows, ClientInv
  <2> QED
    BY <1>3, <2>1, <2>2, <2>3 DEF ReceiveSession, Fits, ClientInv
<1>4. ASSUME ReceiveLogout(t)
      PROVE  Fits
  <2>1. call' \in [Tabs -> [Kinds -> GoodCalls]]
    BY <1>4, IdleGood, PutCall DEF ReceiveLogout, EndCall, Kinds, LockedKinds
  <2>2. cookie' \in [Browsers -> Tokens] /\ shown' \in [Tabs -> Tokens]
    BY <1>2, <1>4, NoTokenType DEF ReceiveLogout, SetCookie, Shows, ClientInv
  <2> QED
    BY <1>4, <2>1, <2>2 DEF ReceiveLogout, Fits, ClientInv
<1>5. ASSUME ReceiveOAuth(t)
      PROVE  Fits
  <2> DEFINE r == [call[t] EXCEPT !["oauth"] = Idle("oauth"), !["refresh"] = Queued("refresh")]
  <2>1. r \in [Kinds -> GoodCalls]
    BY IdleGood, QueuedGood DEF ClientInv, Kinds, LockedKinds
  <2>2. call' = [call EXCEPT ![t] = r]
    BY <1>5 DEF ReceiveOAuth, ClientInv
  <2> HIDE DEF r
  <2>3. call' \in [Tabs -> [Kinds -> GoodCalls]]
    BY <2>1, <2>2, PutCalls
  <2>4. cookie' \in [Browsers -> Tokens]
    BY <1>1, <1>2, <1>5 DEF ReceiveOAuth, Takes, SetCookie, ClientInv, Kinds
  <2> QED
    BY <1>5, <2>3, <2>4 DEF ReceiveOAuth, Fits, ClientInv
<1>6. ASSUME ReceivePassword(t)
      PROVE  Fits
  <2> DEFINE r == [NextEpoch(t, {}) EXCEPT !["password"] = Idle("password"),
                                           !["logout"] = Queued("logout")]
  <2>1. r \in [Kinds -> GoodCalls]
    BY EpochGood, IdleGood, QueuedGood DEF Kinds, LockedKinds
  <2> HIDE DEF r
  <2>2. \/ call' = [call EXCEPT ![t] = r]
        \/ call' = [call EXCEPT ![t]["password"] = Idle("password")]
    BY <1>6 DEF ReceivePassword, r
  <2>3. call' \in [Tabs -> [Kinds -> GoodCalls]]
    BY <2>1, <2>2, PutCalls, PutCall, IdleGood DEF Kinds
  <2>4. cookie' \in [Browsers -> Tokens]
    BY <1>1, <1>2, <1>6, NoTokenType
    DEF ReceivePassword, Takes, SetCookie, ClientInv, Kinds
  <2> QED
    BY <1>6, <2>3, <2>4 DEF ReceivePassword, Fits, ClientInv
<1> QED
  BY <1>3, <1>4, <1>5, <1>6 DEF Receive

LEMMA OtherTabStepsFit ==
  ASSUME SessionsInv, ClientInv, NEW t \in Tabs,
         \/ Expired(t) \/ Reload(t) \/ Desk(t)
         \/ \E k \in Kinds : Grant(t, k) \/ Lose(t, k)
  PROVE  Fits
<1>1. ASSUME Expired(t)
      PROVE  Fits
  <2>1. call' \in [Tabs -> [Kinds -> GoodCalls]]
    BY <1>1, EpochGood, PutCalls DEF Expired
  <2> QED
    BY <1>1, <2>1, NoTokenType DEF Expired, Fits, ClientInv
<1>2. ASSUME Reload(t)
      PROVE  Fits
  <2> DEFINE r == [k \in Kinds |-> IF k = "refresh" THEN Queued(k) ELSE Idle(k)]
  <2>1. r \in [Kinds -> GoodCalls]
    BY IdleGood, QueuedGood
  <2>2. call' = [call EXCEPT ![t] = r]
    BY <1>2 DEF Reload
  <2> HIDE DEF r
  <2>3. call' \in [Tabs -> [Kinds -> GoodCalls]]
    BY <2>1, <2>2, PutCalls
  <2> QED
    BY <1>2, <2>3, UnloadsKeeps DEF Reload, Fits, ClientInv
<1>3. ASSUME Desk(t)
      PROVE  Fits
  BY <1>3 DEF Desk, Fits, ClientInv, ServerNext
<1>4. ASSUME NEW k \in Kinds, Grant(t, k)
      PROVE  Fits
  <2> DEFINE c == call[t][k]
             d == [c EXCEPT !.phase = "sent", !.token = cookie[Home[t]]]
  <2>1. c \in GoodCalls /\ c \in Call /\ cookie[Home[t]] \in Tokens
    BY GoodFacts DEF ClientInv
  <2>2. c.phase = "queued"
    BY <1>4 DEF Grant
  <2>3. d \in Call /\ d.kind = c.kind /\ d.user = c.user
    <3> HIDE DEF c
    <3> QED
      BY <2>1 DEF Call, Tokens
  <2>4. \/ call' = [call EXCEPT ![t][k] = Idle(k)]
        \/ call' = [call EXCEPT ![t][k] = d]
    BY <1>4 DEF Grant, ClientInv
  <2>5. call' \in [Tabs -> [Kinds -> GoodCalls]]
    <3> HIDE DEF c, d
    <3>1. d \in GoodCalls
      BY <2>1, <2>2, <2>3, NextPhaseGood
    <3> QED
      BY <2>4, <3>1, PutCall, IdleGood
  <2> QED
    BY <1>4, <2>5 DEF Grant, Fits, ClientInv
<1>5. ASSUME NEW k \in Kinds, Lose(t, k)
      PROVE  Fits
  <2>1. call[t][k] \in GoodCalls
    BY DEF ClientInv
  <2>2. call' \in [Tabs -> [Kinds -> GoodCalls]]
    BY <1>5, IdleGood, PutCall DEF Lose, EndCall
  <2>3. stray' \subseteq GoodCalls
    BY <1>5, <2>1 DEF Lose, ClientInv
  <2>4. shown' \in [Tabs -> Tokens]
    BY <1>5, NoTokenType DEF Lose, Shows, ClientInv
  <2> QED
    BY <1>5, <2>2, <2>3, <2>4 DEF Lose, Fits, ClientInv
<1> QED
  BY <1>1, <1>2, <1>3, <1>4, <1>5

----------------------------------------------------------------------------
(* The steps together. *)

LEMMA InitClient == Init => ClientInv
<1> SUFFICES ASSUME Init PROVE ClientInv
  OBVIOUS
<1>1. \A b \in Browsers : TokenOf(SignedIn[b], 0) \in Tokens
  <2> SUFFICES ASSUME NEW b \in Browsers PROVE TokenOf(SignedIn[b], 0) \in Tokens
    OBVIOUS
  <2>1. CASE SignedIn[b] = "none"
    BY <2>1, NoTokenType DEF TokenOf, NoToken
  <2>2. CASE SignedIn[b] \in Families
    BY <2>2, FirstTokenType
  <2> QED
    BY <2>1, <2>2
<1>2. \A k \in Kinds : Idle(k) \in GoodCalls
  BY IdleGood
<1> QED
  BY <1>1, <1>2 DEF Init, ClientInit, ClientInv

LEMMA ClientStepFits ==
  ASSUME SessionsInv, ClientInv, [Next]_vars
  PROVE  Fits
<1>1. ASSUME NEW t \in Tabs, NEW k \in Kinds, Serve(Own(t, k))
      PROVE  Fits
  <2>1. Own(t, k).call \in GoodCalls /\ Own(t, k).tab \in Tabs
    BY DEF Own, ClientInv
  <2> QED
    BY <1>1, <2>1, ServeFits
<1>2. ASSUME NEW c \in stray, Serve(Stray(c))
      PROVE  Fits
  <2>1. Stray(c).call \in GoodCalls /\ ~Stray(c).own
    BY DEF Stray, ClientInv
  <2> QED
    BY <1>2, <2>1, ServeFits
<1>3. ASSUME NEW t \in Tabs, TabStep(t)
      PROVE  Fits
  BY <1>1, <1>3, AskFits, ReceiveFits, OtherTabStepsFit DEF TabStep
<1>4. ASSUME NEW f \in Families, SessionExpires(f)
      PROVE  Fits
  BY <1>4, NoTokenType DEF SessionExpires, Fits, ClientInv, ServerNext
<1>5. CASE UNCHANGED vars
  BY <1>5 DEF Fits, ClientInv
<1> QED
  BY <1>2, <1>3, <1>4, <1>5 DEF Next

LEMMA ClientInvariant == Spec => [](SessionsInv /\ ClientInv)
<1>1. Init => SessionsInv /\ ClientInv
  BY InitSessions, InitClient DEF Init
<1>2. SessionsInv /\ ClientInv /\ [Next]_vars => (SessionsInv /\ ClientInv)'
  BY ClientStepFits, ServerStepKeeps DEF Fits
<1> QED
  BY <1>1, <1>2, PTL DEF Spec

(* The server with its tabs implements the server that serves any request: *)
(* whatever the calls of tabs, their lost answers and reloads do to tokens *)
(* and accounts, module Sessions does too.                                 *)
THEOREM ClientImplementsServer == Spec => ServerSpec
<1>1. Init => SessionsInit
  BY DEF Init
<1>2. SessionsInv /\ ClientInv /\ [Next]_vars => [ServerNext]_server
  BY ClientStepFits DEF Fits
<1> QED
  BY <1>1, <1>2, ClientInvariant, PTL DEF Spec, ServerSpec

(* With any number of tabs and any faults, a token that counts is the last *)
(* of a session that was not revoked, of an active account that still has  *)
(* the role and the password of the sign-in.                               *)
THEOREM ClientSessionsMatch == Spec => []SessionsMatchAccount
  BY ClientImplementsServer, SessionsMatch, PTL

(* With any number of tabs in which administrators work, one of them is    *)
(* active.                                                                 *)
THEOREM ClientAdminRemains == Spec => []AnAdminRemains
  BY ClientImplementsServer, AdminRemains, PTL

----------------------------------------------------------------------------
(* The lock and the cookie.  One call of a browser at a time has the lock; *)
(* and a token that a refresh takes along, or that an answer brings, is    *)
(* not revoked yet, unless its family was or an answer about it was lost.  *)

HadTurn(t, k) == call[t][k].phase \notin {"idle", "queued"}

\* Of two calls of a browser, one waits for the other.
InLine(t, k, u, l) ==
  Home[t] = Home[u] /\ ~IsIdle(t, k) /\ ~IsIdle(u, l) /\ <<t, k>> # <<u, l>>
    => <<u, l>> \in queue[t][k] \/ <<t, k>> \in queue[u][l]

QueueInv ==
  /\ queue \in [Tabs -> [LockedKinds -> SUBSET (Tabs \X LockedKinds)]]
  /\ \A t \in Tabs, k \in LockedKinds : HadTurn(t, k) => queue[t][k] = {}
  /\ \A t, u \in Tabs, k, l \in LockedKinds : InLine(t, k, u, l)
  /\ \A t \in Tabs : Away(t) => \A k \in Kinds \ {"oauth"} : IsIdle(t, k)

IssuedToken(x) == x # NoToken => session[x.family].user # "none"

Counts(x) == x = NoToken \/ x.family \in ended \cup lost \/ x.n \in session[x.family].live

\* Calls whose token is about to be used, or to become the cookie.
InUse(c) ==
  \/ c.kind = "refresh" /\ c.phase = "sent"
  \/ c.phase = "answered" /\ c.answer = "ok"

\* The cookie is about to be replaced by its successor.
Renewal(c) == c.kind = "refresh" /\ c.phase = "answered" /\ c.answer = "ok"

CookieRenewed(b) ==
  \E t \in Tabs : /\ Home[t] = b /\ Renewal(call[t]["refresh"])
                  /\ call[t]["refresh"].token.family = cookie[b].family

Same(x, y) == x # NoToken /\ y # NoToken /\ x.family = y.family

Apart ==
  /\ \A b, d \in Browsers : Same(cookie[b], cookie[d]) => b = d
  /\ \A b \in Browsers, t \in Tabs, k \in Kinds :
       Same(cookie[b], call[t][k].token) => b = Home[t] /\ k # "oauth"
  /\ \A t, u \in Tabs, k, l \in Kinds :
       Same(call[t][k].token, call[u][l].token) /\ <<t, k>> # <<u, l>>
         => Home[t] = Home[u] /\ k # "oauth" /\ l # "oauth"

TokensInv ==
  /\ \A t \in Tabs, k \in Kinds : call[t][k].kind = k
  /\ \A t \in Tabs : call[t]["password"].token = NoToken
  /\ \A b \in Browsers : IssuedToken(cookie[b])
  /\ \A t \in Tabs, k \in Kinds : IssuedToken(call[t][k].token)
  /\ Apart
  /\ \A t \in Tabs, k \in Kinds : InUse(call[t][k]) => Counts(call[t][k].token)
  /\ \A b \in Browsers : Counts(cookie[b]) \/ CookieRenewed(b)
  /\ \A c \in stray : c.kind = "refresh" /\ c.phase = "sent" /\ c.token # NoToken
       => c.token.family \in lost

\* A refresh that brings no session to a browser.
Quiet(c) ==
  /\ c.phase = "sent" => c.token = NoToken
  /\ c.phase = "answered" => c.answer # "ok"

OutInv ==
  /\ out \subseteq Browsers
  /\ \A b \in out : /\ cookie[b] = NoToken
                    /\ \A t \in Tabs : Home[t] = b => Quiet(call[t]["refresh"])

TurnInv == QueueInv /\ TokensInv /\ OutInv

----------------------------------------------------------------------------
(* Calls, one by one. *)

LEMMA CallFacts ==
  ASSUME ClientInv, NEW t \in Tabs, NEW k \in Kinds
  PROVE  call[t][k] \in GoodCalls /\ call[t][k].token \in Tokens
  BY GoodFacts DEF ClientInv

LEMMA KindFacts ==
  ASSUME NEW k \in LockedKinds
  PROVE  k \in Kinds /\ k # "oauth" /\ k # "password"
  BY DEF Kinds, LockedKinds

LEMMA IdleFacts ==
  ASSUME NEW k
  PROVE  /\ Idle(k).kind = k /\ Idle(k).phase = "idle" /\ Idle(k).token = NoToken
         /\ Queued(k).kind = k /\ Queued(k).phase = "queued" /\ Queued(k).token = NoToken
  BY DEF Idle, Queued

LEMMA StaleFacts ==
  ASSUME NEW c \in GoodCalls
  PROVE  /\ Stale(c).kind = c.kind /\ Stale(c).phase = c.phase
         /\ Stale(c).token = c.token /\ Stale(c).answer = c.answer
<1>1. c \in Call
  BY GoodFacts
<1> QED
  BY <1>1 DEF Stale, Call

LEMMA AnsweredFacts ==
  ASSUME NEW c \in GoodCalls, NEW a, NEW x
  PROVE  /\ Answered(c, a, x).kind = c.kind /\ Answered(c, a, x).phase = "answered"
         /\ Answered(c, a, x).answer = a /\ Answered(c, a, x).token = x
<1>1. c \in Call
  BY GoodFacts
<1> QED
  BY <1>1 DEF Answered, Call

\* All other calls stay as they are.
OthersStay(t, k) ==
  \A u \in Tabs, l \in Kinds : u # t \/ l # k => call'[u][l] = call[u][l]

TabsStay(t) == \A u \in Tabs, l \in Kinds : u # t => call'[u][l] = call[u][l]

LEMMA PutOne ==
  ASSUME ClientInv, NEW t \in Tabs, NEW k \in Kinds, NEW c,
         call' = [call EXCEPT ![t][k] = c]
  PROVE  call'[t][k] = c /\ OthersStay(t, k)
<1>1. call \in [Tabs -> [Kinds -> GoodCalls]]
  BY DEF ClientInv
<1> QED
  BY <1>1 DEF OthersStay

LEMMA PutRow ==
  ASSUME ClientInv, NEW t \in Tabs, NEW r, call' = [call EXCEPT ![t] = r]
  PROVE  call'[t] = r /\ TabsStay(t)
<1>1. call \in [Tabs -> [Kinds -> GoodCalls]]
  BY DEF ClientInv
<1> QED
  BY <1>1 DEF TabsStay

----------------------------------------------------------------------------
(* The queue. *)

LEMMA OneHasTurn ==
  ASSUME QueueInv, NEW t \in Tabs, NEW u \in Tabs, NEW k \in LockedKinds, NEW l \in LockedKinds,
         Home[t] = Home[u], ~IsIdle(t, k), queue[t][k] = {}, HadTurn(u, l)
  PROVE  t = u /\ k = l
<1>1. ~IsIdle(u, l) /\ queue[u][l] = {}
  BY DEF QueueInv, HadTurn, IsIdle
<1>2. InLine(t, k, u, l)
  BY DEF QueueInv
<1> QED
  BY <1>1, <1>2 DEF InLine

\* A page that is at the provider has nothing else to do.
AwayStays(t) ==
  Away(t)' => \/ Away(t) /\ (IsIdle(t, "password") => IsIdle(t, "password")')
              \/ \A k \in Kinds \ {"oauth"} : IsIdle(t, k)'

LEMMA AwayKeeps ==
  ASSUME QueueInv, \A t \in Tabs : AwayStays(t),
         NEW t \in Tabs, Away(t)', \A k \in LockedKinds : IsIdle(t, k) => IsIdle(t, k)'
  PROVE  \A k \in Kinds \ {"oauth"} : IsIdle(t, k)'
  BY DEF QueueInv, AwayStays, Kinds, LockedKinds

LEMMA QueueStays ==
  ASSUME QueueInv, UNCHANGED queue,
         \A t \in Tabs, k \in LockedKinds :
           /\ IsIdle(t, k) => IsIdle(t, k)'
           /\ HadTurn(t, k)' => queue[t][k] = {},
         \A t \in Tabs : AwayStays(t)
  PROVE  QueueInv'
<1>1. \A t, u \in Tabs, k, l \in LockedKinds : InLine(t, k, u, l)'
  BY DEF QueueInv, InLine
<1>2. \A t \in Tabs, k \in LockedKinds : HadTurn(t, k)' => queue'[t][k] = {}
  OBVIOUS
<1>3. \A t \in Tabs : Away(t)' => \A k \in Kinds \ {"oauth"} : IsIdle(t, k)'
  BY AwayKeeps
<1> QED
  BY <1>1, <1>2, <1>3 DEF QueueInv

LEMMA QueueLeft ==
  ASSUME QueueInv, NEW s \in Tabs, NEW K \in SUBSET Kinds, Leaves(s, K),
         \A k \in LockedKinds : k \in K => IsIdle(s, k)',
         \A t \in Tabs, k \in LockedKinds :
           /\ IsIdle(t, k) => IsIdle(t, k)'
           /\ HadTurn(t, k)' => HadTurn(t, k),
         \A t \in Tabs : AwayStays(t)
  PROVE  QueueInv'
<1>1. \A t \in Tabs, k \in LockedKinds : queue'[t][k] =
        IF t = s /\ k \in K THEN {} ELSE queue[t][k] \ ({s} \X K)
  BY DEF Leaves, Without
<1>2. queue' \in [Tabs -> [LockedKinds -> SUBSET (Tabs \X LockedKinds)]]
  <2>1. \A t \in Tabs, k \in LockedKinds : queue[t][k] \in SUBSET (Tabs \X LockedKinds)
    BY DEF QueueInv
  <2> QED
    BY <2>1 DEF Leaves, Without
<1>3. ASSUME NEW t \in Tabs, NEW k \in LockedKinds, HadTurn(t, k)'
      PROVE  queue'[t][k] = {}
  <2>1. queue[t][k] = {}
    BY <1>3 DEF QueueInv
  <2>2. queue'[t][k] = {} \/ queue'[t][k] = queue[t][k] \ ({s} \X K)
    BY <1>1
  <2> QED
    BY <2>1, <2>2
<1>4. ASSUME NEW t \in Tabs, NEW u \in Tabs, NEW k \in LockedKinds, NEW l \in LockedKinds
      PROVE  InLine(t, k, u, l)'
  <2> SUFFICES ASSUME Home[t] = Home[u], ~IsIdle(t, k)', ~IsIdle(u, l)', <<t, k>> # <<u, l>>
               PROVE  <<u, l>> \in queue'[t][k] \/ <<t, k>> \in queue'[u][l]
    BY DEF InLine
  <2>1. <<u, l>> \in queue[t][k] \/ <<t, k>> \in queue[u][l]
    BY DEF QueueInv, InLine
  <2>2. ~(t = s /\ k \in K) /\ ~(u = s /\ l \in K)
    OBVIOUS
  <2>3. <<t, k>> \notin {s} \X K /\ <<u, l>> \notin {s} \X K
    BY <2>2
  <2>4. queue'[t][k] = queue[t][k] \ ({s} \X K) /\ queue'[u][l] = queue[u][l] \ ({s} \X K)
    BY <1>1, <2>2
  <2> QED
    BY <2>1, <2>3, <2>4
<1>5. \A t \in Tabs : Away(t)' => \A k \in Kinds \ {"oauth"} : IsIdle(t, k)'
  BY AwayKeeps
<1> QED
  BY <1>2, <1>3, <1>4, <1>5 DEF QueueInv

LEMMA QueueJoined ==
  ASSUME QueueInv, NEW s \in Tabs, NEW j \in LockedKinds, Waits(s, j),
         call'[s][j].phase = "queued",
         \A t \in Tabs, k \in LockedKinds : t # s \/ k # j =>
           /\ IsIdle(t, k) => IsIdle(t, k)'
           /\ HadTurn(t, k)' => HadTurn(t, k),
         ~Away(s)', \A t \in Tabs : AwayStays(t)
  PROVE  QueueInv'
<1>1. \A t \in Tabs, k \in LockedKinds : queue'[t][k] =
        IF t = s /\ k = j THEN Ahead(s) ELSE queue[t][k]
  BY DEF Waits, QueueInv
<1>2. queue' \in [Tabs -> [LockedKinds -> SUBSET (Tabs \X LockedKinds)]]
  <2>1. Ahead(s) \in SUBSET (Tabs \X LockedKinds)
    BY DEF Ahead
  <2> QED
    BY <2>1 DEF Waits, QueueInv
<1>3. \A t \in Tabs, k \in LockedKinds : HadTurn(t, k)' => queue'[t][k] = {}
  <2>1. ~HadTurn(s, j)'
    BY DEF HadTurn
  <2> QED
    BY <1>1, <2>1 DEF QueueInv
<1>4. ASSUME NEW t \in Tabs, NEW u \in Tabs, NEW k \in LockedKinds, NEW l \in LockedKinds
      PROVE  InLine(t, k, u, l)'
  <2> SUFFICES ASSUME Home[t] = Home[u], ~IsIdle(t, k)', ~IsIdle(u, l)', <<t, k>> # <<u, l>>
               PROVE  <<u, l>> \in queue'[t][k] \/ <<t, k>> \in queue'[u][l]
    BY DEF InLine
  <2>1. CASE t = s /\ k = j
    <3>1. <<u, l>> \in Ahead(s)
      BY <2>1 DEF Ahead
    <3> QED
      BY <3>1, <2>1, <1>1
  <2>2. CASE u = s /\ l = j
    <3>1. <<t, k>> \in Ahead(s)
      BY <2>2 DEF Ahead
    <3> QED
      BY <3>1, <2>2, <1>1
  <2>3. CASE ~(t = s /\ k = j) /\ ~(u = s /\ l = j)
    <3>1. ~IsIdle(t, k) /\ ~IsIdle(u, l)
      BY <2>3
    <3>2. <<u, l>> \in queue[t][k] \/ <<t, k>> \in queue[u][l]
      BY <3>1 DEF QueueInv, InLine
    <3> QED
      BY <3>2, <2>3, <1>1
  <2> QED
    BY <2>1, <2>2, <2>3
<1>5. \A t \in Tabs : Away(t)' => \A k \in Kinds \ {"oauth"} : IsIdle(t, k)'
  BY AwayKeeps
<1> QED
  BY <1>2, <1>3, <1>4, <1>5 DEF QueueInv

----------------------------------------------------------------------------
(* Tokens that stay good. *)

\* Nothing of a family gets worse, unless it is revoked or an answer lost.
Persists ==
  \A f \in Families :
    /\ session[f].user # "none" => session'[f].user # "none"
    /\ f \in ended \cup lost => f \in ended' \cup lost'
    /\ \A n : n \in session[f].live => n \in session'[f].live \/ f \in ended' \cup lost'

LEMMA SessionsPersist ==
  ASSUME UNCHANGED <<session, ended>>, lost \subseteq lost'
  PROVE  Persists
  BY DEF Persists

LEMMA RevokedPersist ==
  ASSUME SessionsInv, NEW F, RevokeAll(F), lost \subseteq lost'
  PROVE  Persists
<1> SUFFICES ASSUME NEW f \in Families
             PROVE  /\ session'[f].user = session[f].user
                    /\ f \in ended => f \in ended'
                    /\ f \in F => f \in ended'
                    /\ f \notin F => session'[f].live = session[f].live
  BY DEF Persists
<1>1. session[f] \in Session
  BY SessionFacts DEF SessionsInv
<1>2. session'[f] = IF f \in F THEN [session[f] EXCEPT !.live = {}] ELSE session[f]
  BY DEF RevokeAll
<1>3. session'[f].user = session[f].user
  BY <1>1, <1>2 DEF Session
<1> QED
  BY <1>2, <1>3 DEF RevokeAll

LEMMA IssuedPersist ==
  ASSUME SessionsInv, NEW f \in Families, NEW u \in Users, NEW role, IssueSession(f, u, role),
         UNCHANGED ended, lost \subseteq lost'
  PROVE  /\ Persists
         /\ session[f].user = "none"
         /\ session'[f].user = u /\ u # "none" /\ session'[f].live = {0}
<1>1. session[f].user = "none" /\ session[f].live = {}
  BY DEF IssueSession, NoSession
<1>2. session' = [session EXCEPT ![f] = NewSession(u, role, account[u].password)]
  BY DEF IssueSession
<1>3. session'[f] = NewSession(u, role, account[u].password)
      /\ \A g \in Families : g # f => session'[g] = session[g]
  BY <1>2 DEF SessionsInv, SessionsTypeOK
<1>4. session'[f].user = u /\ session'[f].live = {0}
  BY <1>3 DEF NewSession
<1> QED
  BY <1>1, <1>3, <1>4 DEF Persists

LEMMA ExpiredPersist ==
  ASSUME SessionsInv, NEW f \in Families, Expire(f), lost \subseteq lost'
  PROVE  Persists
<1>1. session \in [Families -> Session]
  BY DEF SessionsInv, SessionsTypeOK
<1>2. \A g \in Families : session'[g].user = session[g].user /\ session'[g].live = session[g].live
  <2> SUFFICES ASSUME NEW g \in Families
               PROVE  session'[g].user = session[g].user /\ session'[g].live = session[g].live
    OBVIOUS
  <2>1. session'[g] = IF g = f THEN [session[g] EXCEPT !.expired = TRUE] ELSE session[g]
    BY <1>1 DEF Expire
  <2>2. session[g] \in Session
    BY <1>1
  <2> QED
    BY <2>1, <2>2 DEF Session
<1> QED
  BY <1>2 DEF Persists, Expire

\* A refresh replaces one token of its family.
LEMMA RotateFacts ==
  ASSUME SessionsInv, NEW f \in Families, NEW n, Rotate(f, n)
  PROVE  /\ session'[f].user = session[f].user /\ session[f].user # "none"
         /\ session[f].last + 1 \in session'[f].live
         /\ session[f].last + 1 \in 0..MaxRotations
         /\ \A g \in Families : g # f => session'[g] = session[g]
<1> DEFINE s == [session[f] EXCEPT !.last = session[f].last + 1,
                                   !.live = (session[f].live \ {n}) \cup {session[f].last + 1}]
<1>1. session[f] \in Session /\ session \in [Families -> Session]
  BY DEF SessionsInv, SessionsTypeOK
<1>2. session' = [session EXCEPT ![f] = s] /\ session[f].last < MaxRotations
      /\ session[f].user # "none"
  BY SessionFacts DEF Rotate, Revoked, SessionsInv, SessionsTypeOK
<1>3. session[f].last + 1 \in 0..MaxRotations
  BY <1>1, <1>2, SessionFacts DEF SessionsInv
<1>4. s.user = session[f].user /\ session[f].last + 1 \in s.live
  BY <1>1 DEF Session
<1> HIDE DEF s
<1>5. \A g \in Families : session'[g] = IF g = f THEN s ELSE session[g]
  BY <1>1, <1>2
<1> QED
  BY <1>2, <1>3, <1>4, <1>5

----------------------------------------------------------------------------
(* Steps that bring no token to another place. *)

\* What becomes of a call: its token is dropped or stays, and is used no more
\* than before.
Tame(t, k) ==
  LET c == call[t][k]  d == call'[t][k] IN
    /\ d.kind = k
    /\ d.token = NoToken \/ (d.token = c.token /\ (InUse(d) => InUse(c)))

\* A renewal goes on, or its answer is lost.
RenewalsStay ==
  \A t \in Tabs :
    LET c == call[t]["refresh"]  d == call'[t]["refresh"] IN
      Renewal(c) => (Renewal(d) /\ d.token = c.token) \/ c.token.family \in lost' \cup {"none"}

StraysLost ==
  \A c \in stray : c.kind = "refresh" /\ c.phase = "sent" /\ c.token # NoToken
    => c.token.family \in lost

LEMMA TokensStay ==
  ASSUME ClientInv, TokensInv, Persists, RenewalsStay, StraysLost',
         \A t \in Tabs, k \in Kinds : Tame(t, k),
         \A b \in Browsers : cookie'[b] = NoToken \/ cookie'[b] = cookie[b]
  PROVE  TokensInv'
<1>1. \A t \in Tabs, k \in Kinds : call'[t][k].kind = k
  BY DEF Tame
<1>2. \A t \in Tabs : call'[t]["password"].token = NoToken
  BY DEF Tame, TokensInv, Kinds
<1>3. \A b \in Browsers : IssuedToken(cookie[b])'
  <2> SUFFICES ASSUME NEW b \in Browsers PROVE IssuedToken(cookie[b])'
    OBVIOUS
  <2>1. cookie[b] \in Tokens /\ IssuedToken(cookie[b])
    BY DEF ClientInv, TokensInv
  <2>2. cookie[b] # NoToken => session'[cookie[b].family].user # "none"
    BY <2>1, TokenFacts DEF Persists, IssuedToken
  <2> QED
    BY <2>2 DEF IssuedToken
<1>4. \A t \in Tabs, k \in Kinds : IssuedToken(call[t][k].token)'
  <2> SUFFICES ASSUME NEW t \in Tabs, NEW k \in Kinds PROVE IssuedToken(call[t][k].token)'
    OBVIOUS
  <2>1. call[t][k].token \in Tokens /\ IssuedToken(call[t][k].token)
    BY CallFacts DEF TokensInv
  <2>2. call[t][k].token # NoToken => session'[call[t][k].token.family].user # "none"
    BY <2>1, TokenFacts DEF Persists, IssuedToken
  <2>3. call'[t][k].token = NoToken \/ call'[t][k].token = call[t][k].token
    BY DEF Tame
  <2> QED
    BY <2>2, <2>3 DEF IssuedToken
<1>5. Apart'
  <2>1. \A t \in Tabs, k \in Kinds : call'[t][k].token \in {NoToken, call[t][k].token}
    BY DEF Tame
  <2>2. \A b, d \in Browsers : Same(cookie[b], cookie[d])' => b = d
    BY DEF TokensInv, Apart, Same
  <2>3. \A b \in Browsers, t \in Tabs, k \in Kinds :
          Same(cookie[b], call[t][k].token)' => b = Home[t] /\ k # "oauth"
    BY <2>1 DEF TokensInv, Apart, Same
  <2>4. ASSUME NEW t \in Tabs, NEW u \in Tabs, NEW k \in Kinds, NEW l \in Kinds,
               Same(call[t][k].token, call[u][l].token)', <<t, k>> # <<u, l>>
        PROVE  Home[t] = Home[u] /\ k # "oauth" /\ l # "oauth"
    <3>1. Same(call[t][k].token, call[u][l].token)
      BY <2>1, <2>4 DEF Same
    <3> QED
      BY <3>1, <2>4 DEF TokensInv, Apart
  <2> QED
    BY <2>2, <2>3, <2>4 DEF Apart
<1>6. \A t \in Tabs, k \in Kinds : InUse(call[t][k])' => Counts(call[t][k].token)'
  <2> SUFFICES ASSUME NEW t \in Tabs, NEW k \in Kinds, InUse(call[t][k])', call'[t][k].token # NoToken
               PROVE  Counts(call[t][k].token)'
    BY DEF Counts
  <2>1. call'[t][k].token = call[t][k].token /\ InUse(call[t][k])
    BY DEF Tame
  <2>2. Counts(call[t][k].token) /\ call[t][k].token \in Tokens
    BY <2>1, CallFacts DEF TokensInv
  <2>3. call[t][k].token.family \in Families
    BY <2>1, <2>2, TokenFacts
  <2> QED
    BY <2>1, <2>2, <2>3 DEF Persists, Counts
<1>7. \A b \in Browsers : Counts(cookie[b])' \/ CookieRenewed(b)'
  <2> SUFFICES ASSUME NEW b \in Browsers, cookie'[b] # NoToken
               PROVE  Counts(cookie[b])' \/ CookieRenewed(b)'
    BY DEF Counts
  <2>1. cookie'[b] = cookie[b] /\ cookie[b] \in Tokens
    BY DEF ClientInv
  <2>2. cookie[b].family \in Families
    BY <2>1, TokenFacts
  <2>3. CASE Counts(cookie[b])
    BY <2>1, <2>2, <2>3 DEF Persists, Counts
  <2>4. CASE CookieRenewed(b)
    <3>1. PICK t \in Tabs : /\ Home[t] = b /\ Renewal(call[t]["refresh"])
                            /\ call[t]["refresh"].token.family = cookie[b].family
      BY <2>4 DEF CookieRenewed
    <3>2. CASE call[t]["refresh"].token.family \in lost'
      BY <3>1, <3>2, <2>1 DEF Counts
    <3>3. CASE Renewal(call'[t]["refresh"]) /\ call'[t]["refresh"].token = call[t]["refresh"].token
      BY <3>1, <3>3, <2>1 DEF CookieRenewed, Renewal
    <3> QED
      BY <3>1, <3>2, <3>3, <2>2 DEF RenewalsStay
  <2> QED
    BY <2>3, <2>4 DEF TokensInv
<1> QED
  BY <1>1, <1>2, <1>3, <1>4, <1>5, <1>6, <1>7 DEF TokensInv, StraysLost

LEMMA OutStays ==
  ASSUME OutInv, out' \subseteq out,
         \A b \in out' : cookie[b] = NoToken => cookie'[b] = NoToken,
         \A t \in Tabs : Home[t] \in out' /\ cookie[Home[t]] = NoToken /\ Quiet(call[t]["refresh"])
           => Quiet(call[t]["refresh"])'
  PROVE  OutInv'
  BY DEF OutInv

----------------------------------------------------------------------------
(* Tabs ask, and forget. *)

\* Two calls that differ in nothing that the lock or the cookie is about.
Alike(c, d) ==
  d.kind = c.kind /\ d.phase = c.phase /\ d.token = c.token /\ d.answer = c.answer

LEMMA AlikeFacts ==
  ASSUME NEW c, NEW d, Alike(c, d)
  PROVE  (InUse(d) <=> InUse(c)) /\ (Renewal(d) <=> Renewal(c)) /\ (Quiet(d) <=> Quiet(c))
  BY DEF Alike, InUse, Renewal, Quiet

\* A call whose kind is right and whose token is dropped or kept unused.
LEMMA AlikeTame ==
  ASSUME TokensInv, NEW t \in Tabs, NEW k \in Kinds, Alike(call[t][k], call'[t][k])
  PROVE  Tame(t, k)
  BY AlikeFacts DEF Tame, Alike, TokensInv

LEMMA SameAlike ==
  ASSUME NEW c, NEW d, d = c
  PROVE  Alike(c, d)
  BY DEF Alike

LEMMA AlikePhases ==
  ASSUME NEW t \in Tabs, NEW k \in Kinds, Alike(call[t][k], call'[t][k])
  PROVE  (IsIdle(t, k)' <=> IsIdle(t, k)) /\ (HadTurn(t, k)' <=> HadTurn(t, k))
  BY DEF Alike, IsIdle, HadTurn

LEMMA AlikeKeeps ==
  ASSUME ClientInv, TurnInv,
         \A t \in Tabs, k \in Kinds : Alike(call[t][k], call'[t][k]),
         UNCHANGED <<session, ended, cookie, queue, lost, out>>, StraysLost'
  PROVE  TurnInv'
<1> USE DEF TurnInv
<1>1. QueueInv'
  <2>1. \A t \in Tabs, k \in LockedKinds :
          (IsIdle(t, k) => IsIdle(t, k)') /\ (HadTurn(t, k)' => queue[t][k] = {})
    BY AlikePhases, KindFacts DEF QueueInv
  <2>2. \A t \in Tabs : AwayStays(t)
    BY AlikePhases DEF AwayStays, Away, Kinds
  <2> QED
    BY <2>1, <2>2, QueueStays
<1>2. TokensInv'
  <2>1. \A t \in Tabs, k \in Kinds : Tame(t, k)
    BY AlikeTame
  <2>2. RenewalsStay
    <3> SUFFICES ASSUME NEW t \in Tabs, Renewal(call[t]["refresh"])
                 PROVE  Renewal(call'[t]["refresh"])
                        /\ call'[t]["refresh"].token = call[t]["refresh"].token
      BY DEF RenewalsStay
    <3>1. Alike(call[t]["refresh"], call'[t]["refresh"])
      BY DEF Kinds, LockedKinds
    <3> QED
      BY <3>1, AlikeFacts DEF Alike
  <2> QED
    BY <2>1, <2>2, SessionsPersist, TokensStay
<1>3. OutInv'
  <2>1. \A t \in Tabs : Quiet(call[t]["refresh"]) => Quiet(call[t]["refresh"])'
    BY AlikeFacts DEF Kinds, LockedKinds
  <2> QED
    BY <2>1, OutStays
<1> QED
  BY <1>1, <1>2, <1>3

LEMMA RowTame ==
  ASSUME TokensInv, NEW t \in Tabs, TabsStay(t), \A k \in Kinds : Tame(t, k)
  PROVE  \A u \in Tabs, k \in Kinds : Tame(u, k)
  BY SameAlike, AlikeTame DEF TabsStay

LEMMA OneTame ==
  ASSUME TokensInv, NEW t \in Tabs, NEW k \in Kinds, OthersStay(t, k), Tame(t, k)
  PROVE  \A u \in Tabs, l \in Kinds : Tame(u, l)
  BY SameAlike, AlikeTame DEF OthersStay

LEMMA OneRenewal ==
  ASSUME NEW t \in Tabs, NEW k \in Kinds, OthersStay(t, k),
         k = "refresh" /\ Renewal(call[t]["refresh"])
           => call[t]["refresh"].token.family \in lost' \cup {"none"}
  PROVE  RenewalsStay
  BY DEF OthersStay, RenewalsStay, Kinds, LockedKinds

\* A call of the tab joins the queue; the others may become stale.
LEMMA JoinKeeps ==
  ASSUME ClientInv, TurnInv, NEW t \in Tabs, NEW j \in LockedKinds,
         IsIdle(t, j), ~Away(t), TabsStay(t),
         call'[t][j].phase = "queued", call'[t][j].kind = j, call'[t][j].token = NoToken,
         call'[t]["password"].kind = "password", call'[t]["password"].token = NoToken,
         \A k \in Kinds : k # j /\ k # "password" => Alike(call[t][k], call'[t][k]),
         Waits(t, j), UNCHANGED <<session, ended, stray, lost, out>>,
         \A b \in Browsers : cookie'[b] = NoToken \/ cookie'[b] = cookie[b]
  PROVE  TurnInv'
<1> USE DEF TurnInv
<1>1. \A u \in Tabs, k \in Kinds : u # t \/ (k # j /\ k # "password")
        => Alike(call[u][k], call'[u][k])
  BY SameAlike DEF TabsStay
<1>2. QueueInv'
  <2>1. \A u \in Tabs, k \in LockedKinds : u # t \/ k # j =>
          (IsIdle(u, k) => IsIdle(u, k)') /\ (HadTurn(u, k)' => HadTurn(u, k))
    BY <1>1, AlikePhases, KindFacts
  <2>2. ~Away(t)'
    BY <1>1, AlikePhases, KindFacts DEF Away, Kinds
  <2>3. \A u \in Tabs : AwayStays(u)
    BY <1>1, <2>2, AlikePhases DEF AwayStays, Away, Kinds
  <2> QED
    BY <2>1, <2>2, <2>3, QueueJoined
<1>3. TokensInv'
  <2>1. \A k \in Kinds : Tame(t, k)
    BY <1>1, AlikeTame DEF Tame
  <2>2. \A u \in Tabs, k \in Kinds : Tame(u, k)
    BY <2>1, RowTame
  <2>3. RenewalsStay
    <3> SUFFICES ASSUME NEW u \in Tabs, Renewal(call[u]["refresh"])
                 PROVE  Alike(call[u]["refresh"], call'[u]["refresh"])
      BY AlikeFacts DEF RenewalsStay, Alike
    <3>1. ~(u = t /\ j = "refresh")
      BY DEF Renewal, IsIdle
    <3> QED
      BY <1>1, <3>1 DEF Kinds, LockedKinds
  <2>4. StraysLost'
    BY DEF TokensInv, StraysLost
  <2> QED
    BY <2>2, <2>3, <2>4, SessionsPersist, TokensStay
<1>4. OutInv'
  <2>1. ASSUME NEW u \in Tabs, Quiet(call[u]["refresh"])
        PROVE  Quiet(call[u]["refresh"])'
    <3>1. CASE u = t /\ j = "refresh"
      BY <3>1 DEF Quiet
    <3>2. CASE ~(u = t /\ j = "refresh")
      BY <2>1, <3>2, <1>1, AlikeFacts DEF Kinds, LockedKinds
    <3> QED
      BY <3>1, <3>2
  <2>2. \A b \in out' : cookie[b] = NoToken => cookie'[b] = NoToken
    BY DEF OutInv
  <2> QED
    BY <2>1, <2>2, OutStays
<1> QED
  BY <1>2, <1>3, <1>4

LEMMA PasswordAlike ==
  ASSUME TokensInv, NEW t \in Tabs, Alike(call[t]["password"], call'[t]["password"])
  PROVE  call'[t]["password"].kind = "password" /\ call'[t]["password"].token = NoToken
  BY DEF TokensInv, Alike, Kinds

LEMMA EpochAlike ==
  ASSUME ClientInv, NEW t \in Tabs, NEW k \in Kinds
  PROVE  Alike(call[t][k], NextEpoch(t, {})[k])
  BY CallFacts, StaleFacts DEF NextEpoch, Alike

LEMMA AskTurn ==
  ASSUME ClientInv, TurnInv, NEW t \in Tabs,
         RefreshSession(t) \/ SignOut(t) \/ \E u \in Users : StaffLogin(t, u)
  PROVE  TurnInv'
<1>1. CASE RefreshSession(t)
  <2>1. call'[t]["refresh"] = Queued("refresh") /\ OthersStay(t, "refresh")
    BY <1>1, PutOne DEF RefreshSession, Kinds, LockedKinds
  <2>2. TabsStay(t) /\ \A k \in Kinds : k # "refresh" => call'[t][k] = call[t][k]
    BY <2>1 DEF OthersStay, TabsStay
  <2>3. \A k \in Kinds : k # "refresh" => Alike(call[t][k], call'[t][k])
    BY <2>2, SameAlike
  <2>4. call'[t]["refresh"].phase = "queued" /\ call'[t]["refresh"].kind = "refresh"
        /\ call'[t]["refresh"].token = NoToken
    BY <2>1, IdleFacts
  <2> QED
    BY <1>1, <2>2, <2>3, <2>4, PasswordAlike, JoinKeeps DEF RefreshSession, server, LockedKinds, Kinds, TurnInv
<1>2. CASE SignOut(t)
  <2>1. call'[t] = [NextEpoch(t, {}) EXCEPT !["logout"] = Queued("logout")] /\ TabsStay(t)
    BY <1>2, PutRow DEF SignOut
  <2>2. call'[t]["logout"] = Queued("logout")
        /\ \A k \in Kinds : k # "logout" => call'[t][k] = NextEpoch(t, {})[k]
    BY <2>1 DEF NextEpoch, Kinds, LockedKinds
  <2>3. \A k \in Kinds : k # "logout" => Alike(call[t][k], call'[t][k])
    BY <2>2, EpochAlike
  <2>4. call'[t]["logout"].phase = "queued" /\ call'[t]["logout"].kind = "logout"
        /\ call'[t]["logout"].token = NoToken
    BY <2>2, IdleFacts
  <2> QED
    BY <1>2, <2>1, <2>3, <2>4, PasswordAlike, JoinKeeps DEF SignOut, server, LockedKinds, Kinds, TurnInv
<1>3. ASSUME NEW u \in Users, StaffLogin(t, u)
      PROVE  TurnInv'
  <2> DEFINE q == [Queued("login") EXCEPT !.user = u, !.typed = account[u].password]
  <2>1. call'[t] = [NextEpoch(t, {}) EXCEPT !["login"] = q] /\ TabsStay(t)
    BY <1>3, PutRow DEF StaffLogin
  <2>2. call'[t]["login"] = q
        /\ \A k \in Kinds : k # "login" => call'[t][k] = NextEpoch(t, {})[k]
    BY <2>1 DEF NextEpoch, Kinds, LockedKinds
  <2>3. \A k \in Kinds : k # "login" => Alike(call[t][k], call'[t][k])
    BY <2>2, EpochAlike
  <2>4. q.phase = "queued" /\ q.kind = "login" /\ q.token = NoToken
    BY DEF Queued, Idle
  <2> QED
    BY <1>3, <2>1, <2>2, <2>3, <2>4, PasswordAlike, JoinKeeps DEF StaffLogin, server, LockedKinds, Kinds, TurnInv
<1> QED
  BY <1>1, <1>2, <1>3

LEMMA ExpiredTurn ==
  ASSUME ClientInv, TurnInv, NEW t \in Tabs, Expired(t)
  PROVE  TurnInv'
<1>1. call'[t] = NextEpoch(t, {}) /\ TabsStay(t)
  BY PutRow DEF Expired
<1>2. \A u \in Tabs, k \in Kinds : Alike(call[u][k], call'[u][k])
  BY <1>1, EpochAlike, SameAlike DEF TabsStay
<1>3. StraysLost'
  BY DEF TurnInv, TokensInv, StraysLost, Expired
<1> QED
  BY <1>2, <1>3, AlikeKeeps DEF Expired, server

\* Steps of administrators leave the calls alone, and so does time.
LEMMA CallsAlone ==
  ASSUME ClientInv, TurnInv, UNCHANGED <<queue, call, out>>, Persists, StraysLost',
         \A b \in Browsers : cookie'[b] = NoToken \/ cookie'[b] = cookie[b]
  PROVE  TurnInv'
<1> USE DEF TurnInv
<1>1. \A u \in Tabs, k \in Kinds : Alike(call[u][k], call'[u][k])
  BY SameAlike
<1>2. QueueInv'
  BY DEF QueueInv, InLine, HadTurn, IsIdle, Away
<1>3. TokensInv'
  <2>1. \A t \in Tabs, k \in Kinds : Tame(t, k)
    BY <1>1, AlikeTame
  <2>2. RenewalsStay
    BY DEF RenewalsStay
  <2> QED
    BY <2>1, <2>2, TokensStay
<1>4. OutInv'
  BY DEF OutInv
<1> QED
  BY <1>2, <1>3, <1>4

LEMMA PasswordSent ==
  ASSUME ClientInv, TurnInv, NEW t \in Tabs, SendPassword(t)
  PROVE  TurnInv'
<1> USE DEF TurnInv
<1> DEFINE f == shown[t].family
           q == [Idle("password") EXCEPT !.phase = "read", !.user = session[f].user,
                   !.typed = account[session[f].user].password]
<1>1. call'[t]["password"] = q /\ OthersStay(t, "password")
  BY PutOne DEF SendPassword, Kinds
<1>2. q.kind = "password" /\ q.phase = "read" /\ q.token = NoToken /\ q.answer = "none"
  BY DEF Idle
<1> HIDE DEF q
<1>3. \A u \in Tabs, k \in LockedKinds \cup {"oauth"} : call'[u][k] = call[u][k]
  BY <1>1 DEF OthersStay, Kinds, LockedKinds
<1>4. QueueInv'
  <2>1. \A u \in Tabs, k \in LockedKinds :
          (IsIdle(u, k) => IsIdle(u, k)') /\ (HadTurn(u, k)' => queue[u][k] = {})
    BY <1>3 DEF IsIdle, HadTurn, QueueInv
  <2>2. \A u \in Tabs : AwayStays(u)
    BY <1>1, <1>3 DEF AwayStays, IsIdle, Away, OthersStay, Kinds, SendPassword
  <2>3. UNCHANGED queue
    BY DEF SendPassword
  <2> QED
    BY <2>1, <2>2, <2>3, QueueStays
<1>5. TokensInv'
  <2>1. \A u \in Tabs, l \in Kinds : Tame(u, l)
    BY <1>1, <1>2, OneTame DEF Tame, Kinds
  <2>2. RenewalsStay /\ StraysLost'
    BY <1>3 DEF RenewalsStay, TokensInv, StraysLost, LockedKinds, SendPassword
  <2>3. Persists /\ UNCHANGED cookie
    BY SessionsPersist DEF SendPassword, server
  <2> QED
    BY <2>1, <2>2, <2>3, TokensStay
<1>6. OutInv'
  BY <1>3 DEF OutInv, LockedKinds, SendPassword
<1> QED
  BY <1>4, <1>5, <1>6

LEMMA DeskTurn ==
  ASSUME SessionsInv, ClientInv, TurnInv, NEW t \in Tabs, Desk(t) \/ Administer(t)
  PROVE  TurnInv'
<1>1. Persists
  <2>1. CASE UNCHANGED <<session, ended>> /\ UNCHANGED lost
    BY <2>1, SessionsPersist
  <2>2. CASE WriteUpdate(t) /\ UNCHANGED lost
    BY <2>2, RevokedPersist DEF WriteUpdate
  <2> QED
    BY <2>1, <2>2 DEF Desk, DeskStep, CheckUpdate, CreateStaff, Administer, BeginCreate, BeginUpdate
<1>2. UNCHANGED <<cookie, queue, call, stray, lost, out>>
  BY DEF Desk, Administer
<1>3. StraysLost'
  BY <1>2 DEF TurnInv, TokensInv, StraysLost
<1> QED
  BY <1>1, <1>2, <1>3, CallsAlone

LEMMA ExpiryTurn ==
  ASSUME SessionsInv, ClientInv, TurnInv, NEW f \in Families, SessionExpires(f)
  PROVE  TurnInv'
<1>1. \A b \in Browsers : cookie'[b] = NoToken \/ cookie'[b] = cookie[b]
  BY DEF SessionExpires
<1>2. Persists
  BY ExpiredPersist DEF SessionExpires
<1>3. StraysLost'
  BY DEF SessionExpires, TurnInv, TokensInv, StraysLost
<1> QED
  BY <1>1, <1>2, <1>3, CallsAlone DEF SessionExpires

----------------------------------------------------------------------------
(* A page goes, and an answer is lost. *)

LEMMA UnloadsLost ==
  ASSUME ClientInv, TokensInv, NEW t \in Tabs, Unloads(t)
  PROVE  /\ StraysLost' /\ lost \subseteq lost'
         /\ Renewal(call[t]["refresh"]) => call[t]["refresh"].token.family \in lost' \cup {"none"}
<1>1. \A k \in Kinds : Unheard(call[t][k]) \subseteq lost'
  BY DEF Unloads
<1>2. lost \subseteq lost'
  BY DEF Unloads
<1>3. StraysLost'
  <2> SUFFICES ASSUME NEW c \in stray', c.kind = "refresh", c.phase = "sent", c.token # NoToken
               PROVE  c.token.family \in lost'
    BY DEF StraysLost
  <2>1. CASE c \in stray
    BY <2>1, <1>2 DEF TokensInv
  <2>2. CASE c \notin stray
    <3>1. PICK k \in Kinds : c = call[t][k]
      BY <2>2 DEF Unloads
    <3>2. c.token.family # "none"
      BY <3>1, CallFacts, TokenFacts
    <3> QED
      BY <3>1, <3>2, <1>1 DEF Unheard
  <2> QED
    BY <2>1, <2>2
<1>4. Renewal(call[t]["refresh"]) => call[t]["refresh"].token.family \in lost' \cup {"none"}
  BY <1>1 DEF Renewal, Unheard, Kinds, LockedKinds
<1> QED
  BY <1>2, <1>3, <1>4

\* All calls of the tab go but for the journey to the provider or the first refresh.
LEMMA RowGone ==
  ASSUME ClientInv, TurnInv, NEW t \in Tabs, Unloads(t), TabsStay(t),
         \A k \in Kinds : call'[t][k].kind = k /\ call'[t][k].token = NoToken,
         call'[t]["refresh"].phase \in {"idle", "queued"},
         UNCHANGED <<session, ended, cookie, out>>
  PROVE  TokensInv' /\ OutInv'
<1> USE DEF TurnInv
<1>1. TokensInv'
  <2>1. \A u \in Tabs, k \in Kinds : Tame(u, k)
    BY RowTame DEF Tame
  <2>2. RenewalsStay
    BY UnloadsLost DEF RenewalsStay, TabsStay, Kinds, LockedKinds
  <2> QED
    BY <2>1, <2>2, UnloadsLost, SessionsPersist, TokensStay
<1>2. OutInv'
  <2>1. ASSUME NEW u \in Tabs, Quiet(call[u]["refresh"])
        PROVE  Quiet(call[u]["refresh"])'
    <3>1. CASE u = t
      BY <3>1 DEF Quiet
    <3>2. CASE u # t
      BY <2>1, <3>2 DEF TabsStay, Kinds, LockedKinds
    <3> QED
      BY <3>1, <3>2
  <2> QED
    BY <2>1, OutStays
<1> QED
  BY <1>1, <1>2

LEMMA ReloadTurn ==
  ASSUME ClientInv, TurnInv, NEW t \in Tabs, Reload(t)
  PROVE  TurnInv'
<1> USE DEF TurnInv
<1>1. call'[t] = [k \in Kinds |-> IF k = "refresh" THEN Queued(k) ELSE Idle(k)] /\ TabsStay(t)
  BY PutRow DEF Reload
<1>2. /\ call'[t]["refresh"] = Queued("refresh")
      /\ \A k \in Kinds : k # "refresh" => call'[t][k] = Idle(k)
  BY <1>1 DEF Kinds, LockedKinds
<1>3. TokensInv' /\ OutInv'
  <2>1. \A k \in Kinds : call'[t][k].kind = k /\ call'[t][k].token = NoToken
    BY <1>2, IdleFacts
  <2>2. call'[t]["refresh"].phase = "queued"
    BY <1>2, IdleFacts
  <2> QED
    BY <1>1, <2>1, <2>2, RowGone DEF Reload, server
<1>4. QueueInv'
  <2>1. \A u \in Tabs, k \in LockedKinds : queue'[u][k] =
          IF u = t THEN (IF k = "refresh" THEN Ahead(t) \ ({t} \X Kinds) ELSE {})
                   ELSE queue[u][k] \ ({t} \X Kinds)
    BY KindFacts DEF Reload, Without
  <2>2. queue' \in [Tabs -> [LockedKinds -> SUBSET (Tabs \X LockedKinds)]]
    <3>1. \A u \in Tabs, k \in LockedKinds : queue[u][k] \in SUBSET (Tabs \X LockedKinds)
      BY DEF QueueInv
    <3>2. Ahead(t) \in SUBSET (Tabs \X LockedKinds)
      BY DEF Ahead
    <3>3. Without(t, Kinds) \in [Tabs -> [LockedKinds -> SUBSET (Tabs \X LockedKinds)]]
      BY <3>1 DEF Without
    <3> QED
      BY <3>2, <3>3 DEF Reload
  <2>3. \A k \in LockedKinds : k # "refresh" => IsIdle(t, k)'
    BY <1>2, IdleFacts, KindFacts DEF IsIdle
  <2>4. \A k \in LockedKinds : ~HadTurn(t, k)'
    BY <1>2, IdleFacts, KindFacts DEF HadTurn
  <2>5. \A u \in Tabs, k \in Kinds : u # t =>
          (IsIdle(u, k)' <=> IsIdle(u, k)) /\ (HadTurn(u, k)' <=> HadTurn(u, k))
    BY <1>1 DEF TabsStay, IsIdle, HadTurn
  <2>6. ASSUME NEW u \in Tabs, NEW k \in LockedKinds, HadTurn(u, k)'
        PROVE  queue'[u][k] = {}
    <3>1. u # t
      BY <2>4, <2>6
    <3>2. queue[u][k] = {}
      BY <2>6, <3>1, <2>5, KindFacts DEF QueueInv
    <3>3. queue'[u][k] = queue[u][k] \ ({t} \X Kinds)
      BY <2>1, <3>1
    <3> QED
      BY <3>2, <3>3
  <2>7. ASSUME NEW u \in Tabs, NEW v \in Tabs, NEW k \in LockedKinds, NEW l \in LockedKinds
        PROVE  InLine(u, k, v, l)'
    <3> SUFFICES ASSUME Home[u] = Home[v], ~IsIdle(u, k)', ~IsIdle(v, l)', <<u, k>> # <<v, l>>
                 PROVE  <<v, l>> \in queue'[u][k] \/ <<u, k>> \in queue'[v][l]
      BY DEF InLine
    <3>1. CASE u = t
      <4>1. k = "refresh" /\ v # t
        BY <2>3, <3>1
      <4>2. <<v, l>> \in Ahead(t)
        BY <2>5, <3>1, <4>1, KindFacts DEF Ahead
      <4>3. queue'[u][k] = Ahead(t) \ ({t} \X Kinds)
        BY <2>1, <3>1, <4>1
      <4> QED
        BY <4>1, <4>2, <4>3
    <3>2. CASE v = t
      <4>1. l = "refresh" /\ u # t
        BY <2>3, <3>2
      <4>2. <<u, k>> \in Ahead(t)
        BY <2>5, <3>2, <4>1, KindFacts DEF Ahead
      <4>3. queue'[v][l] = Ahead(t) \ ({t} \X Kinds)
        BY <2>1, <3>2, <4>1
      <4> QED
        BY <4>1, <4>2, <4>3
    <3>3. CASE u # t /\ v # t
      <4>1. ~IsIdle(u, k) /\ ~IsIdle(v, l)
        BY <2>5, <3>3, KindFacts
      <4>2. <<v, l>> \in queue[u][k] \/ <<u, k>> \in queue[v][l]
        BY <4>1 DEF QueueInv, InLine
      <4>3. /\ queue'[u][k] = queue[u][k] \ ({t} \X Kinds)
            /\ queue'[v][l] = queue[v][l] \ ({t} \X Kinds)
        BY <2>1, <3>3
      <4> QED
        BY <3>3, <4>2, <4>3
    <3> QED
      BY <3>1, <3>2, <3>3
  <2>8. ASSUME NEW u \in Tabs, Away(u)'
        PROVE  \A k \in Kinds \ {"oauth"} : IsIdle(u, k)'
    <3>1. u # t
      BY <1>2, <2>8, IdleFacts DEF Away, IsIdle, Kinds
    <3>2. Away(u)
      BY <2>5, <2>8, <3>1 DEF Away, Kinds
    <3> QED
      BY <2>5, <3>1, <3>2 DEF QueueInv
  <2> QED
    BY <2>2, <2>6, <2>7, <2>8 DEF QueueInv
<1> QED
  BY <1>3, <1>4

LEMMA BeginOAuthTurn ==
  ASSUME ClientInv, TurnInv, NEW t \in Tabs, NEW w \in Users, BeginOAuth(t, w)
  PROVE  TurnInv'
<1> USE DEF TurnInv
<1> DEFINE q == [Idle("oauth") EXCEPT !.phase = "sent", !.user = w]
<1>1. call'[t] = [k \in Kinds |-> IF k = "oauth" THEN [Idle(k) EXCEPT !.phase = "sent", !.user = w]
                                  ELSE Idle(k)]
      /\ TabsStay(t)
  BY PutRow DEF BeginOAuth
<1>2. /\ call'[t]["oauth"] = q
      /\ \A k \in Kinds : k # "oauth" => call'[t][k] = Idle(k)
  BY <1>1 DEF Kinds
<1>3. q.kind = "oauth" /\ q.token = NoToken
  BY DEF Idle
<1> HIDE DEF q
<1>4. TokensInv' /\ OutInv'
  <2>1. \A k \in Kinds : call'[t][k].kind = k /\ call'[t][k].token = NoToken
    BY <1>2, <1>3, IdleFacts
  <2>2. call'[t]["refresh"].phase = "idle"
    BY <1>2, IdleFacts DEF Kinds, LockedKinds
  <2> QED
    BY <1>1, <2>1, <2>2, RowGone DEF BeginOAuth, server
<1>5. QueueInv'
  <2>1. \A k \in LockedKinds : IsIdle(t, k)' /\ ~HadTurn(t, k)'
    BY <1>2, IdleFacts, KindFacts DEF IsIdle, HadTurn
  <2>2. \A u \in Tabs, k \in Kinds : u # t =>
          (IsIdle(u, k)' <=> IsIdle(u, k)) /\ (HadTurn(u, k)' <=> HadTurn(u, k))
    BY <1>1 DEF TabsStay, IsIdle, HadTurn
  <2>3. \A u \in Tabs, k \in LockedKinds :
          (IsIdle(u, k) => IsIdle(u, k)') /\ (HadTurn(u, k)' => HadTurn(u, k))
    BY <2>1, <2>2, KindFacts
  <2>4. \A u \in Tabs : AwayStays(u)
    <3>1. \A k \in Kinds \ {"oauth"} : IsIdle(t, k)'
      BY <1>2, IdleFacts DEF IsIdle
    <3> QED
      BY <3>1, <2>2 DEF AwayStays, Away, Kinds
  <2>5. Leaves(t, Kinds)
    BY DEF BeginOAuth
  <2> QED
    BY <2>1, <2>3, <2>4, <2>5, QueueLeft
<1> QED
  BY <1>4, <1>5

\* A call ends, and the next one of the browser may go.
LEMMA EndedQueue ==
  ASSUME ClientInv, TurnInv, NEW t \in Tabs, NEW k \in LockedKinds, EndCall(t, k)
  PROVE  QueueInv' /\ call'[t][k] = Idle(k) /\ OthersStay(t, k)
<1>1. call'[t][k] = Idle(k) /\ OthersStay(t, k)
  BY PutOne, KindFacts DEF EndCall
<1>2. IsIdle(t, k)' /\ ~HadTurn(t, k)'
  BY <1>1, IdleFacts DEF IsIdle, HadTurn
<1>3. \A u \in Tabs, l \in LockedKinds :
        (IsIdle(u, l) => IsIdle(u, l)') /\ (HadTurn(u, l)' => HadTurn(u, l))
  BY <1>1, <1>2, KindFacts DEF OthersStay, IsIdle, HadTurn
<1>4. \A u \in Tabs : AwayStays(u)
  BY <1>1, KindFacts DEF AwayStays, OthersStay, Away, IsIdle, Kinds
<1>5. Leaves(t, {k}) /\ {k} \in SUBSET Kinds
  BY KindFacts DEF EndCall
<1>6. QueueInv'
  BY <1>2, <1>3, <1>4, <1>5, QueueLeft DEF TurnInv
<1> QED
  BY <1>1, <1>6

LEMMA LoseTurn ==
  ASSUME ClientInv, TurnInv, NEW t \in Tabs, NEW k \in Kinds, Lose(t, k)
  PROVE  TurnInv'
<1> USE DEF TurnInv
<1>1. k \in LockedKinds /\ EndCall(t, k)
  BY DEF Lose
<1>2. QueueInv' /\ call'[t][k] = Idle(k) /\ OthersStay(t, k)
  BY <1>1, EndedQueue
<1>3. lost \subseteq lost' /\ Unheard(call[t][k]) \subseteq lost'
  BY DEF Lose
<1>4. StraysLost'
  <2> SUFFICES ASSUME NEW c \in stray', c.kind = "refresh", c.phase = "sent", c.token # NoToken
               PROVE  c.token.family \in lost'
    BY DEF StraysLost
  <2>1. CASE c \in stray
    BY <2>1, <1>3 DEF TokensInv
  <2>2. CASE c = call[t][k]
    <3>1. c.token.family # "none"
      BY <2>2, CallFacts, TokenFacts
    <3> QED
      BY <2>2, <3>1, <1>3 DEF Unheard
  <2> QED
    BY <2>1, <2>2 DEF Lose
<1>5. TokensInv'
  <2>1. Tame(t, k)
    BY <1>2, IdleFacts DEF Tame
  <2>2. \A u \in Tabs, l \in Kinds : Tame(u, l)
    BY <1>2, <2>1, OneTame
  <2>3. k = "refresh" /\ Renewal(call[t]["refresh"])
          => call[t]["refresh"].token.family \in lost' \cup {"none"}
    BY <1>3 DEF Renewal, Unheard
  <2>4. RenewalsStay
    BY <1>2, <2>3, OneRenewal
  <2>5. Persists
    BY <1>3, SessionsPersist DEF Lose, server
  <2> QED
    BY <1>4, <2>2, <2>4, <2>5, TokensStay DEF Lose
<1>6. OutInv'
  <2>1. ASSUME NEW u \in Tabs, Quiet(call[u]["refresh"])
        PROVE  Quiet(call[u]["refresh"])'
    <3>1. CASE u = t /\ k = "refresh"
      BY <3>1, <1>2, IdleFacts DEF Quiet
    <3>2. CASE ~(u = t /\ k = "refresh")
      BY <2>1, <3>2, <1>2 DEF OthersStay, Kinds, LockedKinds
    <3> QED
      BY <3>1, <3>2
  <2> QED
    BY <2>1, OutStays DEF Lose
<1> QED
  BY <1>2, <1>5, <1>6

----------------------------------------------------------------------------
(* The lock is granted. *)

LEMMA GrantTurn ==
  ASSUME Locking, ClientInv, TurnInv, NEW t \in Tabs, NEW k \in Kinds, Grant(t, k)
  PROVE  TurnInv'
<1> USE DEF TurnInv
<1> DEFINE c == call[t][k]
           b == Home[t]
           d == [c EXCEPT !.phase = "sent", !.token = cookie[b]]
<1>1. k \in LockedKinds /\ c.phase = "queued" /\ queue[t][k] = {}
  BY DEF Grant, Holds
<1>2. CASE k = "refresh" /\ ~c.fresh
  <2>1. EndCall(t, k)
    BY <1>2 DEF Grant, EndCall
  <2>2. QueueInv' /\ call'[t][k] = Idle(k) /\ OthersStay(t, k)
    BY <1>1, <2>1, EndedQueue
  <2>3. TokensInv'
    <3>1. Tame(t, k)
      BY <2>2, IdleFacts DEF Tame
    <3>2. \A u \in Tabs, l \in Kinds : Tame(u, l)
      BY <2>2, <3>1, OneTame
    <3>3. RenewalsStay
      BY <1>1, <2>2, OneRenewal DEF Renewal
    <3>4. Persists /\ StraysLost'
      BY SessionsPersist DEF Grant, server, TokensInv, StraysLost
    <3> QED
      BY <3>2, <3>3, <3>4, TokensStay DEF Grant
  <2>4. OutInv'
    <3>1. Quiet(call[t]["refresh"])'
      BY <1>2, <2>2, IdleFacts DEF Quiet
    <3>2. \A u \in Tabs : Quiet(call[u]["refresh"]) => Quiet(call[u]["refresh"])'
      BY <3>1, <2>2 DEF OthersStay, Kinds, LockedKinds
    <3> QED
      BY <3>2, OutStays DEF Grant
  <2> QED
    BY <2>2, <2>3, <2>4
<1>3. CASE ~(k = "refresh" /\ ~c.fresh)
  <2>1. call'[t][k] = d /\ OthersStay(t, k)
    BY <1>3, PutOne DEF Grant
  <2>2. d.kind = k /\ d.phase = "sent" /\ d.token = cookie[b]
    <3>1. c \in Call /\ c.kind = k
      BY CallFacts, GoodFacts DEF TokensInv
    <3> QED
      BY <3>1 DEF Call
  <2> HIDE DEF d
  <2>3. /\ UNCHANGED <<session, ended, lost, stray, cookie, out, queue>>
        /\ Persists
    BY <1>3, SessionsPersist DEF Grant, server
  <2>4. \A u \in Tabs, l \in Kinds : call'[u][l] = call[u][l] \/ (u = t /\ l = k)
    BY <2>1 DEF OthersStay
  <2>5. b \in Browsers
    OBVIOUS
  <2>6. QueueInv'
    <3>1. ~IsIdle(t, k)
      BY <1>1 DEF IsIdle
    <3>2. ASSUME NEW u \in Tabs, NEW l \in LockedKinds
          PROVE  (IsIdle(u, l) => IsIdle(u, l)') /\ (HadTurn(u, l)' => queue[u][l] = {})
      <4>1. CASE u = t /\ l = k
        BY <1>1, <3>1, <4>1
      <4>2. CASE ~(u = t /\ l = k)
        <5>1. call'[u][l] = call[u][l]
          BY <2>4, <4>2, KindFacts
        <5> QED
          BY <5>1 DEF IsIdle, HadTurn, QueueInv
      <4> QED
        BY <4>1, <4>2
    <3>3. \A u \in Tabs : AwayStays(u)
      BY <1>1, <2>1, KindFacts DEF AwayStays, Away, IsIdle, OthersStay, Kinds
    <3> QED
      BY <2>3, <3>2, <3>3, QueueStays
  <2>7. Apart'
    <3>1. ASSUME NEW e \in Browsers, NEW u \in Tabs, NEW l \in Kinds,
                 Same(cookie[e], call[u][l].token)'
          PROVE  e = Home[u] /\ l # "oauth"
      <4>1. CASE u = t /\ l = k
        <5>1. Same(cookie[e], cookie[b])
          BY <2>1, <2>2, <2>3, <3>1, <4>1 DEF Same
        <5> QED
          BY <5>1, <1>1, <2>5, <4>1, KindFacts DEF TokensInv, Apart
      <4>2. CASE ~(u = t /\ l = k)
        BY <2>3, <2>4, <3>1, <4>2 DEF TokensInv, Apart
      <4> QED
        BY <4>1, <4>2
    <3>2. ASSUME NEW u \in Tabs, NEW v \in Tabs, NEW l \in Kinds, NEW m \in Kinds,
                 Same(call[u][l].token, call[v][m].token)', <<u, l>> # <<v, m>>
          PROVE  Home[u] = Home[v] /\ l # "oauth" /\ m # "oauth"
      <4>1. CASE u = t /\ l = k
        <5>1. Same(cookie[b], call[v][m].token)
          BY <2>1, <2>2, <2>4, <3>2, <4>1 DEF Same
        <5> QED
          BY <5>1, <1>1, <2>5, <4>1, KindFacts DEF TokensInv, Apart
      <4>2. CASE v = t /\ m = k
        <5>1. Same(cookie[b], call[u][l].token)
          BY <2>1, <2>2, <2>4, <3>2, <4>2 DEF Same
        <5> QED
          BY <5>1, <1>1, <2>5, <4>2, KindFacts DEF TokensInv, Apart
      <4>3. CASE ~(u = t /\ l = k) /\ ~(v = t /\ m = k)
        BY <2>4, <3>2, <4>3 DEF TokensInv, Apart
      <4> QED
        BY <4>1, <4>2, <4>3
    <3>3. \A e, f \in Browsers : Same(cookie[e], cookie[f])' => e = f
      BY <2>3 DEF TokensInv, Apart
    <3> QED
      BY <3>1, <3>2, <3>3 DEF Apart
  <2>8. k = "refresh" => Counts(cookie[b])
    <3> SUFFICES ASSUME k = "refresh", CookieRenewed(b)
                 PROVE  FALSE
      BY <2>5 DEF TokensInv
    <3>1. PICK u \in Tabs : Home[u] = b /\ Renewal(call[u]["refresh"])
      BY DEF CookieRenewed
    <3>2. HadTurn(u, "refresh") /\ ~IsIdle(t, "refresh")
      BY <1>1, <3>1 DEF HadTurn, Renewal, IsIdle
    <3>3. t = u
      BY <1>1, <3>1, <3>2, OneHasTurn DEF LockedKinds
    <3> QED
      BY <1>1, <3>1, <3>3 DEF Renewal
  <2>9. TokensInv'
    <3>1. \A u \in Tabs, l \in Kinds : call'[u][l].kind = l
      BY <2>1, <2>2, <2>4 DEF TokensInv
    <3>2. \A u \in Tabs : call'[u]["password"].token = NoToken
      BY <1>1, <2>4, KindFacts DEF TokensInv, Kinds
    <3>3. /\ \A e \in Browsers : IssuedToken(cookie[e])'
          /\ \A u \in Tabs, l \in Kinds : IssuedToken(call[u][l].token)'
      BY <2>1, <2>2, <2>3, <2>4, <2>5 DEF TokensInv, IssuedToken
    <3>4. \A u \in Tabs, l \in Kinds : InUse(call[u][l])' => Counts(call[u][l].token)'
      <4>1. InUse(d) => Counts(d.token)
        BY <2>2, <2>8 DEF InUse
      <4> QED
        BY <2>1, <2>3, <2>4, <4>1 DEF TokensInv, InUse, Counts
    <3>5. \A e \in Browsers : Counts(cookie[e])' \/ CookieRenewed(e)'
      <4>1. \A e \in Browsers : CookieRenewed(e) => CookieRenewed(e)'
        BY <1>1, <2>3, <2>4 DEF CookieRenewed, Renewal, Kinds, LockedKinds
      <4>2. \A e \in Browsers : Counts(cookie[e]) => Counts(cookie[e])'
        BY <2>3 DEF Counts
      <4> QED
        BY <4>1, <4>2 DEF TokensInv
    <3>6. StraysLost'
      BY <2>3 DEF TokensInv, StraysLost
    <3> QED
      BY <2>7, <3>1, <3>2, <3>3, <3>4, <3>5, <3>6 DEF TokensInv, StraysLost
  <2>10. OutInv'
    <3>1. ASSUME NEW u \in Tabs, cookie[Home[u]] = NoToken, Quiet(call[u]["refresh"])
          PROVE  Quiet(call[u]["refresh"])'
      <4>1. CASE u = t /\ k = "refresh"
        BY <2>1, <2>2, <3>1, <4>1 DEF Quiet
      <4>2. CASE ~(u = t /\ k = "refresh")
        BY <2>4, <3>1, <4>2 DEF Kinds, LockedKinds
      <4> QED
        BY <4>1, <4>2
    <3> QED
      BY <2>3, <3>1, OutStays
  <2> QED
    BY <2>6, <2>9, <2>10
<1> QED
  BY <1>2, <1>3

----------------------------------------------------------------------------
(* The answer arrives. *)

\* The browser takes the token of a call that ends; calls of the tab may begin.
LEMMA TakenTurn ==
  ASSUME ClientInv, TokensInv, NEW t \in Tabs, NEW k \in Kinds,
         k \in {"refresh", "login", "oauth"},
         call[t][k].phase = "answered", call[t][k].answer = "ok",
         SetCookie(t, call[t][k].token),
         call'[t][k].kind = k, call'[t][k].token = NoToken,
         \A u \in Tabs, l \in Kinds : u # t \/ l # k =>
           \/ Alike(call[u][l], call'[u][l])
           \/ IsIdle(u, l) /\ call'[u][l].kind = l /\ call'[u][l].token = NoToken,
         UNCHANGED <<session, ended, lost, stray>>
  PROVE  TokensInv'
<1> DEFINE x == call[t][k].token
           b == Home[t]
<1>1. Counts(x) /\ IssuedToken(x)
  BY DEF TokensInv, InUse
<1>2. b \in Browsers
  OBVIOUS
<1>3. \A e \in Browsers : cookie'[e] = IF e = b THEN x ELSE cookie[e]
  BY DEF SetCookie, ClientInv
<1>4. ASSUME NEW u \in Tabs, NEW l \in Kinds, call'[u][l].token # NoToken
      PROVE  /\ <<u, l>> # <<t, k>> /\ call'[u][l].token = call[u][l].token
             /\ Alike(call[u][l], call'[u][l])
  BY <1>4 DEF Alike
<1> HIDE DEF x
<1>5. ASSUME NEW u \in Tabs, NEW l \in Kinds
      PROVE  call'[u][l].kind = l
  <2>1. call[u][l].kind = l
    BY DEF TokensInv
  <2> QED
    BY <2>1 DEF Alike
<1>6. ASSUME NEW u \in Tabs
      PROVE  call'[u]["password"].token = NoToken
  <2>1. call[u]["password"].token = NoToken /\ "password" \in Kinds
    BY DEF TokensInv, Kinds
  <2> QED
    BY <1>4, <2>1
<1>7. \A e \in Browsers : IssuedToken(cookie[e])'
  BY <1>1, <1>3 DEF IssuedToken, TokensInv
<1>8. \A u \in Tabs, l \in Kinds : IssuedToken(call[u][l].token)'
  BY <1>4 DEF IssuedToken, TokensInv
<1>9. Apart'
  <2>0. Apart
    BY DEF TokensInv
  <2>1. ASSUME NEW e \in Browsers, Same(x, cookie[e])
        PROVE  e = b
    <3>1. Same(cookie[e], call[t][k].token)
      BY <2>1 DEF Same, x
    <3> QED
      BY <3>1 DEF TokensInv, Apart
  <2>2. ASSUME NEW u \in Tabs, NEW l \in Kinds, <<u, l>> # <<t, k>>, Same(x, call[u][l].token)
        PROVE  Home[u] = b /\ l # "oauth"
    <3>1. Same(call[t][k].token, call[u][l].token)
      BY <2>2 DEF x
    <3> QED
      BY <2>2, <3>1 DEF TokensInv, Apart
  <2>3. ASSUME NEW e \in Browsers, NEW f \in Browsers, Same(cookie[e], cookie[f])'
        PROVE  e = f
    <3>1. CASE e = b
      BY <1>3, <2>1, <2>3, <3>1
    <3>2. CASE f = b
      <4>1. e # b => Same(x, cookie[e])
        BY <1>3, <2>3, <3>2 DEF Same
      <4> QED
        BY <2>1, <3>2, <4>1
    <3>3. CASE e # b /\ f # b
      BY <1>3, <2>3, <3>3 DEF TokensInv, Apart
    <3> QED
      BY <3>1, <3>2, <3>3
  <2>4. ASSUME NEW e \in Browsers, NEW u \in Tabs, NEW l \in Kinds,
               Same(cookie[e], call[u][l].token)'
        PROVE  e = Home[u] /\ l # "oauth"
    <3>1. <<u, l>> # <<t, k>> /\ call'[u][l].token = call[u][l].token
      BY <1>4, <2>4 DEF Same
    <3>2. CASE e = b
      BY <1>3, <2>2, <2>4, <3>1, <3>2
    <3>3. CASE e # b
      BY <1>3, <2>4, <3>1, <3>3 DEF TokensInv, Apart
    <3> QED
      BY <3>2, <3>3
  <2>5. ASSUME NEW u \in Tabs, NEW v \in Tabs, NEW l \in Kinds, NEW m \in Kinds,
               Same(call[u][l].token, call[v][m].token)', <<u, l>> # <<v, m>>
        PROVE  Home[u] = Home[v] /\ l # "oauth" /\ m # "oauth"
    <3>1. Same(call[u][l].token, call[v][m].token)
      BY <1>4, <2>5 DEF Same
    <3> QED
      BY <2>0, <2>5, <3>1 DEF Apart
  <2> QED
    BY <2>3, <2>4, <2>5 DEF Apart
<1>10. \A u \in Tabs, l \in Kinds : InUse(call[u][l])' => Counts(call[u][l].token)'
  <2> SUFFICES ASSUME NEW u \in Tabs, NEW l \in Kinds, InUse(call[u][l])', call'[u][l].token # NoToken
               PROVE  Counts(call[u][l].token)'
    BY DEF Counts
  <2>1. Alike(call[u][l], call'[u][l]) /\ InUse(call[u][l])
    BY <1>4, AlikeFacts
  <2> QED
    BY <2>1 DEF TokensInv, Counts, Alike
<1>11. \A e \in Browsers : Counts(cookie[e])' \/ CookieRenewed(e)'
  <2> SUFFICES ASSUME NEW e \in Browsers, e # b
               PROVE  Counts(cookie[e])' \/ CookieRenewed(e)'
    BY <1>1, <1>3 DEF Counts
  <2>1. cookie'[e] = cookie[e]
    BY <1>3
  <2>2. CASE Counts(cookie[e])
    BY <2>1, <2>2 DEF Counts
  <2>3. CASE CookieRenewed(e)
    <3>1. PICK u \in Tabs : /\ Home[u] = e /\ Renewal(call[u]["refresh"])
                            /\ call[u]["refresh"].token.family = cookie[e].family
      BY <2>3 DEF CookieRenewed
    <3>2. Alike(call[u]["refresh"], call'[u]["refresh"])
      BY <3>1 DEF Renewal, IsIdle, Kinds, LockedKinds
    <3>3. Renewal(call'[u]["refresh"])
      BY <3>1, <3>2, AlikeFacts
    <3>4. call'[u]["refresh"].token.family = cookie'[e].family
      BY <2>1, <3>1, <3>2 DEF Alike
    <3> QED
      BY <3>1, <3>3, <3>4 DEF CookieRenewed
  <2> QED
    BY <2>2, <2>3 DEF TokensInv
<1> QED
  BY <1>5, <1>6, <1>7, <1>8, <1>9, <1>10, <1>11 DEF TokensInv

LEMMA ReceiveSessionTurn ==
  ASSUME ClientInv, TurnInv, NEW t \in Tabs, NEW k \in Kinds, ReceiveSession(t, k)
  PROVE  TurnInv'
<1> USE DEF TurnInv
<1>1. k \in LockedKinds /\ EndCall(t, k) /\ call[t][k].phase = "answered"
  BY DEF ReceiveSession, LockedKinds
<1>2. QueueInv' /\ call'[t][k] = Idle(k) /\ OthersStay(t, k)
  BY <1>1, EndedQueue
<1>3. UNCHANGED <<session, ended, lost, stray>>
  BY DEF ReceiveSession, server
<1>4. ASSUME NEW u \in Tabs, Quiet(call[u]["refresh"])
      PROVE  Quiet(call[u]["refresh"])'
  <2>1. CASE u = t /\ k = "refresh"
    BY <2>1, <1>2, IdleFacts DEF Quiet
  <2>2. CASE ~(u = t /\ k = "refresh")
    BY <1>4, <2>2, <1>2 DEF OthersStay, Kinds, LockedKinds
  <2> QED
    BY <2>1, <2>2
<1>5. CASE call[t][k].answer = "ok"
  <2>1. SetCookie(t, call[t][k].token)
    BY <1>5 DEF ReceiveSession, Takes
  <2>2. TokensInv'
    <3>1. \A u \in Tabs, l \in Kinds : u # t \/ l # k => Alike(call[u][l], call'[u][l])
      BY <1>2, SameAlike DEF OthersStay
    <3>2. call'[t][k].kind = k /\ call'[t][k].token = NoToken
      BY <1>2, IdleFacts
    <3>3. k \in {"refresh", "login", "oauth"}
      BY DEF ReceiveSession
    <3> QED
      BY <1>1, <1>3, <1>5, <2>1, <3>1, <3>2, <3>3, TakenTurn
  <2>3. Home[t] \notin out' /\ out' \subseteq out
    <3>1. CASE k = "login"
      BY <1>5, <3>1 DEF ReceiveSession
    <3>2. CASE k = "refresh"
      <4>1. ~Quiet(call[t]["refresh"])
        BY <1>1, <1>5, <3>2 DEF Quiet
      <4>2. out' = out
        BY <3>2 DEF ReceiveSession
      <4> QED
        BY <4>1, <4>2 DEF OutInv
    <3> QED
      BY <3>1, <3>2 DEF ReceiveSession
  <2>4. \A b \in out' : cookie[b] = NoToken => cookie'[b] = NoToken
    BY <2>1, <2>3 DEF SetCookie, OutInv, ClientInv
  <2> QED
    BY <1>2, <1>4, <2>2, <2>3, <2>4, OutStays
<1>6. CASE call[t][k].answer # "ok"
  <2>1. UNCHANGED <<cookie, out>>
    BY <1>6 DEF ReceiveSession, Takes
  <2>2. TokensInv'
    <3>1. Tame(t, k)
      BY <1>2, IdleFacts DEF Tame
    <3>2. \A u \in Tabs, l \in Kinds : Tame(u, l)
      BY <1>2, <3>1, OneTame
    <3>3. RenewalsStay
      BY <1>2, <1>6, OneRenewal DEF Renewal
    <3>4. Persists /\ StraysLost'
      BY <1>3, SessionsPersist DEF TokensInv, StraysLost
    <3> QED
      BY <2>1, <3>2, <3>3, <3>4, TokensStay
  <2>3. OutInv'
    BY <1>4, <2>1, OutStays
  <2> QED
    BY <1>2, <2>2, <2>3
<1> QED
  BY <1>5, <1>6

LEMMA ReceiveLogoutTurn ==
  ASSUME ClientInv, TurnInv, NEW t \in Tabs, ReceiveLogout(t)
  PROVE  TurnInv'
<1> USE DEF TurnInv
<1>1. "logout" \in LockedKinds /\ "refresh" \in LockedKinds /\ "logout" \in Kinds
      /\ EndCall(t, "logout")
  BY DEF ReceiveLogout, LockedKinds, Kinds
<1>2. QueueInv' /\ call'[t]["logout"] = Idle("logout") /\ OthersStay(t, "logout")
  BY <1>1, EndedQueue
<1>3. UNCHANGED <<session, ended, lost, stray>>
  BY DEF ReceiveLogout, server
<1>4. \A b \in Browsers : cookie'[b] = IF b = Home[t] THEN NoToken ELSE cookie[b]
  BY DEF ReceiveLogout, SetCookie, ClientInv
<1>5. TokensInv'
  <2>1. Tame(t, "logout")
    BY <1>2, IdleFacts DEF Tame
  <2>2. \A u \in Tabs, l \in Kinds : Tame(u, l)
    BY <1>1, <1>2, <2>1, OneTame
  <2>3. RenewalsStay
    BY <1>1, <1>2, OneRenewal
  <2>4. Persists /\ StraysLost'
    BY <1>3, SessionsPersist DEF TokensInv, StraysLost
  <2> QED
    BY <1>4, <2>2, <2>3, <2>4, TokensStay
<1>6. OutInv'
  <2>1. \A u \in Tabs : call'[u]["refresh"] = call[u]["refresh"]
    BY <1>2, KindFacts, <1>1 DEF OthersStay
  <2>2. ASSUME NEW u \in Tabs, Home[u] = Home[t]
        PROVE  Quiet(call[u]["refresh"])
    <3>1. queue[t]["logout"] = {} /\ ~IsIdle(t, "logout")
      BY <1>1 DEF ReceiveLogout, QueueInv, HadTurn, IsIdle
    <3>2. ~HadTurn(u, "refresh")
      BY <1>1, <2>2, <3>1, OneHasTurn
    <3> QED
      BY <3>2 DEF HadTurn, Quiet
  <2>3. out' = out \cup {Home[t]} /\ Home[t] \in Browsers
    BY DEF ReceiveLogout
  <2> QED
    BY <1>4, <2>1, <2>2, <2>3 DEF OutInv
<1> QED
  BY <1>2, <1>5, <1>6

LEMMA ReceiveOAuthTurn ==
  ASSUME ClientInv, TurnInv, NEW t \in Tabs, ReceiveOAuth(t)
  PROVE  TurnInv'
<1> USE DEF TurnInv
<1> DEFINE c == call[t]["oauth"]
<1>1. c.phase = "answered" /\ Away(t)
  BY DEF ReceiveOAuth, Away, IsIdle
<1>2. \A k \in LockedKinds : IsIdle(t, k)
  BY <1>1, KindFacts DEF QueueInv
<1>3. /\ call'[t]["oauth"] = Idle("oauth") /\ call'[t]["refresh"] = Queued("refresh")
      /\ \A u \in Tabs, k \in Kinds : u # t \/ k \notin {"oauth", "refresh"}
           => call'[u][k] = call[u][k]
  <2>1. call \in [Tabs -> [Kinds -> GoodCalls]]
    BY DEF ClientInv
  <2> QED
    BY <2>1 DEF ReceiveOAuth, Kinds, LockedKinds
<1>4. UNCHANGED <<session, ended, lost, stray>>
  BY DEF ReceiveOAuth, server
<1>5. IsIdle(t, "refresh")
  BY <1>2 DEF LockedKinds
<1>6. QueueInv'
  <2>1. call'[t]["refresh"].phase = "queued" /\ ~Away(t)'
    BY <1>3, IdleFacts DEF Away, IsIdle
  <2>2. \A u \in Tabs, k \in LockedKinds : u # t \/ k # "refresh" =>
          (IsIdle(u, k) => IsIdle(u, k)') /\ (HadTurn(u, k)' => HadTurn(u, k))
    BY <1>3, KindFacts DEF IsIdle, HadTurn
  <2>3. \A u \in Tabs : AwayStays(u)
    BY <1>3, <2>1 DEF AwayStays, Away, IsIdle, Kinds
  <2>4. Waits(t, "refresh") /\ "refresh" \in LockedKinds
    BY DEF ReceiveOAuth, LockedKinds
  <2> QED
    BY <2>1, <2>2, <2>3, <2>4, QueueJoined
<1>7. TokensInv'
  <2>1. CASE c.answer = "ok"
    <3>1. SetCookie(t, c.token)
      BY <2>1 DEF ReceiveOAuth, Takes
    <3>2. ASSUME NEW u \in Tabs, NEW l \in Kinds, u # t \/ l # "oauth"
          PROVE  \/ Alike(call[u][l], call'[u][l])
                 \/ IsIdle(u, l) /\ call'[u][l].kind = l /\ call'[u][l].token = NoToken
      <4>1. CASE u = t /\ l = "refresh"
        BY <4>1, <1>3, <1>5, IdleFacts
      <4>2. CASE ~(u = t /\ l = "refresh")
        BY <4>2, <3>2, <1>3, SameAlike
      <4> QED
        BY <4>1, <4>2
    <3>3. call'[t]["oauth"].kind = "oauth" /\ call'[t]["oauth"].token = NoToken
      BY <1>3, IdleFacts
    <3> QED
      BY <1>1, <1>4, <2>1, <3>1, <3>2, <3>3, TakenTurn DEF Kinds
  <2>2. CASE c.answer # "ok"
    <3>1. UNCHANGED cookie
      BY <2>2 DEF ReceiveOAuth, Takes
    <3>2. ASSUME NEW u \in Tabs, NEW k \in Kinds
          PROVE  Tame(u, k)
      <4>1. CASE u = t /\ k \in {"oauth", "refresh"}
        BY <4>1, <1>3, IdleFacts DEF Tame
      <4>2. CASE ~(u = t /\ k \in {"oauth", "refresh"})
        BY <4>2, <1>3, SameAlike, AlikeTame
      <4> QED
        BY <4>1, <4>2
    <3>3. RenewalsStay
      <4>1. ~Renewal(call[t]["refresh"])
        BY <1>5 DEF IsIdle, Renewal
      <4> QED
        BY <4>1, <1>3 DEF RenewalsStay, Kinds, LockedKinds
    <3>4. Persists /\ StraysLost'
      BY <1>4, SessionsPersist DEF TokensInv, StraysLost
    <3> QED
      BY <3>1, <3>2, <3>3, <3>4, TokensStay
  <2> QED
    BY <2>1, <2>2
<1>8. OutInv'
  <2>1. ASSUME NEW u \in Tabs, Quiet(call[u]["refresh"])
        PROVE  Quiet(call[u]["refresh"])'
    <3>1. CASE u = t
      BY <3>1, <1>3, IdleFacts DEF Quiet
    <3>2. CASE u # t
      BY <2>1, <3>2, <1>3 DEF Kinds, LockedKinds
    <3> QED
      BY <3>1, <3>2
  <2>2. out' \subseteq out /\ \A b \in out' : cookie[b] = NoToken => cookie'[b] = NoToken
    <3>1. CASE c.answer = "ok"
      BY <3>1 DEF ReceiveOAuth, Takes, SetCookie, OutInv, ClientInv
    <3>2. CASE c.answer # "ok"
      BY <3>2 DEF ReceiveOAuth, Takes
    <3> QED
      BY <3>1, <3>2
  <2> QED
    BY <2>1, <2>2, OutStays
<1> QED
  BY <1>6, <1>7, <1>8

LEMMA ReceivePasswordTurn ==
  ASSUME ClientInv, TurnInv, NEW t \in Tabs, ReceivePassword(t)
  PROVE  TurnInv'
<1> USE DEF TurnInv
<1> DEFINE c == call[t]["password"]
<1>1. c.phase = "answered" /\ c.token = NoToken /\ "password" \in Kinds /\ "logout" \in Kinds
  BY DEF ReceivePassword, TokensInv, Kinds, LockedKinds
<1>2. ~Away(t)
  BY <1>1 DEF QueueInv, IsIdle
<1>3. UNCHANGED <<session, ended, lost, stray, out>>
  BY DEF ReceivePassword, server
<1>4. \A b \in Browsers : cookie'[b] = NoToken \/ cookie'[b] = cookie[b]
  BY <1>1 DEF ReceivePassword, Takes, SetCookie, ClientInv
<1>5. CASE c.answer = "ok" /\ IsIdle(t, "logout")
  <2> DEFINE row == [NextEpoch(t, {}) EXCEPT !["password"] = Idle("password"),
                                             !["logout"] = Queued("logout")]
  <2>1. call'[t] = row /\ TabsStay(t) /\ Waits(t, "logout")
    BY <1>5, PutRow DEF ReceivePassword
  <2>2. /\ call'[t]["logout"] = Queued("logout") /\ call'[t]["password"] = Idle("password")
        /\ \A k \in Kinds : k # "logout" /\ k # "password" => call'[t][k] = NextEpoch(t, {})[k]
    BY <2>1 DEF NextEpoch, Kinds, LockedKinds
  <2>3. \A k \in Kinds : k # "logout" /\ k # "password" => Alike(call[t][k], call'[t][k])
    BY <2>2, EpochAlike
  <2>4. /\ call'[t]["logout"].phase = "queued" /\ call'[t]["logout"].kind = "logout"
        /\ call'[t]["logout"].token = NoToken
        /\ call'[t]["password"].kind = "password" /\ call'[t]["password"].token = NoToken
    BY <2>2, IdleFacts
  <2> QED
    BY <1>2, <1>3, <1>4, <1>5, <2>1, <2>3, <2>4, JoinKeeps DEF LockedKinds
<1>6. CASE ~(c.answer = "ok" /\ IsIdle(t, "logout"))
  <2>1. call'[t]["password"] = Idle("password") /\ OthersStay(t, "password")
    BY <1>1, <1>6, PutOne DEF ReceivePassword
  <2>2. \A u \in Tabs, k \in LockedKinds \cup {"oauth"} : call'[u][k] = call[u][k]
    BY <2>1 DEF OthersStay, Kinds, LockedKinds
  <2>3. QueueInv'
    <3>1. \A u \in Tabs, k \in LockedKinds :
            (IsIdle(u, k) => IsIdle(u, k)') /\ (HadTurn(u, k)' => queue[u][k] = {})
      BY <2>2 DEF IsIdle, HadTurn, QueueInv
    <3>2. \A u \in Tabs : AwayStays(u)
      BY <1>2, <2>1, <2>2 DEF AwayStays, IsIdle, Away, OthersStay, Kinds
    <3>3. UNCHANGED queue
      BY <1>6 DEF ReceivePassword
    <3> QED
      BY <3>1, <3>2, <3>3, QueueStays
  <2>4. TokensInv'
    <3>1. Tame(t, "password")
      BY <2>1, IdleFacts DEF Tame
    <3>2. \A u \in Tabs, l \in Kinds : Tame(u, l)
      BY <1>1, <2>1, <3>1, OneTame
    <3>3. RenewalsStay
      BY <1>1, <2>1, OneRenewal
    <3>4. Persists /\ StraysLost'
      BY <1>3, SessionsPersist DEF TokensInv, StraysLost
    <3> QED
      BY <1>4, <3>2, <3>3, <3>4, TokensStay
  <2>5. OutInv'
    <3>1. \A b \in out' : cookie[b] = NoToken => cookie'[b] = NoToken
      BY <1>3, <1>4 DEF OutInv
    <3>2. \A u \in Tabs : Quiet(call[u]["refresh"]) => Quiet(call[u]["refresh"])'
      BY <2>2 DEF LockedKinds
    <3> QED
      BY <1>3, <3>1, <3>2, OutStays
  <2> QED
    BY <2>3, <2>4, <2>5
<1> QED
  BY <1>5, <1>6

----------------------------------------------------------------------------
(* The server answers. *)

\* The answer brings no token, the rotated one, or the first of a session.
Calm(c, d) ==
  /\ d.token = NoToken \/ (d.token = c.token /\ ~InUse(d))
  /\ c.kind = "refresh" => Quiet(d)
  /\ Persists

Renews(c, d) ==
  /\ c.kind = "refresh" /\ c.phase = "sent" /\ c.token # NoToken
  /\ Rotate(c.token.family, c.token.n)
  /\ d.phase = "answered" /\ d.answer = "ok"
  /\ d.token = TokenOf(c.token.family, session[c.token.family].last + 1)

Starts(c, d) ==
  /\ c.kind \in {"login", "oauth"}
  /\ \E f \in Families, u \in Users, role \in {"USER", "ADMIN"} :
       IssueSession(f, u, role) /\ d.token = TokenOf(f, 0)
  /\ UNCHANGED ended

Outcome(p, d) ==
  /\ Reply(p, d) /\ OnTheWay(p.call)
  /\ d.kind = p.call.kind /\ d.phase \in {"read", "answered"}
  /\ Calm(p.call, d) \/ Renews(p.call, d) \/ Starts(p.call, d)

LEMMA DeniedCalm ==
  ASSUME NEW p, p.call \in GoodCalls, OnTheWay(p.call), Reply(p, Denied(p.call)), Persists
  PROVE  Outcome(p, Denied(p.call))
<1> DEFINE d == Denied(p.call)
<1>1. d.kind = p.call.kind /\ d.phase = "answered" /\ d.answer = "denied" /\ d.token = p.call.token
  BY AnsweredFacts DEF Denied
<1> HIDE DEF d
<1>2. ~InUse(d) /\ Quiet(d)
  BY <1>1 DEF InUse, Quiet
<1>3. Outcome(p, d)
  BY <1>1, <1>2 DEF Outcome, Calm, d
<1> QED
  BY <1>3 DEF d

LEMMA RefreshOutcome ==
  ASSUME SessionsInv, ClientInv, NEW p, p.call \in GoodCalls, HandleRefresh(p), UNCHANGED lost
  PROVE  \E d : Outcome(p, d)
<1> DEFINE c == p.call  f == c.token.family  n == c.token.n
           e == Answered(c, "ok", TokenOf(f, session[f].last + 1))
<1>1. c.kind = "refresh" /\ c.phase = "sent" /\ OnTheWay(c)
  BY DEF HandleRefresh, OnTheWay
<1>2. CASE Reply(p, Denied(c)) /\ UNCHANGED server
  BY <1>1, <1>2, SessionsPersist, DeniedCalm DEF server
<1>3. CASE Alarm(f, n) /\ Reply(p, Denied(c))
  BY <1>1, <1>3, RevokedPersist, DeniedCalm DEF Alarm
<1>4. CASE c.token # NoToken /\ Rotate(f, n) /\ Reply(p, e)
  <2>1. /\ e.kind = c.kind /\ e.phase = "answered" /\ e.answer = "ok"
        /\ e.token = TokenOf(f, session[f].last + 1)
    BY AnsweredFacts
  <2> HIDE DEF e
  <2>2. Renews(c, e)
    BY <1>1, <1>4, <2>1 DEF Renews
  <2>3. Outcome(p, e)
    BY <1>1, <1>4, <2>1, <2>2 DEF Outcome
  <2> QED
    BY <2>3
<1> QED
  BY <1>2, <1>3, <1>4 DEF HandleRefresh

\* An answer without a token.
LEMMA EmptyOutcome ==
  ASSUME NEW p, p.call \in GoodCalls, OnTheWay(p.call), p.call.kind # "refresh",
         Reply(p, Answered(p.call, "ok", NoToken)), Persists
  PROVE  \E d : Outcome(p, d)
<1> DEFINE d == Answered(p.call, "ok", NoToken)
<1>1. d.kind = p.call.kind /\ d.phase = "answered" /\ d.token = NoToken
  BY AnsweredFacts
<1> HIDE DEF d
<1>2. Outcome(p, d)
  BY <1>1 DEF Outcome, Calm, d
<1> QED
  BY <1>2

LEMMA LogoutOutcome ==
  ASSUME SessionsInv, ClientInv, NEW p, p.call \in GoodCalls, HandleLogout(p), UNCHANGED lost
  PROVE  \E d : Outcome(p, d)
<1>1. OnTheWay(p.call) /\ p.call.kind = "logout" /\ Reply(p, Answered(p.call, "ok", NoToken))
  BY DEF HandleLogout, OnTheWay
<1>2. Persists
  BY SessionsPersist, RevokedPersist DEF HandleLogout, Logout, server
<1> QED
  BY <1>1, <1>2, EmptyOutcome

LEMMA PasswordOutcome ==
  ASSUME SessionsInv, ClientInv, NEW p, p.call \in GoodCalls, HandlePassword(p), UNCHANGED lost
  PROVE  \E d : Outcome(p, d)
<1>1. OnTheWay(p.call) /\ p.call.kind = "password"
  BY DEF HandlePassword, OnTheWay
<1>2. CASE ChangePassword(p.call.user, p.call.typed) /\ Reply(p, Answered(p.call, "ok", NoToken))
  BY <1>1, <1>2, RevokedPersist, EmptyOutcome DEF ChangePassword
<1>3. CASE Reply(p, Denied(p.call)) /\ UNCHANGED server
  BY <1>1, <1>3, SessionsPersist, DeniedCalm DEF server
<1> QED
  BY <1>2, <1>3 DEF HandlePassword

\* The server has read the account.
LEMMA ReadOutcome ==
  ASSUME NEW p, p.call \in GoodCalls, OnTheWay(p.call), p.call.kind # "refresh", NEW d,
         d.kind = p.call.kind, d.phase = "read", d.token = p.call.token, Reply(p, d), Persists
  PROVE  \E e : Outcome(p, e)
<1>1. Outcome(p, d)
  BY DEF Outcome, Calm, InUse
<1> QED
  BY <1>1

LEMMA CredentialOutcome ==
  ASSUME ClientInv, NEW p, p.call \in GoodCalls, ReadCredential(p), UNCHANGED lost
  PROVE  \E d : Outcome(p, d)
<1> DEFINE c == p.call
           d == [c EXCEPT !.phase = "read", !.read = account[c.user].password]
<1>1. OnTheWay(c) /\ c.kind = "login"
  BY DEF ReadCredential, OnTheWay
<1>2. Persists
  BY SessionsPersist DEF ReadCredential, server
<1>3. d.kind = c.kind /\ d.phase = "read" /\ d.token = c.token
  <2>1. c \in Call
    BY GoodFacts
  <2> QED
    BY <2>1 DEF Call
<1>4. Reply(p, d) \/ Reply(p, Denied(c))
  BY DEF ReadCredential
<1> HIDE DEF d
<1>5. CASE Reply(p, d)
  BY <1>1, <1>2, <1>3, <1>5, ReadOutcome
<1>6. CASE Reply(p, Denied(c))
  BY <1>1, <1>2, <1>6, DeniedCalm
<1> QED
  BY <1>4, <1>5, <1>6

LEMMA IdentityOutcome ==
  ASSUME ClientInv, NEW p, p.call \in GoodCalls, FindIdentity(p), UNCHANGED lost
  PROVE  \E d : Outcome(p, d)
<1> DEFINE c == p.call
           d == [c EXCEPT !.phase = "read"]
<1>1. OnTheWay(c) /\ c.kind = "oauth"
  BY DEF FindIdentity, OnTheWay
<1>2. Persists
  BY SessionsPersist DEF FindIdentity, Register, server
<1>3. d.kind = c.kind /\ d.phase = "read" /\ d.token = c.token
  <2>1. c \in Call
    BY GoodFacts
  <2> QED
    BY <2>1 DEF Call
<1>4. Reply(p, d) \/ Reply(p, Denied(c))
  BY DEF FindIdentity
<1> HIDE DEF d
<1>5. CASE Reply(p, d)
  BY <1>1, <1>2, <1>3, <1>5, ReadOutcome
<1>6. CASE Reply(p, Denied(c))
  BY <1>1, <1>2, <1>6, DeniedCalm
<1> QED
  BY <1>4, <1>5, <1>6

\* A session is issued.
LEMMA StartOutcome ==
  ASSUME NEW p, p.call \in GoodCalls, OnTheWay(p.call), p.call.kind \in {"login", "oauth"},
         NEW f \in Families, NEW u \in Users, NEW role \in {"USER", "ADMIN"},
         IssueSession(f, u, role), UNCHANGED ended, Reply(p, Answered(p.call, "ok", TokenOf(f, 0)))
  PROVE  \E d : Outcome(p, d)
<1> DEFINE d == Answered(p.call, "ok", TokenOf(f, 0))
<1>1. d.kind = p.call.kind /\ d.phase = "answered" /\ d.token = TokenOf(f, 0)
  BY AnsweredFacts
<1> HIDE DEF d
<1>2. Outcome(p, d)
  BY <1>1 DEF Outcome, Starts, d
<1> QED
  BY <1>2

LEMMA LoginOutcome ==
  ASSUME ClientInv, NEW p, p.call \in GoodCalls, HandleLogin(p), UNCHANGED lost
  PROVE  \E d : Outcome(p, d)
<1> DEFINE c == p.call
<1>1. OnTheWay(c) /\ c.kind = "login" /\ c.user \in Users
  BY GoodFacts DEF HandleLogin, OnTheWay, ForAccount
<1>2. ASSUME NEW f \in Families, SignInStaff(c.user, c.read, c.typed, f),
             Reply(p, Answered(c, "ok", TokenOf(f, 0)))
      PROVE  \E d : Outcome(p, d)
  BY <1>1, <1>2, StartOutcome DEF SignInStaff
<1>3. CASE Reply(p, Denied(c)) /\ UNCHANGED server
  BY <1>1, <1>3, SessionsPersist, DeniedCalm DEF server
<1> QED
  BY <1>2, <1>3 DEF HandleLogin

LEMMA OAuthOutcome ==
  ASSUME ClientInv, NEW p, p.call \in GoodCalls, HandleOAuth(p), UNCHANGED lost
  PROVE  \E d : Outcome(p, d)
<1> DEFINE c == p.call
<1>1. OnTheWay(c) /\ c.kind = "oauth" /\ c.user \in Users
  BY GoodFacts DEF HandleOAuth, OnTheWay, ForAccount
<1>2. ASSUME NEW f \in Families, SignInOAuth(c.user, f),
             Reply(p, Answered(c, "ok", TokenOf(f, 0)))
      PROVE  \E d : Outcome(p, d)
  BY <1>1, <1>2, StartOutcome DEF SignInOAuth
<1>3. CASE Reply(p, Denied(c)) /\ UNCHANGED server
  BY <1>1, <1>3, SessionsPersist, DeniedCalm DEF server
<1> QED
  BY <1>2, <1>3 DEF HandleOAuth

LEMMA ServeOutcome ==
  ASSUME SessionsInv, ClientInv, NEW p, p.call \in GoodCalls, Serve(p)
  PROVE  \E d : Outcome(p, d)
<1>1. UNCHANGED lost
  BY DEF Serve
<1> QED
  BY <1>1, RefreshOutcome, LogoutOutcome, PasswordOutcome, CredentialOutcome, IdentityOutcome,
     LoginOutcome, OAuthOutcome DEF Serve

\* The server has answered, or read, the call k of tab t.
LEMMA ServedQueue ==
  ASSUME ClientInv, QueueInv, NEW t \in Tabs, NEW k \in Kinds, OnTheWay(call[t][k]),
         OthersStay(t, k), call'[t][k].phase \in {"read", "answered"}, UNCHANGED queue
  PROVE  QueueInv'
<1>1. ~IsIdle(t, k) /\ HadTurn(t, k)
  BY DEF OnTheWay, IsIdle, HadTurn
<1>2. \A u \in Tabs, l \in LockedKinds :
        (IsIdle(u, l) => IsIdle(u, l)') /\ (HadTurn(u, l)' => queue[u][l] = {})
  <2> SUFFICES ASSUME NEW u \in Tabs, NEW l \in LockedKinds
               PROVE  (IsIdle(u, l) => IsIdle(u, l)') /\ (HadTurn(u, l)' => queue[u][l] = {})
    OBVIOUS
  <2>1. CASE u = t /\ l = k
    BY <1>1, <2>1 DEF QueueInv
  <2>2. CASE ~(u = t /\ l = k)
    BY <2>2, KindFacts DEF OthersStay, IsIdle, HadTurn, QueueInv
  <2> QED
    BY <2>1, <2>2
<1>3. \A u \in Tabs : AwayStays(u)
  BY <1>1 DEF AwayStays, Away, IsIdle, OthersStay, Kinds
<1> QED
  BY <1>2, <1>3, QueueStays

LEMMA CalmTurn ==
  ASSUME ClientInv, TurnInv, NEW t \in Tabs, NEW k \in Kinds, OthersStay(t, k),
         OnTheWay(call[t][k]), NEW d, call'[t][k] = d, d.kind = k, Calm(call[t][k], d),
         UNCHANGED <<cookie, stray, lost, out>>
  PROVE  TokensInv' /\ OutInv'
<1> USE DEF TurnInv
<1>1. TokensInv'
  <2>1. Tame(t, k)
    BY DEF Calm, Tame
  <2>2. \A u \in Tabs, l \in Kinds : Tame(u, l)
    BY <2>1, OneTame
  <2>3. RenewalsStay
    BY OneRenewal DEF Renewal, OnTheWay
  <2>4. Persists /\ StraysLost'
    BY DEF Calm, TokensInv, StraysLost
  <2> QED
    BY <2>2, <2>3, <2>4, TokensStay
<1>2. OutInv'
  <2>1. ASSUME NEW u \in Tabs, Quiet(call[u]["refresh"])
        PROVE  Quiet(call[u]["refresh"])'
    <3>1. CASE u = t /\ k = "refresh"
      <4>1. call[t][k].kind = k
        BY DEF TokensInv
      <4> QED
        BY <3>1, <4>1 DEF Calm
    <3>2. CASE ~(u = t /\ k = "refresh")
      BY <2>1, <3>2 DEF OthersStay, Kinds, LockedKinds
    <3> QED
      BY <3>1, <3>2
  <2> QED
    BY <2>1, OutStays
<1> QED
  BY <1>1, <1>2

LEMMA RenewTurn ==
  ASSUME SessionsInv, ClientInv, TurnInv, NEW t \in Tabs, NEW k \in Kinds, OthersStay(t, k),
         NEW d, call'[t][k] = d, d.kind = k, Renews(call[t][k], d),
         UNCHANGED <<cookie, stray, lost, out>>
  PROVE  TokensInv' /\ OutInv'
<1> USE DEF TurnInv
<1> DEFINE c == call[t][k]
           f == c.token.family
           n == session[f].last + 1
<1>1. k = "refresh" /\ c.phase = "sent" /\ c.token # NoToken
  BY DEF Renews, TokensInv
<1>2. f \in Families /\ f # "none" /\ c.token \in Tokens
  BY <1>1, CallFacts, TokenFacts
<1>3. /\ session'[f].user = session[f].user /\ session[f].user # "none"
      /\ n \in session'[f].live
      /\ \A g \in Families : g # f => session'[g] = session[g]
  BY <1>2, RotateFacts DEF Renews
<1>4. d.token = TokenOf(f, n) /\ d.token # NoToken /\ d.token.family = f /\ d.token.n = n
  BY <1>2 DEF Renews, TokenOf, NoToken
<1>5. d.phase = "answered" /\ d.answer = "ok"
  BY DEF Renews
<1> HIDE DEF f, n
<1>6. UNCHANGED ended
  BY DEF Renews, Rotate
<1>7. \A u \in Tabs, l \in Kinds : ~(u = t /\ l = k) => call'[u][l] = call[u][l]
  BY DEF OthersStay
<1>8. Apart
  BY DEF TokensInv
\* Nobody else of the browser uses the family now.
<1>9. ASSUME NEW u \in Tabs, NEW l \in Kinds, ~(u = t /\ l = k),
              InUse(call[u][l]), call[u][l].token # NoToken
       PROVE  call[u][l].token.family # f
  <2> SUFFICES ASSUME call[u][l].token.family = f
               PROVE  FALSE
    OBVIOUS
  <2>1. Same(c.token, call[u][l].token)
    BY <1>1, <1>9 DEF Same, f
  <2>2. Home[t] = Home[u] /\ l # "oauth"
    BY <1>8, <1>9, <2>1 DEF Apart
  <2>3. l # "password"
    BY <1>9 DEF TokensInv
  <2>4. l \in LockedKinds /\ k \in LockedKinds
    BY <1>1, <2>2, <2>3 DEF Kinds, LockedKinds
  <2>5. HadTurn(u, l) /\ HadTurn(t, k) /\ ~IsIdle(t, k)
    BY <1>1, <1>9 DEF InUse, HadTurn, IsIdle
  <2>6. queue[t][k] = {}
    BY <2>4, <2>5 DEF QueueInv
  <2> QED
    BY <1>9, <2>2, <2>4, <2>5, <2>6, OneHasTurn
<1>10. Apart'
  <2>1. \A u \in Tabs, l \in Kinds :
          /\ call'[u][l].token = NoToken <=> call[u][l].token = NoToken
          /\ call'[u][l].token.family = call[u][l].token.family
    BY <1>1, <1>4, <1>7 DEF f
  <2>2. \A u, v \in Tabs, l, m \in Kinds :
          Same(call[u][l].token, call[v][m].token)' => Same(call[u][l].token, call[v][m].token)
    BY <2>1 DEF Same
  <2>3. \A b \in Browsers, u \in Tabs, l \in Kinds :
          Same(cookie[b], call[u][l].token)' => Same(cookie[b], call[u][l].token)
    BY <2>1 DEF Same
  <2> QED
    BY <1>8, <2>2, <2>3 DEF Apart
<1>11. \A b \in Browsers : IssuedToken(cookie[b])'
  <2> SUFFICES ASSUME NEW b \in Browsers PROVE IssuedToken(cookie[b])'
    OBVIOUS
  <2>1. cookie[b] \in Tokens /\ IssuedToken(cookie[b])
    BY DEF ClientInv, TokensInv
  <2>2. cookie[b] # NoToken => cookie[b].family \in Families
    BY <2>1, TokenFacts
  <2> QED
    BY <1>3, <2>1, <2>2 DEF IssuedToken
<1>12. \A u \in Tabs, l \in Kinds : IssuedToken(call[u][l].token)'
  <2> SUFFICES ASSUME NEW u \in Tabs, NEW l \in Kinds PROVE IssuedToken(call[u][l].token)'
    OBVIOUS
  <2>1. call[u][l].token \in Tokens /\ IssuedToken(call[u][l].token)
    BY CallFacts DEF TokensInv
  <2>2. call[u][l].token # NoToken => call[u][l].token.family \in Families
    BY <2>1, TokenFacts
  <2>3. CASE u = t /\ l = k
    BY <1>3, <1>4, <2>3 DEF IssuedToken
  <2>4. CASE ~(u = t /\ l = k)
    BY <1>3, <1>7, <2>1, <2>2, <2>4 DEF IssuedToken
  <2> QED
    BY <2>3, <2>4
<1>13. \A u \in Tabs, l \in Kinds : InUse(call[u][l])' => Counts(call[u][l].token)'
  <2> SUFFICES ASSUME NEW u \in Tabs, NEW l \in Kinds, InUse(call[u][l])'
               PROVE  Counts(call[u][l].token)'
    OBVIOUS
  <2>1. CASE u = t /\ l = k
    BY <1>3, <1>4, <2>1 DEF Counts
  <2>2. CASE ~(u = t /\ l = k)
    <3>1. call'[u][l] = call[u][l]
      BY <1>7, <2>2
    <3>2. InUse(call[u][l]) /\ Counts(call[u][l].token) /\ call[u][l].token \in Tokens
      BY <3>1, CallFacts DEF InUse, TokensInv
    <3>3. CASE call[u][l].token = NoToken
      BY <3>1, <3>3 DEF Counts
    <3>4. CASE call[u][l].token # NoToken
      <4>1. call[u][l].token.family # f /\ call[u][l].token.family \in Families
        BY <1>9, <2>2, <3>2, <3>4, TokenFacts
      <4> QED
        BY <1>3, <1>6, <3>1, <3>2, <4>1 DEF Counts
    <3> QED
      BY <3>3, <3>4
  <2> QED
    BY <2>1, <2>2
<1>14. \A b \in Browsers : Counts(cookie[b])' \/ CookieRenewed(b)'
  <2> SUFFICES ASSUME NEW b \in Browsers, cookie[b] # NoToken
               PROVE  Counts(cookie[b])' \/ CookieRenewed(b)'
    BY DEF Counts
  <2>1. cookie[b] \in Tokens /\ cookie[b].family \in Families
    BY TokenFacts DEF ClientInv
  <2>2. CASE cookie[b].family = f
    <3>1. Same(cookie[b], c.token)
      BY <1>1, <2>2 DEF Same, f
    <3>2. b = Home[t]
      BY <1>8, <3>1 DEF Apart
    <3>3. Renewal(call'[t]["refresh"]) /\ call'[t]["refresh"].token.family = cookie'[b].family
      BY <1>1, <1>4, <1>5, <2>2 DEF Renewal
    <3> QED
      BY <3>2, <3>3 DEF CookieRenewed
  <2>3. CASE cookie[b].family # f /\ Counts(cookie[b])
    BY <1>3, <1>6, <2>1, <2>3 DEF Counts
  <2>4. CASE CookieRenewed(b)
    <3>1. PICK u \in Tabs : /\ Home[u] = b /\ Renewal(call[u]["refresh"])
                            /\ call[u]["refresh"].token.family = cookie[b].family
      BY <2>4 DEF CookieRenewed
    <3>2. u # t
      BY <1>1, <3>1 DEF Renewal
    <3>3. call'[u]["refresh"] = call[u]["refresh"]
      BY <1>7, <3>2 DEF Kinds, LockedKinds
    <3> QED
      BY <3>1, <3>3 DEF CookieRenewed, Renewal
  <2> QED
    BY <2>2, <2>3, <2>4 DEF TokensInv
<1>15. TokensInv'
  <2>1. \A u \in Tabs, l \in Kinds : call'[u][l].kind = l
    BY <1>7 DEF TokensInv
  <2>2. \A u \in Tabs : call'[u]["password"].token = NoToken
    BY <1>1, <1>7 DEF TokensInv, Kinds
  <2>3. StraysLost'
    BY DEF TokensInv, StraysLost
  <2> QED
    BY <1>10, <1>11, <1>12, <1>13, <1>14, <2>1, <2>2, <2>3 DEF TokensInv, StraysLost
<1>16. OutInv'
  <2>1. ASSUME NEW u \in Tabs, Quiet(call[u]["refresh"])
        PROVE  Quiet(call[u]["refresh"])'
    <3>1. u # t
      BY <1>1, <2>1 DEF Quiet
    <3> QED
      BY <1>7, <2>1, <3>1 DEF Kinds, LockedKinds
  <2> QED
    BY <2>1, OutStays
<1> QED
  BY <1>15, <1>16

LEMMA StartTurn ==
  ASSUME SessionsInv, ClientInv, TurnInv, NEW t \in Tabs, NEW k \in Kinds, OthersStay(t, k),
         OnTheWay(call[t][k]),
         NEW d, call'[t][k] = d, d.kind = k, Starts(call[t][k], d),
         UNCHANGED <<cookie, stray, lost, out>>
  PROVE  TokensInv' /\ OutInv'
<1> USE DEF TurnInv
<1>1. k \in {"login", "oauth"}
  BY DEF Starts, TokensInv
<1>2. PICK f \in Families, u \in Users, role \in {"USER", "ADMIN"} :
        IssueSession(f, u, role) /\ d.token = TokenOf(f, 0)
  BY DEF Starts
<1>3. /\ Persists /\ session[f].user = "none"
      /\ session'[f].user = u /\ u # "none" /\ session'[f].live = {0}
  BY <1>2, IssuedPersist DEF Starts
<1>4. d.token.family = f /\ d.token.n = 0 /\ d.token # NoToken
  BY <1>2 DEF TokenOf, NoToken
<1>5. \A v \in Tabs, l \in Kinds : ~(v = t /\ l = k) => call'[v][l] = call[v][l]
  BY DEF OthersStay
<1>6. Apart
  BY DEF TokensInv
<1>7. \A b \in Browsers : cookie[b] \in Tokens /\ IssuedToken(cookie[b])
  BY DEF ClientInv, TokensInv
<1>8. \A v \in Tabs, l \in Kinds : call[v][l].token \in Tokens /\ IssuedToken(call[v][l].token)
  BY CallFacts DEF TokensInv
<1>9. ASSUME NEW x \in Tokens, IssuedToken(x)
      PROVE  /\ ~Same(x, d.token) /\ ~Same(d.token, x)
             /\ IssuedToken(x)' /\ (Counts(x) => Counts(x)')
  <2>1. ~Same(x, d.token) /\ ~Same(d.token, x)
    BY <1>3, <1>4, <1>9 DEF IssuedToken, Same
  <2>2. x # NoToken => x.family \in Families
    BY TokenFacts
  <2>3. IssuedToken(x)'
    BY <1>3, <1>9, <2>2 DEF Persists, IssuedToken
  <2>4. Counts(x) => Counts(x)'
    BY <1>3, <2>2 DEF Persists, Counts
  <2> QED
    BY <2>1, <2>3, <2>4
<1>10. Apart'
  <2>1. ASSUME NEW b \in Browsers, NEW v \in Tabs, NEW l \in Kinds,
               Same(cookie[b], call[v][l].token)'
        PROVE  b = Home[v] /\ l # "oauth"
    <3>1. ~(v = t /\ l = k)
      BY <1>7, <1>9, <2>1
    <3> QED
      BY <1>5, <1>6, <2>1, <3>1 DEF Apart
  <2>2. ASSUME NEW v \in Tabs, NEW w \in Tabs, NEW l \in Kinds, NEW m \in Kinds,
               Same(call[v][l].token, call[w][m].token)', <<v, l>> # <<w, m>>
        PROVE  Home[v] = Home[w] /\ l # "oauth" /\ m # "oauth"
    <3>1. CASE v = t /\ l = k
      <4>1. call'[w][m] = call[w][m]
        BY <1>5, <2>2, <3>1
      <4> QED
        BY <1>8, <1>9, <2>2, <3>1, <4>1
    <3>2. CASE w = t /\ m = k
      <4>1. call'[v][l] = call[v][l]
        BY <1>5, <2>2, <3>2
      <4> QED
        BY <1>8, <1>9, <2>2, <3>2, <4>1
    <3>3. CASE ~(v = t /\ l = k) /\ ~(w = t /\ m = k)
      BY <1>5, <1>6, <2>2, <3>3 DEF Apart
    <3> QED
      BY <3>1, <3>2, <3>3
  <2>3. \A b, e \in Browsers : Same(cookie[b], cookie[e])' => b = e
    BY <1>6 DEF Apart
  <2> QED
    BY <2>1, <2>2, <2>3 DEF Apart
<1>11. Counts(d.token)' /\ IssuedToken(d.token)'
  BY <1>3, <1>4 DEF Counts, IssuedToken
<1>12. TokensInv'
  <2>1. \A v \in Tabs, l \in Kinds : call'[v][l].kind = l
    BY <1>5 DEF TokensInv
  <2>2. \A v \in Tabs : call'[v]["password"].token = NoToken
    BY <1>1, <1>5 DEF TokensInv, Kinds
  <2>3. \A b \in Browsers : IssuedToken(cookie[b])'
    <3>1. \A b \in Browsers : cookie'[b] = cookie[b]
      OBVIOUS
    <3> QED
      BY <1>7, <1>9, <3>1 DEF IssuedToken
  <2>4. ASSUME NEW v \in Tabs, NEW l \in Kinds
        PROVE  IssuedToken(call[v][l].token)'
    <3>1. CASE v = t /\ l = k
      BY <1>11, <3>1 DEF IssuedToken
    <3>2. CASE ~(v = t /\ l = k)
      BY <1>5, <1>8, <1>9, <3>2 DEF IssuedToken
    <3> QED
      BY <3>1, <3>2
  <2>5. ASSUME NEW v \in Tabs, NEW l \in Kinds, InUse(call[v][l])'
        PROVE  Counts(call[v][l].token)'
    <3>1. CASE v = t /\ l = k
      BY <1>11, <3>1 DEF Counts
    <3>2. CASE ~(v = t /\ l = k)
      <4>1. call'[v][l] = call[v][l] /\ Counts(call[v][l].token)
        BY <1>5, <2>5, <3>2 DEF TokensInv, InUse
      <4> QED
        BY <1>8, <1>9, <4>1 DEF Counts
    <3> QED
      BY <3>1, <3>2
  <2>6. ASSUME NEW b \in Browsers
        PROVE  Counts(cookie[b])' \/ CookieRenewed(b)'
    <3>1. CASE Counts(cookie[b])
      BY <1>7, <1>9, <3>1 DEF Counts
    <3>2. CASE CookieRenewed(b)
      <4>1. PICK v \in Tabs : /\ Home[v] = b /\ Renewal(call[v]["refresh"])
                              /\ call[v]["refresh"].token.family = cookie[b].family
        BY <3>2 DEF CookieRenewed
      <4>2. call'[v]["refresh"] = call[v]["refresh"]
        BY <1>1, <1>5 DEF Kinds, LockedKinds
      <4> QED
        BY <4>1, <4>2 DEF CookieRenewed, Renewal
    <3> QED
      BY <3>1, <3>2 DEF TokensInv
  <2>7. StraysLost'
    BY DEF TokensInv, StraysLost
  <2> QED
    BY <1>10, <2>1, <2>2, <2>3, <2>4, <2>5, <2>6, <2>7 DEF TokensInv, StraysLost
<1>13. OutInv'
  <2>1. \A v \in Tabs : call'[v]["refresh"] = call[v]["refresh"]
    BY <1>1, <1>5 DEF Kinds, LockedKinds
  <2> QED
    BY <2>1 DEF OutInv
<1> QED
  BY <1>12, <1>13

LEMMA OwnTurn ==
  ASSUME SessionsInv, ClientInv, TurnInv, NEW t \in Tabs, NEW k \in Kinds, Serve(Own(t, k))
  PROVE  TurnInv'
<1> DEFINE p == Own(t, k)
<1>1. p.call = call[t][k] /\ p.tab = t /\ p.own /\ call[t][k] \in GoodCalls
  BY CallFacts DEF Own
<1>2. PICK d : Outcome(p, d)
  BY <1>1, ServeOutcome
<1>3. d.kind = k /\ OnTheWay(call[t][k]) /\ d.phase \in {"read", "answered"}
  BY <1>1, <1>2 DEF Outcome, TurnInv, TokensInv
<1>4. call' = [call EXCEPT ![t][k] = d] /\ UNCHANGED stray
  BY <1>1, <1>2, <1>3 DEF Outcome, Reply
<1>5. call'[t][k] = d /\ OthersStay(t, k)
  BY <1>4, PutOne
<1>6. UNCHANGED <<cookie, queue, lost, out>>
  BY DEF Serve
<1>7. QueueInv'
  BY <1>3, <1>5, <1>6, ServedQueue DEF TurnInv
<1>8. TokensInv' /\ OutInv'
  <2>1. CASE Calm(call[t][k], d)
    BY <1>3, <1>4, <1>5, <1>6, <2>1, CalmTurn
  <2>2. CASE Renews(call[t][k], d)
    BY <1>3, <1>4, <1>5, <1>6, <2>2, RenewTurn
  <2>3. CASE Starts(call[t][k], d)
    BY <1>3, <1>4, <1>5, <1>6, <2>3, StartTurn
  <2> QED
    BY <1>1, <1>2, <2>1, <2>2, <2>3 DEF Outcome
<1> QED
  BY <1>7, <1>8 DEF TurnInv

LEMMA StrayTurn ==
  ASSUME SessionsInv, ClientInv, TurnInv, NEW c \in stray, Serve(Stray(c))
  PROVE  TurnInv'
<1> DEFINE p == Stray(c)
<1>1. p.call = c /\ ~p.own /\ c \in GoodCalls
  BY DEF Stray, ClientInv
<1>2. PICK d : Outcome(p, d)
  BY <1>1, ServeOutcome
<1>3. UNCHANGED <<cookie, queue, call, lost, out>>
  BY <1>1, <1>2 DEF Serve, Outcome, Reply
<1>4. StraysLost'
  <2>1. stray' = (stray \ {c}) \cup {e \in {d} : OnTheWay(e)} /\ d.phase # "sent"
    BY <1>1, <1>2 DEF Outcome, Reply
  <2> QED
    BY <1>3, <2>1 DEF StraysLost, TurnInv, TokensInv
<1>5. Persists
  <2>1. CASE Calm(c, d)
    BY <2>1 DEF Calm
  <2>2. CASE Renews(c, d)
    <3>1. c.token # NoToken /\ c.token.family \in lost
      BY <2>2 DEF Renews, TurnInv, TokensInv
    <3>2. c.token.family \in Families
      BY <1>1, <3>1, GoodFacts, TokenFacts
    <3>3. /\ session'[c.token.family].user # "none"
          /\ \A g \in Families : g # c.token.family => session'[g] = session[g]
      BY <2>2, <3>2, RotateFacts DEF Renews
    <3>4. UNCHANGED ended
      BY <2>2 DEF Renews, Rotate
    <3> QED
      BY <1>3, <3>1, <3>3, <3>4 DEF Persists
  <2>3. CASE Starts(c, d)
    <3>1. PICK f \in Families, u \in Users, role \in {"USER", "ADMIN"} : IssueSession(f, u, role)
      BY <2>3 DEF Starts
    <3> QED
      BY <1>3, <2>3, <3>1, IssuedPersist DEF Starts
  <2> QED
    BY <1>1, <1>2, <2>1, <2>2, <2>3 DEF Outcome
<1> QED
  BY <1>3, <1>4, <1>5, CallsAlone

----------------------------------------------------------------------------
LEMMA InitTurn == Init => TurnInv
<1> SUFFICES ASSUME Init PROVE TurnInv
  OBVIOUS
<1> USE DEF Init, ClientInit, SessionsInit
<1>1. \A t \in Tabs, k \in Kinds : call[t][k] = Idle(k)
  OBVIOUS
<1>2. \A t \in Tabs, k \in Kinds : IsIdle(t, k) /\ ~HadTurn(t, k)
  BY <1>1, IdleFacts DEF IsIdle, HadTurn
<1>3. QueueInv
  BY <1>2, KindFacts DEF QueueInv, InLine
<1>4. ASSUME NEW b \in Browsers, cookie[b] # NoToken
      PROVE  /\ cookie[b].family = SignedIn[b] /\ cookie[b].n = 0
             /\ SignedIn[b] \in Families /\ Opened[SignedIn[b]] \in Users
  <2>1. cookie[b] = TokenOf(SignedIn[b], 0)
    OBVIOUS
  <2>2. SignedIn[b] # "none"
    BY <1>4, <2>1 DEF TokenOf, NoToken
  <2> QED
    BY <2>1, <2>2 DEF TokenOf
<1>5. TokensInv
  <2>1. \A b \in Browsers : IssuedToken(cookie[b]) /\ Counts(cookie[b])
    <3> SUFFICES ASSUME NEW b \in Browsers, cookie[b] # NoToken
                 PROVE  session[cookie[b].family].user # "none" /\ 0 \in session[cookie[b].family].live
      BY <1>4 DEF IssuedToken, Counts
    <3>1. session[SignedIn[b]] = NewSession(Opened[SignedIn[b]], "ADMIN", 1)
      BY <1>4
    <3> QED
      BY <1>4, <3>1 DEF NewSession
  <2>2. \A t \in Tabs, k \in Kinds : call[t][k].kind = k /\ call[t][k].token = NoToken
                                     /\ ~InUse(call[t][k])
    BY <1>1, IdleFacts DEF InUse
  <2>3. \A b, d \in Browsers : Same(cookie[b], cookie[d]) => b = d
    BY <1>4 DEF Same
  <2>4. Apart
    BY <2>2, <2>3 DEF Apart, Same
  <2> QED
    BY <2>1, <2>2, <2>4 DEF TokensInv, IssuedToken, Kinds
<1>6. OutInv
  BY DEF OutInv
<1> QED
  BY <1>3, <1>5, <1>6 DEF TurnInv

LEMMA StepTurn ==
  ASSUME Locking, SessionsInv, ClientInv, TurnInv, [Next]_vars
  PROVE  TurnInv'
<1>1. ASSUME NEW t \in Tabs, Ask(t)
      PROVE  TurnInv'
  <2>1. ASSUME NEW u \in Owners[Home[t]], StaffLogin(t, u) \/ BeginOAuth(t, u)
        PROVE  TurnInv'
    <3>1. u \in Users
      OBVIOUS
    <3> QED
      BY <2>1, <3>1, AskTurn, BeginOAuthTurn
  <2> QED
    BY <1>1, <2>1, AskTurn, PasswordSent, DeskTurn DEF Ask
<1>2. ASSUME NEW t \in Tabs, Receive(t)
      PROVE  TurnInv'
  BY <1>2, ReceiveSessionTurn, ReceiveLogoutTurn, ReceiveOAuthTurn, ReceivePasswordTurn DEF Receive
<1>3. ASSUME NEW t \in Tabs, TabStep(t)
      PROVE  TurnInv'
  BY <1>1, <1>2, <1>3, ExpiredTurn, ReloadTurn, DeskTurn, GrantTurn, OwnTurn, LoseTurn DEF TabStep
<1>4. CASE UNCHANGED vars
  <2>1. \A t \in Tabs, k \in Kinds : Alike(call[t][k], call'[t][k])
    BY <1>4, SameAlike
  <2>2. StraysLost'
    BY <1>4 DEF TurnInv, TokensInv, StraysLost
  <2> QED
    BY <1>4, <2>1, <2>2, AlikeKeeps DEF server
<1> QED
  BY <1>3, <1>4, StrayTurn, ExpiryTurn DEF Next

LEMMA TurnInvariant == ASSUME Locking PROVE Spec => [](SessionsInv /\ ClientInv /\ TurnInv)
<1>1. Init => TurnInv
  BY InitTurn
<1>2. SessionsInv /\ ClientInv /\ TurnInv /\ [Next]_vars => TurnInv'
  BY StepTurn
<1> QED
  BY <1>1, <1>2, ClientInvariant, PTL DEF Spec

\* An alarm is raised by a refresh with a token that was revoked.
LEMMA AlarmCause ==
  ASSUME SessionsInv, ClientInv, TurnInv, [Next]_vars
  PROVE  alarmed' \ alarmed \subseteq ended \cup lost
<1>1. ASSUME NEW p, Serve(p), p.call \in GoodCalls,
             p.call.kind = "refresh" /\ p.call.phase = "sent" /\ p.call.token # NoToken
               => Counts(p.call.token) \/ p.call.token.family \in lost
      PROVE  alarmed' \ alarmed \subseteq ended \cup lost
  <2>1. CASE HandleRefresh(p)
    <3>1. CASE p.call.token # NoToken /\ Alarm(p.call.token.family, p.call.token.n)
      BY <1>1, <2>1, <3>1 DEF HandleRefresh, Alarm, Revoked, Counts
    <3>2. CASE UNCHANGED alarmed
      BY <3>2
    <3> QED
      BY <2>1, <3>1, <3>2 DEF HandleRefresh, Rotate, server
  <2>2. CASE UNCHANGED alarmed
    BY <2>2
  <2> QED
    BY <1>1, <2>1, <2>2 DEF Serve, HandleLogout, Logout, ReadCredential, HandleLogin, SignInStaff,
         FindIdentity, Register, HandleOAuth, SignInOAuth, HandlePassword, ChangePassword, server
<1>2. ASSUME NEW t \in Tabs, NEW k \in Kinds, Serve(Own(t, k))
      PROVE  alarmed' \ alarmed \subseteq ended \cup lost
  <2>1. Own(t, k).call = call[t][k] /\ call[t][k] \in GoodCalls
    BY CallFacts DEF Own
  <2>2. call[t][k].kind = "refresh" /\ call[t][k].phase = "sent" => Counts(call[t][k].token)
    BY DEF TurnInv, TokensInv, InUse
  <2> QED
    BY <1>1, <1>2, <2>1, <2>2
<1>3. ASSUME NEW c \in stray, Serve(Stray(c))
      PROVE  alarmed' \ alarmed \subseteq ended \cup lost
  <2>1. Stray(c).call = c /\ c \in GoodCalls
    BY DEF Stray, ClientInv
  <2> QED
    BY <1>1, <1>3, <2>1 DEF TurnInv, TokensInv
<1>4. CASE UNCHANGED alarmed
  BY <1>4
<1>5. ASSUME NEW t \in Tabs, TabStep(t)
      PROVE  alarmed' \ alarmed \subseteq ended \cup lost
  BY <1>2, <1>4, <1>5 DEF TabStep, Ask, RefreshSession, SignOut, SendPassword, Administer, BeginCreate,
       BeginUpdate, StaffLogin, BeginOAuth, Receive, ReceiveSession, ReceiveLogout, ReceiveOAuth,
       ReceivePassword, Expired, Reload, Desk, DeskStep, CheckUpdate, WriteUpdate, CreateStaff, Grant,
       Lose, server
<1> QED
  BY <1>3, <1>4, <1>5 DEF Next, SessionExpires, Expire, server

\* A tab takes up a session only from the answer to a refresh or a sign-in.
LEMMA TakesUpCause ==
  ASSUME SessionsInv, ClientInv, TurnInv, [Next]_vars, NEW t \in Tabs, TakesUp(t)
  PROVE  Home[t] \notin out'
<1>1. ASSUME NEW u \in Tabs, NEW x, Shows(u, x)
      PROVE  t = u /\ x # NoToken
  BY <1>1 DEF Shows, TakesUp, ClientInv
<1>2. shown' # shown
  BY DEF TakesUp
<1>3. ASSUME NEW u \in Tabs, NEW k \in Kinds, ReceiveSession(u, k)
      PROVE  Home[t] \notin out'
  <2>1. u = t /\ call[u][k].answer = "ok"
    BY <1>1, <1>2, <1>3 DEF ReceiveSession
  <2>2. CASE k = "login"
    BY <1>3, <2>1, <2>2 DEF ReceiveSession
  <2>3. CASE k = "refresh"
    <3>1. ~Quiet(call[t]["refresh"])
      BY <1>3, <2>1, <2>3 DEF ReceiveSession, Quiet
    <3>2. out' = out
      BY <1>3, <2>3 DEF ReceiveSession
    <3> QED
      BY <3>1, <3>2 DEF TurnInv, OutInv
  <2> QED
    BY <1>3, <2>2, <2>3 DEF ReceiveSession
<1>4. ASSUME NEW u \in Tabs
      PROVE  ~Shows(u, NoToken) /\ shown' # [shown EXCEPT ![u] = NoToken]
  BY <1>1 DEF Shows
<1>5. ASSUME NEW u \in Tabs, TabStep(u)
      PROVE  Home[t] \notin out'
  BY <1>2, <1>3, <1>4, <1>5 DEF TabStep, Ask, RefreshSession, SignOut, SendPassword, Administer,
       StaffLogin, BeginOAuth, Unloads, Receive, ReceiveLogout, ReceiveOAuth, ReceivePassword,
       Expired, Reload, Desk, Grant, Serve, Lose
<1> QED
  BY <1>2, <1>5 DEF Next, Serve, SessionExpires

(* With navigator.locks, tabs that share a cookie never use a token twice, *)
(* for any number of tabs, browsers, calls, reloads and losses: a revoked  *)
(* token comes back only if its family was revoked before, or the answer   *)
(* to an earlier refresh was lost.                                         *)
THEOREM NoAlarmIsFalse == ASSUME Locking PROVE Spec => NoFalseAlarm
<1>1. SessionsInv /\ ClientInv /\ TurnInv /\ [Next]_vars
        => [alarmed' \ alarmed \subseteq ended \cup lost]_vars
  BY AlarmCause
<1> QED
  BY <1>1, TurnInvariant, PTL DEF Spec, NoFalseAlarm

(* With navigator.locks, once a tab has signed out, no refresh that was    *)
(* under way in another tab of the browser brings a session back: a tab    *)
(* shows one again only after a sign-in.                                   *)
THEOREM SignedOutForGood == ASSUME Locking PROVE Spec => SignedOutStaysOut
<1>1. SessionsInv /\ ClientInv /\ TurnInv /\ [Next]_vars
        => [\A t \in Tabs : TakesUp(t) => Home[t] \notin out']_vars
  BY TakesUpCause
<1> QED
  BY <1>1, TurnInvariant, PTL DEF Spec, SignedOutStaysOut

----------------------------------------------------------------------------
(* Pages.  A request for the list that is listened to is about the page of *)
(* the moment, and was sent after the last change the page has reported.   *)

Datum  == [path : Paths \cup {Nowhere}, owner : Accounts \cup {Nowhere}, written : Nat]
ReadOf == [path : Paths, token : DOMAIN Holder, live : BOOLEAN, data : Datum]
Result == [path : Paths \cup {Nowhere}, token : DOMAIN Holder \cup {0},
           failed : BOOLEAN, data : Datum]

Operations == UNION {OperationsOf(k) : k \in AllKinds}
CallOf     == [op : Operations, row : Rows \cup {New}, number : Nat, token : DOMAIN Holder,
               here : {"all", "page", "none"}, at : {"sent", "made"}, change : Nat]
Question   == [op : Operations, row : Rows, token : DOMAIN Holder]

ListTypes ==
  /\ kind \in AllKinds /\ path \in Paths /\ token \in DOMAIN Holder
  /\ resource \in [result : Result, loading : BOOLEAN, failed : BOOLEAN]
  /\ reads \subseteq ReadOf
  /\ written \in [Accounts -> Nat] /\ told \in [Accounts -> Nat]

HandlerTypes ==
  /\ calls \subseteq CallOf /\ asked \subseteq Question
  /\ form \in Rows \cup {New, Nowhere} /\ sends \in Nat

\* The request r, while p and t are the page's path and token and the page has
\* reported n changes of the account.
Answers(r) ==
  r.data # NoAnswer => r.data.path = r.path /\ r.data.owner = Holder[r.token]

Listens(r, p, t, n) ==
  r.live => r.path = p /\ r.token = t /\ (r.data # NoAnswer => n <= r.data.written)

\* What the hook has, at x.
Has(x, p, t, n) ==
  /\ x.result.data # NoAnswer =>
       x.result.data.path = x.result.path /\ x.result.data.owner = Holder[x.result.token]
  /\ /\ ~x.loading /\ ~x.failed /\ ~x.result.failed
     /\ x.result.path = p /\ x.result.token = t
     => n <= x.result.data.written

ListInv ==
  /\ ListTypes
  /\ \A a \in Accounts : told[a] <= written[a]
  /\ \A c \in calls : c.at = "made" => c.change <= written[Holder[c.token]]
  /\ \A r \in reads : Answers(r) /\ Listens(r, path, token, told[Holder[token]])
  /\ Has(resource, path, token, told[Holder[token]])

(* Flags.  Of two handlers, the answer to one resets no flag that the      *)
(* other has set to keep others out.                                       *)

Parting == {"settings", "registry"}   \* the pages whose parts come and go

HandlersFit ==
  /\ \A c \in calls : /\ c.here # "none" => c.op \in OperationsOf(kind)
                      /\ c.here = "page" => kind \in Parting
  /\ \A flag \in busy : \E c \in calls : flag \in Resets(c)
  /\ \A c \in calls : c.here = "all" => Resets(c) \cap Flags(c.op.unless, c.row) \subseteq busy
  /\ \A c, d \in calls : c # d /\ d.here = "all" =>
       Resets(c) \cap Resets(d) \cap Flags(d.op.unless, d.row) = {}

QuestionsFit ==
  /\ asked # {} <=> dialog = "confirm"
  /\ \A x \in asked : x.op \in OperationsOf(kind) /\ Ready(x.op, x.row)
  /\ \A x, y \in asked : x = y

PagesInv == ListInv /\ HandlerTypes /\ HandlersFit /\ QuestionsFit

----------------------------------------------------------------------------
(* The tables of operations and flags. *)

\* Which flags keep an operation out, and which it sets.
IsOf(o, unless, sets) == o.unless = unless /\ o.sets = sets

LEMMA Shapes ==
  /\ IsOf(WorkflowSave, {"page"}, {"page"})
  /\ IsOf(WorkflowRun, {"page"}, {"page"})
  /\ IsOf(WorkflowToggle, {"page"}, {})
  /\ IsOf(WorkflowHistory, {}, {})
  /\ IsOf(WorkflowRemoval, {"page"}, {})
  /\ IsOf(ProjectSave, {"page"}, {"page"})
  /\ IsOf(ProjectView, {}, {})
  /\ IsOf(ProjectRemoval, {}, {})
  /\ IsOf(ConversationRename, {"page"}, {"page"})
  /\ IsOf(ConversationRemoval, {"page"}, {"page"})
  /\ IsOf(PromptSave, {"page"}, {"page"})
  /\ IsOf(PromptRemoval, {"page"}, {"page"})
  /\ IsOf(UserSave, {"page"}, {"page"})
  /\ IsOf(ConfigurationSave, {"part"}, {"page", "part"})
  /\ IsOf(SettingSave, {"part"}, {"part"})
  /\ IsOf(SettingReset, {"part"}, {"part"})
<1>1. IsOf(WorkflowSave, {"page"}, {"page"})
  BY DEF IsOf, WorkflowSave, Form
<1>2. IsOf(WorkflowRun, {"page"}, {"page"})
  BY DEF IsOf, WorkflowRun, Look, Button
<1>3. IsOf(WorkflowToggle, {"page"}, {})
  BY DEF IsOf, WorkflowToggle, Button
<1>4. IsOf(WorkflowHistory, {}, {})
  BY DEF IsOf, WorkflowHistory, Look, Button
<1>5. IsOf(WorkflowRemoval, {"page"}, {})
  BY DEF IsOf, WorkflowRemoval, Button
<1>6. IsOf(ProjectSave, {"page"}, {"page"})
  BY DEF IsOf, ProjectSave, Form
<1>7. IsOf(ProjectView, {}, {})
  BY DEF IsOf, ProjectView, Look, Button
<1>8. IsOf(ProjectRemoval, {}, {})
  BY DEF IsOf, ProjectRemoval, Button
<1>9. IsOf(ConversationRename, {"page"}, {"page"})
  BY DEF IsOf, ConversationRename, Form
<1>10. IsOf(ConversationRemoval, {"page"}, {"page"})
  BY DEF IsOf, ConversationRemoval, Button
<1>11. IsOf(PromptSave, {"page"}, {"page"})
  BY DEF IsOf, PromptSave, Form
<1>12. IsOf(PromptRemoval, {"page"}, {"page"})
  BY DEF IsOf, PromptRemoval, Button
<1>13. IsOf(UserSave, {"page"}, {"page"})
  BY DEF IsOf, UserSave, Form
<1>14. IsOf(ConfigurationSave, {"part"}, {"page", "part"})
  BY DEF IsOf, ConfigurationSave, Form
<1>15. IsOf(SettingSave, {"part"}, {"part"})
  BY DEF IsOf, SettingSave, Button
<1>16. IsOf(SettingReset, {"part"}, {"part"})
  BY DEF IsOf, SettingReset, Button
<1> QED
  BY <1>1, <1>2, <1>3, <1>4, <1>5, <1>6, <1>7, <1>8, <1>9, <1>10, <1>11, <1>12, <1>13, <1>14, <1>15, <1>16

LEMMA OperationShape ==
  ASSUME NEW k \in AllKinds, NEW o \in OperationsOf(k)
  PROVE  IF k \in Parting
         THEN o.unless = {"part"} /\ o.sets \subseteq {"page", "part"}
         ELSE o.unless \subseteq {"page"} /\ o.sets \in {{}, o.unless}
<1>1. CASE k = "workflows"
  <2>1. o \in {WorkflowSave, WorkflowRun, WorkflowToggle, WorkflowHistory, WorkflowRemoval}
    BY <1>1 DEF OperationsOf
  <2> QED
    BY <1>1, <2>1, Shapes
    DEF IsOf, Parting
<1>2. CASE k = "projects"
  <2>1. o \in {ProjectSave, ProjectView, ProjectRemoval}
    BY <1>2 DEF OperationsOf
  <2> QED
    BY <1>2, <2>1, Shapes DEF IsOf, Parting
<1>3. CASE k = "conversations"
  <2>1. o \in {ConversationRename, ConversationRemoval}
    BY <1>3 DEF OperationsOf
  <2> QED
    BY <1>3, <2>1, Shapes DEF IsOf, Parting
<1>4. CASE k = "prompts"
  <2>1. o \in {PromptSave, PromptRemoval}
    BY <1>4 DEF OperationsOf
  <2> QED
    BY <1>4, <2>1, Shapes DEF IsOf, Parting
<1>5. CASE k = "users"
  BY <1>5, Shapes DEF OperationsOf, IsOf, Parting
<1>6. CASE k = "registry"
  <2>1. o = ConfigurationSave
    BY <1>6 DEF OperationsOf
  <2>2. o.unless = {"part"} /\ o.sets = {"page", "part"}
    BY <2>1, Shapes DEF IsOf
  <2> QED
    BY <1>6, <2>2 DEF Parting
<1>7. CASE k = "settings"
  BY <1>7, Shapes DEF OperationsOf, IsOf, Parting
<1>8. CASE k = "audit"
  BY <1>8 DEF OperationsOf
<1> QED
  BY <1>1, <1>2, <1>3, <1>4, <1>5, <1>6, <1>7, <1>8 DEF AllKinds

LEMMA OperationsFit ==
  ASSUME NEW k \in AllKinds, NEW o \in OperationsOf(k), NEW p \in OperationsOf(k)
  PROVE  /\ o.sets \subseteq {"page", "part"} /\ o.sets \cap p.unless \subseteq o.unless
         /\ "part" \in o.sets => k \in Parting
         /\ k \in Parting => "page" \notin o.unless
<1>1. CASE k \in Parting
  BY <1>1, OperationShape
<1>2. CASE k \notin Parting
  <2>1. /\ o.unless \subseteq {"page"} /\ p.unless \subseteq {"page"}
        /\ o.sets = {} \/ o.sets = o.unless
    BY <1>2, OperationShape
  <2> QED
    BY <1>2, <2>1
<1> QED
  BY <1>1, <1>2

LEMMA RowsApart ==
  ASSUME NEW row \in Rows \cup {New}
  PROVE  row # "page"
  BY PagesAssumption DEF New, Nowhere

LEMMA FlagOf ==
  ASSUME NEW what, NEW row, NEW f
  PROVE  f \in Flags(what, row) <=>
           \/ f \in what /\ f # "part"
           \/ "part" \in what /\ f = row
  BY DEF Flags

\* A flag that one operation sets and that keeps another one of the page out
\* keeps out the first one as well.
MeetsAt(o, p, a, b) == Flags(o.sets, a) \cap Flags(p.unless, b) \subseteq Flags(o.unless, a)

Meets(k) ==
  \A o, p \in OperationsOf(k) : \A a, b : a # "page" /\ b # "page" => MeetsAt(o, p, a, b)

LEMMA FlagsMeet ==
  ASSUME NEW k \in AllKinds
  PROVE  Meets(k)
<1> SUFFICES ASSUME NEW o \in OperationsOf(k), NEW p \in OperationsOf(k),
                    NEW a, NEW b, a # "page", b # "page",
                    NEW f \in Flags(o.sets, a) \cap Flags(p.unless, b)
             PROVE  f \in Flags(o.unless, a)
  BY DEF Meets, MeetsAt
<1>1. /\ o.sets \subseteq {"page", "part"} /\ o.sets \cap p.unless \subseteq o.unless
  BY OperationsFit
<1>2. a # "page" /\ b # "page"
  OBVIOUS
<1>3. /\ (f \in o.sets /\ f # "part") \/ ("part" \in o.sets /\ f = a)
      /\ (f \in p.unless /\ f # "part") \/ ("part" \in p.unless /\ f = b)
  BY FlagOf
<1>4. CASE f = "page"
  BY <1>1, <1>2, <1>3, <1>4, FlagOf
<1>5. CASE f # "page"
  <2>1. "part" \in o.sets /\ f = a
    BY <1>1, <1>3, <1>5
  <2>2. p.unless \subseteq {"page", "part"}
    BY OperationShape
  <2>3. "part" \in p.unless
    BY <1>3, <1>5, <2>2
  <2>4. "part" \in o.unless
    BY <1>1, <2>1, <2>3
  <2> QED
    BY <2>1, <2>4, FlagOf
<1> QED
  BY <1>4, <1>5

\* What a handler resets is among what it has set; without its part, nothing
\* that keeps another one out.
LEMMA ResetFacts ==
  ASSUME NEW c
  PROVE  /\ Resets(c) \subseteq Flags(c.op.sets, c.row)
         /\ c.here = "all" => Resets(c) = Flags(c.op.sets, c.row)
         /\ c.here = "none" => Resets(c) = {}
         /\ c.here = "page" => Resets(c) = c.op.sets \ {"part"}
  BY DEF Resets, Flags

----------------------------------------------------------------------------
(* Handlers. *)

CallsFit == HandlerTypes /\ HandlersFit /\ kind \in AllKinds

LEMMA PartedCall ==
  ASSUME NEW c \in CallOf
  PROVE  LET d == [c EXCEPT !.here = "page"] IN
         /\ d \in CallOf /\ d.here = "page" /\ d.op = c.op /\ d.row = c.row
         /\ d.at = c.at /\ d.change = c.change /\ d.token = c.token
  BY DEF CallOf

\* One more handler, which was not kept out.
LEMMA SendKeeps ==
  ASSUME CallsFit, NEW op \in OperationsOf(kind), NEW row \in Rows \cup {New},
         NEW t \in DOMAIN Holder, Ready(op, row), Sends(op, row, t), kind' = kind
  PROVE  HandlersFit' /\ calls' \subseteq CallOf /\ sends' \in Nat
<1> DEFINE c == [op |-> op, row |-> row, number |-> sends, token |-> t,
                 here |-> "all", at |-> "sent", change |-> 0]
<1>1. calls' = calls \cup {c} /\ busy' = busy \cup Flags(op.sets, row) /\ sends' = sends + 1
  BY DEF Sends
<1>2. c \in CallOf
  BY DEF CallsFit, HandlerTypes, CallOf, Operations
<1>3. c.here = "all" /\ c.op = op /\ c.row = row
  OBVIOUS
<1>4. Resets(c) = Flags(op.sets, row)
  BY <1>3, ResetFacts
<1> HIDE DEF c
<1>5. \A d \in calls : d \in CallOf
  BY DEF CallsFit, HandlerTypes
<1>6. ASSUME NEW d \in calls, d.here = "all"
      PROVE  Resets(c) \cap Resets(d) \cap Flags(d.op.unless, d.row) = {}
  <2>1. SUFFICES ASSUME NEW f \in Resets(c) \cap Resets(d) \cap Flags(d.op.unless, d.row)
                 PROVE  FALSE
    OBVIOUS
  <2>2. f \in busy
    BY <1>6 DEF CallsFit, HandlersFit
  <2>3. d.op \in OperationsOf(kind) /\ kind \in AllKinds
    BY <1>6 DEF CallsFit, HandlersFit
  <2>4. d.row # "page" /\ row # "page"
    BY <1>5, RowsApart DEF CallOf
  <2>5. f \in Flags(op.sets, row) /\ f \in Flags(d.op.unless, d.row)
    BY <1>4
  <2>6. Meets(kind)
    BY <2>3, FlagsMeet
  <2>7. MeetsAt(op, d.op, row, d.row)
    BY <2>3, <2>4, <2>6 DEF Meets
  <2>8. f \in Flags(op.unless, row)
    BY <2>5, <2>7 DEF MeetsAt
  <2> QED
    BY <2>2, <2>8 DEF Ready
<1>7. ASSUME NEW d \in calls
      PROVE  Resets(d) \cap Flags(op.unless, row) = {}
  <2>1. SUFFICES ASSUME NEW f \in Resets(d) \cap Flags(op.unless, row)
                 PROVE  FALSE
    OBVIOUS
  <2>2. f \notin busy
    BY DEF Ready
  <2>3. /\ d.row # "page" /\ row # "page"
        /\ d.here \in {"all", "page", "none"}
    BY <1>5, RowsApart DEF CallOf
  <2>4. CASE d.here = "all"
    <3>1. d.op \in OperationsOf(kind) /\ kind \in AllKinds
      BY <2>4 DEF CallsFit, HandlersFit
    <3>2. f \in Flags(d.op.sets, d.row) /\ f \in Flags(op.unless, row)
      BY <2>4, ResetFacts
    <3>3. Meets(kind)
      BY <3>1, FlagsMeet
    <3>4. MeetsAt(d.op, op, d.row, row)
      BY <2>3, <3>1, <3>3 DEF Meets
    <3>5. f \in Flags(d.op.unless, d.row)
      BY <3>2, <3>4 DEF MeetsAt
    <3> QED
      BY <2>2, <2>4, <3>5 DEF CallsFit, HandlersFit
  <2>5. CASE d.here = "page"
    <3>1. d.op \in OperationsOf(kind) /\ kind \in Parting /\ f \in d.op.sets \ {"part"}
      BY <2>5, ResetFacts DEF CallsFit, HandlersFit
    <3>2. f = "page" /\ "page" \notin op.unless
      BY <3>1, OperationsFit DEF CallsFit
    <3> QED
      BY <3>2, FlagOf, RowsApart
  <2>6. CASE d.here = "none"
    BY <2>6, ResetFacts
  <2> QED
    BY <2>3, <2>4, <2>5, <2>6
<1>8. \A d \in calls' : /\ d.here # "none" => d.op \in OperationsOf(kind)
                        /\ d.here = "page" => kind \in Parting
  BY <1>1, <1>3 DEF CallsFit, HandlersFit
<1>9. \A flag \in busy' : \E d \in calls' : flag \in Resets(d)
  BY <1>1, <1>4 DEF CallsFit, HandlersFit
<1>10. \A d \in calls' : d.here = "all" =>
         Resets(d) \cap Flags(d.op.unless, d.row) \subseteq busy'
  BY <1>1, <1>4 DEF CallsFit, HandlersFit
<1>11. \A d, e \in calls' : d # e /\ e.here = "all" =>
         Resets(d) \cap Resets(e) \cap Flags(e.op.unless, e.row) = {}
  <2>1. SUFFICES ASSUME NEW d \in calls', NEW e \in calls', d # e, e.here = "all"
                 PROVE  Resets(d) \cap Resets(e) \cap Flags(e.op.unless, e.row) = {}
    OBVIOUS
  <2>2. CASE d \in calls /\ e \in calls
    BY <2>1, <2>2 DEF CallsFit, HandlersFit
  <2>3. CASE d = c
    BY <1>1, <1>6, <2>1, <2>3
  <2>4. CASE e = c
    BY <1>1, <1>3, <1>7, <2>1, <2>4
  <2> QED
    BY <1>1, <2>2, <2>3, <2>4
<1> QED
  <2>1. calls' \subseteq CallOf /\ sends' \in Nat
    BY <1>1, <1>2 DEF CallsFit, HandlerTypes
  <2> QED
    BY <1>8, <1>9, <1>10, <1>11, <2>1 DEF HandlersFit, Resets, Flags

\* A handler ends.
LEMMA EndKeeps ==
  ASSUME CallsFit, NEW c \in calls, calls' = calls \ {c}, busy' = busy \ Resets(c),
         kind' = kind
  PROVE  HandlersFit'
<1>1. \A flag \in busy' : \E d \in calls' : flag \in Resets(d)
  BY DEF CallsFit, HandlersFit
<1>2. ASSUME NEW d \in calls', d.here = "all"
      PROVE  Resets(d) \cap Flags(d.op.unless, d.row) \subseteq busy'
  BY <1>2 DEF CallsFit, HandlersFit
<1> QED
  BY <1>1, <1>2 DEF CallsFit, HandlersFit, Resets

\* Parts are taken away.
LEMMA PartsKeep ==
  ASSUME CallsFit, NEW gone \in SUBSET calls, \A c \in gone : c.here = "all",
         gone # {} => kind \in Parting, kind' = kind,
         calls' = Parted(calls, gone), busy' = busy \ PartsOf(gone)
  PROVE  HandlersFit' /\ calls' \subseteq CallOf
<1> DEFINE P(c) == [c EXCEPT !.here = "page"]
<1>1. calls' = (calls \ gone) \cup {P(c) : c \in gone}
  BY DEF Parted
<1>2. \A c \in calls : c \in CallOf
  BY DEF CallsFit, HandlerTypes
<1>3. \A c \in gone : /\ P(c) \in CallOf /\ P(c).here = "page"
                      /\ P(c).op = c.op /\ P(c).row = c.row
  BY <1>2, PartedCall
<1>4. \A c \in gone : Resets(P(c)) = c.op.sets \ {"part"}
  BY <1>3, ResetFacts
<1> HIDE DEF P
<1>5. \A c \in gone : Resets(c) = Flags(c.op.sets, c.row)
  BY ResetFacts
<1>6. \A c \in gone : Resets(P(c)) \subseteq Resets(c)
  BY <1>4, <1>5, FlagOf
<1>7. \A f \in PartsOf(gone) : \E c \in gone : f \in Resets(c)
  BY <1>5, FlagOf DEF PartsOf
<1>8. ASSUME NEW f \in busy'
      PROVE  \E d \in calls' : f \in Resets(d)
  <2>1. PICK c \in calls : f \in Resets(c)
    BY DEF CallsFit, HandlersFit
  <2>2. CASE c \in gone
    <3>1. ~("part" \in c.op.sets /\ f = c.row)
      BY <2>2 DEF PartsOf
    <3>2. f \in Resets(P(c))
      BY <1>4, <1>5, <2>1, <2>2, <3>1, FlagOf
    <3> QED
      BY <1>1, <2>2, <3>2
  <2> QED
    BY <1>1, <2>1, <2>2
<1>9. ASSUME NEW d \in calls', d.here = "all"
      PROVE  /\ d \in calls \ gone
             /\ Resets(d) \cap Flags(d.op.unless, d.row) \subseteq busy'
  <2>1. d \in calls \ gone
    BY <1>1, <1>3, <1>9
  <2>2. ASSUME NEW f \in Resets(d) \cap Flags(d.op.unless, d.row), f \in PartsOf(gone)
        PROVE  FALSE
    <3>1. PICK c \in gone : f \in Resets(c)
      BY <1>7, <2>2
    <3> QED
      BY <1>9, <2>1, <2>2, <3>1 DEF CallsFit, HandlersFit
  <2> QED
    BY <1>9, <2>1, <2>2 DEF CallsFit, HandlersFit
<1>10. ASSUME NEW d \in calls', NEW e \in calls', d # e, e.here = "all"
       PROVE  Resets(d) \cap Resets(e) \cap Flags(e.op.unless, e.row) = {}
  <2>1. e \in calls \ gone
    BY <1>9, <1>10
  <2>2. CASE d \in calls \ gone
    BY <1>10, <2>1, <2>2 DEF CallsFit, HandlersFit
  <2>3. ASSUME NEW c \in gone, d = P(c)
        PROVE  Resets(d) \cap Resets(e) \cap Flags(e.op.unless, e.row) = {}
    BY <1>6, <1>10, <2>1, <2>3 DEF CallsFit, HandlersFit
  <2> QED
    BY <1>1, <2>2, <2>3
<1>11. \A d \in calls' : /\ d.here # "none" => d.op \in OperationsOf(kind)
                         /\ d.here = "page" => kind \in Parting
  <2>1. \A c \in gone : c.op \in OperationsOf(kind)
    BY DEF CallsFit, HandlersFit
  <2> QED
    BY <1>1, <1>3, <2>1 DEF CallsFit, HandlersFit
<1> QED
  <2>1. calls' \subseteq CallOf
    BY <1>1, <1>2, <1>3
  <2> QED
    BY <1>8, <1>9, <1>10, <1>11, <2>1 DEF HandlersFit

----------------------------------------------------------------------------
(* Lists. *)

LEMMA HolderFacts ==
  ASSUME NEW k \in DOMAIN Holder
  PROVE  Holder[k] \in Accounts
  BY DEF Accounts

LEMMA NoAnswerType == NoAnswer \in Datum
  BY DEF NoAnswer, Datum

\* A request that is made for the path p and the token t.
LEMMA AskedFor ==
  ASSUME ListTypes, NEW p \in Paths, NEW t \in DOMAIN Holder
  PROVE  LET r == [path |-> p, token |-> t, live |-> TRUE, data |-> NoAnswer] IN
         r \in ReadOf /\ Answers(r) /\ \A n : Listens(r, p, t, n)
  BY NoAnswerType DEF ReadOf, Answers, Listens

\* One that is aborted.
LEMMA AbortedKeeps ==
  ASSUME NEW r \in ReadOf, Answers(r)
  PROVE  Aborted(r) \in ReadOf /\ Answers(Aborted(r)) /\ \A p, t, n : Listens(Aborted(r), p, t, n)
<1>1. /\ Aborted(r) \in ReadOf /\ Aborted(r).live = FALSE /\ Aborted(r).data = r.data
      /\ Aborted(r).path = r.path /\ Aborted(r).token = r.token
  BY DEF Aborted, ReadOf
<1> QED
  BY <1>1 DEF Answers, Listens

\* The list is loaded again.
LEMMA ReadsAnew ==
  ASSUME ListInv, NEW p \in Paths, NEW t \in DOMAIN Holder,
         reads' = {Aborted(r) : r \in reads} \cup
                    {[path |-> p, token |-> t, live |-> TRUE, data |-> NoAnswer]}
  PROVE  /\ reads' \subseteq ReadOf
         /\ \A r \in reads' : Answers(r) /\ \A n : Listens(r, p, t, n)
<1> DEFINE q == [path |-> p, token |-> t, live |-> TRUE, data |-> NoAnswer]
<1>1. q \in ReadOf /\ Answers(q) /\ \A n : Listens(q, p, t, n)
  BY AskedFor DEF ListInv
<1>2. reads' = {Aborted(r) : r \in reads} \cup {q}
  OBVIOUS
<1> HIDE DEF q
<1>3. \A r \in reads : r \in ReadOf /\ Answers(r)
  BY DEF ListInv, ListTypes
<1>4. \A r \in reads : /\ Aborted(r) \in ReadOf /\ Answers(Aborted(r))
                       /\ \A m, u, n : Listens(Aborted(r), m, u, n)
  BY <1>3, AbortedKeeps
<1> QED
  BY <1>1, <1>2, <1>4

LEMMA LoadsKeep ==
  ASSUME ListInv, NEW p \in Paths, NEW t \in DOMAIN Holder, Loads(reads, p, t),
         path' = p, token' = t, kind' \in AllKinds,
         written' \in [Accounts -> Nat], told' \in [Accounts -> Nat],
         \A a \in Accounts : told'[a] <= written'[a],
         \A c \in calls' : c.at = "made" => c.change <= written'[Holder[c.token]]
  PROVE  ListInv'
<1>1. /\ reads' \subseteq ReadOf
      /\ \A r \in reads' : Answers(r) /\ Listens(r, p, t, told'[Holder[t]])
  BY ReadsAnew DEF Loads
<1>2. resource \in [result : Result, loading : BOOLEAN, failed : BOOLEAN]
  BY DEF ListInv, ListTypes
<1>3. /\ resource' \in [result : Result, loading : BOOLEAN, failed : BOOLEAN]
      /\ resource'.loading = TRUE /\ resource'.result = resource.result
  BY <1>2 DEF Loads
<1>4. Has(resource', p, t, told'[Holder[t]])
  BY <1>3 DEF ListInv, Has
<1>5. ListTypes'
  BY <1>1, <1>3 DEF ListTypes
<1> QED
  BY <1>1, <1>4, <1>5 DEF ListInv

\* What the server does, and what is not about the list, leaves it alone.
LEMMA ListStays ==
  ASSUME ListInv, UNCHANGED <<kind, path, token, resource, reads, told>>,
         written' \in [Accounts -> Nat], \A a \in Accounts : written[a] <= written'[a],
         \A c \in calls' : c.at = "made" =>
           c.token \in DOMAIN Holder /\ c.change <= written'[Holder[c.token]]
  PROVE  ListInv'
<1>1. ListTypes'
  BY DEF ListInv, ListTypes
<1>2. \A a \in Accounts : told'[a] <= written'[a]
  <2>1. SUFFICES ASSUME NEW a \in Accounts PROVE told'[a] <= written'[a]
    OBVIOUS
  <2>2. told[a] \in Nat /\ written[a] \in Nat /\ written'[a] \in Nat
    BY DEF ListInv, ListTypes
  <2>3. told[a] <= written[a] /\ written[a] <= written'[a] /\ told'[a] = told[a]
    BY DEF ListInv
  <2> QED
    BY <2>2, <2>3
<1> QED
  BY <1>1, <1>2 DEF ListInv

LEMMA ReadKeeps ==
  ASSUME PagesInv, NEW r \in reads, Read(r)
  PROVE  ListInv'
<1> DEFINE owner == Holder[r.token]
           data  == [path |-> r.path, owner |-> owner, written |-> written[owner]]
           q     == [r EXCEPT !.data = data]
<1>1. ListInv /\ ListTypes
  BY DEF PagesInv, ListInv
<1>2. r \in ReadOf /\ owner \in Accounts /\ written[owner] \in Nat
  BY <1>1, HolderFacts DEF ListTypes, ReadOf
<1>3. data \in Datum
  BY <1>2 DEF Datum, ReadOf
<1>4. data.path = r.path /\ data.owner = Holder[r.token] /\ data.written = written[owner]
  OBVIOUS
<1>5. /\ reads' = (reads \ {r}) \cup {q}
      /\ UNCHANGED <<kind, path, token, resource, calls, written, told>>
  BY DEF Read
<1> HIDE DEF data
<1>6. /\ q \in ReadOf /\ q.path = r.path /\ q.token = r.token /\ q.live = r.live
      /\ q.data = data
  BY <1>2, <1>3 DEF ReadOf
<1> HIDE DEF q
<1>7. Answers(q)
  BY <1>4, <1>6 DEF Answers
<1>8. Listens(q, path, token, told[Holder[token]])
  <2>1. Listens(r, path, token, told[Holder[token]])
    BY <1>1 DEF ListInv
  <2>2. told[owner] <= written[owner]
    BY <1>1, <1>2 DEF ListInv
  <2> QED
    BY <1>4, <1>6, <2>1, <2>2 DEF Listens
<1>9. ListTypes'
  BY <1>1, <1>5, <1>6 DEF ListTypes
<1>10. \A x \in reads' : Answers(x) /\ Listens(x, path', token', told'[Holder[token']])
  BY <1>1, <1>5, <1>7, <1>8 DEF ListInv
<1> QED
  BY <1>1, <1>5, <1>9, <1>10 DEF ListInv

LEMMA ArriveKeeps ==
  ASSUME PagesInv, NEW r \in reads, Arrive(r)
  PROVE  ListInv'
<1>1. ListInv /\ ListTypes /\ calls \subseteq CallOf
  BY DEF PagesInv, ListInv, HandlerTypes
<1>2. /\ reads' = reads \ {r} /\ r.data # NoAnswer
      /\ UNCHANGED <<kind, path, token, written, told>>
  BY DEF Arrive
<1>3. r \in ReadOf /\ Answers(r) /\ Listens(r, path, token, told[Holder[token]])
  BY <1>1 DEF ListInv, ListTypes
<1>4. \A x \in reads' : Answers(x) /\ Listens(x, path', token', told'[Holder[token']])
  BY <1>1, <1>2 DEF ListInv
<1>5. CASE Heard(r)
  <2> DEFINE x == [path |-> r.path, token |-> r.token, failed |-> FALSE, data |-> r.data]
  <2>1. /\ resource' = [result |-> x, loading |-> FALSE, failed |-> FALSE]
        /\ calls' = Parted(calls, Renewed(r.data))
    BY <1>5 DEF Arrive
  <2>2. x \in Result /\ x.data = r.data /\ x.path = r.path /\ x.token = r.token
    BY <1>3 DEF ReadOf, Result
  <2> HIDE DEF x
  <2>3. /\ resource' \in [result : Result, loading : BOOLEAN, failed : BOOLEAN]
        /\ resource'.result = x
    BY <2>1, <2>2
  <2>4. Has(resource', path, token, told[Holder[token]])
    BY <1>2, <1>3, <1>5, <2>2, <2>3 DEF Has, Answers, Listens, Heard
  <2>5. \A c \in calls' : c.at = "made" => c.change <= written[Holder[c.token]]
    <3>1. \A c \in calls : c.at = "made" => c.change <= written[Holder[c.token]]
      BY <1>1 DEF ListInv
    <3> DEFINE P(c) == [c EXCEPT !.here = "page"]
    <3>2. Renewed(r.data) \subseteq calls
      BY DEF Renewed
    <3>3. \A c \in calls : P(c).at = c.at /\ P(c).change = c.change /\ P(c).token = c.token
      BY <1>1, PartedCall
    <3>4. \A d \in calls' : d \in calls \/ \E c \in calls : d = P(c)
      BY <2>1, <3>2 DEF Parted
    <3> HIDE DEF P
    <3> QED
      BY <3>1, <3>3, <3>4
  <2>6. ListTypes'
    BY <1>1, <1>2, <2>3 DEF ListTypes
  <2> QED
    BY <1>1, <1>2, <1>4, <2>4, <2>5, <2>6 DEF ListInv
<1>6. CASE ~Heard(r)
  <2>1. UNCHANGED <<resource, calls>>
    BY <1>6 DEF Arrive
  <2>2. ListTypes'
    BY <1>1, <1>2, <2>1 DEF ListTypes
  <2> QED
    BY <1>1, <1>2, <1>4, <2>1, <2>2 DEF ListInv
<1> QED
  BY <1>5, <1>6

LEMMA ReadFailsKeeps ==
  ASSUME PagesInv, NEW r \in reads, ReadFails(r)
  PROVE  ListInv'
<1>1. ListInv /\ ListTypes
  BY DEF PagesInv, ListInv
<1>2. reads' = reads \ {r} /\ UNCHANGED <<kind, path, token, calls, written, told>>
  BY DEF ReadFails
<1>3. r \in ReadOf
  BY <1>1 DEF ListTypes
<1>4. resource \in [result : Result, loading : BOOLEAN, failed : BOOLEAN]
  BY <1>1 DEF ListTypes
<1> DEFINE Good(x) == /\ x \in [result : Result, loading : BOOLEAN, failed : BOOLEAN]
                      /\ Has(x, path, token, told[Holder[token]])
<1>5. Good(resource')
  <2>1. CASE ~Heard(r)
    BY <1>1, <1>4, <2>1 DEF ReadFails, ListInv
  <2>2. CASE Heard(r) /\ kind \in Administrative
    <3>1. resource' = [resource EXCEPT !.loading = FALSE, !.failed = TRUE]
      BY <2>2 DEF ReadFails
    <3>2. resource'.failed = TRUE /\ resource'.result = resource.result
      BY <1>4, <3>1
    <3> QED
      BY <1>1, <1>4, <3>1, <3>2 DEF Has, ListInv
  <2>3. CASE Heard(r) /\ kind \notin Administrative
    <3> DEFINE x == [path |-> r.path, token |-> r.token, failed |-> TRUE, data |-> NoAnswer]
    <3>1. resource' = [resource EXCEPT !.loading = FALSE, !.result = x]
      BY <2>3 DEF ReadFails
    <3>2. x \in Result /\ x.failed = TRUE /\ x.data = NoAnswer
      BY <1>3, NoAnswerType DEF ReadOf, Result
    <3> HIDE DEF x
    <3>3. /\ resource' \in [result : Result, loading : BOOLEAN, failed : BOOLEAN]
          /\ resource'.result = x
      BY <1>4, <3>1, <3>2
    <3> QED
      BY <3>2, <3>3 DEF Has
  <2> QED
    BY <2>1, <2>2, <2>3
<1>6. \A x \in reads' : Answers(x) /\ Listens(x, path', token', told'[Holder[token']])
  BY <1>1, <1>2 DEF ListInv
<1>7. ListTypes'
  BY <1>1, <1>2, <1>5 DEF ListTypes
<1> QED
  BY <1>1, <1>2, <1>5, <1>6, <1>7 DEF ListInv

LEMMA OpenPageKeeps ==
  ASSUME PagesInv, NEW k \in PageKinds, OpenPage(k)
  PROVE  PagesInv'
<1>1. ListInv /\ ListTypes /\ HandlerTypes /\ HandlersFit /\ QuestionsFit
  BY DEF PagesInv, ListInv
<1>2. /\ kind' = k /\ path' \in Paths /\ resource' = Fresh /\ busy' = {} /\ form' = Nowhere
      /\ calls' = {[c EXCEPT !.here = "none"] : c \in calls}
      /\ told' = [a \in Accounts |-> 0] /\ dialog = "none"
      /\ UNCHANGED <<token, dialog, asked, sends, written>>
      /\ reads' = {Aborted(r) : r \in reads} \cup
                    {[path |-> path', token |-> token, live |-> TRUE, data |-> NoAnswer]}
  BY DEF OpenPage
<1>3. k \in AllKinds
  BY PagesAssumption
<1> DEFINE P(c) == [c EXCEPT !.here = "none"]
<1>4. \A c \in calls : /\ P(c) \in CallOf /\ P(c).here = "none" /\ P(c).at = c.at
                       /\ P(c).change = c.change /\ P(c).token = c.token
  BY <1>1 DEF HandlerTypes, CallOf
<1>5. calls' \subseteq CallOf /\ \A d \in calls' : d.here = "none"
  <2>1. calls' = {P(c) : c \in calls}
    BY <1>2
  <2> HIDE DEF P
  <2> QED
    BY <1>4, <2>1
<1>6. \A c \in calls' : c.at = "made" => c.change <= written'[Holder[c.token]]
  <2>1. \A c \in calls : c.at = "made" => c.change <= written[Holder[c.token]]
    BY <1>1 DEF ListInv
  <2>2. \A d \in calls' : \E c \in calls : d = P(c)
    BY <1>2
  <2> HIDE DEF P
  <2> QED
    BY <1>2, <1>4, <2>1, <2>2
<1>7. /\ reads' \subseteq ReadOf
      /\ \A r \in reads' : Answers(r) /\ Listens(r, path', token', told'[Holder[token']])
  <2>1. PICK p \in Paths : p = path'
    BY <1>2
  <2>2. PICK t \in DOMAIN Holder : t = token
    BY <1>1 DEF ListTypes
  <2> QED
    BY <1>1, <1>2, <2>1, <2>2, ReadsAnew
<1>8. /\ Fresh \in [result : Result, loading : BOOLEAN, failed : BOOLEAN]
      /\ \A p, t, n : Has(Fresh, p, t, n)
  BY NoAnswerType DEF Fresh, NoData, Result, Has
<1>9. told' \in [Accounts -> Nat] /\ \A a \in Accounts : told'[a] <= written'[a]
  BY <1>1, <1>2 DEF ListTypes
<1>10. ListInv'
  BY <1>1, <1>2, <1>3, <1>6, <1>7, <1>8, <1>9 DEF ListInv, ListTypes
<1>11. HandlersFit'
  BY <1>2, <1>5 DEF HandlersFit
<1>12. HandlerTypes'
  BY <1>1, <1>2, <1>5 DEF HandlerTypes
<1>13. asked = {} /\ QuestionsFit'
  BY <1>1, <1>2 DEF QuestionsFit
<1> QED
  BY <1>10, <1>11, <1>12, <1>13 DEF PagesInv

\* The list is not touched, and no request is made that was not before.
LEMMA Unharmed ==
  ASSUME PagesInv, UNCHANGED <<kind, path, token, resource, reads, written, told>>,
         calls' \subseteq calls
  PROVE  ListInv'
<1>1. ListInv /\ ListTypes /\ calls \subseteq CallOf
  BY DEF PagesInv, ListInv, HandlerTypes
<1>2. written' \in [Accounts -> Nat] /\ \A a \in Accounts : written[a] <= written'[a]
  BY <1>1 DEF ListTypes
<1>3. \A c \in calls' : c.at = "made" =>
        c.token \in DOMAIN Holder /\ c.change <= written'[Holder[c.token]]
  BY <1>1 DEF ListInv, CallOf
<1> QED
  BY <1>1, <1>2, <1>3, ListStays

\* Flags that are reset keep nobody out.
LEMMA QuestionsStay ==
  ASSUME QuestionsFit, kind' = kind, busy' \subseteq busy, UNCHANGED <<dialog, asked>>
  PROVE  QuestionsFit'
  BY DEF QuestionsFit, Ready, Flags

LEMMA NoQuestions ==
  ASSUME asked' = {}, dialog' # "confirm"
  PROVE  QuestionsFit'
  BY DEF QuestionsFit

\* Steps that leave the handlers alone.
LEMMA HandlersStay ==
  ASSUME PagesInv, UNCHANGED <<kind, busy, dialog, asked, calls, sends>>,
         form' \in Rows \cup {New, Nowhere}
  PROVE  HandlerTypes' /\ HandlersFit' /\ QuestionsFit'
<1>1. HandlerTypes'
  BY DEF PagesInv, HandlerTypes
<1>2. HandlersFit'
  BY DEF PagesInv, HandlersFit
<1>3. QuestionsFit'
  BY QuestionsStay DEF PagesInv
<1> QED
  BY <1>1, <1>2, <1>3

LEMMA ReadsKeep ==
  ASSUME PagesInv, NEW r \in reads, Read(r) \/ Arrive(r) \/ ReadFails(r)
  PROVE  PagesInv'
<1>1. CASE Read(r)
  <2>1. UNCHANGED <<kind, busy, dialog, asked, calls, sends, form>>
    BY <1>1 DEF Read
  <2> QED
    BY <1>1, <2>1, ReadKeeps, HandlersStay DEF PagesInv, HandlerTypes
<1>2. CASE ReadFails(r)
  <2>1. UNCHANGED <<kind, busy, dialog, asked, calls, sends, form>>
    BY <1>2 DEF ReadFails
  <2> QED
    BY <1>2, <2>1, ReadFailsKeeps, HandlersStay DEF PagesInv, HandlerTypes
<1>3. CASE Arrive(r)
  <2>1. UNCHANGED <<kind, dialog, asked, sends, form>>
    BY <1>3 DEF Arrive
  <2>2. CASE Heard(r)
    <3> DEFINE gone == Renewed(r.data)
    <3>1. calls' = Parted(calls, gone) /\ busy' = busy \ PartsOf(gone)
      BY <1>3, <2>2 DEF Arrive
    <3>2. /\ gone \in SUBSET calls /\ (gone # {} => kind \in Parting)
          /\ \A c \in gone : c.here = "all"
      BY DEF Renewed, Parting
    <3>3. CallsFit
      BY DEF CallsFit, PagesInv, ListInv, ListTypes
    <3> HIDE DEF gone
    <3>4. HandlersFit' /\ calls' \subseteq CallOf
      BY <2>1, <3>1, <3>2, <3>3, PartsKeep
    <3>5. QuestionsFit'
      BY <2>1, <3>1, QuestionsStay DEF PagesInv
    <3>6. HandlerTypes'
      BY <2>1, <3>4 DEF PagesInv, HandlerTypes
    <3> QED
      BY <1>3, <3>4, <3>5, <3>6, ArriveKeeps DEF PagesInv
  <2>3. CASE ~Heard(r)
    <3>1. UNCHANGED <<busy, calls>>
      BY <1>3, <2>3 DEF Arrive
    <3> QED
      BY <1>3, <2>1, <3>1, ArriveKeeps, HandlersStay DEF PagesInv, HandlerTypes
  <2> QED
    BY <2>2, <2>3
<1> QED
  BY <1>1, <1>2, <1>3

\* A search, or "Refresh".
LEMMA ReloadKeeps ==
  ASSUME PagesInv, NEW p \in Paths, path' = p, Loads(reads, p, token),
         UNCHANGED <<kind, token, form, busy, dialog, asked, calls, sends, written, told>>
  PROVE  PagesInv'
<1>1. ListInv /\ ListTypes
  BY DEF PagesInv, ListInv
<1>2. PICK t \in DOMAIN Holder : t = token
  BY <1>1 DEF ListTypes
<1>3. ListInv'
  <2>1. /\ kind' \in AllKinds /\ written' \in [Accounts -> Nat] /\ told' \in [Accounts -> Nat]
        /\ \A a \in Accounts : told'[a] <= written'[a]
        /\ \A c \in calls' : c.at = "made" => c.change <= written'[Holder[c.token]]
    BY <1>1 DEF ListInv, ListTypes
  <2> QED
    BY <1>1, <1>2, <2>1, LoadsKeep
<1> QED
  BY <1>3, HandlersStay DEF PagesInv, HandlerTypes

LEMMA NextTokenKeeps ==
  ASSUME PagesInv, NextToken
  PROVE  PagesInv'
<1>1. ListInv /\ ListTypes /\ HandlerTypes /\ CallsFit
  BY DEF PagesInv, ListInv, ListTypes, CallsFit
<1> DEFINE gone == {c \in calls : c.here = "all" /\ kind \in {"settings", "registry"}}
<1>2. /\ token' \in DOMAIN Holder /\ Loads(reads, path, token')
      /\ calls' = Parted(calls, gone) /\ busy' = busy \ PartsOf(gone)
      /\ UNCHANGED <<kind, path, form, dialog, asked, sends, written, told>>
  BY DEF NextToken
<1>3. /\ gone \in SUBSET calls /\ (gone # {} => kind \in Parting)
      /\ \A c \in gone : c.here = "all"
  BY DEF Parting
<1> HIDE DEF gone
<1>4. HandlersFit' /\ calls' \subseteq CallOf
  BY <1>1, <1>2, <1>3, PartsKeep
<1>5. HandlerTypes' /\ QuestionsFit'
  BY <1>1, <1>2, <1>4, QuestionsStay DEF PagesInv, HandlerTypes
<1>6. \A c \in calls' : c.at = "made" => c.change <= written'[Holder[c.token]]
  <2> DEFINE P(c) == [c EXCEPT !.here = "page"]
  <2>1. \A c \in calls : c.at = "made" => c.change <= written[Holder[c.token]]
    BY <1>1 DEF ListInv
  <2>2. \A c \in calls : P(c).at = c.at /\ P(c).change = c.change /\ P(c).token = c.token
    BY <1>1, PartedCall DEF HandlerTypes
  <2>3. \A d \in calls' : d \in calls \/ \E c \in calls : d = P(c)
    BY <1>2, <1>3 DEF Parted
  <2> HIDE DEF P
  <2> QED
    BY <1>2, <2>1, <2>2, <2>3
<1>7. ListInv'
  <2>1. PICK p \in Paths : p = path
    BY <1>1 DEF ListTypes
  <2>2. PICK t \in DOMAIN Holder : t = token'
    BY <1>2
  <2>3. /\ kind' \in AllKinds /\ written' \in [Accounts -> Nat] /\ told' \in [Accounts -> Nat]
        /\ \A a \in Accounts : told'[a] <= written'[a]
    BY <1>1, <1>2 DEF ListInv, ListTypes
  <2> QED
    BY <1>1, <1>2, <1>6, <2>1, <2>2, <2>3, LoadsKeep
<1> QED
  BY <1>4, <1>5, <1>7 DEF PagesInv

\* Forms and dialogs that open and close.
LEMMA FormsKeep ==
  ASSUME PagesInv,
         \/ \E row \in Rows \cup {New} : OpenForm(row)
         \/ CloseForm \/ Dismiss \/ Decline
  PROVE  PagesInv'
<1>1. /\ UNCHANGED <<kind, path, token, resource, reads, busy, calls, sends, written, told>>
      /\ form' \in Rows \cup {New, Nowhere}
      /\ \/ UNCHANGED <<dialog, asked>>
         \/ dialog' = "none" /\ (asked' = {} \/ (dialog = "alert" /\ asked' = asked))
  BY DEF PagesInv, HandlerTypes, OpenForm, CloseForm, Dismiss, Decline
<1>2. ListInv'
  BY <1>1, Unharmed
<1>3. HandlerTypes' /\ HandlersFit'
  <2>1. HandlersFit'
    BY <1>1 DEF PagesInv, HandlersFit
  <2>2. asked' \subseteq asked
    BY <1>1
  <2> QED
    BY <1>1, <2>1, <2>2 DEF PagesInv, HandlerTypes
<1>4. QuestionsFit'
  <2>1. CASE UNCHANGED <<dialog, asked>>
    BY <1>1, <2>1, QuestionsStay DEF PagesInv
  <2>2. CASE dialog' = "none" /\ (asked' = {} \/ (dialog = "alert" /\ asked' = asked))
    <3>1. asked' = {}
      BY <2>2 DEF PagesInv, QuestionsFit
    <3> QED
      BY <2>2, <3>1, NoQuestions
  <2> QED
    BY <1>1, <2>1, <2>2
<1> QED
  BY <1>2, <1>3, <1>4 DEF PagesInv

\* A handler that sends its request.
LEMMA SendingKeeps ==
  ASSUME PagesInv, NEW op \in OperationsOf(kind), NEW row \in Rows \cup {New},
         NEW t \in DOMAIN Holder, Ready(op, row), Sends(op, row, t),
         UNCHANGED <<kind, path, token, resource, reads, form, written, told>>,
         asked' = {}, dialog' # "confirm"
  PROVE  PagesInv'
<1>1. CallsFit /\ ListInv /\ ListTypes
  BY DEF PagesInv, ListInv, ListTypes, CallsFit
<1>2. HandlersFit' /\ calls' \subseteq CallOf /\ sends' \in Nat
  BY <1>1, SendKeeps
<1>3. HandlerTypes'
  BY <1>1, <1>2 DEF CallsFit, HandlerTypes
<1>4. ListInv'
  <2>1. \A c \in calls' : c.at = "made" => c \in calls
    BY DEF Sends
  <2>2. \A c \in calls : c.token \in DOMAIN Holder
    BY DEF PagesInv, HandlerTypes, CallOf
  <2>3. \A c \in calls' : c.at = "made" =>
          c.token \in DOMAIN Holder /\ c.change <= written'[Holder[c.token]]
    BY <1>1, <2>1, <2>2 DEF ListInv
  <2>4. written' \in [Accounts -> Nat] /\ \A a \in Accounts : written[a] <= written'[a]
    BY <1>1 DEF ListTypes
  <2> QED
    BY <1>1, <2>3, <2>4, ListStays
<1> QED
  BY <1>2, <1>3, <1>4, NoQuestions DEF PagesInv

LEMMA SubmitKeeps ==
  ASSUME PagesInv, NEW op \in OperationsOf(kind), Submit(op)
  PROVE  PagesInv'
<1>1. form \in Rows \cup {New} /\ token \in DOMAIN Holder /\ asked = {}
  BY DEF PagesInv, HandlerTypes, ListInv, ListTypes, QuestionsFit, Submit
<1>2. /\ Ready(op, form) /\ Sends(op, form, token) /\ dialog = "none"
      /\ UNCHANGED <<kind, path, token, resource, reads, form, dialog, asked, written, told>>
  BY DEF Submit
<1>3. PICK row \in Rows \cup {New} : row = form
  BY <1>1
<1>4. PICK t \in DOMAIN Holder : t = token
  BY <1>1
<1> QED
  BY <1>1, <1>2, <1>3, <1>4, SendingKeeps

LEMMA ClickKeeps ==
  ASSUME PagesInv, NEW op \in OperationsOf(kind), NEW row \in Rows, Click(op, row)
  PROVE  PagesInv'
<1>1. token \in DOMAIN Holder /\ asked = {} /\ dialog = "none" /\ Ready(op, row)
  BY DEF PagesInv, ListInv, ListTypes, QuestionsFit, Click, Uncovered
<1>2. UNCHANGED <<kind, path, token, resource, reads, form, written, told>>
  BY DEF Click
<1>3. CASE op.asks
  <2> DEFINE x == [op |-> op, row |-> row, token |-> token]
  <2>1. dialog' = "confirm" /\ asked' = {x} /\ UNCHANGED <<busy, calls, sends>>
    BY <1>3 DEF Click
  <2>2. x \in Question /\ x.op = op /\ x.row = row
    BY <1>1 DEF Question, Operations, PagesInv, ListInv, ListTypes
  <2> HIDE DEF x
  <2>3. QuestionsFit'
    <3>1. Ready(op, row)'
      BY <1>1, <2>1 DEF Ready, Flags
    <3> QED
      BY <1>2, <2>1, <2>2, <3>1 DEF QuestionsFit
  <2>4. HandlersFit' /\ HandlerTypes'
    BY <1>2, <2>1, <2>2 DEF PagesInv, HandlersFit, HandlerTypes
  <2>5. ListInv'
    BY <1>2, <2>1, Unharmed
  <2> QED
    BY <2>3, <2>4, <2>5 DEF PagesInv
<1>4. CASE ~op.asks
  <2>1. Sends(op, row, token) /\ UNCHANGED <<dialog, asked>>
    BY <1>4 DEF Click
  <2>2. PICK t \in DOMAIN Holder : t = token
    BY <1>1
  <2> QED
    BY <1>1, <1>2, <2>1, <2>2, SendingKeeps
<1> QED
  BY <1>3, <1>4

LEMMA ConfirmKeeps ==
  ASSUME PagesInv, NEW x \in asked, Confirm(x)
  PROVE  PagesInv'
<1>1. /\ x.op \in OperationsOf(kind) /\ Ready(x.op, x.row) /\ asked = {x}
      /\ x.row \in Rows /\ x.token \in DOMAIN Holder
  BY DEF PagesInv, QuestionsFit, HandlerTypes, Question
<1>2. /\ dialog' = "none" /\ asked' = {} /\ Sends(x.op, x.row, x.token)
      /\ UNCHANGED <<kind, path, token, resource, reads, form, written, told>>
  BY <1>1 DEF Confirm
<1>3. PICK op \in OperationsOf(kind) : op = x.op
  BY <1>1
<1>4. PICK row \in Rows \cup {New} : row = x.row
  BY <1>1
<1>5. PICK t \in DOMAIN Holder : t = x.token
  BY <1>1
<1> QED
  BY <1>1, <1>2, <1>3, <1>4, <1>5, SendingKeeps

LEMMA MakeKeeps ==
  ASSUME PagesInv, NEW c \in calls, Make(c)
  PROVE  PagesInv'
<1> DEFINE owner == Holder[c.token]
           n     == written[owner] + (IF c.op.changes THEN 1 ELSE 0)
           d     == [c EXCEPT !.at = "made", !.change = n]
<1>1. /\ written' = [written EXCEPT ![owner] = n] /\ calls' = (calls \ {c}) \cup {d}
      /\ UNCHANGED <<kind, path, token, resource, reads, form, busy, dialog, asked, sends, told>>
  BY DEF Make
<1>2. /\ written \in [Accounts -> Nat] /\ c \in CallOf /\ HandlersFit /\ ListInv
      /\ calls \subseteq CallOf
  BY DEF PagesInv, ListInv, ListTypes, HandlerTypes
<1>3. c.token \in DOMAIN Holder /\ owner \in Accounts
  BY <1>2, HolderFacts DEF CallOf
<1>4. n \in Nat /\ written[owner] \in Nat /\ written[owner] <= n
  BY <1>2, <1>3
<1> HIDE DEF n
<1>5. /\ d \in CallOf /\ d.op = c.op /\ d.row = c.row /\ d.here = c.here /\ d.change = n
      /\ d.token = c.token
  BY <1>2, <1>4 DEF CallOf
<1> HIDE DEF d, owner
<1>6. Resets(d) = Resets(c)
  BY <1>5 DEF Resets, Flags
<1>7. written' \in [Accounts -> Nat] /\ \A a \in Accounts : written[a] <= written'[a]
  BY <1>1, <1>2, <1>3, <1>4
<1>8. \A e \in calls' : e.at = "made" =>
        e.token \in DOMAIN Holder /\ e.change <= written'[Holder[e.token]]
  <2>1. d.token \in DOMAIN Holder /\ d.change <= written'[Holder[d.token]]
    BY <1>1, <1>2, <1>3, <1>4, <1>5 DEF owner
  <2>2. ASSUME NEW e \in calls, e.at = "made"
        PROVE  e.token \in DOMAIN Holder /\ e.change <= written'[Holder[e.token]]
    <3>1. e \in CallOf /\ e.change <= written[Holder[e.token]]
      BY <1>2, <2>2 DEF ListInv
    <3>2. PICK a \in Accounts : a = Holder[e.token]
      BY <3>1, HolderFacts DEF CallOf
    <3>3. e.change \in Nat /\ written[a] \in Nat /\ written'[a] \in Nat
      BY <1>2, <1>7, <3>1 DEF CallOf
    <3> QED
      BY <1>7, <3>1, <3>2, <3>3 DEF CallOf
  <2> QED
    BY <1>1, <2>1, <2>2
<1>9. ListInv'
  BY <1>1, <1>2, <1>7, <1>8, ListStays
<1>10. HandlersFit'
  <2>1. \A e \in calls' : /\ e.here # "none" => e.op \in OperationsOf(kind)
                          /\ e.here = "page" => kind \in Parting
    BY <1>1, <1>2, <1>5 DEF HandlersFit
  <2>2. \A flag \in busy : \E e \in calls' : flag \in Resets(e)
    BY <1>1, <1>2, <1>6 DEF HandlersFit
  <2>3. \A e \in calls' : e.here = "all" =>
          Resets(e) \cap Flags(e.op.unless, e.row) \subseteq busy
    BY <1>1, <1>2, <1>5, <1>6 DEF HandlersFit
  <2>4. \A a, e \in calls' : a # e /\ e.here = "all" =>
          Resets(a) \cap Resets(e) \cap Flags(e.op.unless, e.row) = {}
    BY <1>1, <1>2, <1>5, <1>6 DEF HandlersFit
  <2> QED
    BY <1>1, <2>1, <2>2, <2>3, <2>4 DEF HandlersFit
<1>11. HandlerTypes' /\ QuestionsFit'
  BY <1>1, <1>5, QuestionsStay DEF PagesInv, HandlerTypes
<1> QED
  BY <1>9, <1>10, <1>11 DEF PagesInv

LEMMA SucceedsKeeps ==
  ASSUME PagesInv, NEW c \in calls, Succeeds(c)
  PROVE  PagesInv'
<1>1. CallsFit /\ ListInv /\ ListTypes /\ QuestionsFit
  BY DEF PagesInv, ListInv, ListTypes, CallsFit
<1>2. /\ c.at = "made" /\ calls' = calls \ {c} /\ busy' = busy \ Resets(c)
      /\ form' \in {form, Nowhere}
      /\ UNCHANGED <<kind, path, token, dialog, asked, sends, written>>
  BY DEF Succeeds
<1>3. HandlersFit'
  BY <1>1, <1>2, EndKeeps
<1>4. HandlerTypes' /\ QuestionsFit'
  BY <1>1, <1>2, QuestionsStay DEF PagesInv, HandlerTypes
<1>5. ListInv'
  <2>1. CASE c.op.refreshes /\ c.here # "none"
    <3>1. /\ Loads(reads, path, token)
          /\ told' = [told EXCEPT ![Holder[c.token]] =
                        IF told[Holder[c.token]] < c.change THEN c.change
                        ELSE told[Holder[c.token]]]
      BY <2>1 DEF Succeeds
    <3>2. c \in CallOf
      BY <1>1 DEF CallsFit, HandlerTypes
    <3>3. PICK a \in Accounts : a = Holder[c.token]
      BY <3>2, HolderFacts DEF CallOf
    <3>4. c.change \in Nat /\ told \in [Accounts -> Nat] /\ written \in [Accounts -> Nat]
          /\ c.change <= written[a]
      BY <1>1, <1>2, <3>2, <3>3 DEF ListInv, ListTypes, CallOf
    <3>5. told' \in [Accounts -> Nat] /\ \A b \in Accounts : told'[b] <= written'[b]
      <4>1. told' \in [Accounts -> Nat]
        BY <3>1, <3>3, <3>4
      <4>2. ASSUME NEW b \in Accounts PROVE told'[b] <= written'[b]
        <5>1. told[b] <= written[b]
          BY <1>1 DEF ListInv
        <5> QED
          BY <1>2, <3>1, <3>3, <3>4, <5>1
      <4> QED
        BY <4>1, <4>2
    <3>6. \A e \in calls' : e.at = "made" => e.change <= written'[Holder[e.token]]
      BY <1>1, <1>2 DEF ListInv
    <3>7. PICK p \in Paths : p = path
      BY <1>1 DEF ListTypes
    <3>8. PICK t \in DOMAIN Holder : t = token
      BY <1>1 DEF ListTypes
    <3>9. kind' \in AllKinds /\ written' \in [Accounts -> Nat]
      BY <1>1, <1>2 DEF ListTypes
    <3> QED
      BY <1>1, <1>2, <3>1, <3>5, <3>6, <3>7, <3>8, <3>9, LoadsKeep
  <2>2. CASE ~(c.op.refreshes /\ c.here # "none")
    <3>1. UNCHANGED <<reads, resource, told>>
      BY <2>2 DEF Succeeds
    <3> QED
      BY <1>2, <3>1, Unharmed
  <2> QED
    BY <2>1, <2>2
<1> QED
  BY <1>3, <1>4, <1>5 DEF PagesInv

LEMMA FailsKeeps ==
  ASSUME PagesInv, NEW c \in calls, Fails(c)
  PROVE  PagesInv'
<1>1. CallsFit
  BY DEF PagesInv, ListInv, ListTypes, CallsFit
<1>2. /\ calls' = calls \ {c} /\ busy' = busy \ Resets(c)
      /\ UNCHANGED <<kind, path, token, resource, reads, form, sends, written, told>>
      /\ \/ dialog' = "alert" /\ asked' = {}
         \/ UNCHANGED <<dialog, asked>>
  BY DEF Fails
<1>3. HandlersFit'
  BY <1>1, <1>2, EndKeeps
<1>4. HandlerTypes'
  BY <1>2 DEF PagesInv, HandlerTypes
<1>5. QuestionsFit'
  BY <1>2, QuestionsStay, NoQuestions DEF PagesInv
<1>6. ListInv'
  BY <1>2, Unharmed
<1> QED
  BY <1>3, <1>4, <1>5, <1>6 DEF PagesInv

LEMMA PagesInvInit ==
  ASSUME PagesInit
  PROVE  PagesInv
<1>1. /\ kind \in AllKinds /\ path \in Paths /\ token = 1 /\ resource = Fresh
      /\ reads = {[path |-> path, token |-> token, live |-> TRUE, data |-> NoAnswer]}
      /\ form = Nowhere /\ busy = {} /\ dialog = "none" /\ asked = {} /\ calls = {} /\ sends = 0
      /\ written = [a \in Accounts |-> 0] /\ told = [a \in Accounts |-> 0]
  BY PagesAssumption DEF PagesInit
<1>2. token \in DOMAIN Holder
  BY <1>1, PagesAssumption
<1>3. /\ Fresh \in [result : Result, loading : BOOLEAN, failed : BOOLEAN]
      /\ \A p, t, n : Has(Fresh, p, t, n)
  BY NoAnswerType DEF Fresh, NoData, Result, Has
<1> DEFINE r == [path |-> path, token |-> token, live |-> TRUE, data |-> NoAnswer]
<1>4. r \in ReadOf /\ Answers(r) /\ \A n : Listens(r, path, token, n)
  BY <1>1, <1>2, NoAnswerType DEF ReadOf, Answers, Listens
<1>5. reads = {r}
  BY <1>1
<1> HIDE DEF r
<1>6. ListInv
  BY <1>1, <1>2, <1>3, <1>4, <1>5 DEF ListInv, ListTypes
<1>7. HandlerTypes /\ HandlersFit /\ QuestionsFit
  BY <1>1 DEF HandlerTypes, HandlersFit, QuestionsFit
<1> QED
  BY <1>6, <1>7 DEF PagesInv

LEMMA PagesInvNext ==
  ASSUME PagesInv, [PagesNext]_pages
  PROVE  PagesInv'
<1>1. ASSUME NEW p \in Paths, Search(p)
      PROVE  PagesInv'
  BY <1>1, ReloadKeeps DEF Search
<1>2. CASE Refresh
  <2>1. PICK p \in Paths : p = path
    BY DEF PagesInv, ListInv, ListTypes
  <2> QED
    BY <1>2, <2>1, ReloadKeeps DEF Refresh
<1>3. CASE UNCHANGED pages
  <2>1. UNCHANGED <<kind, path, token, resource, reads, form, busy, dialog, asked, calls, turns,
                    sends, written, told>>
    BY <1>3 DEF pages
  <2>2. ListInv'
    BY <2>1, Unharmed
  <2> QED
    BY <2>1, <2>2, HandlersStay DEF PagesInv, HandlerTypes
<1> QED
  BY <1>1, <1>2, <1>3, ReadsKeep, OpenPageKeeps, NextTokenKeeps, FormsKeep, SubmitKeeps,
     ClickKeeps, ConfirmKeeps, MakeKeeps, SucceedsKeeps, FailsKeeps DEF PagesNext

THEOREM PagesInvariant == PagesSpec => []PagesInv
<1> QED
  BY PagesInvInit, PagesInvNext, PTL DEF PagesSpec

(* However requests for a list overtake each other: what a page shows is   *)
(* of the account and the search that it is about, and it is never older   *)
(* than a change which the page has reported as made.                      *)
THEOREM PagesShowCurrent == PagesSpec => []ShowsCurrent
<1>1. PagesInv => ShowsCurrent
  BY DEF PagesInv, ListInv, Has, ShowsCurrent, Data, Current, Loading, Failed, Viewer
<1> QED
  BY <1>1, PagesInvariant, PTL

(* For any operations on any records of the eight pages: a flag is set     *)
(* only while a handler that resets it waits, no answer to another handler *)
(* lets in what a waiting one keeps out, and a question that was asked is  *)
(* on the screen.                                                          *)
THEOREM PagesNeverStuck == PagesSpec => []NothingStuck
<1>1. PagesInv => NothingStuck
  BY DEF PagesInv, HandlersFit, QuestionsFit, NothingStuck
<1> QED
  BY <1>1, PagesInvariant, PTL

=============================================================================
