------------------------------- MODULE Client -------------------------------
(***************************************************************************)
(* The session of the web client, auth-provider.tsx, on top of the server  *)
(* of module Sessions: tabs of one browser share the refresh cookie, and   *)
(* the lock 'vrompt-auth-session' lets one of them at a time use it.       *)
(*                                                                         *)
(* A tab shows a session, the access token in its memory.  Its epoch       *)
(* counts the changes of session it asked for; a call remembers whether    *)
(* the epoch it began with still holds.  A response may be lost, a tab may *)
(* be reloaded, and the server handles what was sent all the same.         *)
(***************************************************************************)
EXTENDS Sessions

CONSTANTS
  Tabs, Browsers, Home,  \* tabs, browsers, and the browser of each tab
  Owners,                \* the people who use each browser
  SignedIn,              \* the session each browser begins with
  Locking,               \* whether the browser offers navigator.locks
  Budgets                \* bound: what calls and faults there may be, one of several

ASSUME ClientAssumption ==
  /\ Desks = Tabs
  /\ Home \in [Tabs -> Browsers]
  /\ Owners \in [Browsers -> SUBSET Users]
  /\ SignedIn \in [Browsers -> {f \in Families : Opened[f] # "none"} \cup {"none"}]
  /\ \A a, b \in Browsers : SignedIn[a] = SignedIn[b] => a = b \/ SignedIn[a] = "none"
  /\ "none" \notin Families
  /\ Locking \in BOOLEAN
  /\ Budgets \subseteq [calls : [Tabs -> Nat], faults : Nat]

VARIABLES
  cookie,  \* the refresh token each browser holds
  queue,   \* the calls that each call waits for at the lock of its browser
  call,    \* calls of each tab, one of a kind
  shown,   \* the access token each tab holds
  stray,   \* calls whose tab no longer listens
  lost,    \* families whose token went out with no one to hear the answer
  out,     \* browsers that signed out and not in again
  left     \* calls and faults that may still come

client == <<cookie, queue, call, shown, stray, lost, out, left>>
vars == <<server, client>>

Token == [family : Families, n : 0..MaxRotations]
NoToken == [family |-> "none", n |-> 0]
TokenOf(f, n) == [family |-> f, n |-> n]
Answer == {"none", "denied", "ok"}      \* and a token, in the field token

LockedKinds == {"refresh", "logout", "login"}   \* the calls that take the lock
Kinds == LockedKinds \cup {"oauth", "password"}

(***************************************************************************)
(* A call: where it stands, whether its epoch holds, the cookie it took    *)
(* along or the token it was answered with, the account it is for, the     *)
(* password typed and the one the server read.                             *)
(***************************************************************************)
Call == [kind : Kinds, phase : {"idle", "queued", "sent", "read", "answered"},
         fresh : BOOLEAN, token : Token \cup {NoToken}, user : Users \cup {"none"},
         typed : 0..MaxPasswords, read : 0..MaxPasswords, answer : Answer]

Idle(k) == [kind |-> k, phase |-> "idle", fresh |-> TRUE, token |-> NoToken,
            user |-> "none", typed |-> 0, read |-> 0, answer |-> "none"]
Queued(k) == [Idle(k) EXCEPT !.phase = "queued"]

IsIdle(t, k) == call[t][k].phase = "idle"

\* The page is at the provider.
Away(t) == ~IsIdle(t, "oauth")

Stale(c) == [c EXCEPT !.fresh = c.phase = "idle"]

\* The epoch of a tab moves on, for all its calls but those of K.
NextEpoch(t, K) == [k \in Kinds |-> IF k \in K THEN call[t][k] ELSE Stale(call[t][k])]

\* The lock goes to who has asked for it before.
Ahead(t) == {e \in Tabs \X LockedKinds : Home[e[1]] = Home[t] /\ ~IsIdle(e[1], e[2])}

Waits(t, k) == queue' = [queue EXCEPT ![t][k] = Ahead(t)]

\* Mutant: every tab goes ahead on its own.
HoldsAlways(t, k) == TRUE

\* Mutant: a sign-out does not wait for the lock.
HoldsToRefresh(t, k) == k = "logout" \/ queue[t][k] = {}

Holds(t, k) == ~Locking \/ queue[t][k] = {}

\* The calls K of a tab leave the queue.
Without(t, K) ==
  [u \in Tabs |-> [k \in LockedKinds |->
     IF u = t /\ k \in K THEN {} ELSE queue[u][k] \ ({t} \X K)]]

Leaves(t, K) == queue' = Without(t, K)

Calls(t) == left.calls[t] > 0 /\ left' = [left EXCEPT !.calls[t] = @ - 1]
Fault == left.faults > 0 /\ left' = [left EXCEPT !.faults = @ - 1]

(***************************************************************************)
(* What a tab calls.                                                       *)
(***************************************************************************)
RefreshSession(t) ==
  /\ shown[t] # NoToken /\ IsIdle(t, "refresh") /\ ~Away(t)
  /\ Calls(t)
  /\ call' = [call EXCEPT ![t]["refresh"] = Queued("refresh")]
  /\ Waits(t, "refresh")
  /\ UNCHANGED <<server, cookie, shown, stray, lost, out>>

SignOut(t) ==
  /\ shown[t] # NoToken /\ IsIdle(t, "logout") /\ ~Away(t)
  /\ Calls(t)
  /\ call' = [call EXCEPT ![t] = [NextEpoch(t, {}) EXCEPT !["logout"] = Queued("logout")]]
  /\ Waits(t, "logout")
  /\ UNCHANGED <<server, cookie, shown, stray, lost, out>>

StaffLogin(t, u) ==
  /\ IsIdle(t, "login") /\ ~Away(t)
  /\ Calls(t)
  /\ call' = [call EXCEPT ![t] = [NextEpoch(t, {}) EXCEPT !["login"] =
                [Queued("login") EXCEPT !.user = u, !.typed = account[u].password]]]
  /\ Waits(t, "login")
  /\ UNCHANGED <<server, cookie, shown, stray, lost, out>>

\* The form of a new password sends the access token, and takes no lock.
SendPassword(t) ==
  LET f == shown[t].family IN
    /\ shown[t] # NoToken /\ IsIdle(t, "password") /\ IsIdle(t, "logout") /\ ~Away(t)
    /\ Admits(f) /\ session[f].role = "ADMIN"
    /\ Calls(t)
    /\ call' = [call EXCEPT ![t]["password"] =
                  [Idle("password") EXCEPT !.phase = "read", !.user = session[f].user,
                     !.typed = account[session[f].user].password]]
    /\ UNCHANGED <<server, cookie, queue, shown, stray, lost, out>>

\* A protected request is refused: the session is over, or the token too old.
Expired(t) ==
  /\ shown[t] # NoToken
  /\ IF Admits(shown[t].family) THEN Fault ELSE UNCHANGED left
  /\ call' = [call EXCEPT ![t] = NextEpoch(t, {})]
  /\ shown' = [shown EXCEPT ![t] = NoToken]
  /\ UNCHANGED <<server, cookie, queue, stray, lost, out>>

(***************************************************************************)
(* The page goes, with everything it waits for.                            *)
(***************************************************************************)
OnTheWay(c) == c.phase \in {"sent", "read"}

\* The families whose rotated token may never arrive.
Unheard(c) ==
  IF c.kind = "refresh" /\ (c.phase = "sent" \/ c.answer = "ok")
  THEN {c.token.family} \ {"none"} ELSE {}

Unloads(t) ==
  /\ shown' = [shown EXCEPT ![t] = NoToken]
  /\ stray' = stray \cup {c \in {call[t][k] : k \in Kinds} : OnTheWay(c)}
  /\ lost' = lost \cup UNION {Unheard(call[t][k]) : k \in Kinds}

Reload(t) ==
  /\ ~Away(t)
  /\ Fault
  /\ Unloads(t)
  /\ call' = [call EXCEPT ![t] = [k \in Kinds |->
                IF k = "refresh" THEN Queued(k) ELSE Idle(k)]]
  /\ queue' = [Without(t, Kinds) EXCEPT ![t]["refresh"] = Ahead(t) \ ({t} \X Kinds)]
  /\ UNCHANGED <<server, cookie, out>>

BeginOAuth(t, u) ==
  /\ ~Away(t)
  /\ Calls(t)
  /\ Unloads(t)
  /\ call' = [call EXCEPT ![t] = [k \in Kinds |->
                IF k = "oauth" THEN [Idle(k) EXCEPT !.phase = "sent", !.user = u]
                               ELSE Idle(k)]]
  /\ Leaves(t, Kinds)
  /\ UNCHANGED <<server, cookie, out>>

(***************************************************************************)
(* The lock is granted: the call is sent with the cookie, unless it is a   *)
(* refresh of an epoch that has passed.                                    *)
(***************************************************************************)
Grant(t, k) ==
  LET c == call[t][k] IN
    /\ k \in LockedKinds /\ c.phase = "queued" /\ Holds(t, k)
    /\ IF k = "refresh" /\ ~c.fresh
       THEN /\ call' = [call EXCEPT ![t][k] = Idle(k)]
            /\ Leaves(t, {k})
       ELSE /\ call' = [call EXCEPT ![t][k] =
                           [c EXCEPT !.phase = "sent", !.token = cookie[Home[t]]]]
            /\ UNCHANGED queue
    /\ UNCHANGED <<server, cookie, shown, stray, lost, out, left>>

(***************************************************************************)
(* What the server makes of a call c, and how it stands after that.        *)
(***************************************************************************)
Answered(c, answer, token) ==
  [c EXCEPT !.phase = "answered", !.answer = answer, !.token = token]

Denied(c) == Answered(c, "denied", c.token)

\* A call is the tab's own, or stray: nobody waits for its answer any more.
Own(t, k) == [call |-> call[t][k], tab |-> t, own |-> TRUE]
Stray(c)  == [call |-> c, own |-> FALSE]

Reply(p, d) ==
  IF p.own THEN call' = [call EXCEPT ![p.tab][d.kind] = d] /\ UNCHANGED stray
  ELSE stray' = (stray \ {p.call}) \cup {e \in {d} : OnTheWay(e)} /\ UNCHANGED call

HandleRefresh(p) ==
  LET c == p.call  f == c.token.family  n == c.token.n IN
    /\ c.kind = "refresh" /\ c.phase = "sent"
    /\ \/ c.token = NoToken /\ Reply(p, Denied(c)) /\ UNCHANGED server
       \/ c.token # NoToken /\ Alarm(f, n) /\ Reply(p, Denied(c))
       \/ /\ c.token # NoToken /\ Rotate(f, n)
          /\ Reply(p, Answered(c, "ok", TokenOf(f, session[f].last + 1)))
       \/ /\ c.token # NoToken /\ ~Locked(session[f].user)
          /\ ~Revoked(f, n) /\ ~Usable(f)
          /\ Reply(p, Denied(c)) /\ UNCHANGED server

HandleLogout(p) ==
  LET c == p.call IN
  /\ c.kind = "logout" /\ c.phase = "sent"
  /\ Reply(p, Answered(c, "ok", NoToken))
  /\ IF c.token = NoToken THEN UNCHANGED server ELSE Logout(c.token.family)

ReadCredential(p) ==
  LET c == p.call IN
  /\ c.kind = "login" /\ c.phase = "sent"
  /\ Reply(p, IF CredentialRead(c.user)
              THEN [c EXCEPT !.phase = "read", !.read = account[c.user].password]
              ELSE Denied(c))
  /\ UNCHANGED server

HandleLogin(p) ==
  LET c == p.call IN
  /\ c.kind = "login" /\ c.phase = "read"
  /\ \/ \E f \in Families : /\ SignInStaff(c.user, c.read, c.typed, f)
                            /\ Reply(p, Answered(c, "ok", TokenOf(f, 0)))
     \/ /\ ~Locked(c.user)
        /\ ~(Unchanged(c.user, c.read) /\ c.typed = c.read /\ Active(c.user, "ADMIN"))
        /\ Reply(p, Denied(c)) /\ UNCHANGED server

FindIdentity(p) ==
  LET c == p.call IN
  /\ c.kind = "oauth" /\ c.phase = "sent"
  /\ \/ Active(c.user, "USER") /\ Reply(p, [c EXCEPT !.phase = "read"]) /\ UNCHANGED server
     \/ Register(c.user) /\ Reply(p, [c EXCEPT !.phase = "read"])
     \/ ~Active(c.user, "USER") /\ Reply(p, Denied(c)) /\ UNCHANGED server

HandleOAuth(p) ==
  LET c == p.call IN
  /\ c.kind = "oauth" /\ c.phase = "read"
  /\ \/ \E f \in Families : SignInOAuth(c.user, f) /\ Reply(p, Answered(c, "ok", TokenOf(f, 0)))
     \/ ~Locked(c.user) /\ ~Active(c.user, "USER") /\ Reply(p, Denied(c)) /\ UNCHANGED server

HandlePassword(p) ==
  LET c == p.call IN
  /\ c.kind = "password" /\ c.phase = "read"
  /\ \/ ChangePassword(c.user, c.typed) /\ Reply(p, Answered(c, "ok", NoToken))
     \/ /\ ~Locked(c.user)
        /\ ~(Unchanged(c.user, c.typed) /\ account[c.user].role = "ADMIN")
        /\ Reply(p, Denied(c)) /\ UNCHANGED server

Serve(p) ==
  /\ \/ HandleRefresh(p) \/ HandleLogout(p) \/ ReadCredential(p) \/ HandleLogin(p)
     \/ FindIdentity(p) \/ HandleOAuth(p) \/ HandlePassword(p)
  /\ UNCHANGED <<cookie, queue, shown, lost, out, left>>

(***************************************************************************)
(* The answer arrives: the browser takes over the cookie, the call ends    *)
(* and leaves the lock, and the tab shows the session if its epoch holds.  *)
(***************************************************************************)
EndCall(t, k) ==
  /\ call' = [call EXCEPT ![t][k] = Idle(k)]
  /\ Leaves(t, {k})

SetCookie(t, token) == cookie' = [cookie EXCEPT ![Home[t]] = token]

Takes(t, c) == IF c.answer = "ok" THEN SetCookie(t, c.token) ELSE UNCHANGED cookie

Shows(t, token) == shown' = [shown EXCEPT ![t] = token]

\* refreshSession and staffLogin; only a refresh that fails clears the tab.
ReceiveSession(t, k) ==
  LET c == call[t][k] IN
    /\ k \in {"refresh", "login"} /\ c.phase = "answered"
    /\ Takes(t, c)
    /\ out' = IF k = "login" /\ c.answer = "ok" THEN out \ {Home[t]} ELSE out
    /\ CASE c.fresh /\ c.answer = "ok"                       -> Shows(t, c.token)
         [] c.fresh /\ c.answer = "denied" /\ k = "refresh" -> Shows(t, NoToken)
         [] OTHER                                           -> UNCHANGED shown
    /\ EndCall(t, k)
    /\ UNCHANGED <<server, stray, lost, left>>

ReceiveLogout(t) ==
  /\ call[t]["logout"].phase = "answered"
  /\ SetCookie(t, NoToken)
  /\ out' = out \cup {Home[t]}
  /\ Shows(t, NoToken)
  /\ EndCall(t, "logout")
  /\ UNCHANGED <<server, stray, lost, left>>

\* The provider's page is left for the client's, which starts anew.
ReceiveOAuth(t) ==
  LET c == call[t]["oauth"] IN
    /\ c.phase = "answered"
    /\ Takes(t, c)
    /\ out' = IF c.answer = "ok" THEN out \ {Home[t]} ELSE out
    /\ call' = [call EXCEPT ![t]["oauth"] = Idle("oauth"), ![t]["refresh"] = Queued("refresh")]
    /\ Waits(t, "refresh")
    /\ UNCHANGED <<server, shown, stray, lost, left>>

\* A new password clears the cookie, and then the page signs out.
ReceivePassword(t) ==
  LET c == call[t]["password"]
      next == [NextEpoch(t, {}) EXCEPT !["password"] = Idle("password"),
                                      !["logout"] = Queued("logout")] IN
    /\ c.phase = "answered"
    /\ IF c.answer = "ok" /\ IsIdle(t, "logout")
       THEN /\ SetCookie(t, NoToken) /\ Waits(t, "logout")
            /\ call' = [call EXCEPT ![t] = next]
       ELSE /\ Takes(t, c)
            /\ call' = [call EXCEPT ![t]["password"] = Idle("password")]
            /\ UNCHANGED queue
    /\ UNCHANGED <<server, shown, stray, lost, out, left>>

\* The network fails; the server may have handled the call or may yet.
Lose(t, k) ==
  LET c == call[t][k] IN
    /\ k \in LockedKinds /\ (OnTheWay(c) \/ c.phase = "answered")
    /\ Fault
    /\ stray' = stray \cup {d \in {c} : OnTheWay(d)}
    /\ lost' = lost \cup Unheard(c)
    /\ IF k = "refresh" /\ c.fresh THEN Shows(t, NoToken) ELSE UNCHANGED shown
    /\ EndCall(t, k)
    /\ UNCHANGED <<server, cookie, out>>

(***************************************************************************)
(* Administrators work from their tabs; sessions expire, and the browser   *)
(* drops the cookie then.                                                  *)
(***************************************************************************)
Administer(t) ==
  LET f == shown[t].family IN
    /\ shown[t] # NoToken /\ ~Away(t)
    /\ Calls(t)
    /\ \E u \in Users : BeginCreate(t, f, u) \/ \E i \in Inputs : BeginUpdate(t, f, u, i)
    /\ UNCHANGED <<cookie, queue, call, shown, stray, lost, out>>

Desk(t) == DeskStep(t) /\ UNCHANGED client

SessionExpires(f) ==
  /\ Fault
  /\ Expire(f)
  /\ cookie' = [b \in Browsers |-> IF cookie[b].family = f THEN NoToken ELSE cookie[b]]
  /\ UNCHANGED <<queue, call, shown, stray, lost, out>>

-----------------------------------------------------------------------------
ClientInit ==
  /\ cookie = [b \in Browsers |-> TokenOf(SignedIn[b], 0)]
  /\ queue = [t \in Tabs |-> [k \in LockedKinds |-> {}]]
  /\ call = [t \in Tabs |-> [k \in Kinds |-> Idle(k)]]
  /\ shown = [t \in Tabs |-> TokenOf(SignedIn[Home[t]], 0)]
  /\ stray = {} /\ lost = {} /\ out = {}
  /\ left \in Budgets

Init == SessionsInit /\ ClientInit

Receive(t) ==
  \/ \E k \in Kinds : ReceiveSession(t, k)
  \/ ReceiveLogout(t) \/ ReceiveOAuth(t) \/ ReceivePassword(t)

Ask(t) ==
  \/ RefreshSession(t) \/ SignOut(t) \/ SendPassword(t) \/ Administer(t)
  \/ \E u \in Owners[Home[t]] : StaffLogin(t, u) \/ BeginOAuth(t, u)

TabStep(t) ==
  \/ Ask(t) \/ Receive(t) \/ Expired(t) \/ Reload(t) \/ Desk(t)
  \/ \E k \in Kinds : Grant(t, k) \/ Serve(Own(t, k)) \/ Lose(t, k)

Next ==
  \/ \E t \in Tabs : TabStep(t)
  \/ \E c \in stray : Serve(Stray(c))
  \/ \E f \in Families : SessionExpires(f)

Spec == Init /\ [][Next]_vars

(***************************************************************************)
(* Tabs that share a cookie never use a token twice: a revoked token comes *)
(* back only if its family was revoked before, or the answer to an earlier *)
(* refresh was lost.                                                       *)
(***************************************************************************)
NoFalseAlarm == [][alarmed' \ alarmed \subseteq ended \cup lost]_vars

(***************************************************************************)
(* Once a tab has signed out, no refresh of another tab that was under way *)
(* brings the session back to the browser: a tab shows one again only      *)
(* after a sign-in.                                                        *)
(***************************************************************************)
TakesUp(t) == shown'[t] # shown[t] /\ shown'[t] # NoToken

SignedOutStaysOut ==
  [][\A t \in Tabs : TakesUp(t) => Home[t] \notin out']_vars

=============================================================================
