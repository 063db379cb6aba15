----------------------------- MODULE Identities -----------------------------
(***************************************************************************)
(* Sign-in through Google and GitHub: the journey from a window of a       *)
(* browser to the provider and back (auth.controller.ts, auth-return.ts),  *)
(* and the transaction that finds or registers the account of the identity *)
(* that the provider vouches for (auth.service.ts).                        *)
(*                                                                         *)
(* A journey is known by its number: it stands for the state and for the   *)
(* verifier, which are made, kept in cookies and cleared together.  The    *)
(* provider is external: it binds a code to the journey it was asked with, *)
(* takes it back once, and tells the profile of who agreed.                *)
(***************************************************************************)
EXTENDS Integers, FiniteSets, Sequences

CONSTANTS
  Windows, Machines,  \* windows, and the browsers they are opened in
  MachineOf,          \* the browser of each window
  Profiles,           \* what providers may tell, and of whom
  Spelling,           \* the address each spelling of an e-mail stands for
  StaffMail,          \* the address of the one account there is at first
  Places,             \* pages where a sign-in may begin
  MaxJourneys,        \* bound: journeys begun
  MaxEdits            \* bound: changes an administrator makes

SignInProviders == {"google", "github"}

ASSUME IdentitiesAssumption ==
  /\ MachineOf \in [Windows -> Machines]
  /\ MaxJourneys \in Nat /\ MaxEdits \in Nat
  /\ "chat" \in Places /\ "none" \notin Places
  /\ \A p \in Profiles : p.provider \in SignInProviders

VARIABLES
  journey,  \* the journeys begun: where, and who agreed to sign in
  crumb,    \* the journey each browser keeps, for each provider
  visit,    \* where each window stands
  goal,     \* the page each window is to come back to
  person,   \* User rows: the first is of the staff
  identity, \* UserIdentity rows
  jar,      \* the account each browser is signed in to
  open,     \* features.registrationEnabled
  changes   \* changes made by administrators

identities == <<journey, crumb, visit, goal, person, identity, jar, open, changes>>

NoProfile == [provider |-> "none", subject |-> "none", name |-> "none", emails |-> <<>>]

(***************************************************************************)
(* An address is one of the world's, or made up for an identity.  A user   *)
(* name is a display name, perhaps with a suffix made of the subject.      *)
(***************************************************************************)
World(e)      == [mail |-> e, provider |-> "none", subject |-> "none"]
MadeUp(p)     == [mail |-> "local", provider |-> p.provider, subject |-> p.subject]
Name(base, s) == [base |-> base, suffix |-> s]
NoMail == World("none")

Person(mail, name, role) ==
  [email |-> mail, username |-> name, role |-> role, status |-> "ACTIVE"]

Rest == [pc |-> "home", provider |-> "google", state |-> 0, read |-> 0,
         told |-> NoProfile, mail |-> NoMail, email |-> NoMail,
         username |-> Name("none", "none"), account |-> 0, page |-> "none"]

Of(w) == MachineOf[w]

To(w, v) == visit' = [visit EXCEPT ![w] = v]

Begun == Cardinality(DOMAIN journey)

(***************************************************************************)
(* A window leaves for the provider, with the page to come back to in its  *)
(* storage and the journey in the cookies of its browser.                  *)
(***************************************************************************)
Remember(w, page) == goal' = [goal EXCEPT ![w] = page]

Keeps(w, p, n) == crumb' = [crumb EXCEPT ![Of(w)][p] = n]

LeavesFor(w, p, n) == To(w, [Rest EXCEPT !.pc = "away", !.provider = p, !.state = n])

BeginJourney(w, p, page) ==
  /\ visit[w].pc \in {"home", "failed"}
  /\ Begun < MaxJourneys
  /\ Remember(w, page)
  /\ LET n == Begun + 1 IN
       /\ journey' = Append(journey,
                       [at |-> w, provider |-> p, from |-> page, who |-> NoProfile,
                        used |-> FALSE])
       /\ Keeps(w, p, n)
       /\ LeavesFor(w, p, n)
  /\ UNCHANGED <<person, identity, jar, open, changes>>

(***************************************************************************)
(* Somebody agrees at the provider, and the way back opens, as a rule in   *)
(* the same window.                                                        *)
(***************************************************************************)
Agree(w, p, x) ==
  LET n == visit[w].state IN
    /\ visit[w].pc = "away" /\ p.provider = visit[w].provider
    /\ x = w \/ visit[x].pc = "home"
    /\ journey' = [journey EXCEPT ![n].who = p]
    /\ visit' = [v \in Windows |->
         CASE v = x -> [Rest EXCEPT !.pc = "back", !.provider = p.provider, !.state = n]
           [] v = w /\ v # x -> Rest
           [] OTHER -> visit[v]]
    /\ UNCHANGED <<crumb, goal, person, identity, jar, open, changes>>

\* The page of the way back is loaded once more.
Again(w) ==
  /\ visit[w].pc = "failed" /\ visit[w].state # 0
  /\ To(w, [Rest EXCEPT !.pc = "back", !.provider = visit[w].provider,
                        !.state = visit[w].state])
  /\ UNCHANGED <<journey, crumb, goal, person, identity, jar, open, changes>>

\* The cookies last for five minutes.
Forget(b, p) ==
  /\ crumb[b][p] # 0
  /\ crumb' = [crumb EXCEPT ![b][p] = 0]
  /\ UNCHANGED <<journey, visit, goal, person, identity, jar, open, changes>>

(***************************************************************************)
(* The callback: the cookies of the request must be those of the journey.  *)
(* Whether it fails or not, its answer clears them.                        *)
(***************************************************************************)
Cleared(w) == crumb' = [crumb EXCEPT ![Of(w)][visit[w].provider] = 0]

MatchesState(w) == crumb[Of(w)][visit[w].provider] = visit[w].state

\* redirectToFailure; the message is shown where the window arrives.
SignInFails(w) ==
  /\ Cleared(w)
  /\ To(w, [Rest EXCEPT !.pc = "failed", !.provider = visit[w].provider,
                        !.state = visit[w].state])

Callback(w) ==
  /\ visit[w].pc = "back"
  /\ IF MatchesState(w)
     THEN To(w, [visit[w] EXCEPT !.pc = "exchange", !.read = crumb[Of(w)][visit[w].provider]])
          /\ UNCHANGED crumb
     ELSE SignInFails(w)
  /\ UNCHANGED <<journey, goal, person, identity, jar, open, changes>>

(***************************************************************************)
(* The code is exchanged for a profile.  Google must vouch for the e-mail; *)
(* of GitHub's the verified primary one is taken, else a verified one.     *)
(***************************************************************************)
Vouched(p) == SelectSeq(p.emails, LAMBDA e : e.verified)
Primary(p) == SelectSeq(p.emails, LAMBDA e : e.primary /\ e.verified)

FirstMail(list) == World(Spelling[Head(list).email])

ProviderEmail(p) ==
  IF p.provider = "github" /\ Primary(p) # <<>> THEN FirstMail(Primary(p))
  ELSE IF Vouched(p) # <<>> THEN FirstMail(Vouched(p)) ELSE NoMail

Exchange(w) ==
  LET n == visit[w].state  p == journey[n].who IN
    /\ visit[w].pc = "exchange"
    /\ IF journey[n].used \/ visit[w].read # n \/ (p.provider = "google" /\ Vouched(p) = <<>>)
       THEN SignInFails(w)
       ELSE /\ To(w, [visit[w] EXCEPT !.pc = "find", !.told = p, !.mail = ProviderEmail(p)])
            /\ UNCHANGED crumb
    /\ journey' = [journey EXCEPT ![n].used = TRUE]
    /\ UNCHANGED <<goal, person, identity, jar, open, changes>>

\* The provider cannot be reached, or too many have tried.
ExchangeFails(w) ==
  /\ visit[w].pc = "exchange"
  /\ SignInFails(w)
  /\ UNCHANGED <<journey, goal, person, identity, jar, open, changes>>

(***************************************************************************)
(* authenticateOAuth: the account of the identity, or a new one.  Rows are *)
(* read first; what others commit after that is met at the insertion.  The *)
(* address and the name are read in one step: a row that is committed      *)
(* between the two makes the insertion fail, as one after both would, or   *)
(* else takes one of the two only, as one before both would.               *)
(***************************************************************************)
Welcome(a) == person[a].status = "ACTIVE" /\ person[a].role = "USER"

\* Mutant: an account of the same e-mail is taken for the same.
SameMail(p) ==
  {i \in identity : \/ i.provider = p.provider /\ i.subject = p.subject
                    \/ i.email # NoMail /\ i.email = ProviderEmail(p)}

Same(p) == {i \in identity : i.provider = p.provider /\ i.subject = p.subject}

Identity(p, a, mail) ==
  [provider |-> p.provider, subject |-> p.subject, user |-> a, email |-> mail]

Find(w) ==
  LET v == visit[w]  p == v.told IN
    /\ v.pc = "find"
    /\ \/ /\ Same(p) = {} /\ open
          /\ To(w, [v EXCEPT !.pc = "name"])
          /\ UNCHANGED <<crumb, identity>>
       \/ /\ \E i \in Same(p) :
               /\ Welcome(i.user)
               /\ identity' = (identity \ {i}) \cup {Identity(p, i.user, v.mail)}
               /\ To(w, [v EXCEPT !.pc = "issue", !.account = i.user])
          /\ UNCHANGED crumb
       \/ /\ IF Same(p) = {} THEN ~open ELSE \E i \in Same(p) : ~Welcome(i.user)
          /\ SignInFails(w)
          /\ UNCHANGED identity
    /\ UNCHANGED <<journey, goal, person, jar, open, changes>>

People == DOMAIN person
MailTaken(mail) == \E a \in People : person[a].email = mail
NameTaken(name) == \E a \in People : person[a].username = name

AccountEmail(p, mail) ==
  IF mail # NoMail /\ ~MailTaken(mail) THEN mail ELSE MadeUp(p)

UniqueUsername(p) ==
  LET candidates == {n \in {Name(p.name, "none"), Name(p.name, p.subject)} : ~NameTaken(n)} IN
    IF Name(p.name, "none") \in candidates THEN Name(p.name, "none")
    ELSE IF candidates # {} THEN Name(p.name, p.subject) ELSE Name("account", p.subject)

ChooseNames(w) ==
  LET v == visit[w] IN
    /\ v.pc = "name"
    /\ To(w, [v EXCEPT !.pc = "create", !.email = AccountEmail(v.told, v.mail),
                       !.username = UniqueUsername(v.told)])
    /\ UNCHANGED <<journey, crumb, goal, person, identity, jar, open, changes>>

\* Both rows or none: what is taken by now is a conflict.
CreateAccount(w) ==
  LET v == visit[w]  a == Len(person) + 1 IN
    /\ v.pc = "create"
    /\ IF MailTaken(v.email) \/ NameTaken(v.username) \/ Same(v.told) # {}
       THEN SignInFails(w) /\ UNCHANGED <<person, identity>>
       ELSE /\ person' = Append(person, Person(v.email, v.username, "USER"))
            /\ identity' = identity \cup {Identity(v.told, a, v.mail)}
            /\ To(w, [v EXCEPT !.pc = "issue", !.account = a])
            /\ UNCHANGED crumb
    /\ UNCHANGED <<journey, goal, jar, open, changes>>

(***************************************************************************)
(* The session is issued in a transaction of its own, which reads the      *)
(* account again; then the window comes back to its page.                  *)
(***************************************************************************)
SignIn(w) ==
  LET v == visit[w] IN
    /\ v.pc = "issue"
    /\ IF Welcome(v.account)
       THEN /\ jar' = [jar EXCEPT ![Of(w)] = v.account]
            /\ Cleared(w)
            /\ To(w, [v EXCEPT !.pc = "landing"])
       ELSE SignInFails(w) /\ UNCHANGED jar
    /\ UNCHANGED <<journey, goal, person, identity, open, changes>>

Land(w) ==
  LET v == visit[w] IN
    /\ v.pc = "landing"
    /\ To(w, [v EXCEPT !.pc = "home", !.page = IF goal[w] = "none" THEN "chat" ELSE goal[w]])
    /\ goal' = [goal EXCEPT ![w] = "none"]
    /\ UNCHANGED <<journey, crumb, person, identity, jar, open, changes>>

(***************************************************************************)
(* Administrators close the registration and suspend accounts.             *)
(***************************************************************************)
Change ==
  /\ changes < MaxEdits
  /\ changes' = changes + 1
  /\ \/ open' = ~open /\ UNCHANGED person
     \/ /\ \E a \in People : person' = [person EXCEPT ![a].status = "SUSPENDED"]
        /\ UNCHANGED open
  /\ UNCHANGED <<journey, crumb, visit, goal, identity, jar>>

-----------------------------------------------------------------------------
IdentitiesInit ==
  /\ journey = <<>>
  /\ crumb = [b \in Machines |-> [p \in SignInProviders |-> 0]]
  /\ visit = [w \in Windows |-> Rest]
  /\ goal = [w \in Windows |-> "none"]
  /\ person = <<Person(World(StaffMail), Name("admin", "none"), "ADMIN")>>
  /\ identity = {}
  /\ jar = [b \in Machines |-> 0]
  /\ open = TRUE
  /\ changes = 0

IdentitiesNext ==
  \/ \E w \in Windows :
       \/ \E p \in SignInProviders, page \in Places : BeginJourney(w, p, page)
       \/ \E p \in Profiles, x \in Windows : Agree(w, p, x)
       \/ Again(w) \/ Callback(w) \/ Exchange(w) \/ ExchangeFails(w)
       \/ Find(w) \/ ChooseNames(w) \/ CreateAccount(w) \/ SignIn(w) \/ Land(w)
  \/ \E b \in Machines, p \in SignInProviders : Forget(b, p)
  \/ Change

IdentitiesSpec == IdentitiesInit /\ [][IdentitiesNext]_identities

(***************************************************************************)
(* Whoever signs in for the first time, at the same time, with whatever    *)
(* e-mail and name: each identity has one account, and each account of a   *)
(* customer one identity, with an address and a name that no one else has. *)
(***************************************************************************)
AccountsApart ==
  /\ \A a \in People : person[a].role = "USER" =>
       Cardinality({i \in identity : i.user = a}) = 1
  /\ \A i, j \in identity :
       i.provider = j.provider /\ i.subject = j.subject => i = j
  /\ \A a, b \in People : a # b =>
       person[a].email # person[b].email /\ person[a].username # person[b].username

(***************************************************************************)
(* A window that signs in does so as the one who agreed to the journey it  *)
(* came back from, and only if its browser had begun that journey; the one *)
(* that had begun it finds the page where it did.                          *)
(***************************************************************************)
ArrivesAs(w) ==
  LET v == visit[w]  j == journey[v.state] IN
    /\ MachineOf[j.at] = Of(w)
    /\ \E i \in identity : /\ i.provider = j.who.provider /\ i.subject = j.who.subject
                           /\ i.user = v.account
    /\ v.page # "none" /\ j.at = w => v.page = j.from

SignsInAsAgreed ==
  \A w \in Windows : visit[w].pc = "landing" \/ visit[w].page # "none" => ArrivesAs(w)

\* What a sign-in by an identity promises.
OwnAccount == AccountsApart /\ SignsInAsAgreed

=============================================================================
