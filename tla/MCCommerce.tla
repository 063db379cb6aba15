----------------------------- MODULE MCCommerce -----------------------------
(* Customers who sign in and buy, and administrators who edit what is sold. *)
(* Of plans a checkout leaves no trace but that they were bought, and of    *)
(* the way somebody signed in nothing but the account: they are checked one *)
(* at a time.                                                               *)
EXTENDS MCBilling, Administration, Identities

MCMachineOf == [w \in Windows |-> IF w \in Clients THEN "b1" ELSE "b2"]

MCMail(e, primary, verified) == [email |-> e, primary |-> primary, verified |-> verified]

MCSpelling == [e \in {"a", "A", "b", "s"} |-> IF e = "A" THEN "a" ELSE e]

\* The same address, name and subject at two providers; the address of an
\* administrator, for which GitHub does not vouch.
MCProfiles ==
  {[provider |-> "google", subject |-> "1", name |-> "n",
    emails |-> <<MCMail("a", TRUE, TRUE)>>],
   [provider |-> "github", subject |-> "1", name |-> "n",
    emails |-> <<MCMail("b", FALSE, TRUE), MCMail("A", TRUE, TRUE)>>],
   [provider |-> "github", subject |-> "2", name |-> "n",
    emails |-> <<MCMail("s", TRUE, FALSE)>>]}

MCInit == Init /\ AdminInit /\ IdentitiesInit

MCNext ==
  \/ AdminInit /\ IdentitiesInit /\ Next /\ UNCHANGED <<adminVars, identities>>
  \/ Init /\ IdentitiesInit /\ AdminNext /\ UNCHANGED <<vars, identities>>
  \/ Init /\ AdminInit /\ IdentitiesNext /\ UNCHANGED <<vars, adminVars>>

MCSpec == MCInit /\ [][MCNext]_<<vars, adminVars, identities>>
=============================================================================
