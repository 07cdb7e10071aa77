------------------------------ MODULE Accounts ------------------------------
(***************************************************************************)
(* Accounts: sign-up with its record of the accepted terms, login, and the *)
(* reset of a password by a link sent by mail (/auth/forgot-password,      *)
(* /auth/reset-password).  Every handler goes through several statements,  *)
(* and handlers overlap; the process may die between two statements.       *)
(***************************************************************************)
EXTENDS Integers, FiniteSets

CONSTANTS
  SignUps,       \* requests to sign up, all with the same address
  Forgets,       \* requests for a link
  Resets,        \* requests that use a link
  MaxLinks,      \* bound on the links issued
  MaxAccountFaults \* bound on crashes

ASSUME AccountsAssumption == MaxLinks \in Nat /\ MaxAccountFaults \in Nat

VARIABLES
  user,     \* users: the row of the address, and its terms_acceptances
  signups,  \* per request /auth/signup
  forgets,  \* per request /auth/forgot-password: before or after the UPDATE
  links,    \* password_reset_tokens: per id "none", "open", "used" or "expired"
  resets,   \* per request /auth/reset-password
  crashes,
  resetAt   \* ghost: the links issued before the last reset that ended

accountVars == <<user, signups, forgets, links, resets, crashes, resetAt>>

Links == 1..MaxLinks
Open == {k \in Links : links[k] = "open"}
NoReset == [at |-> "idle", link |-> 0]

AccountsTypeOK ==
  /\ user \in [row : BOOLEAN, terms : BOOLEAN, known : BOOLEAN]
  /\ signups \in [SignUps -> {"idle", "free", "row", "done", "refused"}]
  /\ forgets \in [Forgets -> {"idle", "found", "cleared"}]
  /\ links \in [Links -> {"none", "open", "used", "expired"}]
  /\ resets \in [Resets -> [at : {"idle", "valid", "written", "marked"}, link : 0..MaxLinks]]
  /\ crashes \in 0..MaxAccountFaults
  /\ resetAt \in 0..MaxLinks

AccountsInit ==
  /\ user = [row |-> FALSE, terms |-> FALSE, known |-> FALSE]
  /\ signups = [r \in SignUps |-> "idle"]
  /\ forgets = [f \in Forgets |-> "idle"]
  /\ links = [k \in Links |-> "none"]
  /\ resets = [r \in Resets |-> NoReset]
  /\ crashes = 0 /\ resetAt = 0

-----------------------------------------------------------------------------
(* POST /auth/signup, /auth/login *)

SignUpLooks(r) ==
  /\ signups[r] = "idle"
  /\ signups' = [signups EXCEPT ![r] = IF user.row THEN "refused" ELSE "free"]
  /\ UNCHANGED <<user, forgets, links, resets, crashes, resetAt>>

\* createUser, after the hash; the address is unique.
SignUpCreates(r) ==
  /\ signups[r] = "free"
  /\ signups' = [signups EXCEPT ![r] = IF user.row THEN "refused" ELSE "row"]
  /\ user' = [user EXCEPT !.row = TRUE]
  /\ UNCHANGED <<forgets, links, resets, crashes, resetAt>>

\* insertTermsAcceptance, and the answer with a token.
SignUpAccepts(r) ==
  /\ signups[r] = "row"
  /\ signups' = [signups EXCEPT ![r] = "done"]
  /\ user' = [user EXCEPT !.terms = TRUE, !.known = TRUE]
  /\ UNCHANGED <<forgets, links, resets, crashes, resetAt>>

\* /auth/login asks for the row and the password only.
LogsIn ==
  /\ user.row
  /\ user' = [user EXCEPT !.known = TRUE]
  /\ UNCHANGED <<signups, forgets, links, resets, crashes, resetAt>>

-----------------------------------------------------------------------------
(* POST /auth/forgot-password *)

ForgotFinds(f) ==
  /\ forgets[f] = "idle" /\ user.row
  /\ forgets' = [forgets EXCEPT ![f] = "found"]
  /\ UNCHANGED <<user, signups, links, resets, crashes, resetAt>>

UseAll == [k \in Links |-> IF links[k] = "open" THEN "used" ELSE links[k]]

\* invalidateOpenPasswordResetTokensForUser.
ForgotClears(f) ==
  /\ forgets[f] = "found"
  /\ forgets' = [forgets EXCEPT ![f] = "cleared"]
  /\ links' = UseAll
  /\ UNCHANGED <<user, signups, resets, crashes, resetAt>>

\* insertPasswordResetToken, and the mail.
ForgotIssues(f) ==
  /\ forgets[f] = "cleared"
  /\ forgets' = [forgets EXCEPT ![f] = "idle"]
  /\ \E k \in Links :
       /\ links[k] = "none" /\ \A j \in Links : j < k => links[j] # "none"
       /\ links' = [links EXCEPT ![k] = "open"]
  /\ UNCHANGED <<user, signups, resets, crashes, resetAt>>

\* An hour later.
LinkExpires(k) ==
  /\ links[k] = "open"
  /\ links' = [links EXCEPT ![k] = "expired"]
  /\ UNCHANGED <<user, signups, forgets, resets, crashes, resetAt>>

-----------------------------------------------------------------------------
(* POST /auth/reset-password *)

\* findValidPasswordResetToken.
ResetFinds(r, k) ==
  /\ resets[r].at = "idle" /\ links[k] = "open"
  /\ resets' = [resets EXCEPT ![r] = [at |-> "valid", link |-> k]]
  /\ UNCHANGED <<user, signups, forgets, links, crashes, resetAt>>

\* updateUserPassword.
ResetWrites(r) ==
  /\ resets[r].at = "valid"
  /\ resets' = [resets EXCEPT ![r].at = "written"]
  /\ UNCHANGED <<user, signups, forgets, links, crashes, resetAt>>

\* markPasswordResetTokenUsed.
ResetMarks(r) ==
  /\ resets[r].at = "written"
  /\ resets' = [resets EXCEPT ![r].at = "marked"]
  /\ links' = [links EXCEPT ![resets[r].link] = "used"]
  /\ UNCHANGED <<user, signups, forgets, crashes, resetAt>>

\* The links issued so far.
Issued == Cardinality({k \in Links : links[k] # "none"})

\* Mutant: only the link that was used is spent.
ResetClearsOne(r) ==
  /\ resets[r].at = "marked"
  /\ resets' = [resets EXCEPT ![r] = NoReset]
  /\ resetAt' = Issued
  /\ UNCHANGED <<user, signups, forgets, links, crashes>>

\* invalidateOpenPasswordResetTokensForUser, and the answer.
ResetClears(r) ==
  /\ resets[r].at = "marked"
  /\ resets' = [resets EXCEPT ![r] = NoReset]
  /\ links' = UseAll
  /\ resetAt' = Issued
  /\ UNCHANGED <<user, signups, forgets, crashes>>

\* The process dies: every handler ends where it is.
ServerDies ==
  /\ crashes < MaxAccountFaults /\ crashes' = crashes + 1
  /\ signups' = [r \in SignUps |-> IF signups[r] \in {"free", "row"} THEN "refused" ELSE signups[r]]
  /\ forgets' = [f \in Forgets |-> "idle"]
  /\ resets' = [r \in Resets |-> NoReset]
  /\ UNCHANGED <<user, links, resetAt>>

AccountsNext ==
  \/ \E r \in SignUps : SignUpLooks(r) \/ SignUpCreates(r) \/ SignUpAccepts(r)
  \/ LogsIn
  \/ \E f \in Forgets : ForgotFinds(f) \/ ForgotClears(f) \/ ForgotIssues(f)
  \/ \E k \in Links : LinkExpires(k) \/ \E r \in Resets : ResetFinds(r, k)
  \/ \E r \in Resets : ResetWrites(r) \/ ResetMarks(r) \/ ResetClears(r)
  \/ ServerDies

AccountsSpec == AccountsInit /\ [][AccountsNext]_accountVars

-----------------------------------------------------------------------------
\* A link issued before a reset was answered opens nothing any more, though
\* requests that overlap leave several links open ("so a stolen-but-not-yet-used
\* link is invalidated").
NoOldLink == \A k \in Open : k > resetAt
=============================================================================
