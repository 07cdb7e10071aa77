------------------------------ MODULE Leverage ------------------------------
(***************************************************************************)
(* The leverage of one instrument: applyAndVerifyLeverage of a fresh start *)
(* and of a resume, POST /api/bots/:id/leverage of the dashboard, and      *)
(* setLeverage and getAppliedLeverage of the client.  GRVT shows the       *)
(* leverage it applies only while there is a position.                     *)
(***************************************************************************)
EXTENDS Integers

CONSTANTS
  Degrees,      \* leverages: two suffice to disagree
  Boots,        \* starts of the bot: startBot and loadActiveBots
  Setters,      \* leverage requests of the dashboard
  MaxMishaps    \* bound: answers lost, crashes, changes in GRVT's own interface

ASSUME LeverageAssumption == MaxMishaps \in Nat

VARIABLES
  degree,     \* what GRVT applies
  intended,   \* leverage of the row
  retired,    \* GRVT has withdrawn set_initial_leverage: code 2106
  holding,    \* there is a position
  boot,       \* per start: "idle", "reading", "setting", "verifying" or "over"
  resumes,    \* per start: it found orders of its grid, or the process restarted
  wanted,     \* per start: bot.leverage as it read the row
  trading,    \* a start has succeeded since the process began
  setter,     \* per request: "idle", "asked", "confirmed" or "over"
  asked,      \* per request: the leverage
  \* history
  meddled,    \* nothing has confirmed the row's leverage since GRVT may differ
  slips

leverageVars == <<degree, intended, retired, holding, boot, resumes, wanted, trading, setter,
                  asked, meddled, slips>>

LeverageTypeOK ==
  /\ degree \in Degrees /\ intended \in Degrees
  /\ retired \in BOOLEAN /\ holding \in BOOLEAN /\ trading \in BOOLEAN
  /\ boot \in [Boots -> {"idle", "reading", "setting", "verifying", "over"}]
  /\ resumes \in [Boots -> BOOLEAN] /\ wanted \in [Boots -> Degrees]
  /\ setter \in [Setters -> {"idle", "asked", "confirmed", "over"}]
  /\ asked \in [Setters -> Degrees]
  /\ meddled \in BOOLEAN /\ slips \in 0..MaxMishaps

LeverageInit ==
  /\ degree \in Degrees /\ intended \in Degrees
  /\ retired = FALSE /\ holding = FALSE /\ trading = FALSE
  /\ boot = [b \in Boots |-> "idle"] /\ resumes = [b \in Boots |-> FALSE]
  /\ wanted = [b \in Boots |-> intended]
  /\ setter = [s \in Setters |-> "idle"] /\ asked = [s \in Setters |-> intended]
  /\ meddled = (degree # intended) /\ slips = 0

Booting == \E b \in Boots : boot[b] \in {"reading", "setting", "verifying"}
Setting == \E s \in Setters : setter[s] \in {"asked", "confirmed"}

Mishap == slips < MaxMishaps /\ slips' = slips + 1

-----------------------------------------------------------------------------
\* startBot, resumeBotInstance: one start at a time.  A fresh start sets at
\* once, unless there is a position.
BootBegins(b) ==
  /\ boot[b] = "idle" /\ ~Booting /\ ~trading
  /\ \E r \in BOOLEAN :
       /\ resumes' = [resumes EXCEPT ![b] = r]
       /\ boot' = [boot EXCEPT ![b] = IF r THEN "reading" ELSE "setting"]
  /\ wanted' = [wanted EXCEPT ![b] = intended]
  /\ meddled' = ((resumes'[b] /\ meddled) \/ Setting)
  /\ UNCHANGED <<degree, intended, retired, holding, trading, setter, asked, slips>>

\* GRVT and the row agree from here on, unless the row has changed or a request
\* of the dashboard is under way.
Confirms(b) == meddled' = (intended # wanted[b] \/ Setting)

\* The start succeeds: what it has seen agrees with the row it read.
Succeeds(b) == boot' = [boot EXCEPT ![b] = "over"] /\ trading' = TRUE

Throws(b) == boot' = [boot EXCEPT ![b] = "over"] /\ trading' = FALSE

\* Read-back first: nothing to do when GRVT applies what is wanted.  The read
\* may fail, and shows nothing without a position.
ReadsFirst(b) ==
  /\ boot[b] = "reading"
  /\ \/ holding /\ degree = wanted[b] /\ Succeeds(b) /\ Confirms(b)
     \/ boot' = [boot EXCEPT ![b] = "setting"] /\ UNCHANGED <<trading, meddled>>
  /\ UNCHANGED <<degree, intended, retired, holding, resumes, wanted, setter, asked, slips>>

\* set_initial_leverage is refused: a fresh start throws, a resume goes on.
SetRefused(b) ==
  \/ resumes[b] /\ Succeeds(b) /\ meddled' = meddled
  \/ ~resumes[b] /\ Throws(b) /\ meddled' = TRUE

\* GRVT applies the leverage, refuses it, or no longer has the call; an answer
\* that is lost reads as a refusal.
SetByBoot(b) ==
  /\ boot[b] = "setting"
  /\ \/ /\ ~retired /\ degree' = wanted[b]
        /\ boot' = [boot EXCEPT ![b] = "verifying"]
        /\ Confirms(b) /\ UNCHANGED <<trading, slips>>
     \/ ~retired /\ SetRefused(b) /\ UNCHANGED <<degree, slips>>
     \/ ~retired /\ Mishap /\ degree' = wanted[b] /\ SetRefused(b)
     \/ /\ retired /\ boot' = [boot EXCEPT ![b] = "verifying"]
        /\ meddled' = TRUE /\ UNCHANGED <<degree, trading, slips>>
  /\ UNCHANGED <<intended, retired, holding, resumes, wanted, setter, asked>>

\* Read-back: a leverage that shows and differs ends the start.
Verifies(b) ==
  /\ boot[b] = "verifying"
  /\ \/ /\ holding /\ degree # wanted[b] /\ Throws(b) /\ UNCHANGED <<meddled, slips>>
     \/ /\ holding /\ degree = wanted[b] /\ Succeeds(b)
        /\ Confirms(b) /\ slips' = slips
     \/ ~holding /\ Succeeds(b) /\ UNCHANGED <<meddled, slips>>
     \/ Mishap /\ Succeeds(b) /\ meddled' = meddled
  /\ UNCHANGED <<degree, intended, retired, holding, resumes, wanted, setter, asked>>

\* A fill opens a position, or the last one closes it.
Trades ==
  /\ trading /\ holding' = ~holding
  /\ UNCHANGED <<degree, intended, retired, boot, resumes, wanted, trading, setter, asked,
                 meddled, slips>>

\* pauseBot
Halts ==
  /\ trading /\ trading' = FALSE
  /\ UNCHANGED <<degree, intended, retired, holding, boot, resumes, wanted, setter, asked,
                 meddled, slips>>

-----------------------------------------------------------------------------
\* The dashboard asks.
Asks(s, d) ==
  /\ setter[s] = "idle"
  /\ setter' = [setter EXCEPT ![s] = "asked"] /\ asked' = [asked EXCEPT ![s] = d]
  /\ meddled' = (meddled \/ Booting \/ Setting)
  /\ UNCHANGED <<degree, intended, retired, holding, boot, resumes, wanted, trading, slips>>

\* Mutant: every answer but the withdrawal is taken for a confirmation.
AnswersAll(s) ==
  /\ setter[s] = "asked"
  /\ \/ /\ ~retired /\ degree' = asked[s]
        /\ setter' = [setter EXCEPT ![s] = "confirmed"] /\ UNCHANGED <<meddled, slips>>
     \/ /\ setter' = [setter EXCEPT ![s] = "confirmed"] /\ UNCHANGED <<degree, meddled, slips>>
  /\ UNCHANGED <<intended, retired, holding, boot, resumes, wanted, trading, asked>>

\* 200, or 409 and 502 with the row as it was.
Answers(s) ==
  /\ setter[s] = "asked"
  /\ \/ /\ ~retired /\ degree' = asked[s]
        /\ setter' = [setter EXCEPT ![s] = "confirmed"] /\ UNCHANGED <<meddled, slips>>
     \/ /\ setter' = [setter EXCEPT ![s] = "over"] /\ UNCHANGED <<degree, meddled, slips>>
     \/ /\ ~retired /\ Mishap /\ degree' = asked[s] /\ meddled' = TRUE
        /\ setter' = [setter EXCEPT ![s] = "over"]
  /\ UNCHANGED <<intended, retired, holding, boot, resumes, wanted, trading, asked>>

\* updateBot({leverage})
Writes(s) ==
  /\ setter[s] = "confirmed"
  /\ intended' = asked[s]
  /\ setter' = [setter EXCEPT ![s] = "over"]
  /\ UNCHANGED <<degree, retired, holding, boot, resumes, wanted, trading, asked, meddled,
                 slips>>

-----------------------------------------------------------------------------
\* Somebody changes the leverage in GRVT, or GRVT withdraws the call.
ChangedAtGRVT ==
  /\ Mishap
  /\ \/ degree' \in Degrees \ {degree} /\ retired' = retired
     \/ ~retired /\ retired' = TRUE /\ degree' = degree
  /\ meddled' = TRUE
  /\ UNCHANGED <<intended, holding, boot, resumes, wanted, trading, setter, asked>>

\* The process dies: what was under way is lost.
LeverageDies ==
  /\ Mishap
  /\ boot' = [b \in Boots |-> IF boot[b] = "idle" THEN "idle" ELSE "over"]
  /\ trading' = FALSE
  /\ setter' = [s \in Setters |-> IF setter[s] = "idle" THEN "idle" ELSE "over"]
  /\ meddled' = (meddled \/ Setting \/ Booting)
  /\ UNCHANGED <<degree, intended, retired, holding, resumes, wanted, asked>>

LeverageNext ==
  \/ \E b \in Boots : BootBegins(b) \/ ReadsFirst(b) \/ SetByBoot(b) \/ Verifies(b)
  \/ \E s \in Setters : (\E d \in Degrees : Asks(s, d)) \/ Answers(s) \/ Writes(s)
  \/ Trades \/ Halts \/ ChangedAtGRVT \/ LeverageDies

LeverageSpec == LeverageInit /\ [][LeverageNext]_leverageVars

-----------------------------------------------------------------------------
\* A bot trades at the leverage its row says, unless GRVT or an answer that was
\* lost has come between since its last confirmation, or a start and requests of
\* the dashboard overlap (applyAndVerifyLeverage, grid-engine.ts:1199: "FAIL-CLOSED
\* if it can't be confirmed"; server.ts:639).
LeverageAgrees ==
  trading /\ ~meddled /\ ~Setting => degree = intended
=============================================================================
