------------------------------ MODULE Reinvest ------------------------------
(***************************************************************************)
(* What the engine reinvests for one bot: every hour the compound          *)
(* rebalance (checkCompoundRebalance, decideCompound) adds a share of the  *)
(* grid profit to the investment and books it as a cash movement.  Beside  *)
(* it the monitor rewrites the profit of the same row (updatePnL), the     *)
(* owner changes the settings or compounds by hand through the old         *)
(* dashboard, a close stops the bot, and the process may die between the   *)
(* two writes.                                                             *)
(*                                                                         *)
(* Money is counted in units of which the instances keep every share       *)
(* whole.  The interval since last_compound_at is a lock.                  *)
(***************************************************************************)
EXTENDS Naturals, Integers

CONSTANTS
  Start,        \* investment_usdt at creation
  Threshold,    \* compound_threshold_usdt
  Pcts,         \* the compound_pct values the owner sets
  Parcel,       \* grid profit of one step
  MaxEarned,    \* bound on the grid profit
  MaxManual,    \* bound on compounds by hand
  MaxCrashes    \* bound on the deaths of the process

ASSUME ReinvestAssumption ==
  /\ Start \in Nat
  /\ Threshold \in Nat \ {0}
  /\ Pcts \subseteq 0..100
  /\ Parcel \in Nat /\ MaxEarned \in Nat
  /\ MaxManual \in Nat /\ MaxCrashes \in Nat

VARIABLES
  bot,       \* the columns of the bot's row these jobs use, see BotRow
  ledger,    \* bot_cash_movements of type 'compound', summed
  earned,    \* the grid profit the fills have really made
  compound,  \* checkCompoundRebalance
  byHand,    \* POST /api/bots/:id/compound/execute
  handUses,  \* compounds by hand so far
  downs,   \* deaths of the process so far
  lost,      \* ghost: what crashes have kept from the ledger
  handed     \* ghost: a compound by hand wrote the investment, or was written over

reinvestVars == <<bot, ledger, earned, compound, byHand, handUses, downs, lost, handed>>

\* compounded: the interval since last_compound_at lasts.
BotRow == [running : BOOLEAN, pct : Nat, invest : Int, reinvested : Int,
           profit : Int, compounded : BOOLEAN]

ReinvestTypeOK ==
  /\ bot \in BotRow
  /\ ledger \in Int
  /\ earned \in 0..MaxEarned
  /\ compound \in [pc : {"idle", "decide", "brake", "write", "book"},
                   pct : Nat, invest : Int, reinvested : Int, profit : Int, amount : Int]
  /\ byHand \in [pc : {"idle", "balance"}, pct : Nat, invest : Int, profit : Int]
  /\ handUses \in 0..MaxManual
  /\ downs \in 0..MaxCrashes
  /\ lost \in Int /\ handed \in BOOLEAN

\* A job at rest keeps nothing; a job at work keeps the columns it has read.
NoCompound == [pc |-> "idle", pct |-> 0, invest |-> 0, reinvested |-> 0,
               profit |-> 0, amount |-> 0]
NoHand == [pc |-> "idle", pct |-> 0, invest |-> 0, profit |-> 0]

ReinvestInit ==
  /\ bot \in [running : {TRUE}, pct : Pcts, invest : {Start},
              reinvested : {0}, profit : {0}, compounded : {FALSE}]
  /\ ledger = 0 /\ earned = 0
  /\ compound = NoCompound /\ byHand = NoHand
  /\ handUses = 0 /\ downs = 0
  /\ lost = 0 /\ handed = FALSE

\* compoundAmount: the share of what is available.
Share(available, pct) == (available * pct) \div 100

\* Written to the row and not booked yet.
InFlight == IF compound.pc = "book" THEN compound.amount ELSE 0

(***************************************************************************)
(* The compound rebalance.                                                 *)
(***************************************************************************)
\* getAllBots; a bot that is not running, has no percentage or has compounded
\* within its interval is skipped, whatever the rest of the row says.
CompoundReads ==
  /\ compound.pc = "idle"
  /\ bot.running /\ bot.pct > 0 /\ ~bot.compounded
  /\ compound' = [pc |-> "decide", pct |-> bot.pct, invest |-> bot.invest,
                  reinvested |-> bot.reinvested, profit |-> bot.profit, amount |-> 0]
  /\ UNCHANGED <<bot, ledger, earned, byHand, handUses, downs, lost, handed>>

\* decideCompound on the row as it was and the ledger as it is.
Available == compound.profit - ledger

CompoundDecides ==
  /\ compound.pc = "decide"
  /\ compound' = IF Available >= Threshold
                   THEN [compound EXCEPT !.pc = "brake",
                                         !.amount = Share(Available, compound.pct)]
                   ELSE NoCompound
  /\ UNCHANGED <<bot, ledger, earned, byHand, handUses, downs, lost, handed>>

\* The margin brake: no headroom, or an unreadable balance, skips the bot.
CompoundBrakes ==
  /\ compound.pc = "brake"
  /\ compound' \in {NoCompound, [compound EXCEPT !.pc = "write"]}
  /\ UNCHANGED <<bot, ledger, earned, byHand, handUses, downs, lost, handed>>

\* Mutant: total_reinvested is set to the amount, not increased by it.
CompoundWritesLast ==
  /\ compound.pc = "write"
  /\ bot' = [bot EXCEPT !.invest = compound.invest + compound.amount,
                        !.reinvested = compound.amount,
                        !.compounded = TRUE]
  /\ compound' = [compound EXCEPT !.pc = "book"]
  /\ UNCHANGED <<ledger, earned, byHand, handUses, downs, lost, handed>>

\* The investment and total_reinvested are set to the row as read and the amount.
CompoundWrites ==
  /\ compound.pc = "write"
  /\ bot' = [bot EXCEPT !.invest = compound.invest + compound.amount,
                        !.reinvested = compound.reinvested + compound.amount,
                        !.compounded = TRUE]
  /\ compound' = [compound EXCEPT !.pc = "book"]
  /\ UNCHANGED <<ledger, earned, byHand, handUses, downs, lost, handed>>

\* recordCashMovement.
CompoundBooks ==
  /\ compound.pc = "book"
  /\ ledger' = ledger + compound.amount
  /\ compound' = NoCompound
  /\ UNCHANGED <<bot, earned, byHand, handUses, downs, lost, handed>>

(***************************************************************************)
(* What runs beside it.                                                    *)
(***************************************************************************)
\* The fills of the grid make profit.
Earns ==
  /\ bot.running
  /\ earned + Parcel <= MaxEarned
  /\ earned' = earned + Parcel
  /\ UNCHANGED <<bot, ledger, compound, byHand, handUses, downs, lost, handed>>

\* updatePnL sums the profit and writes it to the row.
Updates ==
  /\ bot.running
  /\ bot' = [bot EXCEPT !.profit = earned]
  /\ UNCHANGED <<ledger, earned, compound, byHand, handUses, downs, lost, handed>>

\* PATCH /bots/:id/compound.
SetsPct(p) ==
  /\ p # bot.pct
  /\ bot' = [bot EXCEPT !.pct = p]
  /\ UNCHANGED <<ledger, earned, compound, byHand, handUses, downs, lost, handed>>

\* By hand: reads the row, asks GRVT for the balance and writes; the profit is
\* the balance less the investment, or that of the row when GRVT fails.
HandReads ==
  /\ byHand.pc = "idle"
  /\ handUses < MaxManual
  /\ bot.pct > 0
  /\ byHand' = [pc |-> "balance", pct |-> bot.pct, invest |-> bot.invest,
                profit |-> bot.profit]
  /\ handUses' = handUses + 1
  /\ UNCHANGED <<bot, ledger, earned, compound, downs, lost, handed>>

HandWrites ==
  /\ byHand.pc = "balance"
  /\ byHand' = NoHand
  /\ \E profit \in {Start + earned - byHand.invest, byHand.profit} :
       IF profit < Threshold
         THEN UNCHANGED <<bot, handed>>
         ELSE /\ bot' = [bot EXCEPT
                           !.invest = byHand.invest + Share(profit, byHand.pct),
                           !.compounded = TRUE]
              /\ handed' = TRUE
  /\ UNCHANGED <<ledger, earned, compound, handUses, downs, lost>>

\* compound_interval_hours have passed since last_compound_at.
Unlocks ==
  /\ bot.compounded
  /\ bot' = [bot EXCEPT !.compounded = FALSE]
  /\ UNCHANGED <<ledger, earned, compound, byHand, handUses, downs, lost, handed>>

\* A close stops the bot.
Closes ==
  /\ bot.running
  /\ bot' = [bot EXCEPT !.running = FALSE]
  /\ UNCHANGED <<ledger, earned, compound, byHand, handUses, downs, lost, handed>>

\* The process dies and comes back; what it was about to write is lost.
JobsDie ==
  /\ downs < MaxCrashes
  /\ downs' = downs + 1
  /\ lost' = lost + InFlight
  /\ compound' = NoCompound
  /\ byHand' = NoHand
  /\ UNCHANGED <<bot, ledger, earned, handUses, handed>>

Compounding == CompoundReads \/ CompoundDecides \/ CompoundBrakes
                 \/ CompoundWrites \/ CompoundBooks

ReinvestNext ==
  \/ Compounding
  \/ Earns \/ Updates \/ Unlocks \/ Closes \/ JobsDie
  \/ HandReads \/ HandWrites
  \/ \E p \in Pcts : SetsPct(p)

ReinvestSpec == ReinvestInit /\ [][ReinvestNext]_reinvestVars

-----------------------------------------------------------------------------
\* The compounds written to the row (updateBot) are those the ledger knows
\* (recordCashMovement), the one on its way and those a crash cut in two; and
\* they are all the investment has grown by, until a compound by hand, which
\* books nothing, has its part.
InvestmentIsBooked ==
  /\ bot.reinvested = ledger + lost + InFlight
  /\ ~handed => bot.invest = Start + bot.reinvested

\* decideCompound subtracts what is booked: all compounds on schedule together
\* never book more than the profit that was earned, with settings changed, the
\* profit of the row outdated and crashes between the two writes.
OnlyProfitIsBooked == ledger <= earned
=============================================================================
