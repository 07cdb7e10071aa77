------------------------------- MODULE Brakes -------------------------------
(***************************************************************************)
(* The brakes an order passes that opens exposure (assertMaxNotional,      *)
(* getCachedBalance, assertMarginHeadroom in placeGridOrder and            *)
(* executeInitialPurchase), for a LONG bot in an account it shares with    *)
(* others.  The margin of one level is 1; used is the margin the account's *)
(* positions take.  gridLevels is what the instance loaded when it         *)
(* started: no fill and no order ever changes it.                          *)
(***************************************************************************)
EXTENDS Integers, FiniteSets

CONSTANTS
  Rungs,        \* levels 1..Rungs, the lowest first
  Equities,     \* total_equity the account may have
  Capital,      \* the notional cap, in levels
  CacheLife,    \* checks after which the balance is read anew
  MaxSwings,    \* bound: moves of the market across a level
  MaxBrakeFaults \* bound: failed reads, changes by other bots

ASSUME BrakesAssumption ==
  /\ Rungs \in Nat \ {0} /\ Equities \subseteq Nat /\ Capital \in Nat
  /\ CacheLife \in Nat \ {0} /\ MaxSwings \in Nat /\ MaxBrakeFaults \in Nat

Rung == 1..Rungs

NoBalance == [equity |-> 0, others |-> 0, stake |-> 0]

VARIABLES
  equity, others, \* the account: total_equity, margin of the other bots
  market,     \* how many levels lie below the price
  stake,      \* the bot's position on the exchange
  resting,    \* live orders: per level "buy", "sell" or "none"
  rowPosition, \* position_size of the row, as of the last updatePnL
  counted,    \* levels gridLevels has as buys that are not filled
  balance,    \* cachedBalance, or NoBalance
  checks,     \* marginCheckCounter, modulo CacheLife
  sending,    \* the level being placed, 0 or none: 0 is the initial purchase
  at,         \* "buying", "placing", the side that is sent, "idle" or "braked"
  \* history
  passed,     \* the balance of the last check that let an order pass
  unseen,     \* buys filled since that balance, but those counted at the check
  blind,      \* an order has passed without a balance
  swings, brakeFaults

accountVars == <<equity, others, market, stake, resting>>
brakeVars == <<equity, others, market, stake, resting, rowPosition, counted, balance,
               checks, sending, at, passed, unseen, blind, swings, brakeFaults>>

BrakesTypeOK ==
  /\ equity \in Equities /\ others \in 0..MaxBrakeFaults
  /\ market \in 0..Rungs
  /\ stake \in 0..(Rungs + MaxSwings) /\ rowPosition \in 0..(Rungs + MaxSwings)
  /\ resting \in [Rung -> {"buy", "sell", "none"}]
  /\ counted \subseteq Rung
  /\ checks \in 0..(CacheLife - 1)
  /\ sending \in 0..Rungs
  /\ at \in {"buying", "placing", "buy", "sell", "idle", "braked"}
  /\ unseen \in Nat /\ blind \in BOOLEAN

\* MARGIN_HEADROOM_CAP
Cap(e) == (e * 4) \div 5

Buys == {l \in Rung : resting[l] = "buy"}

\* Margin the bot has committed: what it holds and what may still fill.
Committed == stake + Cardinality(Buys)

Side(l) == IF l <= market THEN "buy" ELSE "sell"

BrakesInit ==
  /\ equity \in Equities /\ others = 0
  /\ market \in 1..(Rungs - 1)
  /\ stake = 0 /\ rowPosition = 0
  /\ resting = [l \in Rung |-> "none"]
  /\ counted = 1..market
  /\ balance = NoBalance /\ checks = 0
  /\ sending = 0 /\ at = "buying"
  /\ passed = NoBalance /\ unseen = 0 /\ blind = FALSE
  /\ swings = 0 /\ brakeFaults = 0

-----------------------------------------------------------------------------
\* assertMaxNotional: the position of the row and this order; resting buys
\* do not count.
NotionalOK(size) == rowPosition + size <= Capital

\* The margin used, the unfilled buys of gridLevels unless it is the initial
\* purchase, and this order.
Projected(b, size, resty) ==
  b.stake + b.others + (IF resty THEN Cardinality(counted) ELSE 0) + size

\* The initial purchase is of the inventory behind the sells.
Size == IF at = "buying" THEN Rungs - market ELSE 1

Brake == at' = "braked" /\ UNCHANGED <<balance, checks, passed, unseen, blind>>

\* The check passes on the balance b, or the brake ends the tick or the start:
\* MARGIN:pause.
Judges(b) ==
  IF b.equity > 0 /\ Projected(b, Size, at # "buying") > Cap(b.equity)
  THEN at' = "braked" /\ UNCHANGED <<passed, unseen, blind>>
  ELSE /\ at' = IF at = "buying" THEN "buying" ELSE "buy"
       /\ passed' = b
       /\ unseen' = IF stake > b.stake THEN stake - b.stake ELSE 0
       /\ blind' = (blind \/ b.equity = 0)

Now == [equity |-> equity, others |-> others, stake |-> stake]

\* getCachedBalance: the cache serves until its time is over, or for the
\* CacheLife-th check.
Reads ==
  LET n == (checks + 1) % CacheLife
  IN /\ checks' = n
     /\ \/ /\ n # 0 /\ balance # NoBalance
           /\ balance' = balance
           /\ Judges(balance) /\ UNCHANGED brakeFaults
        \/ balance' = Now /\ Judges(Now) /\ UNCHANGED brakeFaults
        \/ \* getBalance throws: the order is not held back
           /\ brakeFaults < MaxBrakeFaults /\ brakeFaults' = brakeFaults + 1
           /\ n = 0 \/ balance = NoBalance
           /\ at' = IF at = "buying" THEN "buying" ELSE "buy"
           /\ blind' = TRUE
           /\ UNCHANGED <<balance, passed, unseen>>

\* executeInitialPurchase
Purchase ==
  /\ at = "buying" /\ stake = 0
  /\ IF NotionalOK(Size)
     THEN Reads
     ELSE Brake /\ UNCHANGED brakeFaults
  /\ stake' = IF at' = "buying" THEN Rungs - market ELSE stake
  /\ UNCHANGED <<equity, others, market, resting, rowPosition, counted, sending, swings>>

\* The purchase is booked and the levels are placed: placeInitialOrders.
Bought ==
  /\ at = "buying" /\ stake > 0
  /\ at' = "idle" /\ rowPosition' = stake
  /\ UNCHANGED <<accountVars, counted, balance, checks, sending, passed, unseen, blind,
                 swings, brakeFaults>>

\* The bootstrap or a tick places a level that has no order; a sell closes and
\* passes.
Wants(l) ==
  /\ at = "idle" /\ resting[l] = "none"
  /\ sending' = IF Side(l) = "buy" /\ ~NotionalOK(1) THEN 0 ELSE l
  /\ at' = IF Side(l) = "sell" THEN "sell"
           ELSE IF NotionalOK(1) THEN "placing" ELSE "braked"
  /\ UNCHANGED <<accountVars, rowPosition, counted, balance, checks, passed, unseen, blind,
                 swings, brakeFaults>>

Checks ==
  /\ at = "placing"
  /\ Reads
  /\ UNCHANGED <<accountVars, rowPosition, counted, sending, swings>>

\* createOrder, post-only: placed, or refused.  GRVT refuses what the account
\* cannot bear, and that is a brake too; after 7201 and other errors the loops
\* go on.
Creates(side) ==
  /\ at = side /\ sending' = 0
  /\ LET bearable == side = "sell" \/ Committed + others + 1 <= equity
     IN \/ ~bearable /\ at' = "braked" /\ resting' = resting
        \/ /\ bearable /\ Side(sending) = side
           /\ at' = "idle" /\ resting' = [resting EXCEPT ![sending] = side]
        \/ at' = "idle" /\ resting' = resting
  /\ UNCHANGED <<equity, others, market, stake, rowPosition, counted, balance, checks,
                 passed, unseen, blind, swings, brakeFaults>>

\* updatePnL at the end of a tick.
Books ==
  /\ at = "idle" /\ rowPosition # stake
  /\ rowPosition' = stake
  /\ UNCHANGED <<accountVars, counted, balance, checks, sending, at, passed, unseen, blind,
                 swings, brakeFaults>>

\* The market crosses a level and takes the order there.
Falls ==
  /\ at \notin {"buying", "braked"} /\ swings < MaxSwings /\ market > 0
  /\ swings' = swings + 1 /\ market' = market - 1
  /\ stake' = IF resting[market] = "buy" THEN stake + 1 ELSE stake
  /\ unseen' = IF resting[market] = "buy" /\ market \notin counted THEN unseen + 1 ELSE unseen
  /\ resting' = [resting EXCEPT ![market] = "none"]
  /\ UNCHANGED <<equity, others, rowPosition, counted, balance, checks, sending, at, passed,
                 blind, brakeFaults>>

Rises ==
  /\ at \notin {"buying", "braked"} /\ swings < MaxSwings /\ market < Rungs
  /\ swings' = swings + 1 /\ market' = market + 1
  /\ stake' = IF resting[market + 1] = "sell" /\ stake > 0
                 THEN stake - 1 ELSE stake
  /\ resting' = [resting EXCEPT ![market + 1] = "none"]
  /\ UNCHANGED <<equity, others, rowPosition, counted, balance, checks, sending, at, passed,
                 unseen, blind, brakeFaults>>

\* Another bot of the account takes margin, or the equity changes.
Disturbs ==
  /\ at # "braked" /\ brakeFaults < MaxBrakeFaults /\ brakeFaults' = brakeFaults + 1
  /\ \/ others' = others + 1 /\ equity' = equity
     \/ equity' \in Equities \ {equity} /\ others' = others
  /\ UNCHANGED <<market, stake, resting, rowPosition, counted, balance, checks, sending,
                 at, passed, unseen, blind, swings>>

BrakesNext ==
  \/ Purchase \/ Bought \/ Checks \/ Books
  \/ \E l \in Rung : Wants(l)
  \/ \E s \in {"buy", "sell"} : Creates(s)
  \/ Falls \/ Rises \/ Disturbs

BrakesSpec == BrakesInit /\ [][BrakesNext]_brakeVars

-----------------------------------------------------------------------------
\* The margin a bot commits keeps to the headroom of the account as the last
\* check read it, but for buys on levels that gridLevels does not count as buys,
\* and for fills that neither the balance nor gridLevels showed (assertMarginHeadroom,
\* grid-engine.ts:3385-3470: the brake counts from memory that fills never
\* update).
HeadroomKept ==
  ~blind /\ passed # NoBalance =>
    Committed + passed.others <=
      Cap(passed.equity) + Cardinality(Buys \ counted) + unseen
=============================================================================
