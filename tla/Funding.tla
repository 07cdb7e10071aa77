------------------------------ MODULE Funding -------------------------------
(***************************************************************************)
(* Net funding of one bot.  GRVT reports one signed total per position,    *)
(* which starts again when a position was closed and is opened anew.       *)
(* pollFundingHistory and backfillFundingHistory read it, one after the    *)
(* other, and upsertFundingSnapshot keeps one row with a baseline, the     *)
(* latest total and what earlier positions have carried over; the net of   *)
(* the bot (getNetFundingForBot) is derived from that row.                 *)
(***************************************************************************)
EXTENDS Integers

CONSTANTS
  MaxTotal,     \* bound on the size of GRVT's total
  MaxPayments,  \* bound on the funding payments
  MaxEpochs     \* bound on the positions opened anew

ASSUME FundingAssumption ==
  MaxTotal \in Nat /\ MaxPayments \in Nat /\ MaxEpochs \in Nat

VARIABLES
  total,     \* cumulative_realized_funding_payment of the position
  position,  \* there is a position
  snapshot,  \* the funding_snapshots row, NoSnapshot before the first
  reading,   \* a total on its way to the row, NoReading when none is
  payments,  \* payments so far
  epochs,    \* positions opened anew so far
  received,  \* ghost: funding received since the first reading
  first      \* ghost: the total as first read

fundingVars == <<total, position, snapshot, reading, payments, epochs, received, first>>

Totals == -MaxTotal..MaxTotal
NoSnapshot == [kind |-> "none", baseline |-> 0, latest |-> 0, carried |-> 0]
NoReading == [kind |-> "none", total |-> 0]

FundingTypeOK ==
  /\ total \in Totals
  /\ position \in BOOLEAN
  /\ snapshot \in [kind : {"none", "row"}, baseline : Totals, latest : Totals,
                   carried : Int]
  /\ reading \in [kind : {"none", "read"}, total : Totals]
  /\ payments \in 0..MaxPayments
  /\ epochs \in 0..MaxEpochs
  /\ received \in Nat
  /\ first \in Totals

FundingInit ==
  /\ total = 0 /\ position = TRUE
  /\ snapshot = NoSnapshot /\ reading = NoReading
  /\ payments = 0 /\ epochs = 0 /\ received = 0 /\ first = 0

\* GRVT settles funding: n > 0 is received, n < 0 is paid.
SettlesFunding(n) ==
  /\ position
  /\ payments < MaxPayments
  /\ total + n \in Totals
  /\ payments' = payments + 1
  /\ total' = total + n
  /\ received' = IF n > 0 /\ (snapshot # NoSnapshot \/ reading # NoReading)
                   THEN received + n ELSE received
  /\ UNCHANGED <<position, snapshot, reading, epochs, first>>

\* The position is closed for good; opened anew, its total starts again.
ClosesPosition ==
  /\ position
  /\ position' = FALSE
  /\ UNCHANGED <<total, snapshot, reading, payments, epochs, received, first>>

Reopens ==
  /\ ~position
  /\ epochs < MaxEpochs
  /\ epochs' = epochs + 1
  /\ position' = TRUE
  /\ total' = 0
  /\ UNCHANGED <<snapshot, reading, payments, received, first>>

\* getFundingHistory: the account summary lists the positions there are.
ReadsTotal ==
  /\ reading = NoReading
  /\ position
  /\ reading' = [kind |-> "read", total |-> total]
  /\ first' = IF snapshot = NoSnapshot THEN total ELSE first
  /\ UNCHANGED <<total, position, snapshot, payments, epochs, received>>

\* upsertFundingSnapshot: a total below the baseline is taken for a new position.
Upserted(row, t) ==
  IF row = NoSnapshot
    THEN [kind |-> "row", baseline |-> t, latest |-> t, carried |-> 0]
  ELSE IF t < row.baseline
    THEN [row EXCEPT !.carried = row.carried + (row.latest - row.baseline),
                     !.baseline = t, !.latest = t]
  ELSE [row EXCEPT !.latest = t]

Upserts ==
  /\ reading # NoReading
  /\ snapshot' = Upserted(snapshot, reading.total)
  /\ reading' = NoReading
  /\ UNCHANGED <<total, position, payments, epochs, received, first>>

\* The process dies with a reading in hand.
LosesReading ==
  /\ reading # NoReading
  /\ reading' = NoReading
  /\ received' = IF snapshot = NoSnapshot THEN 0 ELSE received
  /\ UNCHANGED <<total, position, snapshot, payments, epochs, first>>

FundingNext ==
  \/ \E n \in {-1, 1} : SettlesFunding(n)
  \/ ClosesPosition \/ Reopens
  \/ ReadsTotal \/ Upserts \/ LosesReading

FundingSpec == FundingInit /\ [][FundingNext]_fundingVars

\* getNetFundingForBot.
Net == snapshot.carried + (snapshot.latest - snapshot.baseline)

-----------------------------------------------------------------------------
\* While the position is the one first read, the net never shows more than was
\* received since, with readings lost and payments missed between readings.
NoFundingInvented == epochs = 0 => Net <= received

\* Funding paid counts against the bot as funding received counts for it: while
\* the position is the one first read, the net is the latest total less the
\* first (getNetFundingForBot: "CON SIGNO (negativo = pagado neto ...)").
PaidFundingCounts ==
  epochs = 0 /\ snapshot # NoSnapshot => Net = snapshot.latest - first
=============================================================================
