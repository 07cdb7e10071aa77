---------------------------- MODULE FundingGuard ----------------------------
(***************************************************************************)
(* The funding safeguard of a bot (assertFundingHeadroom): it sees the     *)
(* rate and the next funding time of the ticker when a tick gets that far, *)
(* learns the interval from two funding times, and pauses after several    *)
(* charges in a row at a hostile annual rate.  Rates and lengths are small *)
(* numbers; the annual rate is rate * Longest / length.                    *)
(***************************************************************************)
EXTENDS Integers

CONSTANTS
  Rates,       \* funding rates of one interval; what is above 0 a LONG bot pays
  Lengths,     \* lengths of an interval
  Plausible,    \* FUNDING_INTERVAL_MIN_MS .. FUNDING_INTERVAL_MAX_MS
  PauseRate, AlertRate, \* FUNDING_PAUSE_APR_PCT, FUNDING_ALERT_APR_PCT
  PauseAfter,  \* FUNDING_PAUSE_INTERVALS
  MaxCharges   \* bound: charges that happen

ASSUME FundingGuardAssumption ==
  /\ Rates \subseteq Int /\ Lengths \subseteq Nat \ {0}
  /\ Lengths \subseteq Plausible
  /\ \E n \in Lengths : \A k \in Lengths : k <= n
  /\ AlertRate \in Nat \ {0} /\ PauseRate \in Nat /\ PauseRate >= AlertRate
  /\ PauseAfter \in Nat \ {0} /\ MaxCharges \in Nat

Longest == CHOOSE n \in Lengths : \A k \in Lengths : k <= n

Yearly(r, n) == (r * Longest) \div n

VARIABLES
  rate,      \* funding_rate as predicted for the open interval
  nextAt,    \* next_funding_time
  length,    \* of the open interval
  inside,    \* the bot has a position
  prevNext, prevRate, \* fundingPrevNextTime (0: null), fundingPrevRate
  learnt,    \* fundingIntervalMs, 0 when it has none
  streak,    \* fundingHostileIntervals
  alerted,   \* fundingAlertedForNextTime
  braked,    \* SAFEGUARD:pause
  \* history
  charged,   \* charges in a row that were hostile at PauseRate
  blurred,   \* something changed that no tick has seen
  alerts,    \* alerts for the open interval
  charges

guardVars == <<rate, nextAt, length, inside, prevNext, prevRate, learnt, streak, alerted,
               braked, charged, blurred, alerts, charges>>

GuardTypeOK ==
  /\ rate \in Rates /\ prevRate \in Rates
  /\ length \in Lengths /\ learnt \in 0..(Longest * MaxCharges)
  /\ nextAt \in Nat /\ prevNext \in 0..nextAt /\ alerted \in 0..nextAt
  /\ inside \in BOOLEAN /\ braked \in BOOLEAN /\ blurred \in BOOLEAN
  /\ streak \in 0..PauseAfter /\ charged \in 0..MaxCharges /\ alerts \in Nat

GuardInit ==
  /\ rate \in Rates /\ length \in Lengths /\ nextAt = length
  /\ inside = TRUE
  /\ prevNext = 0 /\ prevRate = rate /\ learnt = 0 /\ streak = 0 /\ alerted = 0
  /\ braked = FALSE
  /\ charged = 0 /\ blurred = FALSE /\ alerts = 0 /\ charges = 0

-----------------------------------------------------------------------------
\* The predicted rate drifts until it is charged.
Drifts ==
  /\ ~braked /\ rate' \in Rates \ {rate}
  /\ UNCHANGED <<nextAt, length, inside, prevNext, prevRate, learnt, streak, alerted, braked,
                 charged, blurred, alerts, charges>>

\* What a tick that looks now would have seen before the charge.
Unseen == prevNext # nextAt \/ prevRate # rate

\* The interval ends: its rate is charged, the next one may have another length.
Charges ==
  /\ ~braked /\ charges < MaxCharges /\ charges' = charges + 1
  /\ length' \in Lengths /\ rate' \in Rates
  /\ nextAt' = nextAt + length'
  /\ charged' = IF prevNext = 0 THEN 0
                ELSE IF inside /\ rate > 0 /\ Yearly(rate, length) >= PauseRate
                THEN charged + 1
                ELSE IF inside /\ rate > 0 /\ Yearly(rate, length) >= AlertRate
                THEN charged ELSE 0
  /\ blurred' = (blurred \/ (prevNext # 0 /\ (Unseen \/ length' # length)))
  /\ alerts' = 0
  /\ UNCHANGED <<inside, prevNext, prevRate, learnt, streak, alerted, braked>>

\* The position closes or opens again.
Flips ==
  /\ ~braked /\ inside' = ~inside
  /\ charged' = 0
  /\ blurred' = (blurred \/ (~inside /\ streak # 0) \/ prevNext \notin {0, nextAt})
  /\ UNCHANGED <<rate, nextAt, length, prevNext, prevRate, learnt, streak, alerted, braked,
                 alerts, charges>>

\* The count after a charge of rate r over n: it rises, holds between the two
\* bands, and starts anew below them.
Counts(r, n, k) ==
  IF inside /\ r > 0 /\ Yearly(r, n) >= PauseRate THEN k + 1
  ELSE IF ~inside \/ r <= 0 \/ Yearly(r, n) < AlertRate THEN 0 ELSE k

\* The first tick that looks: there is nothing to compare with.
LooksFirst ==
  /\ ~braked /\ prevNext = 0
  /\ prevNext' = nextAt /\ prevRate' = rate
  /\ UNCHANGED <<rate, nextAt, length, inside, learnt, streak, alerted, braked, charged,
                 blurred, alerts, charges>>

\* One alert per interval, for the rate as predicted now.
Alerts(n) ==
  IF inside /\ rate > 0 /\ n # 0 /\ alerted # nextAt /\ Yearly(rate, n) >= AlertRate
  THEN alerted' = nextAt /\ alerts' = alerts + 1
  ELSE UNCHANGED <<alerted, alerts>>

Kept == IF inside THEN streak ELSE 0

\* A tick in the same interval keeps the rate.
LooksOn ==
  /\ ~braked /\ prevNext = nextAt
  /\ prevRate' = rate /\ streak' = Kept
  /\ Alerts(learnt)
  /\ UNCHANGED <<rate, nextAt, length, inside, prevNext, learnt, braked, charged, blurred,
                 charges>>

\* The distance of the two funding times is the interval, unless it is longer or
\* shorter than an interval may be: then the one it has stays.
Learns == IF nextAt - prevNext \in Plausible THEN nextAt - prevNext ELSE learnt

\* The first tick after a charge: the rate seen last is taken for the one that
\* was charged, over the interval it has; without an interval it counts nothing.
LooksAfterCharge ==
  /\ ~braked /\ prevNext # 0 /\ nextAt > prevNext
  /\ learnt' = Learns
  /\ LET k == IF Learns = 0 THEN Kept ELSE Counts(prevRate, Learns, Kept)
     IN /\ streak' = k
        /\ braked' = (k >= PauseAfter)
        /\ IF k >= PauseAfter THEN UNCHANGED <<alerted, alerts>> ELSE Alerts(learnt')
  /\ prevNext' = nextAt /\ prevRate' = rate
  /\ UNCHANGED <<rate, nextAt, length, inside, charged, blurred, charges>>

GuardNext ==
  \/ Drifts \/ Charges \/ Flips
  \/ LooksFirst \/ LooksOn \/ LooksAfterCharge

GuardSpec == GuardInit /\ [][GuardNext]_guardVars

-----------------------------------------------------------------------------
\* What the safeguard has counted is what was charged, once a tick has looked
\* since the last charge: unless a change of the rate, of the interval's length or
\* a whole interval went by unseen.  It alerts once per interval
\* (assertFundingHeadroom, grid-engine.ts:4243: "consecutive intervals").
FundingIsCounted ==
  /\ ~blurred /\ prevNext = nextAt /\ inside => streak = charged
  /\ alerts <= 1
=============================================================================
