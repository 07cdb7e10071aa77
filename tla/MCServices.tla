----------------------------- MODULE MCServices -----------------------------
(***************************************************************************)
(* The services around the engine, the bookkeeping of its money and the    *)
(* planning of its grids, one instance of each.  They share no variable;   *)
(* focus says which of them a behaviour follows, and the others stay as    *)
(* they are.                                                               *)
(***************************************************************************)
EXTENDS Notifier, Credentials, Commands, Cache, Shutdown, Accounts,
        StoreStart, RateBucket, Transport, Dispatcher, Snapshots, SubAccounts,
        Session, Ledger, Reinvest, Funding, Profit, MCGridPlan, Backtest, Advice

VARIABLE focus

MCCandles ==
  {[low |-> a, high |-> b, close |-> 12] : a \in {10, 11, 12}, b \in {12, 14}} \cup
  {[low |-> 9, high |-> 11, close |-> 10], [low |-> 13, high |-> 15, close |-> 14]}
MCFundingPcts == {-1, 0, 1}

\* Too short, flat, a steep rise, a range and a rise that comes back.
MCHistories == {<<100>>, <<100, 101, 100>>, <<100, 110, 120, 130, 140>>,
                <<100, 120, 95, 115, 99>>, <<100, 130, 101, 104, 108>>}
MCSpans == {<<90, 110>>}
MCRecent == <<80, 120>>
MCReturns == {[ret |-> 30, fall |-> 2], [ret |-> -3, fall |-> 6], [ret |-> -22, fall |-> 30]}

Services == {"notifier", "credentials", "slot", "cache", "clock", "accounts", "store",
             "bucket", "transport", "dispatcher", "days", "subs", "session", "ledger",
             "compound", "funding", "profit", "plan", "backtest", "advice"}

servicesVars == <<notifierVars, credVars, slotVars, cacheVars, clockVars, accountVars,
                  storeVars, bucketVars, transportVars, dispatchVars, shotVars, subVars,
                  sessionVars, ledgerVars, reinvestVars, fundingVars, profitVars,
                  planVars, backtestVars, adviceVars, focus>>

\* A database that nobody follows is empty.
EmptyStore == Here = {} /\ \A f \in FillIds : archive[f] = NoFill

\* A service that is not followed starts from one state; the bot of Profit starts
\* with the smaller spacing.
ServicesInit ==
  /\ focus \in Services
  /\ StoreInit /\ (focus # "store" => EmptyStore)
  /\ ReinvestInit /\ (focus # "compound" => bot.pct = 0)
  /\ ProfitInit /\ spacing = 1
  /\ PlanInit /\ (focus # "plan" => /\ form = CHOOSE f \in Forms : TRUE
                                    /\ ranges = <<1, 2, 1>> /\ lastPrice = 99)
  /\ BacktestInit /\ (focus # "backtest" => /\ sim.pos = 0 /\ prevClose = 14
                                            /\ setup.rate = 0 /\ setup.first = 14
                                            /\ setup.dir = "short")
  /\ AdviceInit
  /\ focus # "advice" => request = [history |-> <<100>>, dir |-> "long", range |-> NoSpan]
  /\ NotifierInit /\ CredInit /\ SlotInit /\ CacheInit /\ ClockInit
  /\ AccountsInit /\ BucketInit /\ TransportInit /\ DispatchInit
  /\ ShotInit /\ SubInit /\ SessionInit /\ LedgerInit /\ FundingInit

On(name, Step) == focus = name /\ Step /\ UNCHANGED focus

Still(name, vars) == focus # name => UNCHANGED vars

\* The services that are not followed stay as they are.
ServicesNext ==
  /\ Still("notifier", notifierVars) /\ Still("credentials", credVars)
  /\ Still("slot", slotVars) /\ Still("cache", cacheVars)
  /\ Still("clock", clockVars) /\ Still("accounts", accountVars)
  /\ Still("store", storeVars) /\ Still("bucket", bucketVars)
  /\ Still("transport", transportVars) /\ Still("dispatcher", dispatchVars)
  /\ Still("days", shotVars) /\ Still("subs", subVars)
  /\ Still("session", sessionVars) /\ Still("ledger", ledgerVars)
  /\ Still("compound", reinvestVars) /\ Still("funding", fundingVars)
  /\ Still("profit", profitVars) /\ Still("plan", planVars)
  /\ Still("backtest", backtestVars) /\ Still("advice", adviceVars)
  /\ \/ On("notifier", NotifierNext)
     \/ On("credentials", CredNext)
     \/ On("slot", SlotNext)
     \/ On("cache", CacheNext)
     \/ On("clock", ClockNext)
     \/ On("accounts", AccountsNext)
     \/ On("store", StoreNext)
     \/ On("bucket", BucketNext)
     \/ On("transport", TransportNext)
     \/ On("dispatcher", DispatchNext)
     \/ On("days", ShotNext)
     \/ On("subs", SubNext)
     \/ On("session", SessionNext)
     \/ On("ledger", LedgerNext)
     \/ On("compound", ReinvestNext)
     \/ On("funding", FundingNext)
     \/ On("profit", ProfitNext)
     \/ On("plan", PlanNext)
     \/ On("backtest", BacktestNext)
     \/ On("advice", AdviceNext)

ServicesSpec == ServicesInit /\ [][ServicesNext]_servicesVars

\* The variables of the others have their initial values.
ServicesTypeOK ==
  /\ focus = "notifier" => NotifierTypeOK
  /\ focus = "credentials" => CredTypeOK
  /\ focus = "slot" => SlotTypeOK
  /\ focus = "cache" => CacheTypeOK
  /\ focus = "clock" => ClockTypeOK
  /\ focus = "accounts" => AccountsTypeOK
  /\ focus = "store" => StoreTypeOK
  /\ focus = "bucket" => BucketTypeOK
  /\ focus = "transport" => TransportTypeOK
  /\ focus = "dispatcher" => DispatchTypeOK
  /\ focus = "days" => ShotTypeOK
  /\ focus = "subs" => SubTypeOK
  /\ focus = "session" => SessionTypeOK
  /\ focus = "ledger" => LedgerTypeOK
  /\ focus = "compound" => ReinvestTypeOK
  /\ focus = "funding" => FundingTypeOK
  /\ focus = "profit" => ProfitTypeOK
  /\ focus = "plan" => PlanTypeOK
  /\ focus = "backtest" => BacktestTypeOK
  /\ focus = "advice" => AdviceTypeOK

\* A round trip that the notifier counts as told was told, but for those of an owner
\* without a cursor that a page starts behind; it is told once unless the daemon dies
\* or cannot save.  The dispatcher passes no round trip over after its seed, and its
\* alerts find the owner (notifier/src/index.ts:271-316, ws-dispatcher.ts:106, 413).
NewsIsTold == SavedMeansTold /\ ToldOnce /\ FillsAreSaid /\ AlertsFindOwner

\* What goes to GRVT and what comes from a cache: a request that may have been
\* carried out is not sent again, one fetch serves all that ask at the same time,
\* what is sent at once keeps to the quota of every window, those that slept coming
\* on top, one per caller and tick, and an answer is not older than the cache allows
\* (client.ts:154-177, 227-299, auth.ts:326-380, cache.ts:54-81).
TrafficIsClean == TakenOnce /\ FetchIsShared /\ BurstIsBounded /\ AnswersAreRecent

\* Who is signed in is who has shown it: a link that a reset left behind opens
\* nothing, a tab shows the user of its token, and a token that was refused is
\* forgotten (v2-router.ts:731-755, auth-context.tsx:40-140).
SignInsAreSound == NoOldLink /\ PageIsOwn /\ RefusedIsForgotten

\* What the pages show for money adds up: a day's figure is the difference of its
\* snapshots; each fill counts once, for the bot whose it is; a finished backfill has
\* reached the first fill; a summary has both fills of each of its round trips
\* (v2-router.ts:1690-1776, 1897-1977, grid-engine.ts:2937-3000).
BooksAreTrue ==
  DaysAddUp /\ FillsCountOnce /\ FillsAreOwn /\ BackfillReachesBack /\ SummaryIsWhole

\* The money a bot counts as its own has an entry that says where it came from:
\* compounds by the scheduler are of profit and are booked, but for what a crash
\* lost and for a compound by hand; funding comes from settlements of the position
\* first read; and a round trip that is stored stays as it was while no fill is
\* archived behind a younger one that was paired before and the range stays
\* (grid-engine.ts:2538-2616, 5250-5322, db.ts:1429-1478).
MoneyIsBooked ==
  InvestmentIsBooked /\ OnlyProfitIsBooked /\ NoFundingInvented /\ NoPairIsRevised

\* A grid that is made is the grid that was asked for: its levels span the range,
\* its active levels are next to each other where no two share a price, its quantity
\* is worth an order but for a rounding, is what the preview showed where neither was
\* raised and apart from it only by the prices the two are raised at where one was,
\* and a derived spacing pays its fees; a grid that is recommended stood its past, the best first, and can be made;
\* and a simulation books each charge once (grid-engine.ts:944-1040, 2083-2268,
\* atr.ts:46-159, advisor.ts, backtester.ts).
PlanIsSound ==
  /\ focus = "plan" =>
       LevelsAreSound /\ WindowIsWhole /\ QtyIsSound /\ DerivedClearsFees /\ AverageIsBetween
  /\ focus = "advice" => GreenIsEarned /\ BestIsFirst /\ CandidatesAreSound
  /\ BooksBalance

=============================================================================
