------------------------ MODULE GridMonitor_proofs ------------------------
(***************************************************************************)
(* Proofs about GridMonitor, for any number of levels, bounds and faults:  *)
(* types, that the monitor places again only levels without an order, and  *)
(* that no tick brings a level to a third order while nothing goes wrong.  *)
(***************************************************************************)
EXTENDS GridMonitor, TLAPS, SequenceTheorems, WellFoundedInduction

Tickers == [below : 0..N, low : BOOLEAN]

Jobs == [kind : {"none", "level", "counter", "backfill", "pending"},
         lvl : 0..N, side : Sides, from : 0..N]

ExchangeTypes ==
  /\ price \in 0..N
  /\ book \in [Levels -> Nat]
  /\ fills \in Seq(Fills) /\ Len(fills) <= MaxFills
  /\ old \in 0..Len(fills)
  /\ moves \in 0..MaxMoves

EngineTypes ==
  /\ row \in [Levels -> Rows]
  /\ archive \in 0..Len(fills)
  /\ keys \subseteq Keys
  /\ recent \subseteq Levels
  /\ success \in 0..Len(fills) \cup {NoSuccess}
  /\ stale \in BOOLEAN

ViewTypes ==
  /\ resuming \in BOOLEAN
  /\ snap \in [Levels -> Nat]
  /\ snapAt \in 0..N
  /\ ticker \in Tickers
  /\ mem \in [Levels -> Rows]
  /\ match \in [Levels -> Keys \cup {NoKey}]
  /\ queue \in Seq(Fills)

WorkTypes ==
  /\ pc \in Labels
  /\ todo \subseteq Nat \ {0}
  /\ job \in Jobs
  /\ faults \in 0..MaxFaults

\* What the code works through in each phase, and that only a call of
\* placeGridOrder has an order to place.
Phases ==
  /\ pc \in {"fills", "level", "cancel", "pending"} => todo \subseteq Levels
  /\ pc \in {"survey", "backfill"} => todo \subseteq 1..Len(fills)
  /\ pc = "placing" =>
       /\ job.kind # "none" /\ job.lvl \in Levels
       /\ job.kind \in {"level", "pending"} => todo \subseteq Levels
       /\ job.kind = "backfill" => todo \subseteq 1..Len(fills)

TypeInv == ExchangeTypes /\ EngineTypes /\ ViewTypes /\ WorkTypes /\ Phases

LEMMA TypeInvIsTypeOK == TypeInv => TypeOK
  BY DEF TypeInv, ExchangeTypes, EngineTypes, ViewTypes, WorkTypes, TypeOK, Jobs,
         Tickers

----------------------------------------------------------------------------
(* Least and greatest members.                                             *)

LEMMA LeastMember ==
  ASSUME NEW T, T \subseteq Nat, T # {}
  PROVE  \E x \in T : \A y \in T : x <= y
<1>1. PICK x \in T : \A y \in T : <<y, x>> \notin OpToRel(<, Nat)
  BY NatLessThanWellFounded, WFMin
<1>2. \A y \in T : x <= y
  <2> SUFFICES ASSUME NEW y \in T, y < x PROVE FALSE
    OBVIOUS
  <2>1. <<y, x>> \in OpToRel(<, Nat)
    BY DEF OpToRel
  <2> QED BY <1>1, <2>1
<1> QED BY <1>2

LEMMA MinIn ==
  ASSUME NEW T, T \subseteq Nat, T # {}
  PROVE  Min(T) \in T
  BY LeastMember DEF Min

LEMMA MaxIn ==
  ASSUME NEW n \in Nat, NEW T, T \subseteq 0..n, T # {}
  PROVE  Max(T) \in T
<1> DEFINE D == {d \in 0..n : n - d \in T}
<1>1. D \subseteq Nat /\ D # {}
  <2>1. PICK x \in T : TRUE
    OBVIOUS
  <2>2. n - x \in 0..n /\ n - (n - x) = x
    BY <2>1
  <2>3. n - x \in D
    BY <2>1, <2>2
  <2>4. D \subseteq Nat
    OBVIOUS
  <2>5. D # {}
    <3> HIDE DEF D
    <3> QED BY <2>3
  <2> QED BY <2>4, <2>5
<1>2. PICK d \in D : \A e \in D : d <= e
  BY <1>1, LeastMember
<1>3. ASSUME NEW y \in T PROVE n - d >= y
  <2>1. y \in 0..n /\ n - y \in 0..n /\ n - (n - y) = y
    BY <1>3
  <2>2. n - y \in D
    BY <1>3, <2>1
  <2>3. d \in 0..n /\ d <= n - y
    BY <1>2, <2>2
  <2> QED BY <2>1, <2>3
<1>4. n - d \in T
  BY <1>2
<1> QED BY <1>3, <1>4 DEF Max

LEMMA RankTyped ==
  ASSUME NEW l \in Levels, NEW t \in Tickers
  PROVE  Rank(l, t) \in Nat
  BY GridAssumption DEF Rank, Levels, Tickers

\* The nearest level is one of those it is looked for in.
LEMMA NearestIn ==
  ASSUME NEW S \in SUBSET Levels, S # {}, NEW t \in Tickers
  PROVE  Nearest(S, t) \in S
<1> DEFINE D == {Rank(l, t) : l \in S}
<1>1. PICK d \in D : \A e \in D : d <= e
  <2>1. D \subseteq Nat /\ D # {}
    BY RankTyped
  <2> QED BY <2>1, LeastMember
<1>2. PICK l \in S : d = Rank(l, t)
  OBVIOUS
<1>3. \A k \in S : Rank(l, t) <= Rank(k, t)
  BY <1>1, <1>2
<1> QED BY <1>3 DEF Nearest

LEMMA SideAtTyped == \A l, p : SideAt(l, p) \in Sides
  BY DEF SideAt, Sides

----------------------------------------------------------------------------
(* Type correctness.                                                       *)

LEMMA RowsTyped ==
  /\ NoRows \in [Levels -> Rows]
  /\ NoMatch \in [Levels -> Keys \cup {NoKey}]
  /\ NoOrders \in [Levels -> Nat]
  /\ NoTicker \in Tickers
  /\ NoJob \in Jobs
  BY GridAssumption
  DEF NoRows, Rows, Sides, NoMatch, NoOrders, NoTicker, Tickers, NoJob, Jobs

LEMMA ResetTypes ==
  ASSUME Reset
  PROVE  ViewTypes' /\ todo' = {} /\ job' \in Jobs
<1>1. /\ snap' \in [Levels -> Nat]
      /\ ticker' \in Tickers
      /\ mem' \in [Levels -> Rows]
      /\ match' \in [Levels -> Keys \cup {NoKey}]
      /\ job' \in Jobs
  BY RowsTyped DEF Reset
<1>2. resuming' \in BOOLEAN /\ queue' = <<>> /\ todo' = {}
  BY DEF Reset
<1>3. snapAt' \in 0..N
  BY GridAssumption DEF Reset
<1>4. queue' \in Seq(Fills)
  BY <1>2
<1> QED BY <1>1, <1>2, <1>3, <1>4 DEF ViewTypes

LEMMA OccursTyped ==
  ASSUME faults \in 0..MaxFaults, NEW f, Occurs(f)
  PROVE  faults' \in 0..MaxFaults
  BY GridAssumption DEF Occurs

LEMMA ExchangeUnchanged ==
  ASSUME ExchangeTypes, UNCHANGED market
  PROVE  ExchangeTypes'
  BY DEF ExchangeTypes, market

LEMMA EngineUnchanged ==
  ASSUME EngineTypes, UNCHANGED <<database, memory, fills>>
  PROVE  EngineTypes'
  BY DEF EngineTypes, database, memory

LEMMA TypeInit == Init => TypeInv
<1> SUFFICES ASSUME Init PROVE TypeInv
  OBVIOUS
<1>1. ExchangeTypes
  BY GridAssumption DEF Init, ExchangeTypes
<1>2. EngineTypes
  <2>1. row \in [Levels -> Rows]
    BY SideAtTyped DEF Init, Rows
  <2>2. archive = 0 /\ Len(fills) = 0
    BY DEF Init
  <2>3. keys = {} /\ recent = {} /\ success = NoSuccess /\ stale \in BOOLEAN
    BY DEF Init
  <2>4. archive \in 0..Len(fills)
    BY <2>2
  <2> QED BY <2>1, <2>3, <2>4 DEF EngineTypes
<1>3. ViewTypes
  <2>1. /\ snap \in [Levels -> Nat]
        /\ ticker \in Tickers
        /\ mem \in [Levels -> Rows]
        /\ match \in [Levels -> Keys \cup {NoKey}]
    BY RowsTyped DEF Init
  <2>2. resuming \in BOOLEAN /\ queue = <<>> /\ snapAt = 0
    BY DEF Init
  <2>3. snapAt \in 0..N /\ queue \in Seq(Fills)
    BY <2>2, GridAssumption
  <2> QED BY <2>1, <2>2, <2>3 DEF ViewTypes
<1>4. WorkTypes
  BY RowsTyped, GridAssumption DEF Init, WorkTypes, Labels
<1>5. Phases
  BY DEF Init, Phases
<1> QED BY <1>1, <1>2, <1>3, <1>4, <1>5 DEF TypeInv

LEMMA CrossTypes ==
  ASSUME TypeInv, NEW l \in Levels, NEW p \in 0..N, Cross(l, p)
  PROVE  TypeInv'
<1> DEFINE new == [i \in 1..book[l] |-> [lvl |-> l, side |-> SideAt(l, price)]]
<1>1. new \in Seq(Fills) /\ Len(new) = book[l]
  <2>1. book[l] \in Nat
    BY DEF TypeInv, ExchangeTypes
  <2>2. [lvl |-> l, side |-> SideAt(l, price)] \in Fills
    BY SideAtTyped DEF Fills
  <2> QED BY <2>1, <2>2
<1>2. fills' \in Seq(Fills) /\ Len(fills') = Len(fills) + book[l]
  <2>1. fills' = fills \o new
    BY DEF Cross
  <2> QED BY <1>1, <2>1, ConcatProperties DEF TypeInv, ExchangeTypes
<1>3. Len(fills) \in Nat /\ book[l] \in Nat
  BY DEF TypeInv, ExchangeTypes
<1>4. ExchangeTypes'
  BY <1>2, <1>3, GridAssumption DEF TypeInv, ExchangeTypes, Cross
<1>5. EngineTypes'
  BY <1>2, <1>3 DEF TypeInv, EngineTypes, Cross, database, memory
<1>6. ViewTypes' /\ WorkTypes'
  BY DEF TypeInv, ViewTypes, WorkTypes, Cross, locals
<1>7. Phases'
  BY <1>2, <1>3 DEF TypeInv, Phases, Cross, locals
<1> QED BY <1>4, <1>5, <1>6, <1>7 DEF TypeInv

LEMMA MoveTypes ==
  ASSUME TypeInv, MoveUp \/ MoveDown
  PROVE  TypeInv'
<1>1. CASE MoveUp
  <2>1. price + 1 \in Levels /\ price + 1 \in 0..N
    BY <1>1, GridAssumption DEF MoveUp, TypeInv, ExchangeTypes, Levels
  <2> QED BY <1>1, <2>1, CrossTypes DEF MoveUp
<1>2. CASE MoveDown
  <2>1. price \in Levels /\ price - 1 \in 0..N
    BY <1>2, GridAssumption DEF MoveDown, TypeInv, ExchangeTypes, Levels
  <2> QED BY <1>2, <2>1, CrossTypes DEF MoveDown
<1> QED BY <1>1, <1>2

LEMMA AgeTypes ==
  ASSUME TypeInv, Age
  PROVE  TypeInv'
<1>1. Len(fills) \in Nat
  BY DEF TypeInv, ExchangeTypes
<1>2. ExchangeTypes'
  BY <1>1 DEF TypeInv, ExchangeTypes, Age
<1>3. EngineTypes'
  BY DEF TypeInv, EngineTypes, Age, database
<1>4. ViewTypes' /\ WorkTypes' /\ Phases'
  BY DEF TypeInv, ViewTypes, WorkTypes, Phases, Age, locals
<1> QED BY <1>2, <1>3, <1>4 DEF TypeInv

LEMMA RecentExpiresTypes ==
  ASSUME TypeInv, RecentExpires
  PROVE  TypeInv'
<1>1. ExchangeTypes' /\ UNCHANGED fills
  BY ExchangeUnchanged DEF TypeInv, RecentExpires, market
<1>2. EngineTypes'
  BY <1>1 DEF TypeInv, EngineTypes, RecentExpires, database
<1>3. ViewTypes' /\ WorkTypes' /\ Phases'
  BY <1>1 DEF TypeInv, ViewTypes, WorkTypes, Phases, RecentExpires, locals
<1> QED BY <1>1, <1>2, <1>3 DEF TypeInv

LEMMA PollTypes ==
  ASSUME TypeInv, Poll
  PROVE  TypeInv'
<1>1. ExchangeTypes' /\ UNCHANGED fills
  BY ExchangeUnchanged DEF TypeInv, Poll, market
<1>2. EngineTypes'
  BY <1>1 DEF TypeInv, EngineTypes, ExchangeTypes, Poll, memory
<1>3. ViewTypes' /\ WorkTypes' /\ Phases'
  BY <1>1 DEF TypeInv, ViewTypes, WorkTypes, Phases, Poll, locals
<1> QED BY <1>1, <1>2, <1>3 DEF TypeInv

LEMMA TickFailsTypes ==
  ASSUME TypeInv, TickFails
  PROVE  TypeInv'
<1>1. ExchangeTypes' /\ UNCHANGED fills
  BY ExchangeUnchanged DEF TypeInv, TickFails, market
<1>2. EngineTypes'
  BY <1>1, EngineUnchanged DEF TypeInv, TickFails
<1>3. ViewTypes' /\ todo' = {} /\ job' \in Jobs
  BY ResetTypes DEF TickFails
<1>4. faults' \in 0..MaxFaults
  BY OccursTyped DEF TypeInv, WorkTypes, TickFails
<1>5. WorkTypes' /\ Phases'
  BY <1>3, <1>4 DEF WorkTypes, Phases, TickFails, Labels
<1> QED BY <1>1, <1>2, <1>3, <1>5 DEF TypeInv

\* What open_orders shows is a number of orders at each level.
LEMMA ObservedTypes ==
  ASSUME TypeInv, NEW orders, Observed(orders)
  PROVE  orders \in [Levels -> Nat] /\ faults' \in 0..MaxFaults
<1>1. PICK hidden \in SUBSET {l \in recent : book[l] > 0} :
        /\ orders = [l \in Levels |-> IF l \in hidden THEN book[l] - 1 ELSE book[l]]
        /\ IF hidden = {} THEN UNCHANGED faults ELSE Occurs("lag")
  BY DEF Observed
<1>2. orders \in [Levels -> Nat]
  BY <1>1 DEF TypeInv, ExchangeTypes
<1>3. faults' \in 0..MaxFaults
  BY <1>1, OccursTyped DEF TypeInv, WorkTypes
<1> QED BY <1>2, <1>3

LEMMA TickOrdersTypes ==
  ASSUME TypeInv, TickOrders
  PROVE  TypeInv'
<1>1. CASE TickFails
  BY <1>1, TickFailsTypes
<1>2. CASE ~TickFails
  <2>1. /\ Observed(snap')
        /\ snapAt' = price
        /\ pc' = "cover"
        /\ UNCHANGED <<market, database, memory, resuming, ticker, mem, match, todo,
                       queue, job>>
    BY <1>2 DEF TickOrders
  <2>2. ExchangeTypes' /\ UNCHANGED fills
    BY <2>1, ExchangeUnchanged DEF TypeInv, market
  <2>3. EngineTypes'
    BY <2>1, <2>2, EngineUnchanged DEF TypeInv
  <2>4. ViewTypes'
    BY <2>1, ObservedTypes DEF TypeInv, ViewTypes, ExchangeTypes
  <2>5. WorkTypes' /\ Phases'
    BY <2>1, ObservedTypes DEF TypeInv, WorkTypes, Phases, Labels
  <2> QED BY <2>2, <2>3, <2>4, <2>5 DEF TypeInv
<1> QED BY <1>1, <1>2

LEMMA TickCoverTypes ==
  ASSUME TypeInv, TickCover
  PROVE  TypeInv'
<1>1. CASE TickFails
  BY <1>1, TickFailsTypes
<1>2. CASE ~TickFails
  <2>1. PICK low \in BOOLEAN :
          LET t == [below |-> price, low |-> low]
              covered == {l \in Levels : snap[l] > 0}
              uncovered == Levels \ covered
              gap == Nearest(uncovered, t)
              isGap(l) == uncovered # {} /\ l = gap
              look == Cardinality(uncovered) > 1 /\ Total(snap) < MaxOpen
          IN /\ ticker' = t
             /\ mem' = row
             /\ row' = [l \in Levels |->
                          IF l \in covered
                          THEN [row[l] EXCEPT !.side = SideAt(l, snapAt),
                                              !.filled = FALSE, !.id = TRUE]
                          ELSE IF isGap(l)
                          THEN [row[l] EXCEPT !.filled = TRUE, !.id = FALSE]
                          ELSE row[l]]
             /\ todo' = IF look THEN uncovered \ {gap} ELSE {}
             /\ pc' = IF look THEN "fills" ELSE "level"
             /\ snapAt' = 0
             /\ UNCHANGED <<market, archive, memory, resuming, snap, match, queue,
                            job, faults>>
    BY <1>2 DEF TickCover
  <2>2. ExchangeTypes' /\ UNCHANGED fills
    BY <2>1, ExchangeUnchanged DEF TypeInv, market
  <2>3. row' \in [Levels -> Rows]
    BY <2>1, SideAtTyped DEF TypeInv, EngineTypes, Rows
  <2>4. EngineTypes'
    BY <2>1, <2>2, <2>3 DEF TypeInv, EngineTypes, memory
  <2>5. ViewTypes'
    <3>1. ticker' \in Tickers
      BY <2>1 DEF TypeInv, ExchangeTypes, Tickers
    <3>2. snapAt' = 0
      BY <2>1
    <3>3. snapAt' \in 0..N
      BY <3>2, GridAssumption
    <3> QED BY <2>1, <3>1, <3>3 DEF TypeInv, EngineTypes, ViewTypes
  <2>6. todo' \subseteq Levels /\ pc' \in {"fills", "level"}
    BY <2>1
  <2>7. UNCHANGED <<job, faults>>
    BY <2>1
  <2>8. WorkTypes' /\ Phases'
    BY <2>6, <2>7 DEF TypeInv, WorkTypes, Phases, Labels, Levels
  <2> QED BY <2>2, <2>4, <2>5, <2>8 DEF TypeInv
<1> QED BY <1>1, <1>2

LEMMA TickFillsTypes ==
  ASSUME TypeInv, TickFills
  PROVE  TypeInv'
<1>1. CASE TickFails
  BY <1>1, TickFailsTypes
<1>2. CASE ~TickFails
  <2>1. /\ match' = [l \in Levels |->
                        LET seen == {k \in old + 1..Len(fills) : fills[k].lvl = l}
                        IN IF seen = {} THEN NoKey ELSE <<"fill_id", Max(seen)>>]
        /\ pc = "fills"
        /\ pc' = "level"
        /\ UNCHANGED <<market, database, memory, resuming, snap, snapAt, ticker,
                       mem, todo, queue, job, faults>>
    BY <1>2 DEF TickFills
  <2>2. ExchangeTypes' /\ UNCHANGED fills
    BY <2>1, ExchangeUnchanged DEF TypeInv, market
  <2>3. EngineTypes'
    BY <2>1, <2>2, EngineUnchanged DEF TypeInv
  <2>4. match' \in [Levels -> Keys \cup {NoKey}]
    <3> SUFFICES ASSUME NEW l \in Levels PROVE match'[l] \in Keys \cup {NoKey}
      BY <2>1
    <3> DEFINE seen == {k \in old + 1..Len(fills) : fills[k].lvl = l}
    <3>1. CASE seen = {}
      BY <2>1, <3>1
    <3>2. CASE seen # {}
      <4>1. Len(fills) \in Nat /\ old \in Nat /\ Len(fills) <= MaxFills
        BY DEF TypeInv, ExchangeTypes
      <4>2. seen \subseteq 0..Len(fills)
        BY <4>1
      <4>3. Max(seen) \in seen
        BY <3>2, <4>1, <4>2, MaxIn
      <4>4. Max(seen) \in 1..MaxFills
        BY <4>1, <4>3, GridAssumption
      <4>5. match'[l] = <<"fill_id", Max(seen)>>
        BY <2>1, <3>2
      <4> QED BY <4>4, <4>5 DEF Keys
    <3> QED BY <3>1, <3>2
  <2>5. ViewTypes'
    BY <2>1, <2>4 DEF TypeInv, ViewTypes
  <2>6. WorkTypes' /\ Phases'
    BY <2>1 DEF TypeInv, WorkTypes, Phases, Labels
  <2> QED BY <2>2, <2>3, <2>5, <2>6 DEF TypeInv
<1> QED BY <1>1, <1>2

LEMMA TickLevelTypes ==
  ASSUME TypeInv, TickLevel
  PROVE  TypeInv'
<1> DEFINE l == Nearest(todo, ticker)
<1> DEFINE side == SideAt(l, ticker.below)
<1>1. pc = "level" /\ todo # {} /\ todo \subseteq Levels
  BY DEF TickLevel, TypeInv, Phases
<1>2. l \in Levels /\ l \in todo
  BY <1>1, NearestIn DEF TypeInv, ViewTypes
<1>3. side \in Sides
  BY SideAtTyped
<1>4. /\ todo' = todo \ {l}
      /\ UNCHANGED <<market, archive, success, stale, resuming, snap, snapAt,
                     ticker, mem, match, faults>>
  BY DEF TickLevel
<1>5. ExchangeTypes' /\ UNCHANGED fills
  BY <1>4, ExchangeUnchanged DEF TypeInv, market
<1> HIDE DEF l, side
<1>6. \/ /\ match[l] # NoKey
         /\ keys' = keys \cup {match[l]}
         /\ queue' = IF match[l] \in keys THEN queue
                     ELSE Append(queue, [lvl |-> l, side |-> mem[l].side])
         /\ UNCHANGED <<row, recent, pc, job>>
      \/ UNCHANGED <<row, keys, recent, queue, pc, job>>
      \/ /\ row' = [row EXCEPT ![l].side = side, ![l].filled = FALSE, ![l].id = FALSE]
         /\ Submit([kind |-> "level", lvl |-> l, side |-> side, from |-> 0])
         /\ UNCHANGED <<keys, queue>>
  BY DEF TickLevel, l, side
<1>7. CASE /\ match[l] # NoKey
           /\ keys' = keys \cup {match[l]}
           /\ queue' = IF match[l] \in keys THEN queue
                       ELSE Append(queue, [lvl |-> l, side |-> mem[l].side])
           /\ UNCHANGED <<row, recent, pc, job>>
  <2>1. match[l] \in Keys
    BY <1>2, <1>7 DEF TypeInv, ViewTypes
  <2>2. EngineTypes'
    BY <1>4, <1>5, <1>7, <2>1 DEF TypeInv, EngineTypes
  <2>3. [lvl |-> l, side |-> mem[l].side] \in Fills
    BY <1>2 DEF TypeInv, ViewTypes, Rows, Fills
  <2>4. queue' \in Seq(Fills)
    BY <1>7, <2>3 DEF TypeInv, ViewTypes
  <2>5. ViewTypes'
    BY <1>4, <2>4 DEF TypeInv, ViewTypes
  <2>6. WorkTypes' /\ Phases'
    BY <1>1, <1>4, <1>7 DEF TypeInv, WorkTypes, Phases
  <2> QED BY <1>5, <2>2, <2>5, <2>6 DEF TypeInv
<1>8. CASE UNCHANGED <<row, keys, recent, queue, pc, job>>
  <2>1. EngineTypes' /\ ViewTypes'
    BY <1>4, <1>5, <1>8 DEF TypeInv, EngineTypes, ViewTypes
  <2>2. WorkTypes' /\ Phases'
    BY <1>1, <1>4, <1>8 DEF TypeInv, WorkTypes, Phases
  <2> QED BY <1>5, <2>1, <2>2 DEF TypeInv
<1>9. CASE /\ row' = [row EXCEPT ![l].side = side, ![l].filled = FALSE, ![l].id = FALSE]
           /\ Submit([kind |-> "level", lvl |-> l, side |-> side, from |-> 0])
           /\ UNCHANGED <<keys, queue>>
  <2>1. row' \in [Levels -> Rows]
    BY <1>3, <1>9 DEF TypeInv, EngineTypes, Rows
  <2>2. recent' \subseteq Levels
    BY <1>2, <1>9 DEF TypeInv, EngineTypes, Submit
  <2>3. EngineTypes' /\ ViewTypes'
    BY <1>4, <1>5, <1>9, <2>1, <2>2 DEF TypeInv, EngineTypes, ViewTypes
  <2>4. [kind |-> "level", lvl |-> l, side |-> side, from |-> 0] \in Jobs
    BY <1>2, <1>3, GridAssumption DEF Jobs, Levels
  <2>5. WorkTypes' /\ Phases'
    BY <1>1, <1>2, <1>4, <1>9, <2>4 DEF TypeInv, WorkTypes, Phases, Submit, Labels
  <2> QED BY <1>5, <2>3, <2>5 DEF TypeInv
<1> QED BY <1>6, <1>7, <1>8, <1>9

LEMMA PlaceTypes ==
  ASSUME TypeInv, Place
  PROVE  TypeInv'
<1>1. /\ pc = "placing" /\ job \in Jobs /\ job.kind # "none" /\ job.lvl \in Levels
      /\ UNCHANGED <<price, fills, old, moves, archive, memory, resuming, snap,
                     snapAt, ticker, mem, match, queue>>
  BY DEF Place, TypeInv, WorkTypes, Phases
<1>2. PICK outcome \in {"normal", "thrown", "full"}, marked \in BOOLEAN :
        Ended(outcome, marked)
  BY DEF Place
<1>3. book' \in [Levels -> Nat]
  <2>1. UNCHANGED book \/ PlaceOne
    BY DEF Place
  <2> QED BY <2>1 DEF PlaceOne, TypeInv, ExchangeTypes
<1>4. ExchangeTypes'
  BY <1>1, <1>3 DEF TypeInv, ExchangeTypes
<1>5. row' \in [Levels -> Rows]
  <2> DEFINE r == [row EXCEPT ![job.lvl].pend = @ \/ marked]
  <2>1. r \in [Levels -> Rows]
    BY <1>1, <1>2 DEF TypeInv, EngineTypes, Rows
  <2>2. row' = Written(r, outcome)
    BY <1>2 DEF Ended
  <2> HIDE DEF r
  <2>3. Written(r, outcome) \in [Levels -> Rows]
    <3>1. \/ Written(r, outcome) =
               [r EXCEPT ![job.from].filled = TRUE,
                         ![job.lvl].side = job.side, ![job.lvl].filled = FALSE]
          \/ Written(r, outcome) = [r EXCEPT ![job.lvl].pend = TRUE]
          \/ Written(r, outcome) = [r EXCEPT ![job.lvl].pend = FALSE]
          \/ Written(r, outcome) = r
      BY DEF Written
    <3>2. job.side \in Sides
      BY <1>1 DEF Jobs
    <3> DEFINE u == [r EXCEPT ![job.from].filled = TRUE]
    <3> DEFINE v == [u EXCEPT ![job.lvl].side = job.side]
    <3>3. u \in [Levels -> Rows]
      BY <2>1 DEF Rows
    <3> HIDE DEF u
    <3>4. v \in [Levels -> Rows]
      BY <3>2, <3>3 DEF Rows
    <3> HIDE DEF v
    <3>5. [v EXCEPT ![job.lvl].filled = FALSE] \in [Levels -> Rows]
      BY <3>4 DEF Rows
    <3>6. /\ [r EXCEPT ![job.lvl].pend = TRUE] \in [Levels -> Rows]
          /\ [r EXCEPT ![job.lvl].pend = FALSE] \in [Levels -> Rows]
      BY <2>1 DEF Rows
    <3> QED BY <2>1, <3>1, <3>5, <3>6 DEF u, v
  <2> QED BY <2>2, <2>3
<1>6. EngineTypes'
  BY <1>1, <1>5 DEF TypeInv, EngineTypes, memory
<1>7. ViewTypes'
  BY <1>1 DEF TypeInv, ViewTypes
<1>8. faults' \in 0..MaxFaults
  BY OccursTyped DEF Place, TypeInv, WorkTypes
<1>9. /\ pc' \in Labels
      /\ todo' = IF job.kind = "pending" /\ outcome = "full" THEN {} ELSE todo
      /\ job' = NoJob
      /\ pc' = "level" => job.kind = "level"
      /\ pc' = "pending" => job.kind = "pending"
      /\ pc' = "backfill" => job.kind = "backfill"
      /\ pc' \in {"level", "handle", "backfill", "pending"}
  BY <1>1, <1>2 DEF Ended, CallerOf, Labels, Jobs
<1>10. WorkTypes' /\ Phases'
  BY <1>1, <1>8, <1>9, RowsTyped DEF TypeInv, WorkTypes, Phases
<1> QED BY <1>4, <1>6, <1>7, <1>10 DEF TypeInv

\* handleLevelFill writes rows, places or returns to its caller.
LEMMA AnswerTypes ==
  ASSUME TypeInv, NEW f \in Fills, NEW kind \in {"counter", "backfill"}, NEW rows,
         Answer(f, kind, rows)
  PROVE  /\ row' \in [Levels -> Rows]
         /\ recent' \subseteq Levels
         /\ \/ pc' = CallerOf(kind) /\ UNCHANGED job
            \/ pc' = "placing" /\ job' \in Jobs /\ job'.kind = kind /\ job'.lvl \in Levels
<1> DEFINE c == IF f.side = "buy" THEN f.lvl + 1 ELSE f.lvl - 1
<1> DEFINE counter == IF f.side = "buy" THEN "sell" ELSE "buy"
<1> DEFINE j == [kind |-> kind, lvl |-> c, side |-> counter, from |-> f.lvl]
<1> HIDE DEF c, counter, j
<1>1. \/ pc' = CallerOf(kind) /\ UNCHANGED <<row, recent, job>>
      \/ /\ row' = [row EXCEPT ![f.lvl].filled = TRUE]
         /\ pc' = CallerOf(kind)
         /\ UNCHANGED <<recent, job>>
      \/ c \in Levels /\ Submit(j) /\ UNCHANGED row
  BY DEF Answer, c, counter, j
<1>2. row \in [Levels -> Rows] /\ recent \subseteq Levels
  BY DEF TypeInv, EngineTypes
<1>3. ASSUME c \in Levels PROVE j \in Jobs /\ j.lvl \in Levels /\ j.kind = kind
  <2>1. counter \in Sides
    BY DEF counter, Sides
  <2>2. c \in 0..N /\ f.lvl \in 0..N
    BY <1>3, GridAssumption DEF Levels, Fills
  <2> QED BY <1>3, <2>1, <2>2 DEF j, Jobs
<1>4. CASE row' = [row EXCEPT ![f.lvl].filled = TRUE]
  BY <1>1, <1>2, <1>3, <1>4 DEF Rows, Submit
<1>5. CASE UNCHANGED row
  BY <1>1, <1>2, <1>3, <1>5 DEF Submit, j
<1> QED BY <1>1, <1>4, <1>5

LEMMA UnwantedTyped ==
  ASSUME ViewTypes, NEW l \in Levels, NEW n \in Nat
  PROVE  n - Smaller(n, Unwanted(l)) \in Nat
  BY DEF ViewTypes, Unwanted, Smaller

LEMMA KillerTypes ==
  ASSUME TypeInv, Killer \/ Cancel \/ ReadLevels
  PROVE  TypeInv'
<1>1. CASE Killer
  <2>1. ExchangeTypes' /\ UNCHANGED fills
    BY <1>1, ExchangeUnchanged DEF TypeInv, Killer, market
  <2>2. EngineTypes'
    BY <1>1, <2>1, EngineUnchanged DEF TypeInv, Killer
  <2>3. ViewTypes'
    BY <1>1, RowsTyped DEF TypeInv, ViewTypes, Killer
  <2>4. todo' \subseteq Levels /\ pc' = "cancel" /\ UNCHANGED <<job, faults>>
    BY <1>1 DEF Killer
  <2>5. WorkTypes' /\ Phases'
    BY <2>4 DEF TypeInv, WorkTypes, Phases, Labels, Levels
  <2> QED BY <2>1, <2>2, <2>3, <2>5 DEF TypeInv
<1>2. CASE Cancel
  <2>1. PICK l \in todo :
          /\ todo' = todo \ {l}
          /\ \/ /\ book' = [book EXCEPT ![l] = @ - Smaller(@, Unwanted(l))]
                /\ UNCHANGED faults
             \/ Occurs("cancel") /\ UNCHANGED book
    BY <1>2 DEF Cancel
  <2>2. /\ pc = "cancel"
        /\ UNCHANGED <<price, fills, old, moves, database, memory, pc, resuming,
                       snap, snapAt, ticker, mem, match, queue, job>>
    BY <1>2 DEF Cancel
  <2>3. l \in Levels
    BY <2>1, <2>2 DEF TypeInv, Phases
  <2>4. book[l] \in Nat
    BY <2>3 DEF TypeInv, ExchangeTypes
  <2>5. book' \in [Levels -> Nat]
    BY <2>1, <2>3, <2>4, UnwantedTyped DEF TypeInv, ExchangeTypes
  <2>6. ExchangeTypes'
    BY <2>2, <2>5 DEF TypeInv, ExchangeTypes
  <2>7. EngineTypes'
    BY <2>2, EngineUnchanged DEF TypeInv
  <2>8. ViewTypes'
    BY <2>2 DEF TypeInv, ViewTypes
  <2>9. WorkTypes' /\ Phases'
    BY <2>1, <2>2, OccursTyped DEF TypeInv, WorkTypes, Phases
  <2> QED BY <2>6, <2>7, <2>8, <2>9 DEF TypeInv
<1>3. CASE ReadLevels
  <2>1. ExchangeTypes' /\ UNCHANGED fills
    BY <1>3, ExchangeUnchanged DEF TypeInv, ReadLevels, market
  <2>2. EngineTypes'
    BY <1>3, <2>1, EngineUnchanged DEF TypeInv, ReadLevels
  <2>3. ViewTypes'
    BY <1>3, RowsTyped DEF TypeInv, EngineTypes, ViewTypes, ReadLevels
  <2>4. WorkTypes' /\ Phases'
    BY <1>3 DEF TypeInv, WorkTypes, Phases, ReadLevels, Labels
  <2> QED BY <2>1, <2>2, <2>3, <2>4 DEF TypeInv
<1> QED BY <1>1, <1>2, <1>3

LEMMA HandleTypes ==
  ASSUME TypeInv, Handle
  PROVE  TypeInv'
<1>1. Head(queue) \in Fills /\ Tail(queue) \in Seq(Fills)
  BY DEF Handle, TypeInv, ViewTypes
<1>2. /\ row' \in [Levels -> Rows]
      /\ recent' \subseteq Levels
      /\ \/ pc' = CallerOf("counter") /\ UNCHANGED job
         \/ pc' = "placing" /\ job' \in Jobs /\ job'.kind = "counter"
                            /\ job'.lvl \in Levels
  BY <1>1, AnswerTypes DEF Handle
<1>3. /\ queue' = Tail(queue)
      /\ UNCHANGED <<market, archive, keys, success, stale, resuming, snap, snapAt,
                     ticker, mem, match, todo, faults>>
  BY DEF Handle
<1>4. ExchangeTypes' /\ UNCHANGED fills
  BY <1>3, ExchangeUnchanged DEF TypeInv, market
<1>5. EngineTypes'
  BY <1>2, <1>3, <1>4 DEF TypeInv, EngineTypes
<1>6. ViewTypes'
  BY <1>1, <1>3 DEF TypeInv, ViewTypes
<1>7. WorkTypes' /\ Phases'
  BY <1>2, <1>3 DEF TypeInv, WorkTypes, Phases, CallerOf, Labels
<1> QED BY <1>4, <1>5, <1>6, <1>7 DEF TypeInv

LEMMA ReadPendingTypes ==
  ASSUME TypeInv, ReadPending
  PROVE  TypeInv'
<1>1. /\ \/ todo' = {} /\ mem' = mem
         \/ todo' = {l \in Levels : row[l].pend} /\ mem' = row
      /\ pc' = "pending"
      /\ UNCHANGED <<market, database, memory, resuming, snap, snapAt, ticker,
                     match, queue, job>>
  BY DEF ReadPending
<1>2. faults' \in 0..MaxFaults
  BY OccursTyped DEF ReadPending, TypeInv, WorkTypes
<1>3. ExchangeTypes' /\ UNCHANGED fills
  BY <1>1, ExchangeUnchanged DEF TypeInv, market
<1>4. EngineTypes'
  BY <1>1, <1>3, EngineUnchanged DEF TypeInv
<1>5. ViewTypes'
  BY <1>1 DEF TypeInv, EngineTypes, ViewTypes
<1>6. todo' \subseteq Levels
  BY <1>1
<1>7. WorkTypes' /\ Phases'
  BY <1>1, <1>2, <1>6 DEF TypeInv, WorkTypes, Phases, Labels, Levels
<1> QED BY <1>3, <1>4, <1>5, <1>7 DEF TypeInv

LEMMA PendingTypes ==
  ASSUME TypeInv, Pending
  PROVE  TypeInv'
<1> DEFINE l == Min(todo)
<1> DEFINE j == [kind |-> "pending", lvl |-> l, side |-> mem[l].side, from |-> 0]
<1>1. /\ pc = "pending" /\ todo' = todo \ {l} /\ Submit(j)
      /\ UNCHANGED <<market, database, keys, success, stale, resuming, snap, snapAt,
                     ticker, mem, match, queue, faults>>
  BY DEF Pending
<1>2. todo \subseteq Levels
  BY <1>1 DEF TypeInv, Phases
<1>3. l \in Levels
  <2>1. todo \subseteq Nat /\ todo # {}
    BY DEF Pending, TypeInv, WorkTypes
  <2> QED BY <1>2, <2>1, MinIn
<1>4. j \in Jobs
  BY <1>3, GridAssumption DEF TypeInv, ViewTypes, Rows, Jobs, Levels
<1> HIDE DEF l
<1>5. ExchangeTypes' /\ UNCHANGED fills
  BY <1>1, ExchangeUnchanged DEF TypeInv, market
<1>6. EngineTypes'
  BY <1>1, <1>3, <1>5 DEF TypeInv, EngineTypes, Submit, database
<1>7. ViewTypes'
  BY <1>1 DEF TypeInv, ViewTypes
<1>8. WorkTypes' /\ Phases'
  BY <1>1, <1>2, <1>3, <1>4 DEF TypeInv, WorkTypes, Phases, Submit, Labels
<1> QED BY <1>5, <1>6, <1>7, <1>8 DEF TypeInv

\* The end of a tick or of a backfill forgets the locals.
LEMMA EndTypes ==
  ASSUME TypeInv, Succeed \/ BackfillEnds, UNCHANGED fills
  PROVE  /\ success' \in 0..Len(fills) \cup {NoSuccess} /\ stale' \in BOOLEAN
         /\ ViewTypes' /\ todo' = {} /\ job' \in Jobs
         /\ pc' \in {"idle", "orders"}
<1>1. Reset
  BY DEF Succeed, BackfillEnds
<1>2. ViewTypes' /\ todo' = {} /\ job' \in Jobs
  BY <1>1, ResetTypes
<1>3. pc' \in {"idle", "orders"} /\ stale' \in BOOLEAN
  BY DEF Succeed, BackfillEnds, TypeInv, EngineTypes
<1>4. success' = Len(fills) \/ UNCHANGED success
  BY DEF Succeed, BackfillEnds
<1>5. success' \in 0..Len(fills) \cup {NoSuccess}
  BY <1>4 DEF TypeInv, ExchangeTypes, EngineTypes
<1> QED BY <1>2, <1>3, <1>5

LEMMA TickEndTypes ==
  ASSUME TypeInv, TickEnd \/ BackfillDone
  PROVE  TypeInv'
<1>1. /\ Succeed \/ BackfillEnds
      /\ UNCHANGED <<market, database, keys, recent, faults>>
  BY DEF TickEnd, BackfillDone
<1>2. ExchangeTypes' /\ UNCHANGED fills
  BY <1>1, ExchangeUnchanged DEF TypeInv, market
<1>3. EngineTypes' /\ ViewTypes'
  BY <1>1, <1>2, EndTypes DEF TypeInv, EngineTypes, database
<1>4. WorkTypes' /\ Phases'
  BY <1>1, <1>2, EndTypes DEF TypeInv, WorkTypes, Phases, Labels
<1> QED BY <1>2, <1>3, <1>4 DEF TypeInv

LEMMA FetchTypes ==
  ASSUME TypeInv, Fetch
  PROVE  TypeInv'
<1>1. UNCHANGED <<market, row, keys, recent>>
  BY DEF Fetch
<1>2. ExchangeTypes' /\ UNCHANGED fills
  BY <1>1, ExchangeUnchanged DEF TypeInv, market
<1>3. archive' \in 0..Len(fills)
  BY DEF Fetch, TypeInv, ExchangeTypes, EngineTypes
<1>4. faults' \in 0..MaxFaults
  BY OccursTyped DEF Fetch, TypeInv, WorkTypes
<1>5. CASE BackfillEnds
  <2>1. EngineTypes' /\ ViewTypes'
    BY <1>1, <1>2, <1>3, <1>5, EndTypes DEF TypeInv, EngineTypes
  <2>2. WorkTypes' /\ Phases'
    BY <1>2, <1>4, <1>5, EndTypes DEF WorkTypes, Phases, Labels
  <2> QED BY <1>2, <2>1, <2>2 DEF TypeInv
<1>6. CASE ~BackfillEnds
  <2>1. /\ todo' = archive + 1..Len(fills)
        /\ pc' = "survey"
        /\ UNCHANGED <<success, stale, resuming, snap, snapAt, ticker, mem, match,
                       queue, job, faults>>
    BY <1>6 DEF Fetch, NewFills
  <2>2. todo' \subseteq 1..Len(fills)
    BY <2>1 DEF TypeInv, ExchangeTypes, EngineTypes
  <2>3. EngineTypes' /\ ViewTypes'
    BY <1>1, <1>2, <1>3, <2>1 DEF TypeInv, EngineTypes, ViewTypes
  <2>4. WorkTypes' /\ Phases'
    BY <1>2, <2>1, <2>2 DEF TypeInv, WorkTypes, Phases, Labels
  <2> QED BY <1>2, <2>3, <2>4 DEF TypeInv
<1> QED BY <1>5, <1>6

LEMMA SurveyTypes ==
  ASSUME TypeInv, Survey
  PROVE  TypeInv'
<1>1. pc = "survey" /\ UNCHANGED <<market, database, keys, recent>>
  BY DEF Survey
<1>2. ExchangeTypes' /\ UNCHANGED fills
  BY <1>1, ExchangeUnchanged DEF TypeInv, market
<1>3. CASE BackfillEnds /\ Occurs("read")
  <2>1. EngineTypes' /\ ViewTypes'
    BY <1>1, <1>2, <1>3, EndTypes DEF TypeInv, EngineTypes, database
  <2>2. WorkTypes' /\ Phases'
    BY <1>2, <1>3, EndTypes, OccursTyped DEF TypeInv, WorkTypes, Phases, Labels
  <2> QED BY <1>2, <2>1, <2>2 DEF TypeInv
<1>4. CASE ~(BackfillEnds /\ Occurs("read"))
  <2>1. /\ Observed(snap')
        /\ pc' = "backfill"
        /\ UNCHANGED <<success, stale, resuming, snapAt, ticker, mem, match, todo,
                       queue, job>>
    BY <1>4 DEF Survey
  <2>2. EngineTypes' /\ ViewTypes'
    BY <1>1, <1>2, <2>1, ObservedTypes DEF TypeInv, EngineTypes, ViewTypes, database
  <2>3. WorkTypes' /\ Phases'
    BY <1>1, <1>2, <2>1, ObservedTypes DEF TypeInv, WorkTypes, Phases, Labels
  <2> QED BY <1>2, <2>2, <2>3 DEF TypeInv
<1> QED BY <1>3, <1>4

LEMMA BackfillTypes ==
  ASSUME TypeInv, Backfill
  PROVE  TypeInv'
<1> DEFINE k == Min(todo)
<1> DEFINE f == [lvl |-> fills[k].lvl, side |-> fills[k].side]
<1>1. pc = "backfill" /\ todo # {} /\ todo \subseteq 1..Len(fills)
  BY DEF Backfill, TypeInv, Phases
<1>2. k \in todo /\ k \in 1..MaxFills
  <2>1. todo \subseteq Nat
    BY DEF TypeInv, WorkTypes
  <2>2. k \in todo
    BY <1>1, <2>1, MinIn
  <2>3. Len(fills) \in Nat /\ Len(fills) <= MaxFills /\ MaxFills \in Nat
    BY GridAssumption DEF TypeInv, ExchangeTypes
  <2> HIDE DEF k
  <2>4. k \in 1..MaxFills
    BY <1>1, <2>2, <2>3
  <2> QED BY <2>2, <2>4
<1>3. f \in Fills
  <2>1. fills[k] \in Fills
    BY <1>1, <1>2 DEF TypeInv, ExchangeTypes
  <2> QED BY <2>1 DEF Fills
<1>4. /\ todo' = todo \ {k}
      /\ UNCHANGED <<market, archive, success, stale, resuming, snap, snapAt,
                     ticker, mem, match, queue, faults>>
  BY DEF Backfill
<1>5. ExchangeTypes' /\ UNCHANGED fills
  BY <1>4, ExchangeUnchanged DEF TypeInv, market
<1>6. ViewTypes'
  BY <1>4 DEF TypeInv, ViewTypes
<1> HIDE DEF k, f
<1>7. \/ keys' = keys \cup {<<"event_time", k>>} /\ Answer(f, "backfill", row)
      \/ UNCHANGED <<row, keys, recent, pc, job>>
  BY DEF Backfill, k, f
<1>8. keys' \subseteq Keys
  BY <1>2, <1>7 DEF TypeInv, EngineTypes, Keys
<1>9. /\ row' \in [Levels -> Rows]
      /\ recent' \subseteq Levels
      /\ \/ pc' = "backfill" /\ UNCHANGED job
         \/ pc' = "placing" /\ job' \in Jobs /\ job'.kind = "backfill"
                            /\ job'.lvl \in Levels
  <2>1. CASE UNCHANGED <<row, keys, recent, pc, job>>
    BY <1>1, <2>1 DEF TypeInv, EngineTypes
  <2>2. CASE Answer(f, "backfill", row)
    BY <1>3, <2>2, AnswerTypes DEF CallerOf
  <2> QED BY <1>7, <2>1, <2>2
<1>10. EngineTypes'
  BY <1>4, <1>5, <1>8, <1>9 DEF TypeInv, EngineTypes
<1>11. todo' \subseteq 1..Len(fills')
  BY <1>1, <1>4, <1>5
<1>12. WorkTypes' /\ Phases'
  BY <1>4, <1>9, <1>11 DEF TypeInv, WorkTypes, Phases, Labels
<1> QED BY <1>5, <1>6, <1>10, <1>12 DEF TypeInv

LEMMA RestartTypes ==
  ASSUME TypeInv, Restart \/ Boot
  PROVE  TypeInv'
<1>1. CASE Restart
  <2>1. book' \in [Levels -> Nat]
    BY <1>1 DEF Restart, PlaceOne, TypeInv, ExchangeTypes
  <2>2. /\ pc' = "down" /\ keys' = {} /\ recent' = {} /\ success' = NoSuccess
        /\ stale' = FALSE /\ Reset
        /\ UNCHANGED <<price, fills, old, moves, database>>
    BY <1>1 DEF Restart
  <2>3. ExchangeTypes'
    BY <2>1, <2>2 DEF TypeInv, ExchangeTypes
  <2>4. success' \in 0..Len(fills') \cup {NoSuccess'}
    BY <2>2 DEF NoSuccess
  <2>5. EngineTypes'
    BY <2>2, <2>4 DEF TypeInv, EngineTypes, database
  <2>6. ViewTypes' /\ todo' = {} /\ job' \in Jobs
    BY <2>2, ResetTypes
  <2>7. faults' \in 0..MaxFaults
    BY <1>1, OccursTyped DEF Restart, TypeInv, WorkTypes
  <2>8. WorkTypes' /\ Phases'
    BY <2>2, <2>6, <2>7 DEF WorkTypes, Phases, Labels
  <2> QED BY <2>3, <2>5, <2>6, <2>8 DEF TypeInv
<1>2. CASE Boot
  <2>1. ExchangeTypes' /\ UNCHANGED fills
    BY <1>2, ExchangeUnchanged DEF TypeInv, Boot, market
  <2>2. EngineTypes'
    BY <1>2, <2>1, EngineUnchanged DEF TypeInv, Boot
  <2>3. ViewTypes'
    BY <1>2 DEF TypeInv, ViewTypes, Boot
  <2>4. WorkTypes' /\ Phases'
    BY <1>2 DEF TypeInv, WorkTypes, Phases, Boot, Labels
  <2> QED BY <2>1, <2>2, <2>3, <2>4 DEF TypeInv
<1> QED BY <1>1, <1>2

LEMMA TypeStep ==
  ASSUME TypeInv, [Next]_vars
  PROVE  TypeInv'
<1>1. CASE UNCHANGED vars
  BY <1>1 DEF vars, TypeInv, ExchangeTypes, EngineTypes, ViewTypes, WorkTypes, Phases
<1>2. CASE MoveUp \/ MoveDown \/ Age \/ RecentExpires \/ Poll
  BY <1>2, MoveTypes, AgeTypes, RecentExpiresTypes, PollTypes
<1>3. CASE TickOrders \/ TickCover \/ TickFills \/ TickLevel \/ Place
  BY <1>3, TickOrdersTypes, TickCoverTypes, TickFillsTypes, TickLevelTypes, PlaceTypes
<1>4. CASE Killer \/ Cancel \/ ReadLevels \/ Handle \/ ReadPending \/ Pending
  BY <1>4, KillerTypes, HandleTypes, ReadPendingTypes, PendingTypes
<1>5. CASE TickEnd \/ Fetch \/ Survey \/ Backfill \/ BackfillDone
  BY <1>5, TickEndTypes, FetchTypes, SurveyTypes, BackfillTypes
<1>6. CASE Restart \/ Boot
  BY <1>6, RestartTypes
<1> QED BY <1>1, <1>2, <1>3, <1>4, <1>5, <1>6 DEF Next, Engine

\* Every reachable state is well typed: among others no fill is archived twice, and
\* placeGridOrder is only ever called for a level of the grid.
THEOREM TypeCorrect == Spec => []TypeOK
<1>1. Spec => []TypeInv
  BY TypeInit, TypeStep, PTL DEF Spec
<1> QED BY <1>1, TypeInvIsTypeOK, PTL

----------------------------------------------------------------------------
(* The monitor places again only what is missing.                          *)

\* A level the tick takes for uncovered has no order, unless it was placed so
\* recently that open_orders may not show it.
Seen ==
  /\ pc = "cover" => \A l \in Levels : snap[l] = 0 /\ l \notin recent => book[l] = 0
  /\ pc \in {"fills", "level"} \/ (pc = "placing" /\ job.kind = "level") =>
       \A l \in todo : l \notin recent => book[l] = 0
  /\ pc = "placing" /\ job.kind = "level" => job.lvl \in recent

LEMMA ObservedSound ==
  ASSUME TypeInv, NEW orders, Observed(orders), NEW l \in Levels,
         orders[l] = 0, l \notin recent
  PROVE  book[l] = 0
  BY DEF Observed

\* Elsewhere than between the snapshot and the last re-placement Seen says nothing.
LEMMA SeenElsewhere ==
  ASSUME pc \notin {"cover", "fills", "level"},
         pc = "placing" => job.kind # "level"
  PROVE  Seen
  BY DEF Seen

LEMMA SeenTick ==
  ASSUME TypeInv, Seen, TickOrders \/ TickCover \/ TickFills \/ TickLevel
  PROVE  Seen'
<1>1. CASE TickFails
  BY <1>1 DEF TickFails, Seen
<1>2. CASE TickOrders /\ ~TickFails
  <2>1. Observed(snap') /\ pc' = "cover" /\ UNCHANGED <<market, memory>>
    BY <1>2 DEF TickOrders
  <2> QED BY <2>1, ObservedSound DEF Seen, market, memory
<1>3. CASE TickCover /\ ~TickFails
  <2>1. /\ pc = "cover" /\ pc' \in {"fills", "level"} /\ UNCHANGED <<market, memory>>
        /\ todo' \subseteq Levels \ {l \in Levels : snap[l] > 0}
    BY <1>3 DEF TickCover
  <2>2. \A l \in todo' : l \in Levels /\ snap[l] = 0
    BY <2>1 DEF TypeInv, ViewTypes
  <2> QED BY <2>1, <2>2 DEF Seen, market, memory
<1>4. CASE TickFills /\ ~TickFails
  <2>1. pc = "fills" /\ pc' = "level" /\ UNCHANGED <<market, memory, todo>>
    BY <1>4 DEF TickFills
  <2> QED BY <2>1 DEF Seen, market, memory
<1>5. CASE TickLevel
  <2>1. /\ pc = "level" /\ UNCHANGED market /\ todo' \subseteq todo
        /\ recent \subseteq recent'
        /\ \/ pc' = "level"
           \/ pc' = "placing" /\ job'.lvl \in recent'
    BY <1>5 DEF TickLevel, Submit
  <2> QED BY <2>1 DEF Seen, market
<1> QED BY <1>1, <1>2, <1>3, <1>4, <1>5

LEMMA SeenPlace ==
  ASSUME TypeInv, Seen, Place
  PROVE  Seen'
<1>1. /\ pc = "placing" /\ job \in Jobs /\ job.kind # "none" /\ job.lvl \in Levels
      /\ UNCHANGED memory
  BY DEF Place, TypeInv, WorkTypes, Phases
<1>2. pc' = CallerOf(job.kind) /\ todo' \subseteq todo
  BY DEF Place, Ended
<1>3. CASE job.kind = "level"
  <2>1. \A l \in Levels : l # job.lvl => book'[l] = book[l]
    BY DEF Place, PlaceOne, TypeInv, ExchangeTypes
  <2>2. pc' = "level" /\ todo \subseteq Levels /\ job.lvl \in recent
    BY <1>1, <1>2, <1>3 DEF CallerOf, Seen, TypeInv, Phases
  <2> QED BY <1>1, <1>2, <1>3, <2>1, <2>2 DEF Seen, memory
<1>4. CASE job.kind # "level"
  <2>1. pc' \in {"handle", "backfill", "pending"}
    BY <1>1, <1>2, <1>4 DEF CallerOf, Jobs
  <2> QED BY <2>1 DEF Seen
<1> QED BY <1>3, <1>4

LEMMA SeenBeside ==
  ASSUME "slow" \notin Faults, TypeInv, Seen,
         MoveUp \/ MoveDown \/ Age \/ RecentExpires \/ Poll \/ Restart \/ Boot
  PROVE  Seen'
<1>1. CASE MoveUp \/ MoveDown
  <2>1. PICK x, p : Cross(x, p)
    BY <1>1 DEF MoveUp, MoveDown
  <2>2. \A l \in Levels : book[l] = 0 => book'[l] = 0
    BY <2>1 DEF Cross, TypeInv, ExchangeTypes
  <2>3. UNCHANGED <<recent, pc, snap, todo, job>>
    BY <2>1 DEF Cross, memory, locals
  <2> QED BY <2>2, <2>3 DEF Seen, TypeInv, Phases
<1>2. CASE Age
  BY <1>2 DEF Age, Seen, locals
<1>3. CASE RecentExpires \/ Poll
  BY <1>3 DEF RecentExpires, Poll, Seen, locals
<1>4. CASE Restart \/ Boot
  BY <1>4 DEF Restart, Boot, Seen
<1> QED BY <1>1, <1>2, <1>3, <1>4

LEMMA SeenRest ==
  ASSUME TypeInv, Seen,
         \/ Killer \/ Cancel \/ ReadLevels \/ Handle \/ ReadPending \/ Pending
         \/ TickEnd \/ Fetch \/ Survey \/ Backfill \/ BackfillDone
  PROVE  Seen'
<1>1. CASE Killer \/ Cancel \/ ReadLevels
  BY <1>1 DEF Killer, Cancel, ReadLevels, Seen
<1>2. CASE Handle
  BY <1>2 DEF Handle, Answer, Submit, CallerOf, Seen
<1>3. CASE ReadPending \/ Pending
  BY <1>3 DEF ReadPending, Pending, Submit, Seen
<1>4. CASE TickEnd \/ Fetch \/ Survey \/ BackfillDone
  <2>1. pc' \in {"idle", "orders", "survey", "backfill"}
    BY <1>4 DEF TickEnd, Fetch, Survey, BackfillDone, Succeed, BackfillEnds
  <2> QED BY <2>1 DEF Seen
<1>5. CASE Backfill
  BY <1>5 DEF Backfill, Answer, Submit, CallerOf, Seen
<1> QED BY <1>1, <1>2, <1>3, <1>4, <1>5

LEMMA SeenStep ==
  ASSUME "slow" \notin Faults, TypeInv, Seen, [Next]_vars
  PROVE  Seen'
<1>1. CASE UNCHANGED vars
  BY <1>1 DEF vars, Seen
<1>2. CASE Next
  BY <1>2, SeenTick, SeenPlace, SeenBeside, SeenRest DEF Next, Engine
<1> QED BY <1>1, <1>2

\* Only the loop over the uncovered levels goes on from there to placing an order.
LEMMA OnlyTickLevelPlaces ==
  ASSUME Next, pc = "level", pc' = "placing"
  PROVE  TickLevel
<1>1. ~(MoveUp \/ MoveDown \/ Age \/ RecentExpires \/ Poll \/ Restart \/ Boot)
  BY DEF MoveUp, MoveDown, Cross, Awaiting, Age, RecentExpires, Poll, Restart, Boot
<1>2. ~(TickOrders \/ TickCover \/ TickFills \/ Place \/ Killer \/ Cancel \/ ReadLevels)
  BY DEF TickOrders, BeginsWith, TickCover, TickFills, Place, Killer, Cancel, ReadLevels
<1>3. ~(Handle \/ ReadPending \/ Pending \/ TickEnd)
  BY DEF Handle, ReadPending, Pending, TickEnd
<1>4. ~(Fetch \/ Survey \/ Backfill \/ BackfillDone)
  BY DEF Fetch, BeginsWith, Survey, Backfill, BackfillDone
<1> QED BY <1>1, <1>2, <1>3, <1>4 DEF Next, Engine

LEMMA PlacesMissing ==
  ASSUME TypeInv, Seen, TickLevel, pc' = "placing"
  PROVE  book[job'.lvl] = 0
<1> DEFINE l == Nearest(todo, ticker)
<1>1. pc = "level" /\ todo # {} /\ todo \subseteq Levels
  BY DEF TickLevel, TypeInv, Phases
<1>2. l \in todo
  BY <1>1, NearestIn DEF TypeInv, ViewTypes
<1>3. l \notin recent /\ job'.lvl = l
  BY <1>1 DEF TickLevel, JustPlaced, Submit
<1> QED BY <1>1, <1>2, <1>3 DEF Seen

\* Unless a tick outlives the ten seconds of recentlyPlaced, the monitor never
\* places an order at a level that has one, whatever else fails and however late
\* open_orders shows what was placed.
THEOREM NeverPlacesTwice ==
  ASSUME "slow" \notin Faults
  PROVE  Spec => PlacesOnlyMissing
<1>1. Init => TypeInv /\ Seen
  BY TypeInit, SeenElsewhere DEF Init
<1>2. TypeInv /\ Seen /\ [Next]_vars => (TypeInv /\ Seen)'
  BY TypeStep, SeenStep
<1>3. TypeInv /\ Seen /\ [Next]_vars =>
        [pc = "level" /\ pc' = "placing" => book[job'.lvl] = 0]_vars
  BY OnlyTickLevelPlaces, PlacesMissing
<1> QED BY <1>1, <1>2, <1>3, PTL DEF Spec, PlacesOnlyMissing

----------------------------------------------------------------------------
(* As long as nothing has gone wrong, a tick leaves no level with a third  *)
(* order: a level whose row knows its order is not answered with, of the   *)
(* others each has one at most when the fills are answered, and only one   *)
(* of the fills has its counter-order there on the side that can rest.     *)

Answering(kind) == pc = "placing" /\ job.kind = kind
InLevels == pc = "level" \/ Answering("level")
InHandle == pc = "handle" \/ Answering("counter")

Known(r) == r.id /\ ~r.filled

Target(l, side) == IF side = "sell" THEN l + 1 ELSE l - 1

\* The counter-order of fill f belongs at level l and would rest there.
Aims(f, l) ==
  \/ f.side = "buy" /\ l = f.lvl + 1 /\ SideAt(l, price) = "sell"
  \/ f.side = "sell" /\ l = f.lvl - 1 /\ SideAt(l, price) = "buy"

Queued(l) == \E i \in 1..Len(queue) : queue[i].lvl = l

\* The fills of a tick are of different levels, none of which it places again.
QueueCalm ==
  /\ queue # <<>> => InLevels \/ pc = "cancel" \/ InHandle
  /\ \A i, j \in 1..Len(queue) : queue[i].lvl = queue[j].lvl => i = j
  /\ InLevels => \A l \in todo : ~Queued(l)
  /\ Answering("counter") => ~Queued(job.from) /\ job.lvl = Target(job.from, job.side)

NonePending ==
  /\ \A l \in Levels : ~row[l].pend
  /\ pc = "pending" => todo = {}
  /\ ~Answering("pending")

BookCalm ==
  /\ pc = "cover" => \A l \in Levels : snap[l] = 0 => book[l] = 0
  /\ pc = "fills" \/ InLevels => \A l \in todo : book[l] = 0
  /\ Answering("level") => job.lvl \notin todo /\ book[job.lvl] = 0
  /\ pc \in {"fills", "cancel"} \/ InLevels =>
       \A l \in Levels : Known(row[l]) \/ book[l] <= 1
  /\ InHandle => \A l \in Levels :
       Known(mem[l]) \/ book[l] <= 1 \/ \A i \in 1..Len(queue) : ~Aims(queue[i], l)
  /\ Answering("counter") /\ job.side = SideAt(job.lvl, price) => book[job.lvl] <= 1

Calm == QueueCalm /\ NonePending /\ BookCalm

LEMMA NoFault ==
  ASSUME TypeInv, faults' = 0, NEW f
  PROVE  ~Occurs(f)
BY DEF TypeInv, WorkTypes, Occurs

\* Between ticks, in a backfill and while the process is down nothing is asked.
LEMMA CalmElsewhere ==
  ASSUME queue = <<>>, \A l \in Levels : ~row[l].pend,
         \/ pc \in {"idle", "down", "orders", "fetch", "survey", "backfill"}
         \/ pc = "pending" /\ todo = {}
         \/ Answering("backfill")
  PROVE  Calm
BY DEF Calm, QueueCalm, NonePending, BookCalm, InLevels, InHandle, Answering

\* The queue is empty there.
LEMMA CalmThere ==
  ASSUME Calm,
         \/ pc \in {"idle", "down", "orders", "cover", "fills", "fetch", "survey",
                    "backfill", "pending"}
         \/ Answering("backfill")
  PROVE  queue = <<>>
BY DEF Calm, QueueCalm, InLevels, InHandle, Answering

\* The market takes orders away, and a level keeps its side unless it is crossed.
LEMMA CalmBeside ==
  ASSUME TypeInv, Calm, UNCHANGED <<pc, job, queue, snap, row, mem>>, todo' \subseteq todo,
         book' \in [Levels -> Nat],
         \A l \in Levels : \/ book'[l] = 0
                           \/ book'[l] <= book[l] /\ SideAt(l, price') = SideAt(l, price)
  PROVE  Calm'
<1> USE DEF InLevels, InHandle, Answering
<1>0. book \in [Levels -> Nat] /\ (pc = "placing" => job.lvl \in Levels)
      /\ (pc \in {"fills", "level"} \/ Answering("level") => todo \subseteq Levels)
  BY DEF TypeInv, ExchangeTypes, Phases
<1>1. QueueCalm' /\ NonePending'
  BY DEF Calm, QueueCalm, NonePending, Queued
<1>2. \A l \in Levels : book'[l] <= book[l]
  BY <1>0
<1>3. \A l \in Levels : book[l] = 0 => book'[l] = 0
  BY <1>0, <1>2
<1>4. \A l \in Levels : book[l] <= 1 => book'[l] <= 1
  BY <1>0, <1>2
<1>5. \A l \in Levels : book'[l] <= 1 \/ SideAt(l, price') = SideAt(l, price)
  BY <1>0
<1>6. ASSUME InHandle, NEW l \in Levels, ~Known(mem[l]), ~(book'[l] <= 1),
             NEW i \in 1..Len(queue)
      PROVE  ~Aims(queue[i], l)'
  <2>1. SideAt(l, price') = SideAt(l, price) /\ ~(book[l] <= 1)
    BY <1>4, <1>5, <1>6
  <2>2. ~Aims(queue[i], l)
    BY <1>6, <2>1 DEF Calm, BookCalm
  <2> QED BY <2>1, <2>2 DEF Aims
<1>7. BookCalm'
  <2>1. pc' = "cover" => \A l \in Levels : snap'[l] = 0 => book'[l] = 0
    BY <1>3 DEF Calm, BookCalm
  <2>2. (pc = "fills" \/ InLevels)' => \A l \in todo' : book'[l] = 0
    BY <1>0, <1>3 DEF Calm, BookCalm
  <2>3. Answering("level")' => job'.lvl \notin todo' /\ book'[job'.lvl] = 0
    BY <1>0, <1>3 DEF Calm, BookCalm
  <2>4. (pc \in {"fills", "cancel"} \/ InLevels)' =>
          \A l \in Levels : Known(row'[l]) \/ book'[l] <= 1
    BY <1>4 DEF Calm, BookCalm
  <2>5. InHandle' => \A l \in Levels :
          Known(mem'[l]) \/ book'[l] <= 1 \/ \A i \in 1..Len(queue') : ~Aims(queue[i], l)'
    BY <1>6
  <2>6. Answering("counter")' /\ job'.side = SideAt(job'.lvl, price') => book'[job'.lvl] <= 1
    BY <1>0, <1>4, <1>5 DEF Calm, BookCalm
  <2> QED BY <2>1, <2>2, <2>3, <2>4, <2>5, <2>6 DEF BookCalm
<1> QED BY <1>1, <1>7 DEF Calm

LEMMA CalmMarket ==
  ASSUME TypeInv, Calm, MoveUp \/ MoveDown \/ Age \/ RecentExpires \/ Poll
  PROVE  Calm'
<1>0. price \in 0..N /\ book \in [Levels -> Nat]
  BY DEF TypeInv, ExchangeTypes
<1>1. ASSUME NEW x \in Levels, NEW p, Cross(x, p),
             \A l \in Levels : l # x => SideAt(l, p) = SideAt(l, price)
      PROVE  Calm'
  <2>1. book' = [book EXCEPT ![x] = 0] /\ price' = p
        /\ UNCHANGED <<pc, job, queue, snap, row, mem, todo>>
    BY <1>1 DEF Cross, database, locals
  <2>2. book' \in [Levels -> Nat] /\ \A l \in Levels : book'[l] = IF l = x THEN 0 ELSE book[l]
    BY <1>0, <2>1
  <2> QED BY <1>0, <1>1, <2>1, <2>2, CalmBeside
<1>2. CASE MoveUp
  <2>1. price + 1 \in Levels /\ Cross(price + 1, price + 1)
    BY <1>0, <1>2, GridAssumption DEF MoveUp, Levels
  <2>2. \A l \in Levels : l # price + 1 => SideAt(l, price + 1) = SideAt(l, price)
    BY <1>0 DEF Levels, SideAt
  <2> QED BY <1>1, <2>1, <2>2
<1>3. CASE MoveDown
  <2>1. price \in Levels /\ Cross(price, price - 1)
    BY <1>0, <1>3, GridAssumption DEF MoveDown, Levels
  <2>2. \A l \in Levels : l # price => SideAt(l, price - 1) = SideAt(l, price)
    BY <1>0 DEF Levels, SideAt
  <2> QED BY <1>1, <2>1, <2>2
<1>4. CASE Age \/ RecentExpires \/ Poll
  <2>1. UNCHANGED <<pc, job, queue, snap, row, mem, todo, book, price>>
    BY <1>4 DEF Age, RecentExpires, Poll, database, locals, market
  <2> QED BY <1>0, <2>1, CalmBeside
<1> QED BY <1>2, <1>3, <1>4

LEMMA CalmOrders ==
  ASSUME TypeInv, Calm, faults' = 0, TickOrders
  PROVE  Calm'
<1>1. ~TickFails
  BY NoFault DEF TickFails
<1>2. /\ Observed(snap') /\ pc' = "cover" /\ pc \in {"idle", "orders"}
      /\ UNCHANGED <<market, database, queue, job>>
  BY <1>1 DEF TickOrders, BeginsWith
<1>3. \A l \in Levels : snap'[l] = book[l]
  BY <1>2, NoFault DEF Observed
<1>4. queue = <<>>
  BY <1>2, CalmThere
<1> QED BY <1>2, <1>3, <1>4 DEF Calm, QueueCalm, NonePending, BookCalm, InLevels, InHandle,
     Answering, market, database

LEMMA CalmCover ==
  ASSUME TypeInv, Calm, faults' = 0, TickCover
  PROVE  Calm'
<1>1. ~TickFails
  BY NoFault DEF TickFails
<1>2. PICK low \in BOOLEAN :
        LET t == [below |-> price, low |-> low]
            covered == {l \in Levels : snap[l] > 0}
            uncovered == Levels \ covered
            gap == Nearest(uncovered, t)
            isGap(l) == uncovered # {} /\ l = gap
            look == Cardinality(uncovered) > 1 /\ Total(snap) < MaxOpen
        IN /\ row' = [l \in Levels |->
                        IF l \in covered
                        THEN [row[l] EXCEPT !.side = SideAt(l, snapAt),
                                            !.filled = FALSE, !.id = TRUE]
                        ELSE IF isGap(l)
                        THEN [row[l] EXCEPT !.filled = TRUE, !.id = FALSE]
                        ELSE row[l]]
           /\ todo' = IF look THEN uncovered \ {gap} ELSE {}
           /\ pc' = IF look THEN "fills" ELSE "level"
           /\ UNCHANGED <<market, snap, queue, job>>
  BY <1>1 DEF TickCover
<1>3. pc = "cover" /\ snap \in [Levels -> Nat] /\ row \in [Levels -> Rows]
      /\ book \in [Levels -> Nat]
  BY DEF TickCover, TypeInv, ViewTypes, EngineTypes, ExchangeTypes
<1>4. queue' = <<>> /\ book' = book /\ pc' \in {"fills", "level"}
  BY <1>2, <1>3, CalmThere DEF market
<1>5. \A l \in Levels : row'[l].pend = row[l].pend
  BY <1>2, <1>3 DEF Rows
<1>6. \A l \in Levels : snap[l] > 0 => Known(row'[l])
  BY <1>2, <1>3 DEF Rows, Known
<1>7. \A l \in Levels : ~(snap[l] > 0) => book[l] = 0
  BY <1>3 DEF Calm, BookCalm
<1>8. todo' \subseteq {l \in Levels : ~(snap[l] > 0)}
  BY <1>2
<1>9. \A l \in Levels : Known(row'[l]) \/ book[l] <= 1
  BY <1>6, <1>7
<1> QED BY <1>4, <1>5, <1>7, <1>8, <1>9 DEF Calm, QueueCalm, NonePending, BookCalm,
     InLevels, InHandle, Answering, Queued

LEMMA CalmFills ==
  ASSUME TypeInv, Calm, faults' = 0, TickFills
  PROVE  Calm'
<1>1. ~TickFails
  BY NoFault DEF TickFails
<1>2. /\ pc = "fills" /\ pc' = "level"
      /\ UNCHANGED <<market, database, queue, todo, job>>
  BY <1>1 DEF TickFills
<1>3. queue = <<>>
  BY <1>2, CalmThere
<1> QED BY <1>2, <1>3 DEF Calm, QueueCalm, NonePending, BookCalm, InLevels, InHandle,
     Answering, Queued, market, database

LEMMA CalmLevel ==
  ASSUME TypeInv, Calm, TickLevel
  PROVE  Calm'
<1> DEFINE l == Nearest(todo, ticker)
           side == SideAt(l, ticker.below)
<1>1. /\ pc = "level" /\ todo # {} /\ todo \subseteq Levels
      /\ ticker \in Tickers /\ row \in [Levels -> Rows] /\ queue \in Seq(Fills)
      /\ mem \in [Levels -> Rows] /\ book \in [Levels -> Nat]
  BY DEF TickLevel, TypeInv, Phases, ViewTypes, EngineTypes, ExchangeTypes
<1>2. l \in todo /\ l \in Levels
  BY <1>1, NearestIn
<1>3. /\ todo' = todo \ {l} /\ UNCHANGED <<book, price, snap, mem>>
      /\ \/ /\ queue' \in {queue, Append(queue, [lvl |-> l, side |-> mem[l].side])}
            /\ UNCHANGED <<row, pc, job>>
         \/ /\ row' = [row EXCEPT ![l].side = side, ![l].filled = FALSE, ![l].id = FALSE]
            /\ job' = [kind |-> "level", lvl |-> l, side |-> side, from |-> 0]
            /\ pc' = "placing"
            /\ UNCHANGED queue
  <2> HIDE DEF l, side
  <2> QED BY DEF TickLevel, Submit, market, l, side
<1>4. \A x \in todo : ~Queued(x)
  BY <1>1 DEF Calm, QueueCalm, InLevels
<1>5. \A x \in Levels : Known(row[x]) \/ book[x] <= 1
  BY <1>1 DEF Calm, BookCalm, InLevels
<1>6. \A x \in todo : book[x] = 0
  BY <1>1 DEF Calm, BookCalm, InLevels
<1> HIDE DEF l, side
<1>7. CASE UNCHANGED <<row, pc, job, queue>>
  BY <1>1, <1>3, <1>4, <1>5, <1>6, <1>7
  DEF Calm, QueueCalm, NonePending, BookCalm, InLevels, InHandle, Answering, Queued
<1>8. CASE queue' = Append(queue, [lvl |-> l, side |-> mem[l].side])
           /\ UNCHANGED <<row, pc, job>>
  <2> DEFINE f == [lvl |-> l, side |-> mem[l].side]
  <2>1. Len(queue) \in Nat /\ Len(queue') = Len(queue) + 1
        /\ queue'[Len(queue) + 1].lvl = l
        /\ \A i \in 1..Len(queue) : queue'[i] = queue[i]
    <3>1. f \in Fills
      BY <1>1, <1>2 DEF Fills, Rows
    <3>2. f.lvl = l
      OBVIOUS
    <3> QED BY <1>1, <1>8, <3>1, <3>2, AppendProperties
  <2>2. \A i \in 1..Len(queue) : queue[i].lvl # l
    BY <1>2, <1>4 DEF Queued
  <2>3. \A i, j \in 1..Len(queue') : queue'[i].lvl = queue'[j].lvl => i = j
    <3>1. \A i \in 1..Len(queue') : i \in 1..Len(queue) \/ i = Len(queue) + 1
      BY <2>1
    <3>2. \A i, j \in 1..Len(queue) : queue[i].lvl = queue[j].lvl => i = j
      BY DEF Calm, QueueCalm
    <3> QED BY <2>1, <2>2, <3>1, <3>2
  <2>4. \A x \in todo' : ~Queued(x)'
    BY <1>3, <1>4, <2>1 DEF Queued
  <2>5. QueueCalm'
    BY <1>1, <1>8, <2>3, <2>4 DEF QueueCalm, InLevels, InHandle, Answering
  <2>6. NonePending' /\ BookCalm'
    BY <1>1, <1>3, <1>5, <1>6, <1>8
    DEF Calm, NonePending, BookCalm, InLevels, InHandle, Answering
  <2> QED BY <2>5, <2>6 DEF Calm
<1>9. CASE /\ row' = [row EXCEPT ![l].side = side, ![l].filled = FALSE, ![l].id = FALSE]
           /\ job' = [kind |-> "level", lvl |-> l, side |-> side, from |-> 0]
           /\ pc' = "placing"
           /\ UNCHANGED queue
  <2>1. \A x \in Levels : row'[x].pend = row[x].pend /\ (x # l => row'[x] = row[x])
    BY <1>1, <1>9 DEF Rows
  <2>2. job'.kind = "level" /\ job'.lvl = l
    BY <1>9
  <2>3. QueueCalm'
    BY <1>1, <1>3, <1>4, <1>9, <2>2
    DEF Calm, QueueCalm, InLevels, InHandle, Answering, Queued
  <2>4. NonePending'
    BY <1>9, <2>1, <2>2 DEF Calm, NonePending, Answering
  <2>5. \A x \in Levels : Known(row'[x]) \/ book[x] <= 1
    BY <1>2, <1>5, <1>6, <2>1
  <2>6. BookCalm'
    BY <1>2, <1>3, <1>6, <1>9, <2>2, <2>5 DEF BookCalm, InLevels, InHandle, Answering
  <2> QED BY <2>3, <2>4, <2>6 DEF Calm
<1> QED BY <1>3, <1>7, <1>8, <1>9

\* As long as nothing has gone wrong an order is placed or refused, and what is
\* placed rests: only its own level gains one.
LEMMA CalmPlaced ==
  ASSUME TypeInv, Calm, faults' = 0, Place
  PROVE  /\ pc = "placing" /\ pc' = CallerOf(job.kind) /\ job' = NoJob /\ todo' = todo
         /\ UNCHANGED <<price, snap, mem, queue>>
         /\ \A l \in Levels : row'[l].pend = row[l].pend
         /\ job.kind = "level" => row' = row
         /\ \A l \in Levels : l # job.lvl => book'[l] = book[l]
         /\ \/ book' = book
            \/ job.side = SideAt(job.lvl, price) /\ book'[job.lvl] = book[job.lvl] + 1
<1>1. /\ job \in Jobs /\ job.lvl \in Levels /\ job.kind # "none" /\ row \in [Levels -> Rows]
      /\ book \in [Levels -> Nat]
  BY DEF Place, TypeInv, WorkTypes, Phases, EngineTypes, ExchangeTypes
<1>2. ~Occurs("band") /\ ~Occurs("full") /\ ~Occurs("create")
  BY NoFault
<1>3. \/ Rests /\ PlaceOne /\ Ended("normal", FALSE)
      \/ book' = book /\ (Ended("thrown", FALSE) \/ Ended("normal", FALSE))
  BY <1>2 DEF Place
<1>4. Ended("thrown", FALSE) \/ Ended("normal", FALSE)
  BY <1>3
<1>5. pc' = CallerOf(job.kind) /\ job' = NoJob /\ todo' = todo
  BY <1>4 DEF Ended
<1>6. [row EXCEPT ![job.lvl].pend = @ \/ FALSE] = row
  BY <1>1, Zenon DEF Rows
<1>7. row' = Written(row, "thrown") \/ row' = Written(row, "normal")
  BY <1>4, <1>6 DEF Ended
<1>8. \A l \in Levels : row'[l].pend = row[l].pend
  <2>1. CASE row' = row
    BY <2>1
  <2>2. CASE row' # row
    <3>1. job.kind \in {"counter", "backfill", "pending"} /\ row' = Written(row, "normal")
      BY <1>1, <1>7, <2>2 DEF Written, Jobs
    <3>2. CASE job.kind = "pending"
      <4>1. pc = "placing" /\ job.kind = "pending"
        BY <3>2 DEF Place
      <4> QED BY <4>1 DEF Calm, NonePending, Answering
    <3>3. CASE job.kind # "pending"
      <4>1. row' = [row EXCEPT ![job.from].filled = TRUE,
                               ![job.lvl].side = job.side, ![job.lvl].filled = FALSE]
        BY <3>1, <3>3 DEF Written
      <4> QED BY <1>1, <4>1 DEF Rows
    <3> QED BY <3>2, <3>3
  <2> QED BY <2>1, <2>2
<1>9. job.kind = "level" => row' = row
  BY <1>7 DEF Written
<1>10. \A l \in Levels : l # job.lvl => book'[l] = book[l]
  BY <1>1, <1>3 DEF PlaceOne
<1>11. \/ book' = book
       \/ job.side = SideAt(job.lvl, price) /\ book'[job.lvl] = book[job.lvl] + 1
  BY <1>1, <1>3 DEF PlaceOne, Rests
<1> QED BY <1>5, <1>8, <1>9, <1>10, <1>11 DEF Place

LEMMA CalmPlace ==
  ASSUME TypeInv, Calm, faults' = 0, Place
  PROVE  Calm'
<1> DEFINE x == job.lvl
<1>1. /\ job \in Jobs /\ x \in Levels /\ job.kind \in {"level", "counter", "backfill"}
      /\ book \in [Levels -> Nat] /\ (job.kind = "level" => todo \subseteq Levels)
  BY DEF Place, TypeInv, WorkTypes, Phases, ExchangeTypes, Jobs, Calm, NonePending, Answering
<1>2. /\ pc = "placing" /\ pc' = CallerOf(job.kind) /\ job' = NoJob /\ todo' = todo
      /\ UNCHANGED <<price, snap, mem, queue>>
      /\ \A l \in Levels : row'[l].pend = row[l].pend
      /\ job.kind = "level" => row' = row
      /\ \A l \in Levels : l # x => book'[l] = book[l]
      /\ book' = book \/ (job.side = SideAt(x, price) /\ book'[x] = book[x] + 1)
  BY CalmPlaced
<1>3. \A l \in Levels : ~row'[l].pend
  BY <1>2 DEF Calm, NonePending
<1>4. CASE job.kind = "backfill"
  <2>1. queue' = <<>> /\ pc' = "backfill"
    BY <1>2, <1>4, CalmThere DEF Answering, CallerOf
  <2> QED BY <1>3, <2>1
      DEF Calm, QueueCalm, NonePending, BookCalm, InLevels, InHandle, Answering
<1>5. CASE job.kind = "level"
  <2>1. pc' = "level" /\ row' = row
    BY <1>2, <1>5 DEF CallerOf
  <2>2. x \notin todo /\ book[x] = 0 /\ \A l \in todo : book[l] = 0
    BY <1>2, <1>5 DEF Calm, BookCalm, InLevels, Answering
  <2>3. \A l \in todo : book'[l] = 0
    BY <1>1, <1>2, <1>5, <2>2
  <2>4. \A l \in Levels : Known(row[l]) \/ book[l] <= 1
    BY <1>2, <1>5 DEF Calm, BookCalm, InLevels, Answering
  <2>5. book'[x] <= 1
    BY <1>2, <2>2
  <2>6. \A l \in Levels : Known(row[l]) \/ book'[l] <= 1
    BY <1>2, <2>4, <2>5
  <2>7. QueueCalm'
    BY <1>2, <1>5, <2>1 DEF Calm, QueueCalm, InLevels, InHandle, Answering, Queued
  <2> QED BY <1>2, <1>3, <2>1, <2>3, <2>6, <2>7
      DEF Calm, NonePending, BookCalm, InLevels, InHandle, Answering
<1>6. CASE job.kind = "counter"
  <2>1. pc' = "handle"
    BY <1>2, <1>6 DEF CallerOf
  <2>2. ~Queued(job.from) /\ x = Target(job.from, job.side)
    BY <1>2, <1>6 DEF Calm, QueueCalm, Answering
  <2>3. QueueCalm'
    BY <1>2, <1>6, <2>1 DEF Calm, QueueCalm, InLevels, InHandle, Answering
  <2>4. ASSUME NEW l \in Levels, ~Known(mem[l]), ~(book'[l] <= 1),
               NEW i \in 1..Len(queue), Aims(queue[i], l)
        PROVE  FALSE
    <3>1. CASE book'[l] = book[l]
      <4>1. ~Aims(queue[i], l)
        BY <1>2, <1>6, <2>4, <3>1 DEF Calm, BookCalm, InHandle, Answering
      <4> QED BY <4>1, <2>4
    <3>2. CASE book'[l] # book[l]
      <4>1. l = x /\ job.side = SideAt(x, price)
        BY <1>2, <3>2
      <4>2. queue[i].lvl = job.from
        <5>1. queue \in Seq(Fills) /\ queue[i] \in Fills
          BY DEF TypeInv, ViewTypes
        <5>2. queue[i].lvl \in Int /\ job.from \in Int
          BY <1>1, <5>1, GridAssumption DEF Fills, Jobs, Levels
        <5>3. CASE job.side = "sell"
          <6>1. x = job.from + 1 /\ x = queue[i].lvl + 1
            BY <2>2, <2>4, <4>1, <5>3 DEF Aims, Target
          <6> QED BY <5>2, <6>1
        <5>4. CASE job.side # "sell"
          <6>1. x = job.from - 1 /\ x = queue[i].lvl - 1
            BY <2>2, <2>4, <4>1, <5>4 DEF Aims, Target
          <6> QED BY <5>2, <6>1
        <5> QED BY <5>3, <5>4
      <4> QED BY <2>2, <4>2 DEF Queued
    <3> QED BY <3>1, <3>2
  <2>5. \A l \in Levels : \/ Known(mem[l]) \/ book'[l] <= 1
                           \/ \A i \in 1..Len(queue) : ~Aims(queue[i], l)
    BY <2>4
  <2>6. \A i, l : Aims(queue[i], l)' <=> Aims(queue'[i], l)
    BY <1>2 DEF Aims
  <2>7. BookCalm'
    BY <1>2, <2>1, <2>5 DEF BookCalm, InLevels, InHandle, Answering, Aims
  <2>8. NonePending'
    BY <1>3, <2>1 DEF NonePending, Answering
  <2> QED BY <2>3, <2>7, <2>8 DEF Calm
<1> QED BY <1>1, <1>4, <1>5, <1>6

LEMMA CalmKiller ==
  ASSUME TypeInv, Calm, faults' = 0, Killer \/ Cancel \/ ReadLevels
  PROVE  Calm'
<1>0. book \in [Levels -> Nat] /\ snap \in [Levels -> Nat]
  BY DEF TypeInv, ExchangeTypes, ViewTypes
<1>1. CASE Killer
  <2>1. pc = "level" /\ pc' = "cancel" /\ UNCHANGED <<book, price, row, snap, queue, job>>
    BY <1>1 DEF Killer, market, database
  <2> QED BY <2>1 DEF Calm, QueueCalm, NonePending, BookCalm, InLevels, InHandle,
       Answering, Queued
<1>2. CASE Cancel
  <2>1. PICK l \in todo : todo' = todo \ {l}
                         /\ book' = [book EXCEPT ![l] = @ - Smaller(@, Unwanted(l))]
    BY <1>2, NoFault DEF Cancel
  <2>2. todo \subseteq Levels /\ pc = "cancel" /\ UNCHANGED <<pc, job, queue, snap, row, mem, price>>
    BY <1>2 DEF Cancel, TypeInv, Phases, database
  <2>3. Unwanted(l) \in Nat
    BY <1>0, <2>2 DEF Unwanted
  <2>4. book[l] - Smaller(book[l], Unwanted(l)) \in 0..book[l]
    BY <1>0, <2>2, <2>3 DEF Smaller
  <2>5. book' \in [Levels -> Nat] /\ \A k \in Levels : book'[k] <= book[k]
    BY <1>0, <2>1, <2>2, <2>4
  <2> QED BY <2>1, <2>2, <2>5, CalmBeside
<1>3. CASE ReadLevels
  <2>1. /\ pc = "cancel" /\ pc' = "handle" /\ mem' = row
        /\ UNCHANGED <<book, price, row, queue, job>>
    BY <1>3 DEF ReadLevels, market, database
  <2> QED BY <2>1 DEF Calm, QueueCalm, NonePending, BookCalm, InLevels, InHandle,
       Answering, Queued
<1> QED BY <1>1, <1>2, <1>3

\* What handleLevelFill does: it answers on the level beside the fill, on the
\* other side, and only where the rows show no order.
LEMMA AnswerAims ==
  ASSUME TypeInv, NEW f \in Fills, NEW kind, NEW rows, Answer(f, kind, rows)
  PROVE  /\ \A l \in Levels : row'[l].pend = row[l].pend
         /\ \/ pc' = CallerOf(kind) /\ job' = job
            \/ /\ pc' = "placing" /\ job'.kind = kind /\ job'.from = f.lvl
               /\ job'.lvl \in Levels /\ job'.lvl = Target(f.lvl, job'.side)
               /\ ~Known(rows[job'.lvl])
               /\ job'.side = SideAt(job'.lvl, price) => Aims(f, job'.lvl)
<1> DEFINE c == IF f.side = "buy" THEN f.lvl + 1 ELSE f.lvl - 1
           counter == IF f.side = "buy" THEN "sell" ELSE "buy"
<1>1. f.lvl \in Levels /\ f.side \in Sides /\ row \in [Levels -> Rows]
  BY DEF Fills, TypeInv, EngineTypes
<1>2. \A l \in Levels : row'[l].pend = row[l].pend
  <2>1. row' = row \/ row' = [row EXCEPT ![f.lvl].filled = TRUE]
    BY DEF Answer
  <2> QED BY <1>1, <2>1 DEF Rows
<1>3. ASSUME ~(pc' = CallerOf(kind) /\ job' = job)
      PROVE  /\ pc' = "placing" /\ c \in Levels /\ ~Known(rows[c])
             /\ job' = [kind |-> kind, lvl |-> c, side |-> counter, from |-> f.lvl]
  BY <1>3 DEF Answer, Submit, Known
<1>4. c = Target(f.lvl, counter)
  BY DEF Target
<1>5. ASSUME counter = SideAt(c, price) PROVE Aims(f, c)
  BY <1>1, <1>5 DEF Aims, Sides
<1> QED BY <1>2, <1>3, <1>4, <1>5

LEMMA CalmHandle ==
  ASSUME TypeInv, Calm, Handle
  PROVE  Calm'
<1> DEFINE f == Head(queue)
<1>1. /\ pc = "handle" /\ queue # <<>> /\ queue \in Seq(Fills)
      /\ Answer(f, "counter", mem) /\ queue' = Tail(queue)
      /\ UNCHANGED <<book, price, mem>>
  BY DEF Handle, TypeInv, ViewTypes, market
<1>2. /\ f \in Fills /\ f = queue[1] /\ Len(queue) \in Nat \ {0}
      /\ Len(queue') = Len(queue) - 1
      /\ \A i \in 1..Len(queue') : queue'[i] = queue[i + 1]
  BY <1>1, HeadTailProperties
<1>3. /\ \A l \in Levels : row'[l].pend = row[l].pend
      /\ \/ pc' = "handle"
         \/ /\ pc' = "placing" /\ job'.kind = "counter" /\ job'.from = f.lvl
            /\ job'.lvl \in Levels /\ job'.lvl = Target(f.lvl, job'.side)
            /\ ~Known(mem[job'.lvl])
            /\ job'.side = SideAt(job'.lvl, price) => Aims(f, job'.lvl)
  BY <1>1, <1>2, AnswerAims DEF CallerOf
<1>4. \A i, j \in 1..Len(queue) : queue[i].lvl = queue[j].lvl => i = j
  BY DEF Calm, QueueCalm
<1>5. \A i \in 1..Len(queue') : i + 1 \in 1..Len(queue) /\ i + 1 # 1
  BY <1>2
<1>6. \A i, j \in 1..Len(queue') : queue'[i].lvl = queue'[j].lvl => i = j
  <2> SUFFICES ASSUME NEW i \in 1..Len(queue'), NEW j \in 1..Len(queue'),
                      queue'[i].lvl = queue'[j].lvl
               PROVE  i = j
    OBVIOUS
  <2>1. i + 1 = j + 1
    BY <1>2, <1>4, <1>5
  <2> QED BY <1>2, <2>1
<1>7. \A i \in 1..Len(queue') : queue'[i].lvl # f.lvl
  <2> SUFFICES ASSUME NEW i \in 1..Len(queue'), queue'[i].lvl = f.lvl PROVE FALSE
    OBVIOUS
  <2>1. queue[i + 1].lvl = queue[1].lvl
    BY <1>2
  <2>2. 1 \in 1..Len(queue)
    BY <1>2
  <2> QED BY <1>4, <1>5, <2>1, <2>2
<1>8. QueueCalm'
  BY <1>3, <1>6, <1>7 DEF QueueCalm, InLevels, InHandle, Answering, Queued
<1>9. NonePending'
  BY <1>3 DEF Calm, NonePending, Answering
<1>10. \A l \in Levels : \/ Known(mem[l]) \/ book[l] <= 1
                         \/ \A i \in 1..Len(queue) : ~Aims(queue[i], l)
  BY <1>1 DEF Calm, BookCalm, InHandle
<1>11. \A l \in Levels : \/ Known(mem[l]) \/ book[l] <= 1
                         \/ \A i \in 1..Len(queue') : ~Aims(queue'[i], l)
  BY <1>2, <1>5, <1>10
<1>12. pc' = "placing" /\ job'.side = SideAt(job'.lvl, price) => book[job'.lvl] <= 1
  <2>1. 1 \in 1..Len(queue)
    BY <1>2
  <2> QED BY <1>2, <1>3, <1>10, <2>1
<1>13. BookCalm'
  BY <1>1, <1>3, <1>11, <1>12 DEF BookCalm, InLevels, InHandle, Answering, Aims
<1> QED BY <1>8, <1>9, <1>13 DEF Calm

LEMMA CalmQuiet ==
  ASSUME TypeInv, Calm, faults' = 0,
         ReadPending \/ Pending \/ TickEnd \/ Boot \/ Restart
  PROVE  Calm'
<1>1. CASE ReadPending
  <2>1. /\ pc = "handle" /\ queue = <<>> /\ pc' = "pending" /\ UNCHANGED <<row, queue>>
        /\ todo' = {l \in Levels : row[l].pend}
    BY <1>1, NoFault DEF ReadPending, TickFails, database
  <2>2. todo' = {}
    BY <2>1 DEF Calm, NonePending
  <2> QED BY <2>1, <2>2, CalmThere DEF Calm, QueueCalm, NonePending, BookCalm, InLevels,
       InHandle, Answering
<1>2. CASE Pending
  BY <1>2 DEF Pending, Calm, NonePending
<1>3. CASE TickEnd
  <2>1. pc' = "idle" /\ queue' = <<>> /\ row' = row
    BY <1>3 DEF TickEnd, Succeed, Reset, database
  <2> QED BY <2>1 DEF Calm, QueueCalm, NonePending, BookCalm, InLevels, InHandle, Answering
<1>4. CASE Boot
  <2>1. pc = "down" /\ pc' = "fetch" /\ UNCHANGED <<queue, row>>
    BY <1>4 DEF Boot, database
  <2>2. queue = <<>>
    BY <2>1, CalmThere
  <2> QED BY <2>1, <2>2 DEF Calm, QueueCalm, NonePending, BookCalm, InLevels, InHandle,
       Answering
<1>5. CASE Restart
  BY <1>5, NoFault DEF Restart
<1> QED BY <1>1, <1>2, <1>3, <1>4, <1>5

LEMMA CalmBackfill ==
  ASSUME TypeInv, Calm, faults' = 0, Fetch \/ Survey \/ Backfill \/ BackfillDone
  PROVE  Calm'
<1>1. pc \in {"idle", "fetch", "survey", "backfill"}
  BY DEF Fetch, BeginsWith, Survey, Backfill, BackfillDone
<1>2. queue = <<>>
  BY <1>1, CalmThere
<1>3. queue' = <<>>
  <2>1. CASE BackfillEnds
    BY <2>1 DEF BackfillEnds, Succeed, Reset
  <2>2. CASE ~BackfillEnds
    BY <1>2, <2>2 DEF Fetch, Survey, Backfill, BackfillDone
  <2> QED BY <2>1, <2>2
<1>4. CASE Fetch \/ Survey \/ BackfillDone
  <2>1. pc' \in {"idle", "orders", "survey", "backfill"}
    BY <1>4 DEF Fetch, Survey, BackfillDone, BackfillEnds, Succeed
  <2>2. row' = row
    BY <1>4 DEF Fetch, Survey, BackfillDone, database
  <2> QED BY <1>3, <2>1, <2>2 DEF Calm, QueueCalm, NonePending, BookCalm, InLevels,
       InHandle, Answering
<1>5. CASE Backfill
  <2>1. /\ \A l \in Levels : row'[l].pend = row[l].pend
        /\ pc' = "backfill" \/ (pc' = "placing" /\ job'.kind = "backfill")
    <3>1. CASE UNCHANGED <<row, pc>>
      BY <1>5, <3>1 DEF Backfill
    <3>2. CASE ~UNCHANGED <<row, pc>>
      <4> DEFINE k == Min(todo)
                 f == [lvl |-> fills[k].lvl, side |-> fills[k].side]
      <4>1. Answer(f, "backfill", row)
        BY <1>5, <3>2 DEF Backfill
      <4>2. f \in Fills
        <5>1. todo # {} /\ todo \subseteq 1..Len(fills) /\ fills \in Seq(Fills)
          BY <1>5 DEF Backfill, TypeInv, Phases, ExchangeTypes
        <5>2. k \in todo
          <6>1. todo \subseteq Nat
            BY DEF TypeInv, WorkTypes
          <6> QED BY <5>1, <6>1, MinIn
        <5>3. fills[k] \in Fills
          <6> HIDE DEF k
          <6> QED BY <5>1, <5>2
        <5> QED BY <5>3 DEF Fills
      <4> HIDE DEF f
      <4> QED BY <4>1, <4>2, AnswerAims DEF CallerOf
    <3> QED BY <3>1, <3>2
  <2> QED BY <1>3, <2>1 DEF Calm, QueueCalm, NonePending, BookCalm, InLevels, InHandle,
       Answering
<1> QED BY <1>4, <1>5

LEMMA CalmInit == Init => Calm
<1> SUFFICES ASSUME Init PROVE Calm
  OBVIOUS
<1>1. queue = <<>> /\ pc = "idle" /\ \A l \in Levels : ~row[l].pend
  BY DEF Init
<1> QED BY <1>1 DEF Calm, QueueCalm, NonePending, BookCalm, InLevels, InHandle, Answering

\* A fault once counted stays counted.
LEMMA FaultsRemain ==
  ASSUME TypeInv, Next, faults' = 0
  PROVE  faults = 0
<1>1. \A f : ~Occurs(f)
  BY NoFault
<1>2. CASE MoveUp \/ MoveDown \/ Age \/ RecentExpires \/ Poll \/ Restart \/ Boot
  BY <1>1, <1>2 DEF MoveUp, MoveDown, Cross, Age, RecentExpires, Poll, Restart, Boot
<1>3. CASE TickOrders
  <2>1. Observed(snap')
    BY <1>1, <1>3 DEF TickOrders, TickFails
  <2> QED BY <1>1, <2>1 DEF Observed
<1>4. CASE TickCover \/ TickFills \/ TickLevel
  <2>1. ~TickFails
    BY <1>1 DEF TickFails
  <2>2. CASE TickCover
    BY <2>1, <2>2 DEF TickCover
  <2>3. CASE TickFills
    BY <2>1, <2>3 DEF TickFills
  <2>4. CASE TickLevel
    BY <2>4 DEF TickLevel
  <2> QED BY <1>4, <2>2, <2>3, <2>4
<1>5. CASE Place
  BY <1>1, <1>5 DEF Place
<1>6. CASE Killer \/ Cancel \/ ReadLevels \/ Handle \/ ReadPending \/ Pending \/ TickEnd
  BY <1>1, <1>6 DEF Killer, Cancel, ReadLevels, Handle, ReadPending, TickFails, Pending, TickEnd
<1>7. CASE Survey
  <2>1. Observed(snap')
    BY <1>1, <1>7 DEF Survey
  <2> QED BY <1>1, <2>1 DEF Observed
<1>8. CASE Fetch \/ Backfill \/ BackfillDone
  BY <1>1, <1>8 DEF Fetch, Backfill, BackfillDone
<1> QED BY <1>2, <1>3, <1>4, <1>5, <1>6, <1>7, <1>8 DEF Next, Engine

LEMMA CalmStep ==
  ASSUME TypeInv, faults = 0 => Calm, [Next]_vars
  PROVE  faults' = 0 => Calm'
<1> SUFFICES ASSUME faults' = 0 PROVE Calm'
  OBVIOUS
<1>1. CASE UNCHANGED vars
  <2>1. Calm
    BY <1>1 DEF vars
  <2> QED BY <1>1, <2>1 DEF vars, Calm, QueueCalm, NonePending, BookCalm, InLevels, InHandle,
       Answering, Queued, Aims
<1>2. CASE Next
  <2>1. faults = 0
    BY <1>2, FaultsRemain
  <2> QED BY <1>2, <2>1, CalmMarket, CalmOrders, CalmCover, CalmFills, CalmLevel, CalmPlace,
          CalmKiller, CalmHandle, CalmQuiet, CalmBackfill DEF Next, Engine
<1> QED BY <1>1, <1>2

\* Only create_order adds an order to the book.
LEMMA OnlyPlaceAdds ==
  ASSUME TypeInv, faults' = 0, Next, NEW l \in Levels, book'[l] > book[l]
  PROVE  Place
<1>0. book \in [Levels -> Nat]
  BY DEF TypeInv, ExchangeTypes
<1>1. ASSUME NEW x, NEW p, Cross(x, p) PROVE FALSE
  BY <1>0, <1>1 DEF Cross
<1>2. ~Cancel
  <2> SUFFICES ASSUME Cancel PROVE FALSE
    OBVIOUS
  <2>1. PICK x \in todo : book' = [book EXCEPT ![x] = @ - Smaller(@, Unwanted(x))]
    BY NoFault DEF Cancel
  <2>2. x \in Levels
    BY DEF Cancel, TypeInv, Phases
  <2>3. Unwanted(x) \in Nat /\ book[x] \in Nat
    BY <1>0, <2>2 DEF Unwanted, TypeInv, ViewTypes
  <2>4. book[x] - Smaller(book[x], Unwanted(x)) \in 0..book[x]
    BY <2>3 DEF Smaller
  <2> QED BY <1>0, <2>1, <2>2, <2>3, <2>4
<1>3. ~Restart
  BY NoFault DEF Restart
<1>4. ~UNCHANGED book
  BY <1>0
<1>5. ~(Age \/ RecentExpires \/ Poll \/ TickOrders \/ TickCover \/ TickFills \/ TickLevel)
  <2>1. ~Age /\ ~RecentExpires /\ ~Poll
    BY <1>4 DEF Age, RecentExpires, Poll, market
  <2>2. ~TickFails
    BY <1>4 DEF TickFails, market
  <2>3. ~TickOrders
    BY <1>4, <2>2 DEF TickOrders, market
  <2>4. ~TickCover
    BY <1>4, <2>2 DEF TickCover, market
  <2>5. ~TickFills
    BY <1>4, <2>2 DEF TickFills, market
  <2>6. ~TickLevel
    BY <1>4 DEF TickLevel, market
  <2> QED BY <2>1, <2>3, <2>4, <2>5, <2>6
<1>6. ~(Killer \/ ReadLevels \/ Handle \/ ReadPending \/ Pending \/ TickEnd)
  BY <1>4 DEF Killer, ReadLevels, Handle, ReadPending, TickFails, Pending, TickEnd, market
<1>7. ~(Fetch \/ Survey \/ Backfill \/ BackfillDone \/ Boot)
  BY <1>4 DEF Fetch, Survey, Backfill, BackfillDone, Boot, market
<1> QED BY <1>1, <1>2, <1>3, <1>5, <1>6, <1>7 DEF Next, Engine, MoveUp, MoveDown

LEMMA NoThird ==
  ASSUME TypeInv, Calm, faults' = 0, job.kind # "backfill", Place,
         NEW l \in Levels, book'[l] > book[l]
  PROVE  book'[l] <= 2
<1>1. /\ pc = "placing" /\ l = job.lvl
      /\ job.side = SideAt(job.lvl, price) /\ book'[l] = book[l] + 1
  <2>1. book[l] \in Nat
    BY DEF TypeInv, ExchangeTypes
  <2> QED BY <2>1, CalmPlaced
<1>2. job.kind \in {"level", "counter"}
  BY <1>1 DEF TypeInv, WorkTypes, Phases, Jobs, Calm, NonePending, Answering
<1>3. book[l] <= 1
  BY <1>1, <1>2 DEF Calm, BookCalm, Answering
<1> QED BY <1>1, <1>3 DEF TypeInv, ExchangeTypes

\* As long as nothing has gone wrong no tick leaves a level with a third order,
\* for any grid, however often the market crosses it and whatever a backfill has
\* left there.
THEOREM TicksPlaceNoThird == Spec => TicksAddNoThird
<1>1. Init => TypeInv /\ (faults = 0 => Calm)
  BY TypeInit, CalmInit
<1>2. TypeInv /\ (faults = 0 => Calm) /\ [Next]_vars => (TypeInv /\ (faults = 0 => Calm))'
  BY TypeStep, CalmStep
<1>3. TypeInv /\ (faults = 0 => Calm) /\ [Next]_vars =>
        [faults' = 0 /\ job.kind # "backfill" =>
           \A l \in Levels : book'[l] > book[l] => book'[l] <= 2]_vars
  <2> SUFFICES ASSUME TypeInv, faults = 0 => Calm, Next, faults' = 0,
                      job.kind # "backfill", NEW l \in Levels, book'[l] > book[l]
               PROVE  book'[l] <= 2
    OBVIOUS
  <2> QED BY OnlyPlaceAdds, FaultsRemain, NoThird
<1> QED BY <1>1, <1>2, <1>3, PTL DEF Spec, TicksAddNoThird
=============================================================================
