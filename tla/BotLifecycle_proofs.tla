------------------------ MODULE BotLifecycle_proofs ------------------------
(***************************************************************************)
(* Proofs about BotLifecycle, for any number of starts, pauses, levels and *)
(* instances: types, no instance left behind a start that failed, no grid  *)
(* order before the inventory, and no second purchase.                     *)
(***************************************************************************)
EXTENDS BotLifecycle, TLAPS

StarterTypes ==
  /\ spc \in [Starters -> {"idle", "orders", "position", "register", "resume",
                          "prepare", "purchase", "place", "write"}]
  /\ mine \in [Starters -> Insts \union {None}]
  /\ seen \in [Starters -> BOOLEAN]
  /\ todo \in [Starters -> SUBSET Levels]

EngineTypes ==
  /\ rowStatus \in {"paused", "running"}
  /\ reg \in Insts \union {None}
  /\ made \in 0..MaxInst
  /\ abort \subseteq Insts
  /\ boot \subseteq Insts

ExchangeTypes ==
  /\ orders \in [Levels -> 0..MaxCopies]
  /\ bought \in 0..MaxCopies

MonitorTypes ==
  /\ ppc \in [Pausers -> {"idle", "cancel", "drop"}]
  /\ pauses \in [Pausers -> 0..MaxPauses]
  /\ tickAt \in [Insts -> {"idle", "begun", "placing"}]
  /\ missing \in [Insts -> SUBSET Levels]
  /\ recent \in [Insts -> SUBSET Levels]
  /\ off \in BOOLEAN

\* A start that has an instance is past the registration.
Past == {"resume", "prepare", "purchase", "place", "write"}

TypeInv ==
  /\ StarterTypes /\ EngineTypes /\ ExchangeTypes /\ MonitorTypes
  /\ \A s \in Starters : spc[s] \in Past => mine[s] \in Insts

LEMMA TypeInvIsTypeOK == TypeInv => StartTypeOK
  BY DEF TypeInv, StartTypeOK, StarterTypes, EngineTypes, ExchangeTypes, MonitorTypes

LEMMA TypeInit == StartInit => TypeInv
<1> SUFFICES ASSUME StartInit PROVE TypeInv
  OBVIOUS
<1>1. StarterTypes /\ \A s \in Starters : spc[s] \notin Past
  BY DEF StartInit, StarterTypes, Past
<1>2. EngineTypes /\ ExchangeTypes
  BY LifecycleAssumption DEF StartInit, EngineTypes, ExchangeTypes
<1>3. MonitorTypes
  <2>1. pauses \in [Pausers -> 0..MaxPauses]
    BY LifecycleAssumption DEF StartInit
  <2>2. missing \in [Insts -> SUBSET Levels] /\ recent \in [Insts -> SUBSET Levels]
    BY DEF StartInit
  <2> QED BY <2>1, <2>2 DEF StartInit, MonitorTypes
<1> QED BY <1>1, <1>2, <1>3 DEF TypeInv

\* Counting orders and purchases stays within the bound, and never forgets.
LEMMA CappedTyped ==
  ASSUME NEW n \in 0..MaxCopies
  PROVE  Capped(n) \in 0..MaxCopies /\ Capped(n) > 0 /\ (n > 0 => Capped(n) > 0)
  BY LifecycleAssumption DEF Capped

LEMMA AddTyped ==
  ASSUME ExchangeTypes, NEW l \in Levels, Add(l)
  PROVE  orders' \in [Levels -> 0..MaxCopies]
<1>1. Capped(orders[l]) \in 0..MaxCopies
  BY CappedTyped DEF ExchangeTypes
<1> QED BY <1>1 DEF Add, ExchangeTypes

LEMMA ReturnTypes ==
  ASSUME TypeInv, NEW s \in Starters, Return(s)
  PROVE  /\ StarterTypes'
         /\ \A t \in Starters : spc'[t] \in Past => mine'[t] \in Insts
<1>1. StarterTypes'
  BY DEF TypeInv, StarterTypes, Return, StartGoto, None
<1> QED BY <1>1 DEF TypeInv, StarterTypes, Return, StartGoto, Past

LEMMA StartFailsTypes ==
  ASSUME TypeInv, NEW s \in Starters, StartFails(s)
  PROVE  /\ StarterTypes' /\ EngineTypes'
         /\ \A t \in Starters : spc'[t] \in Past => mine'[t] \in Insts
<1>1. EngineTypes'
  BY DEF TypeInv, EngineTypes, StartFails, None
<1> QED BY <1>1, ReturnTypes DEF StartFails

\* A step that moves s to a label that needs no new instance.
LEMMA GotoTypes ==
  ASSUME TypeInv, NEW s \in Starters,
         NEW l \in {"orders", "position", "register", "resume", "prepare",
                    "purchase", "place", "write"},
         StartGoto(s, l), UNCHANGED mine, seen' \in [Starters -> BOOLEAN],
         todo' \in [Starters -> SUBSET Levels],
         l \in Past => spc[s] \in Past
  PROVE  /\ StarterTypes'
         /\ \A t \in Starters : spc'[t] \in Past => mine'[t] \in Insts
  BY DEF TypeInv, StarterTypes, StartGoto, Past

LEMMA StarterStep ==
  ASSUME TypeInv, NEW s \in Starters, StartBegin(s) \/ Starter(s)
  PROVE  TypeInv'
<1> DEFINE Owned == \A t \in Starters : spc'[t] \in Past => mine'[t] \in Insts
<1>1. CASE StartBegin(s)
  <2>1. StarterTypes' /\ Owned
    BY <1>1, GotoTypes DEF StartBegin, TypeInv, StarterTypes, Past
  <2> QED BY <1>1, <2>1 DEF StartBegin, TypeInv, EngineTypes, ExchangeTypes,
             MonitorTypes, engine, exposure, pausers, ticks
<1>2. CASE ReadOrders(s)
  <2>1. StarterTypes' /\ EngineTypes' /\ Owned
    <3>1. CASE StartFails(s)
      BY <3>1, StartFailsTypes
    <3>2. CASE ~StartFails(s)
      BY <1>2, <3>2, GotoTypes
      DEF ReadOrders, TypeInv, StarterTypes, EngineTypes, engine, LiveGrid, Past
    <3> QED BY <3>1, <3>2
  <2> QED BY <1>2, <2>1 DEF ReadOrders, TypeInv, ExchangeTypes, MonitorTypes,
             exposure, pausers, ticks
<1>3. CASE ReadPosition(s)
  <2>1. StarterTypes' /\ EngineTypes' /\ Owned
    <3>1. CASE StartFails(s)
      BY <3>1, StartFailsTypes
    <3>2. CASE ~StartFails(s)
      <4>1. OwnState(s) \in BOOLEAN
        BY DEF OwnState, TypeInv, StarterTypes
      <4> QED BY <1>3, <3>2, <4>1, GotoTypes
              DEF ReadPosition, TypeInv, StarterTypes, EngineTypes, engine, Past
    <3> QED BY <3>1, <3>2
  <2> QED BY <1>3, <2>1 DEF ReadPosition, TypeInv, ExchangeTypes, MonitorTypes,
             exposure, pausers, ticks
<1>4. CASE Register(s)
  <2>1. made + 1 \in Insts
    BY <1>4, LifecycleAssumption DEF Register, TypeInv, EngineTypes, Insts
  <2>2. StarterTypes' /\ Owned
    BY <1>4, <2>1 DEF Register, StartGoto, TypeInv, StarterTypes, Past
  <2>3. EngineTypes'
    BY <1>4, <2>1, LifecycleAssumption DEF Register, TypeInv, EngineTypes, Insts
  <2> QED BY <1>4, <2>2, <2>3 DEF Register, TypeInv, ExchangeTypes, MonitorTypes,
             exposure, pausers, ticks
<1>5. CASE Resume(s)
  <2>1. StarterTypes' /\ EngineTypes' /\ Owned
    <3>1. CASE StartFails(s)
      BY <3>1, StartFailsTypes
    <3>2. CASE ~StartFails(s)
      BY <1>5, <3>2, GotoTypes
      DEF Resume, TypeInv, StarterTypes, EngineTypes, engine, Past
    <3> QED BY <3>1, <3>2
  <2> QED BY <1>5, <2>1 DEF Resume, TypeInv, ExchangeTypes, MonitorTypes,
             exposure, pausers, ticks
<1>6. CASE Prepare(s)
  <2>1. StarterTypes' /\ EngineTypes' /\ Owned
    <3>1. CASE StartFails(s)
      BY <3>1, StartFailsTypes
    <3>2. CASE ~StartFails(s)
      <4>1. mine[s] \in Insts
        BY <1>6 DEF Prepare, TypeInv, Past
      <4> QED BY <1>6, <3>2, <4>1, GotoTypes
              DEF Prepare, TypeInv, StarterTypes, EngineTypes, Past
    <3> QED BY <3>1, <3>2
  <2> QED BY <1>6, <2>1 DEF Prepare, TypeInv, ExchangeTypes, MonitorTypes,
             exposure, pausers, ticks
<1>7. CASE Purchase(s)
  <2>1. StarterTypes' /\ EngineTypes' /\ Owned
    <3>1. CASE StartFails(s)
      BY <3>1, StartFailsTypes
    <3>2. CASE ~StartFails(s)
      <4>1. todo' \in [Starters -> SUBSET Levels]
        BY <1>7, <3>2 DEF Purchase, PurchaseFails, TypeInv, StarterTypes
      <4> QED BY <1>7, <3>2, <4>1, GotoTypes
              DEF Purchase, PurchaseFails, TypeInv, StarterTypes, EngineTypes,
                  engine, Past
    <3> QED BY <3>1, <3>2
  <2>2. bought' \in 0..MaxCopies
    BY <1>7, CappedTyped DEF Purchase, TypeInv, ExchangeTypes
  <2> QED BY <1>7, <2>1, <2>2 DEF Purchase, TypeInv, ExchangeTypes, MonitorTypes,
             pausers, ticks
<1>8. CASE PlaceLevel(s)
  <2>1. CASE UNCHANGED <<orders, engine, mine, seen, todo, recent>> /\ StartGoto(s, "write")
    <3>1. StarterTypes' /\ Owned
      BY <1>8, <2>1, GotoTypes DEF PlaceLevel, TypeInv, StarterTypes, Past
    <3> QED BY <1>8, <2>1, <3>1 DEF PlaceLevel, TypeInv, EngineTypes, ExchangeTypes,
               MonitorTypes, engine, pausers
  <2>2. ASSUME NEW l \in todo[s], NotePlaced(mine[s], l),
               \/ /\ Add(l)
                  /\ todo' = [todo EXCEPT ![s] = @ \ {l}]
                  /\ UNCHANGED <<engine, spc, mine, seen>>
               \/ StartFails(s) /\ (Add(l) \/ UNCHANGED orders)
        PROVE  TypeInv'
    <3>1. l \in Levels /\ mine[s] \in Insts
      BY <1>8, <2>2 DEF PlaceLevel, TypeInv, StarterTypes, Past
    <3>2. orders' \in [Levels -> 0..MaxCopies]
      BY <2>2, <3>1, AddTyped DEF TypeInv, ExchangeTypes
    <3>3. recent' \in [Insts -> SUBSET Levels]
      BY <2>2, <3>1 DEF NotePlaced, TypeInv, MonitorTypes
    <3>4. StarterTypes' /\ EngineTypes' /\ Owned
      <4>1. CASE StartFails(s)
        BY <4>1, StartFailsTypes
      <4>2. CASE ~StartFails(s)
        BY <2>2, <4>2 DEF TypeInv, StarterTypes, EngineTypes, engine
      <4> QED BY <4>1, <4>2
    <3> QED BY <1>8, <3>2, <3>3, <3>4 DEF PlaceLevel, TypeInv, ExchangeTypes,
               MonitorTypes, pausers
  <2> QED BY <1>8, <2>1, <2>2 DEF PlaceLevel
<1>9. CASE WriteRunning(s)
  <2>1. StarterTypes' /\ Owned
    BY <1>9, ReturnTypes DEF WriteRunning
  <2> QED BY <1>9, <2>1 DEF WriteRunning, TypeInv, EngineTypes, ExchangeTypes,
             MonitorTypes, exposure, pausers, ticks
<1> QED BY <1>1, <1>2, <1>3, <1>4, <1>5, <1>6, <1>7, <1>8, <1>9 DEF Starter

LEMMA PauserStep ==
  ASSUME TypeInv, NEW p \in Pausers, PauseBegin(p) \/ PauseCancel(p) \/ PauseDrop(p)
  PROVE  TypeInv'
<1> USE DEF TypeInv
<1>1. StarterTypes' /\ \A s \in Starters : spc'[s] \in Past => mine'[s] \in Insts
  BY DEF PauseBegin, PauseCancel, PauseDrop, StarterTypes, starters
<1>2. EngineTypes'
  BY DEF PauseBegin, PauseCancel, PauseDrop, EngineTypes, engine, None
<1>3. ExchangeTypes'
  BY LifecycleAssumption
  DEF PauseBegin, PauseCancel, PauseDrop, ExchangeTypes, exposure
<1>4. MonitorTypes'
  <2>1. CASE PauseBegin(p)
    <3>1. pauses[p] + 1 \in 0..MaxPauses
      BY <2>1, LifecycleAssumption DEF PauseBegin, MonitorTypes
    <3> QED BY <2>1, <3>1 DEF PauseBegin, MonitorTypes, ticks
  <2>2. CASE PauseCancel(p) \/ PauseDrop(p)
    BY <2>2 DEF PauseCancel, PauseDrop, MonitorTypes, ticks
  <2> QED BY <2>1, <2>2
<1> QED BY <1>1, <1>2, <1>3, <1>4

LEMMA MonitorStep ==
  ASSUME TypeInv, NEW i \in Insts,
         \/ BootstrapOver(i) \/ TickBegin(i) \/ TickRead(i) \/ TickPlace(i)
         \/ TickEnd(i) \/ RecentExpires(i)
  PROVE  TypeInv'
<1> USE DEF TypeInv
<1>1. StarterTypes' /\ \A s \in Starters : spc'[s] \in Past => mine'[s] \in Insts
  BY DEF BootstrapOver, TickBegin, TickRead, TickPlace, TickEnd, RecentExpires,
         StarterTypes, starters
<1>2. EngineTypes'
  BY DEF BootstrapOver, TickBegin, TickRead, TickPlace, TickEnd, RecentExpires,
         EngineTypes, engine
<1>3. CASE TickPlace(i)
  <2>1. PICK l \in missing[i] :
           /\ \/ Add(l) /\ NotePlaced(i, l)
              \/ UNCHANGED <<orders, recent>>
           /\ missing' = [missing EXCEPT ![i] = @ \ {l}]
    BY <1>3 DEF TickPlace
  <2>2. l \in Levels
    BY <2>1 DEF MonitorTypes
  <2>3. orders' \in [Levels -> 0..MaxCopies]
    BY <2>1, <2>2, AddTyped DEF ExchangeTypes
  <2>4. recent' \in [Insts -> SUBSET Levels]
    BY <2>1, <2>2 DEF NotePlaced, MonitorTypes
  <2> QED BY <1>1, <1>2, <1>3, <2>1, <2>3, <2>4
          DEF TickPlace, ExchangeTypes, MonitorTypes, pausers
<1>4. CASE ~TickPlace(i)
  BY <1>1, <1>2, <1>4 DEF BootstrapOver, TickBegin, TickRead, TickEnd,
     RecentExpires, ExchangeTypes, MonitorTypes, exposure, ticks, pausers
<1> QED BY <1>3, <1>4

LEMMA OutsideStep ==
  ASSUME TypeInv, (\E l \in Levels : GridOrderFills(l)) \/ EngineRestart \/ UNCHANGED startVars
  PROVE  TypeInv'
<1> USE DEF TypeInv
<1>1. ASSUME NEW l \in Levels, GridOrderFills(l) PROVE TypeInv'
  <2>1. orders[l] - 1 \in 0..MaxCopies
    BY <1>1, LifecycleAssumption DEF GridOrderFills, ExchangeTypes
  <2> QED BY <1>1, <2>1 DEF GridOrderFills, StarterTypes, EngineTypes, ExchangeTypes,
             MonitorTypes, engine, starters, pausers, ticks
<1>2. CASE EngineRestart
  <2>1. made' \in 0..MaxInst /\ reg' \in Insts \union {None}
    BY <1>2, LifecycleAssumption DEF EngineRestart, EngineTypes, Insts
  <2>2. StarterTypes' /\ \A s \in Starters : spc'[s] \in Past => mine'[s] \in Insts
    BY <1>2 DEF EngineRestart, StarterTypes, Past
  <2>3. MonitorTypes'
    BY <1>2 DEF EngineRestart, MonitorTypes
  <2> QED BY <1>2, <2>1, <2>2, <2>3 DEF EngineRestart, EngineTypes, ExchangeTypes, exposure
<1>3. CASE UNCHANGED startVars
  BY <1>3 DEF startVars, StarterTypes, EngineTypes, ExchangeTypes, MonitorTypes
<1> QED BY <1>1, <1>2, <1>3

LEMMA TypeStep == TypeInv /\ [StartNext]_startVars => TypeInv'
<1> SUFFICES ASSUME TypeInv, [StartNext]_startVars PROVE TypeInv'
  OBVIOUS
<1> QED BY StarterStep, PauserStep, MonitorStep, OutsideStep DEF StartNext

\* Every variable keeps its type.
THEOREM TypeCorrect == StartSpec => []StartTypeOK
  BY TypeInit, TypeStep, TypeInvIsTypeOK, PTL DEF StartSpec

----------------------------------------------------------------------------
(* A registered instance of a bot that is not running belongs to a start   *)
(* that is still under way.                                                *)

OwnedByStart ==
  reg # None /\ rowStatus # "running" => \E s \in Starters : spc[s] \in Past

LEMMA OwnedStep ==
  ASSUME TypeInv, OwnedByStart, [StartNext]_startVars
  PROVE  OwnedByStart'
<1> USE DEF OwnedByStart
<1>1. ASSUME NEW s \in Starters, StartBegin(s) \/ Starter(s)
      PROVE  OwnedByStart'
  <2>1. CASE StartFails(s)
    BY <2>1 DEF StartFails
  <2>2. CASE WriteRunning(s)
    BY <2>2 DEF WriteRunning
  <2>3. CASE ~StartFails(s) /\ ~WriteRunning(s)
    <3>1. \A t \in Starters \ {s} : spc'[t] = spc[t]
      BY <1>1, <2>3 DEF StartBegin, Starter, ReadOrders, ReadPosition, Register,
         Resume, Prepare, Purchase, PurchaseFails, PlaceLevel, StartGoto, TypeInv, StarterTypes
    <3>2. spc[s] \in Past => spc'[s] \in Past
      BY <1>1, <2>3 DEF StartBegin, Starter, ReadOrders, ReadPosition, Register,
         Resume, Prepare, Purchase, PurchaseFails, PlaceLevel, StartGoto, TypeInv,
         StarterTypes, Past
    <3>3. UNCHANGED <<rowStatus, reg>> \/ spc'[s] \in Past
      BY <1>1, <2>3 DEF StartBegin, Starter, ReadOrders, ReadPosition, Register,
         Resume, Prepare, Purchase, PurchaseFails, PlaceLevel, StartGoto, TypeInv,
         StarterTypes, Past, engine
    <3> QED BY <3>1, <3>2, <3>3
  <2> QED BY <2>1, <2>2, <2>3
<1>2. ASSUME NEW p \in Pausers, PauseBegin(p) \/ PauseCancel(p) \/ PauseDrop(p)
      PROVE  OwnedByStart'
  BY <1>2 DEF PauseBegin, PauseCancel, PauseDrop, starters, engine
<1>3. ASSUME NEW i \in Insts,
             \/ BootstrapOver(i) \/ TickBegin(i) \/ TickRead(i) \/ TickPlace(i)
             \/ TickEnd(i) \/ RecentExpires(i)
      PROVE  OwnedByStart'
  BY <1>3 DEF BootstrapOver, TickBegin, TickRead, TickPlace, TickEnd,
     RecentExpires, starters, engine
<1>4. ASSUME NEW l \in Levels, GridOrderFills(l) PROVE OwnedByStart'
  BY <1>4 DEF GridOrderFills, starters, engine
<1>5. CASE EngineRestart
  BY <1>5 DEF EngineRestart
<1>6. CASE UNCHANGED startVars
  BY <1>6 DEF startVars
<1> QED BY <1>1, <1>2, <1>3, <1>4, <1>5, <1>6 DEF StartNext

\* Whatever starts, pauses, ticks, failures and restarts interleave, once no
\* start is in flight the monitor has no instance of a bot that is not running.
THEOREM NoStrayInstance == StartSpec => []NoInstanceUnlessRunning
<1>1. StartInit => OwnedByStart
  BY DEF StartInit, OwnedByStart
<1>2. TypeInv /\ OwnedByStart => NoInstanceUnlessRunning
  BY DEF TypeInv, StarterTypes, OwnedByStart, NoInstanceUnlessRunning, Starting, Past
<1>3. TypeInv /\ OwnedByStart /\ [StartNext]_startVars => OwnedByStart'
  BY OwnedStep
<1> QED BY <1>1, <1>2, <1>3, TypeInit, TypeStep, PTL DEF StartSpec

----------------------------------------------------------------------------
(* The inventory comes first.  Whoever may place a grid order knows that   *)
(* the purchase was made: the start that is past it, the resume that saw   *)
(* orders or a position, the tick of an instance that is not in bootstrap. *)

StartBacked(s) ==
  /\ seen[s] => bought > 0
  /\ spc[s] \in {"resume", "place", "write"} => bought > 0
  /\ spc[s] = "purchase" => mine[s] \in boot

InstanceBacked ==
  reg # None => \/ bought > 0
                \/ \E s \in Starters : mine[s] = reg /\ spc[s] \in {"prepare", "purchase"}

BackedInv ==
  /\ \A s \in Starters : StartBacked(s)
  /\ InstanceBacked
  /\ rowStatus = "running" => bought > 0
  /\ \A i \in Insts : tickAt[i] # "idle" => bought > 0
  /\ GridIsBacked

\* Once inventory is bought, no later step needs an argument.
LEMMA BoughtStays ==
  ASSUME TypeInv, bought > 0, [StartNext]_startVars
  PROVE  bought' > 0
<1>1. Capped(bought) > 0
  BY CappedTyped DEF TypeInv, ExchangeTypes
<1> QED BY <1>1 DEF StartNext, startVars, StartBegin, Starter, ReadOrders, ReadPosition,
        Register, Resume, Prepare, Purchase, PlaceLevel, WriteRunning, PauseBegin,
        PauseCancel, PauseDrop, BootstrapOver, TickBegin, TickRead, TickPlace,
        TickEnd, RecentExpires, GridOrderFills, EngineRestart, exposure

LEMMA BackedOnceBought ==
  ASSUME TypeInv, TypeInv', bought' > 0,
         \A s \in Starters : spc'[s] = "purchase" => mine'[s] \in boot'
  PROVE  BackedInv'
  BY DEF BackedInv, StartBacked, InstanceBacked, GridIsBacked

\* A start in its purchase keeps bootstrapInProgress raised.
LEMMA BootStep ==
  ASSUME TypeInv, [StartNext]_startVars,
         \A s \in Starters : spc[s] = "purchase" => mine[s] \in boot
  PROVE  \A s \in Starters : spc'[s] = "purchase" => mine'[s] \in boot'
<1> USE DEF TypeInv, StarterTypes
<1>1. ASSUME NEW s \in Starters, StartBegin(s) \/ Starter(s)
      PROVE  \A t \in Starters : spc'[t] = "purchase" => mine'[t] \in boot'
  <2>1. boot \subseteq boot'
    BY <1>1 DEF StartBegin, Starter, ReadOrders, ReadPosition, Register, Resume,
       Prepare, Purchase, PurchaseFails, PlaceLevel, WriteRunning, StartFails, engine
  <2>2. \A t \in Starters \ {s} : spc'[t] = spc[t] /\ mine'[t] = mine[t]
    BY <1>1 DEF StartBegin, Starter, ReadOrders, ReadPosition, Register, Resume,
       Prepare, Purchase, PurchaseFails, PlaceLevel, WriteRunning, StartFails, Return, StartGoto
  <2>3. spc'[s] = "purchase" => mine'[s] \in boot'
    BY <1>1 DEF StartBegin, Starter, ReadOrders, ReadPosition, Register, Resume,
       Prepare, Purchase, PurchaseFails, PlaceLevel, WriteRunning, StartFails, Return, StartGoto
  <2> QED BY <2>1, <2>2, <2>3
<1>2. ASSUME NEW i \in Insts, BootstrapOver(i)
      PROVE  \A t \in Starters : spc'[t] = "purchase" => mine'[t] \in boot'
  BY <1>2 DEF BootstrapOver, starters
<1>3. CASE \/ \E p \in Pausers : PauseBegin(p) \/ PauseCancel(p) \/ PauseDrop(p)
           \/ \E i \in Insts : \/ TickBegin(i) \/ TickRead(i) \/ TickPlace(i)
                              \/ TickEnd(i) \/ RecentExpires(i)
           \/ \E l \in Levels : GridOrderFills(l)
           \/ UNCHANGED startVars
  BY <1>3 DEF PauseBegin, PauseCancel, PauseDrop, TickBegin, TickRead, TickPlace,
     TickEnd, RecentExpires, GridOrderFills, starters, engine, startVars
<1>4. CASE EngineRestart
  BY <1>4 DEF EngineRestart
<1> QED BY <1>1, <1>2, <1>3, <1>4 DEF StartNext

LEMMA BackedStep ==
  ASSUME "earlyTick" \notin Overlap, TypeInv, BackedInv, [StartNext]_startVars
  PROVE  BackedInv'
<1>1. \A s \in Starters : spc'[s] = "purchase" => mine'[s] \in boot'
  BY BootStep DEF BackedInv, StartBacked
<1>2. CASE bought' > 0
  BY <1>1, <1>2, TypeStep, BackedOnceBought
<1>3. CASE ~(bought' > 0)
  <2>1. bought = 0
    BY <1>3, BoughtStays DEF TypeInv, ExchangeTypes
  <2>2. /\ \A s \in Starters : ~seen[s] /\ spc[s] \notin {"resume", "place", "write"}
        /\ rowStatus # "running"
        /\ \A i \in Insts : tickAt[i] = "idle"
        /\ \A l \in Levels : ~(orders[l] > 0)
        /\ reg # None => \E s \in Starters :
                            mine[s] = reg /\ spc[s] \in {"prepare", "purchase"}
    BY <2>1 DEF BackedInv, StartBacked, InstanceBacked, GridIsBacked, LiveGrid
  <2>3. ASSUME NEW s \in Starters, StartBegin(s) \/ Starter(s)
        PROVE  BackedInv'
    <3>1. UNCHANGED <<orders, rowStatus, tickAt>>
      BY <2>3, <2>2, <1>3, <2>1, CappedTyped
      DEF StartBegin, Starter, ReadOrders, ReadPosition, Register, Resume, Prepare,
          Purchase, PurchaseFails, PlaceLevel, WriteRunning, StartFails, exposure,
          engine, ticks, TypeInv, ExchangeTypes
    <3>2. \A t \in Starters \ {s} :
             spc'[t] = spc[t] /\ mine'[t] = mine[t] /\ seen'[t] = seen[t]
      BY <2>3 DEF StartBegin, Starter, ReadOrders, ReadPosition, Register, Resume,
         Prepare, Purchase, PurchaseFails, PlaceLevel, WriteRunning, StartFails, Return,
         StartGoto, TypeInv, StarterTypes
    <3>3. ~seen'[s] /\ spc'[s] \notin {"resume", "place", "write"}
      <4>1. ~LiveGrid /\ ~OwnState(s)
        BY <2>1, <2>2 DEF LiveGrid, OwnState
      <4>2. ~(Capped(bought) = bought')
        BY <1>3, CappedTyped DEF TypeInv, ExchangeTypes
      <4> QED BY <2>3, <2>2, <4>1, <4>2
              DEF StartBegin, Starter, ReadOrders, ReadPosition, Register, Resume,
                  Prepare, Purchase, PurchaseFails, PlaceLevel, WriteRunning, StartFails,
                  Return, StartGoto, TypeInv, StarterTypes
    <3>4. reg' # None => \E t \in Starters :
                           mine'[t] = reg' /\ spc'[t] \in {"prepare", "purchase"}
      <4>1. CASE StartFails(s)
        BY <4>1 DEF StartFails
      <4>2. CASE Register(s)
        <5>1. mine'[s] = reg' /\ spc'[s] = "prepare"
          BY <4>2, <2>2 DEF Register, StartGoto, TypeInv, StarterTypes
        <5> QED BY <5>1
      <4>3. CASE ~StartFails(s) /\ ~Register(s)
        <5>1. reg' = reg /\ mine' = mine
          BY <2>3, <4>3, <2>2, <3>3, <1>3, <2>1
          DEF StartBegin, Starter, ReadOrders, ReadPosition, Resume, Prepare,
              Purchase, PurchaseFails, PlaceLevel, WriteRunning, engine
        <5>2. spc[s] \in {"prepare", "purchase"} => spc'[s] \in {"prepare", "purchase"}
          BY <2>3, <4>3, <3>3
          DEF StartBegin, Starter, ReadOrders, ReadPosition, Resume, Prepare,
              Purchase, PurchaseFails, PlaceLevel, WriteRunning, StartGoto, TypeInv, StarterTypes
        <5> QED BY <5>1, <5>2, <2>2, <3>2
      <4> QED BY <4>1, <4>2, <4>3
    <3> QED BY <1>1, <2>2, <3>1, <3>2, <3>3, <3>4
            DEF BackedInv, StartBacked, InstanceBacked, GridIsBacked, LiveGrid
  <2>4. ASSUME NEW p \in Pausers, PauseBegin(p) \/ PauseCancel(p) \/ PauseDrop(p)
        PROVE  BackedInv'
    BY <1>1, <2>2, <2>4 DEF PauseBegin, PauseCancel, PauseDrop, starters, engine,
       ticks, exposure, BackedInv, StartBacked, InstanceBacked, GridIsBacked, LiveGrid
  <2>5. ASSUME NEW i \in Insts,
               \/ BootstrapOver(i) \/ TickBegin(i) \/ TickRead(i) \/ TickPlace(i)
               \/ TickEnd(i) \/ RecentExpires(i)
        PROVE  BackedInv'
    <3>1. CASE TickBegin(i)
      <4>1. i # None
        BY DEF Insts, None
      <4>2. \A s \in Starters : mine[s] = i => spc[s] \notin {"prepare", "purchase"}
        BY <3>1 DEF TickBegin, BackedInv, StartBacked
      <4> QED BY <2>2, <3>1, <4>1, <4>2 DEF TickBegin
    <3>2. CASE BootstrapOver(i) \/ RecentExpires(i)
      BY <1>1, <2>2, <3>2 DEF BootstrapOver, RecentExpires, starters, engine, ticks,
         exposure, BackedInv, StartBacked, InstanceBacked, GridIsBacked, LiveGrid
    <3> QED BY <2>2, <2>5, <3>1, <3>2 DEF TickRead, TickPlace, TickEnd
  <2>6. CASE EngineRestart
    BY <1>1, <2>2, <2>6 DEF EngineRestart, exposure, BackedInv, StartBacked,
       InstanceBacked, GridIsBacked, LiveGrid
  <2>7. CASE (\E l \in Levels : GridOrderFills(l)) \/ UNCHANGED startVars
    BY <1>1, <2>2, <2>7 DEF GridOrderFills, startVars, BackedInv, StartBacked,
       InstanceBacked, GridIsBacked, LiveGrid
  <2> QED BY <2>3, <2>4, <2>5, <2>6, <2>7 DEF StartNext
<1> QED BY <1>2, <1>3

\* No grid order is live before the inventory is bought, as long as no tick
\* gets in between the registration of an instance and its bootstrap.
THEOREM GridBacked ==
  ASSUME "earlyTick" \notin Overlap
  PROVE  StartSpec => []GridIsBacked
<1>1. StartInit => BackedInv
  BY DEF StartInit, BackedInv, StartBacked, InstanceBacked, GridIsBacked, LiveGrid
<1>2. TypeInv /\ BackedInv /\ [StartNext]_startVars => BackedInv'
  BY BackedStep
<1>3. BackedInv => GridIsBacked
  BY DEF BackedInv
<1> QED BY <1>1, <1>2, <1>3, TypeInit, TypeStep, PTL DEF StartSpec

----------------------------------------------------------------------------
(* One start at a time: a start heads for the purchase only when it read an *)
(* empty account, and nobody else buys.                                     *)

BuysOnce ==
  /\ NeverDoubles
  /\ \A s \in Starters :
        spc[s] \in {"prepare", "purchase"} \/ (spc[s] = "register" /\ ~seen[s])
          => bought = 0

LEMMA BuysOnceStep ==
  ASSUME \A s, t \in Starters : s = t, TypeInv, BuysOnce, [StartNext]_startVars
  PROVE  BuysOnce'
<1> USE DEF BuysOnce, NeverDoubles
<1>1. ASSUME NEW s \in Starters, StartBegin(s) \/ Starter(s)
      PROVE  BuysOnce'
  <2>1. CASE Purchase(s)
    <3>1. bought = 0 /\ Capped(bought) <= 1
      BY <2>1 DEF Purchase, Capped
    <3>2. spc'[s] \in {"place", "idle"}
      BY <2>1 DEF Purchase, PurchaseFails, StartFails, Return, StartGoto, TypeInv,
         StarterTypes
    <3> QED BY <2>1, <3>1, <3>2 DEF Purchase
  <2>2. CASE ~Purchase(s)
    <3>1. UNCHANGED bought
      BY <1>1, <2>2 DEF StartBegin, Starter, ReadOrders, ReadPosition, Register,
         Resume, Prepare, PlaceLevel, WriteRunning, exposure
    <3>2. bought >= 0 /\ bought \in Int
      BY LifecycleAssumption DEF TypeInv, ExchangeTypes
    <3> DEFINE Buying == \/ spc[s] \in {"prepare", "purchase"}
                         \/ spc[s] = "register" /\ ~seen[s]
    <3>3. Buying' => bought = 0
      <4>1. CASE ReadPosition(s)
        <5>1. spc'[s] \in {"idle", "register"}
          BY <4>1 DEF ReadPosition, StartFails, Return, StartGoto, TypeInv, StarterTypes
        <5>2. spc'[s] = "register" => seen'[s] = OwnState(s)
          BY <4>1 DEF ReadPosition, StartFails, Return, StartGoto, TypeInv, StarterTypes
        <5>3. ~OwnState(s) => bought = 0
          BY <3>2 DEF OwnState
        <5> QED BY <5>1, <5>2, <5>3
      <4>2. CASE Register(s) \/ Prepare(s)
        BY <4>2 DEF Register, Prepare, StartFails, Return, StartGoto, TypeInv, StarterTypes
      <4>3. CASE \/ StartBegin(s) \/ ReadOrders(s) \/ Resume(s) \/ PlaceLevel(s)
                 \/ WriteRunning(s)
        BY <4>3 DEF StartBegin, ReadOrders, Resume, PlaceLevel, WriteRunning, StartFails,
           Return, StartGoto, TypeInv, StarterTypes
      <4> QED BY <1>1, <2>2, <4>1, <4>2, <4>3 DEF Starter
    <3> QED BY <3>1, <3>3
  <2> QED BY <2>1, <2>2
<1>2. CASE \/ \E p \in Pausers : PauseBegin(p) \/ PauseCancel(p) \/ PauseDrop(p)
           \/ \E i \in Insts : \/ BootstrapOver(i) \/ TickBegin(i) \/ TickRead(i)
                              \/ TickPlace(i) \/ TickEnd(i) \/ RecentExpires(i)
           \/ \E l \in Levels : GridOrderFills(l)
           \/ UNCHANGED startVars
  BY <1>2 DEF PauseBegin, PauseCancel, PauseDrop, BootstrapOver, TickBegin, TickRead,
     TickPlace, TickEnd, RecentExpires, GridOrderFills, starters, exposure, startVars
<1>3. CASE EngineRestart
  BY <1>3 DEF EngineRestart, exposure
<1> QED BY <1>1, <1>2, <1>3 DEF StartNext

\* Starts that come one after the other buy the inventory at most once,
\* wherever the earlier ones failed or were interrupted.
THEOREM BuysAtMostOnce ==
  ASSUME \A s, t \in Starters : s = t
  PROVE  StartSpec => []NeverDoubles
<1>1. StartInit => BuysOnce
  BY DEF StartInit, BuysOnce, NeverDoubles
<1>2. TypeInv /\ BuysOnce /\ [StartNext]_startVars => BuysOnce'
  BY BuysOnceStep
<1>3. BuysOnce => NeverDoubles
  BY DEF BuysOnce
<1> QED BY <1>1, <1>2, <1>3, TypeInit, TypeStep, PTL DEF StartSpec
=============================================================================
