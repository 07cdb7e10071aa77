--------------------------- MODULE CloseBot_proofs ---------------------------
(***************************************************************************)
(* Proofs about CloseBot, for any closers, positions, bounds and polls:    *)
(* its variables keep their types, a bot written 'stopped' or deleted is   *)
(* flat, close orders never turn the position around, and one activation   *)
(* alone never stacks them.                                                *)
(***************************************************************************)
EXTENDS CloseBot, TLAPS

\* Where an activation is inside an attempt of the limit phase.
InAttempt == {"readFirst", "reread", "cancelPrevious", "place", "resolve", "poll"}

\* The bounds of one activation's counters at label p: n activations started,
\* attempt a, k polls done, id the close order it would cancel.
CountersAt(p, n, a, k, id) ==
  /\ p # "idle" => n >= 1
  /\ p \in {"idle", "cancelAll"} => a = 0
  /\ p \in InAttempt => a <= MaxReprice
  /\ p = "resolve" => k = 0
  /\ p \in {"poll", "marketPoll"} => k < Polls
  /\ p = "cancelRemnant" => id # NoOrder

Counters ==
  \A c \in Closers : CountersAt(pc[c], calls[c], attempt[c], polled[c], lastId[c])

\* Close orders always carry reduce_only.
AllReduceOnly == \A o \in closeOrders : o.ro = TRUE

ExchangeTyped ==
  /\ pos \in Int
  /\ \A o \in closeOrders : o \in [id : OrderIds, side : {"buy", "sell"},
                                   qty : Int, ro : BOOLEAN]
  /\ gridOrders \subseteq GridDeltas

RowTyped ==
  /\ status \in {"running", "paused", "stopped", "deleted"}
  /\ dbPos \in Int
  /\ escalation \in BOOLEAN
  /\ inMap \in BOOLEAN
  /\ tick \in BOOLEAN
  /\ del \in {"none", "checked", "verified"}

LocalsTyped ==
  /\ pc \in [Closers -> Labels]
  /\ calls \in [Closers -> 0..MaxCalls]
  /\ gap \in [Closers -> BOOLEAN]
  /\ attempt \in [Closers -> 0..(MaxReprice + 1)]
  /\ polled \in [Closers -> 0..Polls]
  /\ lastId \in [Closers -> OrderIds \union {NoOrder}]
  /\ size \in [Closers -> Int]

TypeInv ==
  ExchangeTyped /\ AllReduceOnly /\ RowTyped /\ LocalsTyped /\ Counters

\* An activation's own step leaves the others' locals alone.
OthersKept(c) ==
  \A d \in Closers \ {c} :
    /\ pc'[d] = pc[d] /\ calls'[d] = calls[d] /\ attempt'[d] = attempt[d]
    /\ polled'[d] = polled[d] /\ lastId'[d] = lastId[d]

----------------------------------------------------------------------------
\* The counters of the other activations hold after a step of c.
LEMMA CountersStep ==
  ASSUME Counters, NEW c \in Closers, OthersKept(c),
         CountersAt(pc'[c], calls'[c], attempt'[c], polled'[c], lastId'[c])
  PROVE  Counters'
  BY DEF Counters, OthersKept

\* What ends an activation keeps the types.
LEMMA FinishTypes ==
  ASSUME LocalsTyped, Counters, NEW c \in Closers, Finish(c), UNCHANGED calls
  PROVE  LocalsTyped' /\ Counters'
<1>1. LocalsTyped'
  BY ConstantsAssumption DEF LocalsTyped, Finish, Goto, Labels
<1>2. OthersKept(c)
  BY <1>1 DEF LocalsTyped, OthersKept, Finish, Goto
<1>3. CountersAt(pc'[c], calls'[c], attempt'[c], polled'[c], lastId'[c])
  BY DEF LocalsTyped, CountersAt, Finish, Goto, InAttempt
<1> QED BY <1>1, <1>2, <1>3, CountersStep

\* A step that only moves c to label l and leaves its locals alone.
LEMMA GotoTypes ==
  ASSUME LocalsTyped, Counters, NEW c \in Closers, NEW l \in Labels, Goto(c, l),
         UNCHANGED <<calls, gap, attempt, polled, lastId, size>>,
         CountersAt(l, calls[c], attempt[c], polled[c], lastId[c])
  PROVE  LocalsTyped' /\ Counters'
<1>1. LocalsTyped'
  BY DEF LocalsTyped, Goto
<1>2. OthersKept(c) /\ pc'[c] = l
  BY DEF LocalsTyped, OthersKept, Goto
<1> QED BY <1>1, <1>2, CountersStep

LEMMA ReadFailsTypes ==
  ASSUME TypeInv, NEW c \in Closers, ReadFails(c)
  PROVE  TypeInv'
<1>1. LocalsTyped' /\ Counters'
  BY FinishTypes DEF TypeInv, ReadFails, Throw
<1> QED BY <1>1 DEF TypeInv, ReadFails, ExchangeTyped, AllReduceOnly, RowTyped,
                    exchange, row

\* Cancelling only removes orders.
LEMMA CancelTypes ==
  ASSUME ExchangeTyped, AllReduceOnly, UNCHANGED pos,
         CancelAll \/ \E id \in OrderIds \union {NoOrder} : CancelOne(id)
  PROVE  ExchangeTyped' /\ AllReduceOnly'
  BY DEF CancelAll, CancelOne, ExchangeTyped, AllReduceOnly

LEMMA BeginTypes ==
  ASSUME TypeInv, NEW c \in Closers, Begin(c)
  PROVE  TypeInv'
<1> USE DEF TypeInv, Begin
<1>1. PICK l \in {"cancelAll", "readFirst"} : Goto(c, l)
  OBVIOUS
<1>2. LocalsTyped'
  <2>1. gap' \in [Closers -> BOOLEAN]
    BY DEF LocalsTyped, RowTyped
  <2>2. calls' \in [Closers -> 0..MaxCalls]
    <3>1. calls[c] + 1 \in 0..MaxCalls
      BY ConstantsAssumption DEF LocalsTyped
    <3> QED BY <3>1 DEF LocalsTyped
  <2>3. pc' \in [Closers -> Labels]
    BY <1>1 DEF LocalsTyped, Goto, Labels
  <2> QED BY <2>1, <2>2, <2>3 DEF LocalsTyped
<1>3. OthersKept(c)
  BY <1>1 DEF LocalsTyped, OthersKept, Goto
<1>4. CountersAt(pc'[c], calls'[c], attempt'[c], polled'[c], lastId'[c])
  <2>1. attempt[c] = 0 /\ calls'[c] >= 1
    BY DEF Counters, CountersAt, LocalsTyped
  <2> QED BY <1>1, <2>1, ConstantsAssumption
          DEF LocalsTyped, CountersAt, Goto, InAttempt
<1>5. ExchangeTyped' /\ AllReduceOnly' /\ RowTyped'
  BY DEF ExchangeTyped, AllReduceOnly, RowTyped, exchange
<1> QED BY <1>2, <1>3, <1>4, <1>5, CountersStep

LEMMA PauseInstanceTypes ==
  ASSUME TypeInv, NEW c \in Closers, PauseInstance(c)
  PROVE  TypeInv'
<1> USE DEF TypeInv, PauseInstance
<1>1. ExchangeTyped' /\ AllReduceOnly'
  BY CancelTypes
<1>2. RowTyped'
  BY DEF WriteRow, RowTyped
<1>3. CountersAt("readFirst", calls[c], attempt[c], polled[c], lastId[c])
  BY ConstantsAssumption DEF Counters, CountersAt, LocalsTyped, InAttempt
<1>4. LocalsTyped' /\ Counters'
  BY <1>3, GotoTypes DEF locals, Labels
<1> QED BY <1>1, <1>2, <1>4

LEMMA ReadFirstTypes ==
  ASSUME TypeInv, NEW c \in Closers, ReadFirst(c)
  PROVE  TypeInv'
<1>1. CASE ReadFails(c)
  BY <1>1, ReadFailsTypes
<1>2. CASE ~ReadFails(c)
  <2> USE <1>2 DEF TypeInv, ReadFirst
  <2>1. ExchangeTyped' /\ AllReduceOnly' /\ RowTyped'
    BY DEF ExchangeTyped, AllReduceOnly, RowTyped, exchange, row
  <2>2. PICK l \in {"writeStopped", "escalateRead", "reread"} : Goto(c, l)
    OBVIOUS
  <2>3. LocalsTyped'
    BY <2>2 DEF LocalsTyped, ExchangeTyped, Goto, Labels
  <2>4. OthersKept(c)
    BY <2>2 DEF LocalsTyped, OthersKept, Goto
  <2>5. CountersAt(l, calls[c], attempt[c], polled[c], lastId[c])
    BY DEF Counters, CountersAt, InAttempt
  <2>6. CountersAt(pc'[c], calls'[c], attempt'[c], polled'[c], lastId'[c])
    BY <2>2, <2>5 DEF LocalsTyped, Goto
  <2> QED BY <2>1, <2>3, <2>4, <2>6, CountersStep
<1> QED BY <1>1, <1>2

LEMMA RereadTypes ==
  ASSUME TypeInv, NEW c \in Closers, Reread(c)
  PROVE  TypeInv'
<1>1. CASE ReadFails(c)
  BY <1>1, ReadFailsTypes
<1>2. CASE ~ReadFails(c)
  <2> USE <1>2 DEF TypeInv, Reread
  <2>1. ExchangeTyped' /\ AllReduceOnly' /\ RowTyped'
    BY DEF ExchangeTyped, AllReduceOnly, RowTyped, exchange, row
  <2>2. PICK l \in {"writeStopped", "cancelRemnant", "cancelPrevious", "place"} :
           Goto(c, l) /\ (l = "cancelRemnant" => lastId[c] # NoOrder)
    BY DEF GotoFlattened
  <2>3. LocalsTyped'
    BY <2>2 DEF LocalsTyped, ExchangeTyped, Goto, Labels
  <2>4. OthersKept(c)
    BY <2>2 DEF LocalsTyped, OthersKept, Goto
  <2>5. CountersAt(l, calls[c], attempt[c], polled[c], lastId[c])
    BY <2>2 DEF Counters, CountersAt, InAttempt
  <2>6. CountersAt(pc'[c], calls'[c], attempt'[c], polled'[c], lastId'[c])
    BY <2>2, <2>5 DEF LocalsTyped, Goto
  <2> QED BY <2>1, <2>3, <2>4, <2>6, CountersStep
<1> QED BY <1>1, <1>2

\* Cancelling the activation's live order forgets its id and moves on.
LEMMA CancelStepTypes ==
  ASSUME TypeInv, NEW c \in Closers, NEW l \in {"place", "escalateRead"},
         CancelLive(c), Goto(c, l), lastId' = [lastId EXCEPT ![c] = NoOrder],
         UNCHANGED <<pos, row, calls, gap, attempt, polled, size>>,
         pc[c] # "idle", l = "place" => pc[c] \in InAttempt
  PROVE  TypeInv'
<1> USE DEF TypeInv
<1>1. ExchangeTyped' /\ AllReduceOnly'
  <2>1. lastId[c] \in OrderIds \union {NoOrder}
    BY DEF LocalsTyped
  <2>2. CancelAll \/ \E id \in OrderIds \union {NoOrder} : CancelOne(id)
    BY <2>1 DEF CancelLive
  <2> QED BY <2>2, CancelTypes
<1>2. RowTyped'
  BY DEF RowTyped, row
<1>3. LocalsTyped'
  BY DEF LocalsTyped, Goto, Labels
<1>4. OthersKept(c) /\ pc'[c] = l
  BY DEF LocalsTyped, OthersKept, Goto
<1>5. CountersAt(l, calls[c], attempt[c], polled[c], NoOrder)
  BY DEF Counters, CountersAt, InAttempt
<1>6. CountersAt(pc'[c], calls'[c], attempt'[c], polled'[c], lastId'[c])
  BY <1>4, <1>5 DEF LocalsTyped
<1> QED BY <1>1, <1>2, <1>3, <1>4, <1>6, CountersStep

LEMMA CancelPreviousTypes ==
  ASSUME TypeInv, NEW c \in Closers, CancelPrevious(c)
  PROVE  TypeInv'
  BY CancelStepTypes DEF CancelPrevious, InAttempt

LEMMA EscalateCancelTypes ==
  ASSUME TypeInv, NEW c \in Closers, EscalateCancel(c)
  PROVE  TypeInv'
  BY CancelStepTypes DEF EscalateCancel

LEMMA CloseSizeInt ==
  ASSUME NEW n \in Int
  PROVE  CloseSize(n) \in Int
<1>1. Abs(n) \in Int
  BY DEF Abs
<1>2. Abs(n) \div CloseLot \in Int
  BY <1>1, ConstantsAssumption
<1> QED BY <1>2, ConstantsAssumption DEF CloseSize

\* Inside a limit attempt the order's id and record are well formed.
LEMMA LimitOrderTyped ==
  ASSUME TypeInv, NEW c \in Closers, pc[c] = "place"
  PROVE  /\ OrderId(c) \in OrderIds
         /\ LimitOrder(c) \in [id : OrderIds, side : {"buy", "sell"},
                               qty : Int, ro : BOOLEAN]
         /\ LimitOrder(c).ro = TRUE
<1>1. calls[c] \in 1..MaxCalls /\ attempt[c] \in 0..MaxReprice
  BY ConstantsAssumption
  DEF TypeInv, LocalsTyped, Counters, CountersAt, InAttempt
<1>2. OrderId(c) \in OrderIds
  BY <1>1 DEF OrderId, OrderIds
<1>3. CloseSize(size[c]) \in Int
  BY CloseSizeInt DEF TypeInv, LocalsTyped
<1> QED BY <1>2, <1>3 DEF LimitOrder, CloseSide

LEMMA PlaceTypes ==
  ASSUME TypeInv, NEW c \in Closers, Place(c)
  PROVE  TypeInv'
<1> USE DEF TypeInv, Place
<1>1. ExchangeTyped' /\ AllReduceOnly'
  <2>1. closeOrders' \in {closeOrders, closeOrders \union {LimitOrder(c)}}
    OBVIOUS
  <2> QED BY <2>1, LimitOrderTyped DEF ExchangeTyped, AllReduceOnly
<1>2. RowTyped'
  BY DEF RowTyped, row
<1>3. CASE Throw(c)
  BY <1>1, <1>2, <1>3, FinishTypes DEF Throw
<1>4. CASE ~Throw(c)
  <2>1. PICK l \in {"poll", "resolve"} : Goto(c, l)
    BY <1>4
  <2>2. /\ polled' = [polled EXCEPT ![c] = 0]
        /\ UNCHANGED <<gap, attempt, size>>
        /\ lastId' \in {lastId, [lastId EXCEPT ![c] = OrderId(c)]}
    BY <1>4
  <2>3. LocalsTyped'
    <3>1. lastId' \in [Closers -> OrderIds \union {NoOrder}]
      BY <2>2, LimitOrderTyped DEF LocalsTyped
    <3>2. polled' \in [Closers -> 0..Polls]
      BY <2>2, ConstantsAssumption DEF LocalsTyped
    <3>3. pc' \in [Closers -> Labels]
      BY <2>1 DEF LocalsTyped, Goto, Labels
    <3> QED BY <2>2, <3>1, <3>2, <3>3 DEF LocalsTyped
  <2>4. OthersKept(c) /\ pc'[c] = l
    BY <2>1, <2>2 DEF LocalsTyped, OthersKept, Goto
  <2>5. CountersAt(pc'[c], calls'[c], attempt'[c], polled'[c], lastId'[c])
    BY <2>2, <2>4, ConstantsAssumption
    DEF LocalsTyped, Counters, CountersAt, InAttempt
  <2> QED BY <1>1, <1>2, <2>3, <2>4, <2>5, CountersStep
<1> QED BY <1>3, <1>4

LEMMA ResolveTypes ==
  ASSUME TypeInv, NEW c \in Closers, Resolve(c)
  PROVE  TypeInv'
<1> USE DEF TypeInv, Resolve
<1>1. ExchangeTyped' /\ AllReduceOnly' /\ RowTyped'
  BY DEF ExchangeTyped, AllReduceOnly, RowTyped, exchange, row
<1>2. PICK id \in OrderIds \union {NoOrder} : lastId' = [lastId EXCEPT ![c] = id]
  BY DEF ExchangeTyped
<1>3. LocalsTyped'
  BY <1>2 DEF LocalsTyped, Goto, Labels
<1>4. OthersKept(c) /\ pc'[c] = "poll"
  BY <1>2 DEF LocalsTyped, OthersKept, Goto
<1>5. CountersAt(pc'[c], calls'[c], attempt'[c], polled'[c], lastId'[c])
  BY <1>4, ConstantsAssumption DEF LocalsTyped, Counters, CountersAt, InAttempt
<1> QED BY <1>1, <1>3, <1>4, <1>5, CountersStep

LEMMA PollTypes ==
  ASSUME TypeInv, NEW c \in Closers, Poll(c)
  PROVE  TypeInv'
<1>1. CASE ReadFails(c)
  BY <1>1, ReadFailsTypes
<1>2. CASE ~ReadFails(c)
  <2> USE <1>2 DEF TypeInv, Poll
  <2>1. ExchangeTyped' /\ AllReduceOnly' /\ RowTyped'
    BY DEF ExchangeTyped, AllReduceOnly, RowTyped, exchange, row
  <2>2. polled[c] < Polls /\ attempt[c] <= MaxReprice /\ calls[c] >= 1
    BY DEF Counters, CountersAt, InAttempt
  <2>3. polled' \in [Closers -> 0..Polls] /\ polled'[c] = polled[c] + 1
    <3>1. polled[c] + 1 \in 0..Polls
      BY <2>2, ConstantsAssumption DEF LocalsTyped
    <3> QED BY <3>1 DEF LocalsTyped
  <2>4. attempt' \in [Closers -> 0..(MaxReprice + 1)]
    <3>1. attempt[c] + 1 \in 0..(MaxReprice + 1)
      BY <2>2, ConstantsAssumption DEF LocalsTyped
    <3> QED BY <3>1 DEF LocalsTyped, NextAttempt
  <2>5. PICK l \in {"writeStopped", "cancelRemnant", "poll", "writeFailed",
                    "escalateCancel", "reread"} :
           /\ pc' = [pc EXCEPT ![c] = l]
           /\ l = "cancelRemnant" => lastId[c] # NoOrder
           /\ l = "poll" => polled[c] + 1 < Polls /\ UNCHANGED attempt
           /\ l = "reread" => attempt'[c] <= MaxReprice
    <3>1. CASE Flat(pos)
      BY <3>1 DEF GotoFlattened, Goto
    <3>2. CASE ~Flat(pos) /\ polled[c] + 1 < Polls /\ UNCHANGED <<pc, attempt>>
      <4>1. pc' = [pc EXCEPT ![c] = "poll"]
        BY <3>2 DEF LocalsTyped
      <4> QED BY <3>2, <4>1
    <3>3. CASE ~Flat(pos) /\ polled[c] + 1 >= Polls /\ NextAttempt(c)
      <4>1. attempt'[c] = attempt[c] + 1
        BY <3>3 DEF NextAttempt, LocalsTyped
      <4>2. CASE attempt[c] + 1 > MaxReprice
        BY <3>3, <4>2 DEF NextAttempt, Goto
      <4>3. CASE ~(attempt[c] + 1 > MaxReprice) /\ escalation
        BY <3>3, <4>3 DEF NextAttempt, Goto
      <4>4. CASE ~(attempt[c] + 1 > MaxReprice) /\ ~escalation
        <5>1. attempt'[c] <= MaxReprice
          BY <4>1, <4>4, ConstantsAssumption DEF LocalsTyped
        <5> QED BY <3>3, <4>4, <5>1 DEF NextAttempt, Goto
      <4> QED BY <4>2, <4>3, <4>4
    <3> QED BY <3>1, <3>2, <3>3
  <2>6. LocalsTyped'
    BY <2>3, <2>4, <2>5 DEF LocalsTyped, ExchangeTyped, Labels
  <2>7. OthersKept(c)
    BY <2>5 DEF LocalsTyped, OthersKept, NextAttempt
  <2>8. CountersAt(pc'[c], calls'[c], attempt'[c], polled'[c], lastId'[c])
    <3>1. pc'[c] = l /\ calls'[c] = calls[c] /\ lastId'[c] = lastId[c]
      BY <2>5 DEF LocalsTyped
    <3> QED BY <3>1, <2>2, <2>3, <2>5 DEF CountersAt, InAttempt
  <2> QED BY <2>1, <2>6, <2>7, <2>8, CountersStep
<1> QED BY <1>1, <1>2

LEMMA EscalateReadTypes ==
  ASSUME TypeInv, NEW c \in Closers, EscalateRead(c)
  PROVE  TypeInv'
<1>1. CASE ReadFails(c)
  BY <1>1, ReadFailsTypes
<1>2. CASE ~ReadFails(c)
  <2> USE <1>2 DEF TypeInv, EscalateRead
  <2>1. ExchangeTyped' /\ AllReduceOnly' /\ RowTyped'
    BY DEF ExchangeTyped, AllReduceOnly, RowTyped, exchange, row
  <2>2. PICK l \in {"writeStopped", "market"} : Goto(c, l)
    OBVIOUS
  <2>3. LocalsTyped'
    BY <2>2 DEF LocalsTyped, ExchangeTyped, Goto, Labels
  <2>4. OthersKept(c) /\ pc'[c] = l
    BY <2>2 DEF LocalsTyped, OthersKept, Goto
  <2>5. CountersAt(pc'[c], calls'[c], attempt'[c], polled'[c], lastId'[c])
    BY <2>4 DEF Counters, CountersAt, InAttempt
  <2> QED BY <2>1, <2>3, <2>4, <2>5, CountersStep
<1> QED BY <1>1, <1>2

\* Whatever part of it executes, a market order moves the position towards
\* zero and not across it.
LEMMA MarketReduces ==
  ASSUME pos \in Int, NEW n \in Int, MarketExecutes(n)
  PROVE  /\ pos' \in Int
         /\ pos >= 0 => 0 <= pos' /\ pos' <= pos
         /\ pos <= 0 => pos <= pos' /\ pos' <= 0
<1>1. PICK q \in 0..CloseSize(n) :
         /\ q > 0 => MayExecute(MarketReduceOnly, CloseSide(n), q)
         /\ pos' = pos + Signed(CloseSide(n), q)
  BY DEF MarketExecutes
<1>2. q \in Nat
  BY CloseSizeInt
<1>3. CASE q = 0
  BY <1>1, <1>3 DEF Signed
<1>4. CASE q > 0
  BY <1>1, <1>2, <1>4 DEF MayExecute, MarketReduceOnly, CloseSide, Signed, Abs
<1> QED BY <1>2, <1>3, <1>4

LEMMA MarketTypes ==
  ASSUME TypeInv, NEW c \in Closers, Market(c)
  PROVE  TypeInv'
<1> USE DEF TypeInv, Market
<1>1. pos' \in Int
  BY MarketReduces DEF ExchangeTyped, LocalsTyped
<1>2. ExchangeTyped' /\ AllReduceOnly' /\ RowTyped'
  BY <1>1 DEF ExchangeTyped, AllReduceOnly, RowTyped, row
<1>3. CASE Throw(c)
  BY <1>2, <1>3, FinishTypes DEF Throw
<1>4. CASE ~Throw(c)
  <2>1. PICK l \in {"writeFailed", "marketPoll"} :
           /\ Goto(c, l)
           /\ polled' = IF l = "marketPoll" THEN [polled EXCEPT ![c] = 0] ELSE polled
    BY <1>4
  <2>2. UNCHANGED <<calls, gap, attempt, lastId, size>>
    BY <1>4
  <2>3. polled' \in [Closers -> 0..Polls]
    BY <2>1, ConstantsAssumption DEF LocalsTyped
  <2>4. LocalsTyped'
    BY <2>1, <2>2, <2>3 DEF LocalsTyped, Goto, Labels
  <2>5. OthersKept(c) /\ pc'[c] = l
    BY <2>1, <2>2 DEF LocalsTyped, OthersKept, Goto
  <2>6. CountersAt(pc'[c], calls'[c], attempt'[c], polled'[c], lastId'[c])
    BY <2>1, <2>2, <2>5, ConstantsAssumption
    DEF LocalsTyped, Counters, CountersAt, InAttempt
  <2> QED BY <1>2, <2>4, <2>5, <2>6, CountersStep
<1> QED BY <1>3, <1>4

LEMMA MarketPollTypes ==
  ASSUME TypeInv, NEW c \in Closers, MarketPoll(c)
  PROVE  TypeInv'
<1>1. CASE ReadFails(c)
  BY <1>1, ReadFailsTypes
<1>2. CASE ~ReadFails(c)
  <2> USE <1>2 DEF TypeInv, MarketPoll
  <2>1. ExchangeTyped' /\ AllReduceOnly' /\ RowTyped'
    BY DEF ExchangeTyped, AllReduceOnly, RowTyped, exchange, row
  <2>2. polled[c] < Polls /\ calls[c] >= 1
    BY DEF Counters, CountersAt
  <2>3. polled' \in [Closers -> 0..Polls] /\ polled'[c] = polled[c] + 1
    <3>1. polled[c] + 1 \in 0..Polls
      BY <2>2, ConstantsAssumption DEF LocalsTyped
    <3> QED BY <3>1 DEF LocalsTyped
  <2>4. PICK l \in {"writeStopped", "marketPoll", "writeFailed"} :
           /\ pc' = [pc EXCEPT ![c] = l]
           /\ l = "marketPoll" => polled[c] + 1 < Polls
    <3>1. CASE ~Flat(pos) /\ polled[c] + 1 < Polls /\ UNCHANGED pc
      <4>1. pc' = [pc EXCEPT ![c] = "marketPoll"]
        BY <3>1 DEF LocalsTyped
      <4> QED BY <3>1, <4>1
    <3>2. CASE Goto(c, "writeStopped") \/ Goto(c, "writeFailed")
      BY <3>2 DEF Goto
    <3> QED BY <3>1, <3>2
  <2>5. LocalsTyped'
    BY <2>3, <2>4 DEF LocalsTyped, ExchangeTyped, Labels
  <2>6. OthersKept(c) /\ pc'[c] = l
    BY <2>4 DEF LocalsTyped, OthersKept
  <2>7. CountersAt(pc'[c], calls'[c], attempt'[c], polled'[c], lastId'[c])
    BY <2>2, <2>3, <2>4, <2>6 DEF CountersAt, InAttempt
  <2> QED BY <2>1, <2>5, <2>6, <2>7, CountersStep
<1> QED BY <1>1, <1>2

LEMMA CancelRemnantTypes ==
  ASSUME TypeInv, NEW c \in Closers, CancelRemnant(c)
  PROVE  TypeInv'
<1> USE DEF TypeInv, CancelRemnant
<1>1. ExchangeTyped' /\ AllReduceOnly'
  BY CancelTypes DEF LocalsTyped
<1>2. RowTyped'
  BY DEF RowTyped, row
<1>3. CountersAt("writeStopped", calls[c], attempt[c], polled[c], lastId[c])
  BY DEF Counters, CountersAt, InAttempt
<1>4. LocalsTyped' /\ Counters'
  BY <1>3, GotoTypes DEF locals, Labels
<1> QED BY <1>1, <1>2, <1>4

LEMMA WriteTypes ==
  ASSUME TypeInv, NEW c \in Closers, WriteStopped(c) \/ WriteFailed(c)
  PROVE  TypeInv'
<1> USE DEF TypeInv
<1>1. ExchangeTyped' /\ AllReduceOnly'
  BY DEF WriteStopped, WriteFailed, ExchangeTyped, AllReduceOnly, exchange
<1>2. RowTyped'
  BY DEF WriteStopped, WriteFailed, WriteRow, RowTyped, LocalsTyped
<1>3. LocalsTyped' /\ Counters'
  BY FinishTypes DEF WriteStopped, WriteFailed
<1> QED BY <1>1, <1>2, <1>3

\* A fill of a reduce-only order moves the position towards zero.
LEMMA FillReduces ==
  ASSUME TypeInv, NEW o \in closeOrders, NEW q \in 1..o.qty, Fill(o, q)
  PROVE  /\ pos' \in Int
         /\ pos >= 0 => 0 <= pos' /\ pos' <= pos
         /\ pos <= 0 => pos <= pos' /\ pos' <= 0
<1>1. pos \in Int /\ q \in Nat /\ o.ro = TRUE /\ o.side \in {"buy", "sell"}
  BY DEF TypeInv, ExchangeTyped, AllReduceOnly
<1> QED BY <1>1 DEF Fill, MayExecute, CloseSide, Signed, Abs

LEMMA FillTypes ==
  ASSUME TypeInv, NEW o \in closeOrders, NEW q \in 1..o.qty, Fill(o, q)
  PROVE  TypeInv'
<1>1. /\ o \in [id : OrderIds, side : {"buy", "sell"}, qty : Int, ro : BOOLEAN]
      /\ o.ro = TRUE
  BY DEF TypeInv, ExchangeTyped, AllReduceOnly
<1> DEFINE rest == [o EXCEPT !.qty = @ - q]
<1>2. /\ rest \in [id : OrderIds, side : {"buy", "sell"}, qty : Int, ro : BOOLEAN]
      /\ rest.ro = TRUE
  BY <1>1
<1>3. closeOrders' \subseteq closeOrders \union {rest}
  BY DEF Fill
<1>4. ExchangeTyped' /\ AllReduceOnly'
  BY <1>2, <1>3, FillReduces DEF TypeInv, ExchangeTyped, AllReduceOnly, Fill
<1>5. RowTyped' /\ LocalsTyped' /\ Counters'
  BY DEF TypeInv, RowTyped, LocalsTyped, Counters, Fill, row, locals
<1> QED BY <1>4, <1>5 DEF TypeInv

LEMMA RestartTypes ==
  ASSUME TypeInv, Restart
  PROVE  TypeInv'
<1>1. ExchangeTyped' /\ AllReduceOnly' /\ RowTyped'
  BY DEF TypeInv, Restart, ExchangeTyped, AllReduceOnly, RowTyped
<1>2. LocalsTyped'
  BY ConstantsAssumption DEF TypeInv, Restart, LocalsTyped, Labels
<1>3. Counters'
  BY DEF TypeInv, Restart, Counters, CountersAt, InAttempt
<1> QED BY <1>1, <1>2, <1>3 DEF TypeInv

\* The steps of the grid and of the delete handler touch no local.
LEMMA OutsideTypes ==
  ASSUME TypeInv,
         \/ \E d \in gridOrders : GridFill(d)
         \/ TickBegins \/ (\E d \in GridDeltas : MonitorPlaces(d)) \/ TickEnds
         \/ DeleteCheck \/ DeleteVerify \/ DeleteRow
  PROVE  TypeInv'
<1>1. LocalsTyped' /\ Counters'
  BY DEF TypeInv, GridFill, TickBegins, TickEnds, MonitorPlaces,
         DeleteCheck, DeleteVerify, DeleteRow, LocalsTyped, Counters, locals
<1>2. ExchangeTyped' /\ AllReduceOnly'
  <2> USE DEF TypeInv, ExchangeTyped, AllReduceOnly
  <2>1. ASSUME NEW d \in gridOrders, GridFill(d) PROVE ExchangeTyped' /\ AllReduceOnly'
    <3>1. pos \in Int /\ d \in Int
      BY ConstantsAssumption
    <3> QED BY <2>1, <3>1 DEF GridFill
  <2>2. ASSUME NEW d \in GridDeltas, MonitorPlaces(d)
        PROVE  ExchangeTyped' /\ AllReduceOnly'
    BY <2>2 DEF MonitorPlaces
  <2>3. CASE TickBegins \/ TickEnds \/ DeleteCheck \/ DeleteVerify \/ DeleteRow
    BY <2>3 DEF TickBegins, TickEnds, DeleteCheck, DeleteVerify, DeleteRow, exchange
  <2> QED BY <2>1, <2>2, <2>3
<1>3. RowTyped'
  BY DEF TypeInv, GridFill, TickBegins, TickEnds, MonitorPlaces,
         DeleteCheck, DeleteVerify, DeleteRow, RowTyped, row
<1> QED BY <1>1, <1>2, <1>3 DEF TypeInv

----------------------------------------------------------------------------
\* What may fail is settled at the start.
LEMMA FaultsKept == [Next]_vars => faults' = faults
  BY DEF Next, vars

LEMMA TypeInit == Init => TypeInv
<1> SUFFICES ASSUME Init PROVE TypeInv
  OBVIOUS
<1>1. ExchangeTyped /\ AllReduceOnly /\ RowTyped
  BY ConstantsAssumption DEF Init, ExchangeTyped, AllReduceOnly, RowTyped
<1>2. LocalsTyped
  BY ConstantsAssumption DEF Init, LocalsTyped, Labels
<1>3. Counters
  BY DEF Init, Counters, CountersAt, InAttempt
<1> QED BY <1>1, <1>2, <1>3 DEF TypeInv

LEMMA TypeStep == TypeInv /\ [Next]_vars => TypeInv'
<1> SUFFICES ASSUME TypeInv, [Next]_vars PROVE TypeInv'
  OBVIOUS
<1>1. CASE UNCHANGED vars
  BY <1>1 DEF vars, TypeInv, ExchangeTyped, AllReduceOnly, RowTyped, LocalsTyped, Counters
<1>2. ASSUME NEW c \in Closers, Begin(c) \/ Closer(c) PROVE TypeInv'
  BY <1>2, BeginTypes, PauseInstanceTypes, ReadFirstTypes, RereadTypes,
     CancelPreviousTypes, PlaceTypes, ResolveTypes, PollTypes,
     EscalateCancelTypes, EscalateReadTypes, MarketTypes, MarketPollTypes,
     CancelRemnantTypes, WriteTypes DEF Closer
<1>3. ASSUME NEW o \in closeOrders, NEW q \in 1..o.qty, Fill(o, q) PROVE TypeInv'
  BY <1>3, FillTypes
<1>4. CASE Restart
  BY <1>4, RestartTypes
<1> QED BY <1>1, <1>2, <1>3, <1>4, OutsideTypes DEF Next

\* Every variable keeps its type, whatever fails and however many activations
\* of closeBot interleave.
THEOREM TypeCorrect == Spec => []TypeOK
<1> DEFINE Inv == TypeInv /\ faults \in FaultSets
<1>1. Init => Inv
  BY TypeInit DEF Init
<1>2. Inv /\ [Next]_vars => Inv'
  BY TypeStep, FaultsKept
<1>3. Inv => TypeOK
  BY DEF TypeInv, ExchangeTyped, RowTyped, LocalsTyped, TypeOK
<1> QED BY <1>1, <1>2, <1>3, PTL DEF Spec

----------------------------------------------------------------------------
\* Close orders move the position towards zero and never across it: only a
\* fill of the grid's own orders, which it removes from the book, does.
THEOREM NeverFlips == Spec => CloseNeverFlips
<1> DEFINE Towards0 == /\ pos > 0 => pos' \in 0..pos
                       /\ pos < 0 => pos' \in pos..0
<1>1. ASSUME TypeInv, [Next]_vars, gridOrders' = gridOrders PROVE Towards0
  <2>1. pos \in Int
    BY <1>1 DEF TypeInv, ExchangeTyped
  <2>2. CASE UNCHANGED pos
    BY <2>1, <2>2
  <2>3. ASSUME NEW c \in Closers, Market(c) PROVE Towards0
    <3>1. CASE UNCHANGED pos
      BY <2>1, <3>1
    <3>2. CASE MarketExecutes(size[c])
      BY <1>1, <2>1, <3>2, MarketReduces DEF TypeInv, LocalsTyped
    <3> QED BY <2>3, <3>1, <3>2 DEF Market
  <2>4. ASSUME NEW o \in closeOrders, NEW q \in 1..o.qty, Fill(o, q) PROVE Towards0
    BY <1>1, <2>1, <2>4, FillReduces
  <2>5. ASSUME NEW c \in Closers, Begin(c) \/ (Closer(c) /\ ~Market(c))
        PROVE  UNCHANGED pos
    BY <2>5 DEF Begin, Closer, PauseInstance, ReadFirst, Reread, CancelPrevious,
       Place, Resolve, Poll, EscalateCancel, EscalateRead, MarketPoll,
       CancelRemnant, WriteStopped, WriteFailed, ReadFails, exchange
  <2>6. ASSUME NEW d \in gridOrders, GridFill(d) PROVE FALSE
    BY <1>1, <2>6 DEF GridFill
  <2>7. CASE \/ TickBegins \/ (\E d \in GridDeltas : MonitorPlaces(d)) \/ TickEnds
             \/ Restart \/ DeleteCheck \/ DeleteVerify \/ DeleteRow
             \/ UNCHANGED vars
    BY <2>2, <2>7 DEF TickBegins, TickEnds, MonitorPlaces, Restart, DeleteCheck,
     DeleteVerify, DeleteRow,
       exchange, vars
  <2> QED BY <1>1, <2>2, <2>3, <2>4, <2>5, <2>6, <2>7 DEF Next
<1>2. TypeInv /\ [Next]_vars => [gridOrders' = gridOrders => Towards0]_vars
  BY <1>1
<1> QED BY TypeInit, TypeStep, <1>2, PTL DEF Spec, CloseNeverFlips

----------------------------------------------------------------------------
(* A stopped bot is flat, as long as cancels succeed, no tick is in flight *)
(* at a pause and a restarted engine resumes its running bots.  The read   *)
(* that confirms is followed by a write in another step: what carries the  *)
(* flatness over that gap is that a bot without an instance has no grid    *)
(* order left to build the position up again.                              *)

InstanceOwnsGrid ==
  /\ gridOrders # {} => inMap
  /\ inMap <=> status = "running"
  /\ del # "none" => ~inMap
  /\ \A c \in Closers : pc[c] \notin {"idle", "cancelAll"} => ~inMap
  /\ tick => inMap

ConfirmedFlat ==
  /\ \A c \in Closers : pc[c] \in {"cancelRemnant", "writeStopped"} => Flat(pos)
  /\ del = "verified" => Flat(pos)
  /\ status \in {"stopped", "deleted"} => Flat(pos)

FlatInv == TypeInv /\ (Trusted => InstanceOwnsGrid /\ ConfirmedFlat)

\* The confirming label is reached over a flat position only, and no other
\* closer's label changes.
LEMMA CloserMoves ==
  ASSUME TypeInv, NEW c \in Closers, Closer(c)
  PROVE  /\ \A d \in Closers \ {c} : pc'[d] = pc[d]
         /\ pc[c] # "idle"
         /\ pc'[c] # "cancelAll"
         /\ pc'[c] \in {"cancelRemnant", "writeStopped"} =>
               Flat(pos) \/ pc[c] = "cancelRemnant"
<1> USE DEF TypeInv, LocalsTyped
<1>1. CASE PauseInstance(c)
  BY <1>1 DEF PauseInstance, Goto
<1>2. CASE ReadFirst(c) \/ Reread(c) \/ EscalateRead(c)
  BY <1>2 DEF ReadFirst, Reread, EscalateRead, ReadFails, Throw, Finish, Goto, GotoFlattened
<1>3. CASE CancelPrevious(c) \/ EscalateCancel(c) \/ Resolve(c)
  BY <1>3 DEF CancelPrevious, EscalateCancel, Resolve, Goto
<1>4. CASE Place(c)
  BY <1>4 DEF Place, Throw, Finish, Goto
<1>5. CASE Poll(c)
  BY <1>5 DEF Poll, NextAttempt, ReadFails, Throw, Finish, Goto, GotoFlattened
<1>6. CASE MarketPoll(c)
  BY <1>6 DEF MarketPoll, ReadFails, Throw, Finish, Goto
<1>7. CASE Market(c)
  BY <1>7 DEF Market, Throw, Finish, Goto
<1>8. CASE CancelRemnant(c)
  BY <1>8 DEF CancelRemnant, Goto
<1>9. CASE WriteStopped(c) \/ WriteFailed(c)
  BY <1>9 DEF WriteStopped, WriteFailed, Finish, Goto
<1> QED BY <1>1, <1>2, <1>3, <1>4, <1>5, <1>6, <1>7, <1>8, <1>9 DEF Closer

LEMMA InstanceStep ==
  ASSUME "cancel" \notin faults, "resume" \notin faults, "tick" \notin faults,
         TypeInv, InstanceOwnsGrid, [Next]_vars
  PROVE  InstanceOwnsGrid'
<1> USE DEF InstanceOwnsGrid
<1>1. ASSUME NEW c \in Closers, Begin(c) PROVE InstanceOwnsGrid'
  BY <1>1 DEF Begin, Goto, exchange, TypeInv, LocalsTyped
<1>2. ASSUME NEW c \in Closers, PauseInstance(c) PROVE InstanceOwnsGrid'
  <2>1. gridOrders' = {} /\ inMap' = FALSE /\ status' # "running" /\ tick' = FALSE
    BY <1>2 DEF PauseInstance, CancelAll, WriteRow, TypeInv, RowTyped
  <2> QED BY <2>1
<1>3. ASSUME NEW c \in Closers, Closer(c), ~PauseInstance(c) PROVE InstanceOwnsGrid'
  <2>1. pc[c] \notin {"idle", "cancelAll"}
    BY <1>3 DEF Closer, PauseInstance, ReadFirst, Reread, CancelPrevious, Place,
       Resolve, Poll, EscalateCancel, EscalateRead, Market, MarketPoll,
       CancelRemnant, WriteStopped, WriteFailed
  <2>2. ~inMap /\ gridOrders = {} /\ status # "running"
    BY <2>1
  <2>3. inMap' = inMap /\ tick' = tick /\ status' # "running"
    BY <1>3, <2>2 DEF Closer, ReadFirst, Reread, CancelPrevious, Place,
       Resolve, Poll, EscalateCancel, EscalateRead, Market, MarketPoll,
       CancelRemnant, WriteStopped, WriteFailed, WriteRow, ReadFails, row
  <2>4. gridOrders' = {}
    BY <1>3, <2>2 DEF Closer, ReadFirst, Reread, CancelPrevious, Place,
       Resolve, Poll, EscalateCancel, EscalateRead, Market, MarketPoll,
       CancelRemnant, WriteStopped, WriteFailed, ReadFails, exchange,
       CancelLive, CancelOne, CancelAll
  <2> QED BY <2>2, <2>3, <2>4
<1>4. CASE Restart
  BY <1>4 DEF Restart
<1>5. ASSUME NEW o \in closeOrders, NEW q \in 1..o.qty, Fill(o, q)
      PROVE  InstanceOwnsGrid'
  BY <1>5 DEF Fill, row
<1>6. CASE \/ \E d \in gridOrders : GridFill(d)
           \/ TickBegins \/ (\E d \in GridDeltas : MonitorPlaces(d)) \/ TickEnds
  BY <1>6 DEF GridFill, TickBegins, TickEnds, MonitorPlaces, row, exchange
<1>7. CASE DeleteCheck \/ DeleteVerify \/ DeleteRow
  BY <1>7 DEF DeleteCheck, DeleteVerify, DeleteRow, exchange
<1>8. CASE UNCHANGED vars
  BY <1>8 DEF vars
<1> QED BY <1>1, <1>2, <1>3, <1>4, <1>5, <1>6, <1>7, <1>8 DEF Next

\* A flat position with no grid order stays flat.
LEMMA StaysFlat ==
  ASSUME TypeInv, gridOrders = {}, Flat(pos), [Next]_vars
  PROVE  Flat(pos')
<1>1. pos \in Int
  BY DEF TypeInv, ExchangeTyped
<1>2. ASSUME NEW c \in Closers, Market(c) PROVE Flat(pos')
  <2>1. CASE UNCHANGED pos
    BY <2>1
  <2>2. CASE MarketExecutes(size[c])
    BY <1>1, <2>2, MarketReduces DEF Flat, Abs, TypeInv, LocalsTyped
  <2> QED BY <1>2, <2>1, <2>2 DEF Market
<1>3. ASSUME NEW o \in closeOrders, NEW q \in 1..o.qty, Fill(o, q)
      PROVE  Flat(pos')
  BY <1>1, <1>3, FillReduces DEF Flat, Abs
<1>4. ASSUME NEW c \in Closers, Begin(c) \/ (Closer(c) /\ ~Market(c))
      PROVE  UNCHANGED pos
  BY <1>4 DEF Begin, Closer, PauseInstance, ReadFirst, Reread, CancelPrevious,
     Place, Resolve, Poll, EscalateCancel, EscalateRead, MarketPoll,
     CancelRemnant, WriteStopped, WriteFailed, ReadFails, exchange
<1>5. CASE \/ TickBegins \/ (\E d \in GridDeltas : MonitorPlaces(d)) \/ TickEnds
           \/ Restart \/ DeleteCheck \/ DeleteVerify \/ DeleteRow
           \/ UNCHANGED vars
  BY <1>5 DEF TickBegins, TickEnds, MonitorPlaces, Restart, DeleteCheck,
     DeleteVerify, DeleteRow,
     exchange, vars
<1> QED BY <1>2, <1>3, <1>4, <1>5 DEF Next

LEMMA ConfirmedStep ==
  ASSUME TypeInv, InstanceOwnsGrid, ConfirmedFlat, [Next]_vars
  PROVE  ConfirmedFlat'
<1> DEFINE Confirming == {"cancelRemnant", "writeStopped"}
\* Whatever was confirmed before the step, is so after it.
<1>1. Flat(pos) /\ ~inMap => Flat(pos')
  BY StaysFlat DEF InstanceOwnsGrid
<1>2. \A c \in Closers : pc[c] \in Confirming => Flat(pos')
  BY <1>1 DEF InstanceOwnsGrid, ConfirmedFlat
<1>3. del = "verified" \/ status \in {"stopped", "deleted"} => Flat(pos')
  BY <1>1 DEF InstanceOwnsGrid, ConfirmedFlat
<1>4. ASSUME NEW c \in Closers, Begin(c) PROVE ConfirmedFlat'
  <2>1. \A d \in Closers : pc'[d] \in Confirming => pc[d] \in Confirming
    BY <1>4 DEF Begin, Goto, TypeInv, LocalsTyped
  <2>2. del' = del /\ (status' \in {"stopped", "deleted"} => status' = status)
    BY <1>4 DEF Begin
  <2> QED BY <1>2, <1>3, <2>1, <2>2 DEF ConfirmedFlat
<1>5. ASSUME NEW c \in Closers, Closer(c) PROVE ConfirmedFlat'
  <2>1. \A d \in Closers : pc'[d] \in Confirming => Flat(pos')
    <3>1. pc'[c] \in Confirming => Flat(pos')
      <4>1. pc'[c] \in Confirming /\ pc[c] \notin Confirming => ~inMap' /\ UNCHANGED pos
        BY <1>5 DEF Closer, PauseInstance, ReadFirst, Reread, CancelPrevious, Place,
           Resolve, Poll, EscalateCancel, EscalateRead, Market, MarketPoll,
           CancelRemnant, WriteStopped, WriteFailed, ReadFails, Throw, Finish,
           Goto, exchange, row, InstanceOwnsGrid, TypeInv, LocalsTyped
      <4> QED BY <1>2, <1>5, <4>1, CloserMoves
    <3> QED BY <1>2, <1>5, <3>1, CloserMoves
  <2>2. del' = del
    BY <1>5 DEF Closer, PauseInstance, ReadFirst, Reread, CancelPrevious, Place,
       Resolve, Poll, EscalateCancel, EscalateRead, Market, MarketPoll,
       CancelRemnant, WriteStopped, WriteFailed, ReadFails, row
  <2>3. status' \in {"stopped", "deleted"} =>
           status' = status \/ pc[c] = "writeStopped"
    BY <1>5 DEF Closer, PauseInstance, ReadFirst, Reread, CancelPrevious, Place,
       Resolve, Poll, EscalateCancel, EscalateRead, Market, MarketPoll,
       CancelRemnant, WriteStopped, WriteFailed, WriteRow, ReadFails, row
  <2> QED BY <1>2, <1>3, <2>1, <2>2, <2>3 DEF ConfirmedFlat
<1>6. CASE \/ \E o \in closeOrders : \E q \in 1..o.qty : Fill(o, q)
           \/ \E d \in gridOrders : GridFill(d)
           \/ TickBegins \/ (\E d \in GridDeltas : MonitorPlaces(d)) \/ TickEnds
           \/ UNCHANGED vars
  <2>1. UNCHANGED <<pc, del, status>>
    BY <1>6 DEF Fill, GridFill, TickBegins, TickEnds, MonitorPlaces, row, vars
  <2> QED BY <1>2, <1>3, <2>1 DEF ConfirmedFlat
<1>7. CASE Restart
  BY <1>3, <1>7 DEF Restart, ConfirmedFlat
<1>8. CASE DeleteCheck \/ DeleteVerify \/ DeleteRow
  BY <1>2, <1>3, <1>8 DEF DeleteCheck, DeleteVerify, DeleteRow, ConfirmedFlat, exchange
<1> QED BY <1>4, <1>5, <1>6, <1>7, <1>8 DEF Next

\* Where cancels take effect, resumes succeed and no tick outlives a pause, a bot
\* whose row says 'stopped', or is gone, has no position, for any number
\* of concurrent closes, lost answers, failed reads and restarts.
THEOREM StoppedFlat == Spec => []StoppedIsFlat
<1>1. Init => FlatInv
  <2>1. Init => InstanceOwnsGrid /\ ConfirmedFlat
    BY DEF Init, InstanceOwnsGrid, ConfirmedFlat
  <2> QED BY <2>1, TypeInit DEF FlatInv
<1>2. FlatInv /\ [Next]_vars => FlatInv'
  <2> SUFFICES ASSUME FlatInv, [Next]_vars, Trusted'
               PROVE  InstanceOwnsGrid' /\ ConfirmedFlat'
    BY TypeStep DEF FlatInv
  <2>1. Trusted
    BY FaultsKept DEF Trusted
  <2>2. "cancel" \notin faults /\ "resume" \notin faults /\ "tick" \notin faults
    BY <2>1 DEF Trusted
  <2> QED BY <2>1, <2>2, InstanceStep, ConfirmedStep DEF FlatInv
<1>3. FlatInv => StoppedIsFlat
  BY DEF FlatInv, ConfirmedFlat, StoppedIsFlat
<1> QED BY <1>1, <1>2, <1>3, PTL DEF Spec

----------------------------------------------------------------------------
(* One activation alone never has two close orders on the book: wherever   *)
(* it goes on without the id of its order, nothing is there or the whole   *)
(* pair is cancelled before the next order.                                *)

\* What is on the book where the only activation stands.
StackAt(c) ==
  /\ \A o, p \in closeOrders : o.id = p.id
  /\ pc[c] \in {"cancelAll", "readFirst", "place", "escalateRead", "market", "marketPoll"} =>
       closeOrders = {}
  /\ pc[c] = "reread" /\ attempt[c] = 0 => closeOrders = {}
  /\ pc[c] \in {"cancelAll", "readFirst", "place", "resolve"} => lastId[c] = NoOrder
  /\ lastId[c] # NoOrder => \A o \in closeOrders : o.id = lastId[c]
  /\ pc[c] = "resolve" => \A o \in closeOrders : o.id = OrderId(c)

OneAlone ==
  /\ closeOrders # {} => \E c \in Closers : calls[c] >= 1
  /\ \A c \in Closers : pc[c] = "idle" => lastId[c] = NoOrder
  /\ \A c \in Closers : Sole(c) => StackAt(c)

\* The calls are counted at their beginning and an idle activation knows no order.
LEMMA OneAloneFrame ==
  ASSUME TypeInv, OneAlone, NEW c \in Closers, Closer(c)
  PROVE  /\ calls' = calls
         /\ \E d \in Closers : calls[d] >= 1
         /\ \A d \in Closers \ {c} : lastId'[d] = lastId[d]
         /\ pc'[c] = "idle" => lastId'[c] = NoOrder
<1> USE DEF TypeInv, LocalsTyped
<1>1. calls[c] \in Nat /\ calls[c] >= 1
  BY CloserMoves DEF Counters, CountersAt
<1>2. CASE PauseInstance(c)
  BY <1>1, <1>2 DEF PauseInstance, locals, Goto
<1>3. CASE ReadFirst(c) \/ Reread(c) \/ EscalateRead(c)
  BY <1>1, <1>3 DEF ReadFirst, Reread, EscalateRead, ReadFails, Throw, Finish, Goto,
     GotoFlattened
<1>4. CASE CancelPrevious(c) \/ EscalateCancel(c) \/ Resolve(c)
  BY <1>1, <1>4 DEF CancelPrevious, EscalateCancel, Resolve, Goto
<1>5. CASE Place(c)
  BY <1>1, <1>5 DEF Place, Throw, Finish, Goto
<1>6. CASE Poll(c)
  BY <1>1, <1>6 DEF Poll, NextAttempt, ReadFails, Throw, Finish, Goto, GotoFlattened
<1>7. CASE MarketPoll(c)
  BY <1>1, <1>7 DEF MarketPoll, ReadFails, Throw, Finish, Goto
<1>8. CASE Market(c)
  BY <1>1, <1>8 DEF Market, Throw, Finish, Goto
<1>9. CASE CancelRemnant(c)
  BY <1>1, <1>9 DEF CancelRemnant, locals, Goto
<1>10. CASE WriteStopped(c) \/ WriteFailed(c)
  BY <1>1, <1>10 DEF WriteStopped, WriteFailed, Finish, Goto
<1> QED BY <1>2, <1>3, <1>4, <1>5, <1>6, <1>7, <1>8, <1>9, <1>10 DEF Closer

\* An activation that has ended leaves what it left on the book.
LEMMA EndsAlone ==
  ASSUME TypeInv, NEW c \in Closers, StackAt(c), Finish(c),
         closeOrders' \subseteq closeOrders
  PROVE  StackAt(c)'
<1>1. pc'[c] = "idle" /\ lastId'[c] = NoOrder
  BY DEF TypeInv, LocalsTyped, Finish, Goto
<1> QED BY <1>1 DEF StackAt

LEMMA CancelsAlone ==
  ASSUME "cancel" \notin faults, NEW c \in Closers, StackAt(c), CancelLive(c)
  PROVE  closeOrders' = {}
BY DEF StackAt, CancelLive, CancelOne, CancelAll

\* The order just placed is the only one.
LEMMA PlacesAlone ==
  ASSUME TypeInv, NEW c \in Closers, StackAt(c), Place(c)
  PROVE  StackAt(c)'
<1> USE DEF TypeInv, LocalsTyped
<1>1. closeOrders = {} /\ lastId[c] = NoOrder /\ pc[c] = "place"
  BY DEF Place, StackAt
<1>2. closeOrders' \in {{}, {LimitOrder(c)}} /\ calls' = calls
  BY <1>1 DEF Place
<1>3. \A o \in closeOrders' : o.id = OrderId(c)
  BY <1>2 DEF LimitOrder
<1>4. CASE Throw(c)
  <2>1. pc'[c] = "idle" /\ lastId'[c] = NoOrder
    BY <1>4 DEF Throw, Finish, Goto
  <2> QED BY <1>3, <2>1 DEF StackAt
<1>5. CASE /\ UNCHANGED <<gap, attempt, size>>
           /\ \/ lastId' = [lastId EXCEPT ![c] = OrderId(c)] /\ Goto(c, "poll")
              \/ Goto(c, "resolve") /\ UNCHANGED lastId
  <2>1. OrderId(c)' = OrderId(c)
    BY <1>2, <1>5 DEF OrderId
  <2>2. \/ pc'[c] = "poll" /\ lastId'[c] = OrderId(c)
        \/ pc'[c] = "resolve" /\ lastId'[c] = NoOrder
    BY <1>1, <1>5 DEF Goto
  <2> QED BY <1>3, <2>1, <2>2 DEF StackAt
<1> QED BY <1>4, <1>5 DEF Place

\* A step of the only activation.
LEMMA AloneStep ==
  ASSUME "cancel" \notin faults, TypeInv, NEW c \in Closers, StackAt(c), Closer(c)
  PROVE  StackAt(c)'
<1> USE DEF TypeInv, LocalsTyped
<1>1. CASE PauseInstance(c)
  <2>1. /\ closeOrders' = {} /\ pc'[c] = "readFirst" /\ lastId'[c] = lastId[c]
        /\ lastId[c] = NoOrder
    BY <1>1 DEF PauseInstance, CancelAll, Goto, locals, StackAt
  <2> QED BY <2>1 DEF StackAt
<1>2. ASSUME ReadFails(c) PROVE StackAt(c)'
  BY <1>2, EndsAlone DEF ReadFails, Throw, exchange
<1>3. CASE ReadFirst(c) /\ ~ReadFails(c)
  <2>1. /\ pc[c] = "readFirst" /\ pc'[c] \in {"writeStopped", "escalateRead", "reread"}
        /\ UNCHANGED <<closeOrders, lastId>>
    BY <1>3 DEF ReadFirst, Goto, exchange
  <2> QED BY <2>1 DEF StackAt
<1>4. CASE Reread(c) /\ ~ReadFails(c)
  <2>1. /\ pc[c] = "reread" /\ UNCHANGED <<closeOrders, lastId>>
        /\ \/ pc'[c] \in {"writeStopped", "cancelRemnant", "cancelPrevious"}
           \/ pc'[c] = "place" /\ lastId[c] = NoOrder /\ ~(attempt[c] > 0)
    BY <1>4 DEF Reread, Goto, GotoFlattened, exchange
  <2>2. ~(attempt[c] > 0) => attempt[c] = 0
    BY ConstantsAssumption DEF ConstantsAssumption
  <2> QED BY <2>1, <2>2 DEF StackAt
<1>5. CASE CancelPrevious(c)
  <2>1. closeOrders' = {} /\ pc'[c] = "place" /\ lastId'[c] = NoOrder
    BY <1>5, CancelsAlone DEF CancelPrevious, Goto
  <2> QED BY <2>1 DEF StackAt
<1>6. CASE Place(c)
  BY <1>6, PlacesAlone
<1>7. CASE Resolve(c)
  <2>1. /\ pc[c] = "resolve" /\ pc'[c] = "poll" /\ closeOrders' = closeOrders
        /\ lastId'[c] = NoOrder \/ \E o \in closeOrders : lastId'[c] = o.id
    BY <1>7 DEF Resolve, Goto, exchange
  <2> QED BY <2>1 DEF StackAt
<1>8. CASE Poll(c) /\ ~ReadFails(c)
  <2>0. attempt[c] \in Nat
    BY ConstantsAssumption DEF ConstantsAssumption
  <2>1. /\ pc[c] = "poll" /\ UNCHANGED <<closeOrders, lastId>>
        /\ \/ pc'[c] \in {"writeStopped", "cancelRemnant", "poll", "writeFailed",
                          "escalateCancel"}
           \/ pc'[c] = "reread" /\ attempt'[c] = attempt[c] + 1
    BY <1>8 DEF Poll, Goto, GotoFlattened, NextAttempt, exchange
  <2> QED BY <2>0, <2>1 DEF StackAt
<1>9. CASE EscalateCancel(c)
  <2>1. closeOrders' = {} /\ pc'[c] = "escalateRead" /\ lastId'[c] = NoOrder
    BY <1>9, CancelsAlone DEF EscalateCancel, Goto
  <2> QED BY <2>1 DEF StackAt
<1>10. CASE EscalateRead(c) /\ ~ReadFails(c)
  <2>1. /\ pc[c] = "escalateRead" /\ pc'[c] \in {"writeStopped", "market"}
        /\ UNCHANGED <<closeOrders, lastId>>
    BY <1>10 DEF EscalateRead, Goto, exchange
  <2> QED BY <2>1 DEF StackAt
<1>11. CASE Market(c)
  <2>1. closeOrders' = closeOrders /\ pc[c] = "market"
    BY <1>11 DEF Market
  <2>2. CASE Throw(c)
    BY <2>1, <2>2, EndsAlone DEF Throw
  <2>3. CASE lastId' = lastId /\ (Goto(c, "writeFailed") \/ Goto(c, "marketPoll"))
    <3>1. pc'[c] \in {"writeFailed", "marketPoll"}
      BY <2>3 DEF Goto
    <3> QED BY <2>1, <2>3, <3>1 DEF StackAt
  <2> QED BY <1>11, <2>2, <2>3 DEF Market
<1>12. CASE MarketPoll(c) /\ ~ReadFails(c)
  <2>1. /\ pc[c] = "marketPoll" /\ pc'[c] \in {"marketPoll", "writeStopped", "writeFailed"}
        /\ UNCHANGED <<closeOrders, lastId>>
    BY <1>12 DEF MarketPoll, Goto, exchange
  <2> QED BY <2>1 DEF StackAt
<1>13. CASE CancelRemnant(c)
  <2>1. pc'[c] = "writeStopped" /\ lastId' = lastId /\ closeOrders' \subseteq closeOrders
    BY <1>13 DEF CancelRemnant, CancelOne, Goto, locals
  <2> QED BY <2>1 DEF StackAt
<1>14. CASE WriteStopped(c) \/ WriteFailed(c)
  BY <1>14, EndsAlone DEF WriteStopped, WriteFailed, exchange
<1> QED BY <1>1, <1>2, <1>3, <1>4, <1>5, <1>6, <1>7, <1>8, <1>9, <1>10, <1>11, <1>12,
           <1>13, <1>14 DEF Closer

LEMMA OneAloneStep ==
  ASSUME "cancel" \notin faults, TypeInv, OneAlone, [Next]_vars
  PROVE  OneAlone'
<1> USE DEF TypeInv, LocalsTyped
<1>0. \A c \in Closers : calls[c] \in Nat
  BY ConstantsAssumption DEF ConstantsAssumption
<1>1. ASSUME NEW c \in Closers, Begin(c) PROVE OneAlone'
  <2>1. /\ calls' = [calls EXCEPT ![c] = calls[c] + 1] /\ UNCHANGED <<closeOrders, lastId>>
        /\ pc[c] = "idle" /\ pc'[c] \in {"cancelAll", "readFirst"}
        /\ \A d \in Closers \ {c} : pc'[d] = pc[d]
    BY <1>1 DEF Begin, Goto, exchange
  <2>2. calls'[c] >= 1 /\ lastId[c] = NoOrder
    BY <1>0, <2>1 DEF OneAlone
  <2>3. ASSUME NEW d \in Closers, Sole(d)' PROVE StackAt(d)'
    <3>1. d = c
      BY <2>2, <2>3 DEF Sole
    <3>2. \A e \in Closers : calls[e] = 0
      BY <1>0, <2>1, <2>3, <3>1 DEF Sole
    <3>3. closeOrders' = {}
      BY <2>1, <3>2 DEF OneAlone
    <3> QED BY <2>1, <2>2, <3>1, <3>3 DEF StackAt
  <2> QED BY <2>1, <2>2, <2>3 DEF OneAlone
<1>2. ASSUME NEW c \in Closers, Closer(c) PROVE OneAlone'
  <2>1. /\ calls' = calls
        /\ \E d \in Closers : calls[d] >= 1
        /\ \A d \in Closers \ {c} : lastId'[d] = lastId[d]
        /\ pc'[c] = "idle" => lastId'[c] = NoOrder
    BY <1>2, OneAloneFrame
  <2>2. pc[c] # "idle" /\ \A d \in Closers \ {c} : pc'[d] = pc[d]
    BY <1>2, CloserMoves
  <2>3. ASSUME NEW d \in Closers, Sole(d)' PROVE StackAt(d)'
    <3>1. Sole(d) /\ calls[c] >= 1
      BY <2>1, <2>2, <2>3 DEF Sole, Counters, CountersAt
    <3>2. d = c
      BY <3>1 DEF Sole
    <3> QED BY <1>2, <3>1, <3>2, AloneStep DEF OneAlone
  <2> QED BY <2>1, <2>2, <2>3 DEF OneAlone
<1>3. ASSUME UNCHANGED <<pc, calls, attempt, lastId>>,
             closeOrders = {} => closeOrders' = {},
             \A o \in closeOrders' : \E p \in closeOrders : o.id = p.id
      PROVE  OneAlone'
  <2>1. ASSUME NEW c \in Closers, StackAt(c) PROVE StackAt(c)'
    <3>1. OrderId(c)' = OrderId(c)
      BY <1>3 DEF OrderId
    <3> QED BY <1>3, <2>1, <3>1 DEF StackAt
  <2> QED BY <1>3, <2>1 DEF OneAlone, Sole
<1>4. ASSUME NEW o \in closeOrders, NEW q \in 1..o.qty, Fill(o, q) PROVE OneAlone'
  <2>1. o \in [id : OrderIds, side : {"buy", "sell"}, qty : Int, ro : BOOLEAN]
    BY DEF ExchangeTyped
  <2>2. \A n : [o EXCEPT !.qty = n].id = o.id
    BY <2>1
  <2>3. \A p \in closeOrders' : \E r \in closeOrders : p.id = r.id
    BY <1>4, <2>2 DEF Fill
  <2> QED BY <1>3, <1>4, <2>3 DEF Fill, locals
<1>5. CASE Restart
  <2>1. /\ closeOrders' \subseteq closeOrders /\ calls' = calls
        /\ \A c \in Closers : pc'[c] = "idle" /\ lastId'[c] = NoOrder
    BY <1>5 DEF Restart
  <2> QED BY <2>1 DEF OneAlone, Sole, StackAt
<1>6. CASE \/ \E d \in gridOrders : GridFill(d)
           \/ TickBegins \/ (\E d \in GridDeltas : MonitorPlaces(d)) \/ TickEnds
           \/ DeleteCheck \/ DeleteVerify \/ DeleteRow
           \/ UNCHANGED vars
  <2>1. UNCHANGED <<closeOrders, pc, locals>>
    BY <1>6 DEF GridFill, TickBegins, MonitorPlaces, TickEnds, DeleteCheck, DeleteVerify,
       DeleteRow, exchange, vars, locals
  <2> QED BY <1>3, <2>1 DEF locals
<1> QED BY <1>1, <1>2, <1>4, <1>5, <1>6 DEF Next

\* "NUNCA stackeamos ordenes de cierre duplicadas" (closeBot): where cancels succeed,
\* the only activation there ever was has one close order at most, and none beside its
\* MARKET order, whatever its reads and its creations answer and whether it learns the
\* id of its order or not.
THEOREM NeverStacks == Spec => []SoleActivationNeverStacks
<1> DEFINE Inv == TypeInv /\ ("cancel" \notin faults => OneAlone)
<1>1. Init => Inv
  BY TypeInit DEF Init, OneAlone, Sole
<1>2. Inv /\ [Next]_vars => Inv'
  BY TypeStep, OneAloneStep, FaultsKept
<1>3. Inv => SoleActivationNeverStacks
  BY DEF OneAlone, StackAt, SoleActivationNeverStacks
<1> QED BY <1>1, <1>2, <1>3, PTL DEF Spec
=============================================================================
