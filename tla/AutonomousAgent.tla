-------------------------- MODULE AutonomousAgent --------------------------
(***************************************************************************)
(* The autonomous agent (paper-trading/autonomous-agent.ts), its state     *)
(* machine (fsm.ts), its sizing (trading-config.ts) and the paper          *)
(* brokerage it trades through (brokerage.ts), which other clients may use *)
(* at the same time.                                                       *)
(*                                                                         *)
(* Money and quantities are integers, a quotient is rounded down; the rule *)
(* that fires (rules-engine.ts) is an input, as are prices.                *)
(***************************************************************************)
EXTENDS Integers, Sequences, FiniteSets, Bracket

CONSTANTS
  Symbols, Prices,
  Calls,              \* callers of runTick
  Keys,               \* idempotency keys of other clients
  Quantities,         \* what they order, 0 included
  InitialCapital, Leverage,
  RiskPct, StopPct, UtilizationPct, CommissionPct,
  Offset,             \* of stop and target from the entry
  MaxPositions        \* bound on the orders filled

AgentAssumption ==
  /\ Prices \subseteq Nat \ {0} /\ Quantities \subseteq Nat
  /\ InitialCapital \in Nat \ {0} /\ Leverage \in Nat \ {0} /\ StopPct \in Nat \ {0}
  /\ RiskPct \in 1 .. 100 /\ UtilizationPct \in 1 .. 100 /\ CommissionPct \in Nat
  /\ Offset \in Nat
  /\ Keys \intersect Int = {}   \* the agent's keys are its own, by their counter
  /\ None \notin Int

VARIABLES
  fsm,
  tick,          \* caller -> [at, order], where the call is suspended
  balance,       \* caller -> the equity getAccountBalance answers its call with
  orderCounter,
  cash, realizedPnl,
  positions,     \* every position, in the order of their ids
  processedKeys, \* key -> result of the order, for the keys seen
  undercut       \* history: the agent's orders sized on more than the cash they found

ledger == <<cash, realizedPnl, positions, processedKeys>>
vars == <<fsm, tick, balance, orderCounter, ledger, undercut>>

NoOrder == [symbol |-> None]
Order(s, d, qty, price, stop, target) ==
  [symbol |-> s, direction |-> d, qty |-> qty, entry |-> price, stop |-> stop, target |-> target]

\* The position a filled order opens.
Opened(o) ==
  [symbol |-> o.symbol, direction |-> o.direction, qty |-> o.qty, entry |-> o.entry,
   stop |-> o.stop, target |-> o.target, closed |-> None, reason |-> "none"]

Init ==
  /\ fsm = "INITIALIZING"
  /\ tick = [c \in Calls |-> [at |-> "idle", order |-> NoOrder]]
  /\ balance = [c \in Calls |-> InitialCapital]
  /\ orderCounter = 0
  /\ cash = InitialCapital /\ realizedPnl = 0
  /\ positions = <<>> /\ processedKeys = <<>>
  /\ undercut = {}

\* VALID_TRANSITIONS; any other is refused and leaves the state as it was.
Allowed(from) ==
  CASE from = "INITIALIZING"         -> {"FETCHING_MARKET_DATA", "ERROR"}
    [] from = "FETCHING_MARKET_DATA" -> {"EVALUATING_RULES", "IDLE", "ERROR"}
    [] from = "EVALUATING_RULES"     -> {"PLACING_TRADE", "IDLE", "ERROR"}
    [] from = "PLACING_TRADE"        -> {"IDLE", "ERROR"}
    [] from = "IDLE"                 -> {"FETCHING_MARKET_DATA", "ERROR"}
TransitionTo(from, to) == IF to \in Allowed(from) THEN to ELSE from

\* initialize()
Initialize ==
  /\ fsm = "INITIALIZING"
  /\ fsm' = TransitionTo(TransitionTo(fsm, "FETCHING_MARKET_DATA"), "IDLE")
  /\ UNCHANGED <<tick, balance, orderCounter, ledger, undercut>>

-----------------------------------------------------------------------------
(* The brokerage.                                                          *)

Notional(order) == order.qty * order.entry
Commission(order) == (Notional(order) * CommissionPct) \div 100
Affordable(order) == cash >= Notional(order) \div Leverage + Commission(order)

\* The same key again is answered from the map, rejections too.
Seen(key) == key \in DOMAIN processedKeys

Verdict(order) ==
  IF order.qty > 0 /\ order.entry > 0 /\ Affordable(order) THEN "filled" ELSE "rejected"

Remember(key, result) ==
  processedKeys' = [k \in DOMAIN processedKeys \union {key} |->
                      IF k = key THEN result ELSE processedKeys[k]]

PlaceOrder(key, order) ==
  IF Seen(key) THEN UNCHANGED ledger
  ELSE /\ Remember(key, Verdict(order))
       /\ IF Verdict(order) = "filled"
          THEN /\ cash' = cash - Commission(order)
               /\ positions' = Append(positions, Opened(order))
          ELSE UNCHANGED <<cash, positions>>
       /\ UNCHANGED realizedPnl

\* cancelOrder closes a position at its entry price.
CancelOrder(i) ==
  /\ i \in DOMAIN positions /\ IsOpen(positions[i])
  /\ positions' = [positions EXCEPT ![i] = ClosedAt(@, @.entry, "manual")]
  /\ UNCHANGED <<fsm, tick, balance, orderCounter, cash, realizedPnl, processedKeys, undercut>>

\* Mutant: the loop does not pass over closed positions.
ExitingAgain(s, price) ==
  {i \in DOMAIN positions : positions[i].symbol = s
     /\ ExitReason([positions[i] EXCEPT !.closed = None], price) # "none"}

Exiting(s, price) ==
  {i \in DOMAIN positions : positions[i].symbol = s /\ ExitReason(positions[i], price) # "none"}

Gain(s, price) ==
  Total([i \in DOMAIN positions |-> IF i \in Exiting(s, price) THEN Pnl(positions[i], price) ELSE 0])

MarkToMarket(s, price) ==
  /\ positions' = [i \in DOMAIN positions |->
       IF i \in Exiting(s, price)
       THEN ClosedAt(positions[i], price, ExitReason(positions[i], price)) ELSE positions[i]]
  /\ realizedPnl' = realizedPnl + Gain(s, price)
  /\ cash' = cash + Gain(s, price)
  /\ UNCHANGED processedKeys

\* The bound on positions counts the order that a call may be about to place.
HasRoom == Len(positions) + Cardinality({c \in Calls : tick[c].at = "sizing"}) < MaxPositions

\* Another client sends an order, or sends it again.
ClientOrder(key, order) ==
  /\ ~Seen(key) /\ Verdict(order) = "filled" => HasRoom
  /\ PlaceOrder(key, order)
  /\ UNCHANGED <<fsm, tick, balance, orderCounter, undercut>>

-----------------------------------------------------------------------------
(* The agent.                                                              *)

\* calculatePositionQuantity, on the equity of that moment.
Min2(a, b) == IF a <= b THEN a ELSE b
PositionQuantity(equity, price) ==
  IF equity <= 0 THEN 0
  ELSE Min2((equity * RiskPct) \div (price * StopPct),
            (equity * Leverage * UtilizationPct) \div (100 * price))

MayRun == fsm = "IDLE"

\* runTick up to its first await, for the balance, which getAccountBalance computes at
\* once: a call from any other state than IDLE returns.
RunTick(c, s, price, direction) ==
  /\ tick[c].at = "idle" /\ MayRun /\ (direction # "flat" => HasRoom)
  /\ MarkToMarket(s, price)
  /\ IF direction = "flat"
     THEN UNCHANGED <<fsm, tick, balance>>
     ELSE /\ fsm' = TransitionTo(TransitionTo(fsm, "FETCHING_MARKET_DATA"), "EVALUATING_RULES")
          /\ tick' = [tick EXCEPT ![c] = [at |-> "sizing",
               order |-> Order(s, direction, 0, price,
                           price - Sign(direction) * Offset, price + Sign(direction) * Offset)]]
          /\ balance' = [balance EXCEPT ![c] = cash']
  /\ UNCHANGED <<orderCounter, undercut>>

\* Mutant: the way out without an order does not go back to IDLE.
OnlyToPlacing(qty) == IF qty <= 0 THEN fsm ELSE TransitionTo(fsm, "PLACING_TRADE")

StateAfterSizing(qty) == TransitionTo(fsm, IF qty <= 0 THEN "IDLE" ELSE "PLACING_TRADE")

\* The balance has come: size the order by it and place it, on the cash there is now.
Size(c) ==
  LET order == tick[c].order
      qty == PositionQuantity(balance[c], order.entry)
      sized == [order EXCEPT !.qty = qty]
  IN  /\ tick[c].at = "sizing"
      /\ fsm' = StateAfterSizing(qty)
      /\ IF qty <= 0
         THEN /\ tick' = [tick EXCEPT ![c] = [at |-> "idle", order |-> NoOrder]]
              /\ UNCHANGED <<orderCounter, ledger, undercut>>
         ELSE /\ orderCounter' = orderCounter + 1
              /\ tick' = [tick EXCEPT ![c] = [at |-> "placing", order |-> sized]]
              /\ PlaceOrder(orderCounter', sized)
              /\ undercut' = undercut \cup (IF cash < balance[c] THEN {orderCounter'} ELSE {})
      /\ UNCHANGED balance

\* The result of the order has come.
Placed(c) ==
  /\ tick[c].at = "placing"
  /\ tick' = [tick EXCEPT ![c] = [at |-> "idle", order |-> NoOrder]]
  /\ fsm' = TransitionTo(fsm, "IDLE")
  /\ UNCHANGED <<balance, orderCounter, ledger, undercut>>

Next ==
  \/ Initialize
  \/ \E c \in Calls, s \in Symbols, p \in Prices, d \in {"long", "short", "flat"} : RunTick(c, s, p, d)
  \/ \E c \in Calls : Size(c) \/ Placed(c)
  \/ \E k \in Keys, s \in Symbols, d \in {"long", "short"}, q \in Quantities, p \in Prices :
       ClientOrder(k, Order(s, d, q, p, None, None))
  \/ \E i \in DOMAIN positions : CancelOrder(i)

Spec == Init /\ [][Next]_vars
FairSpec == Spec /\ \A c \in Calls : WF_vars(Size(c)) /\ WF_vars(Placed(c))

-----------------------------------------------------------------------------
(* Properties.                                                             *)

Settled == Total([i \in DOMAIN positions |-> Result(positions[i])])
Fees == Total([i \in DOMAIN positions |-> Commission(positions[i])])
Filled == {k \in DOMAIN processedKeys : processedKeys[k] = "filled"}

\* The cash is what every fill and every exit left of the capital: each position
\* paid its commission once and was settled once, whatever was cancelled,
\* repeated or marked in between, and every filled key has its one position.
BooksBalance ==
  /\ realizedPnl = Settled
  /\ cash = InitialCapital + realizedPnl - Fees
  /\ Cardinality(Filled) = Len(positions)

\* Two calls of runTick never trade at a time, though each is suspended twice:
\* the machine's state is where the one call is.
OneTickAtATime ==
  LET busy == {c \in Calls : tick[c].at # "idle"}
  IN  /\ Cardinality(busy) <= 1
      /\ busy # {} <=> fsm \in {"EVALUATING_RULES", "PLACING_TRADE"}

\* An order the agent has sized is one the brokerage accepts: sizing caps the margin at
\* a share of the equity.  The code sizes on the balance of the moment it asked for it, so
\* this holds unless another client's order was charged for while the answer was awaited.
SizedOrdersAreFilled ==
  \A k \in 1 .. orderCounter : k \notin undercut => processedKeys[k] = "filled"

\* The agent is always ready for ticks again.
ComesBack == fsm = "EVALUATING_RULES" ~> fsm = "IDLE"
=============================================================================
