---------------------------- MODULE TradingAgent ----------------------------
(***************************************************************************)
(* The symbol-agnostic trading agent (src/agent.ts): its machine           *)
(* (fsm/agentMachine.ts), the rules it runs in a fixed order               *)
(* (rules/engine.ts; which of them fire is an input), the risk manager     *)
(* (risk/riskManager.ts) and the paper brokerage it submits to             *)
(* (brokerage/paperBrokerage.ts).                                          *)
(*                                                                         *)
(* Prices are in ticks and quotients are rounded down.  A position is kept *)
(* with its cost, the code's qty * avgEntry.  Its stopLoss is never set    *)
(* (applyPosition does not copy it), so markToMarket only marks.           *)
(***************************************************************************)
EXTENDS Integers, Sequences, FiniteSets, SequencesExt, FiniteSetsExt

CONSTANTS
  Symbols,                  \* in the order of the feed
  Rules,                    \* in the order of registration
  PriceLists,               \* what a fetch may return, a price for each symbol
  Atr, Slippage, FeePct,
  InitialCapital, MaxOpenPositions,
  DailyLossPct, RiskPct, PositionPct, StopAtrMult,
  MaxRounds, MaxSignals     \* bounds on the rounds, and on the signals of one

TradingAssumption ==
  /\ PriceLists \subseteq [Range(Symbols) -> Nat \ {0}] /\ Slippage \in Nat /\ FeePct \in Nat
  /\ Atr \in Nat \ {0} /\ StopAtrMult \in Nat \ {0}
  /\ InitialCapital \in Nat \ {0} /\ MaxOpenPositions \in Nat

VARIABLES
  state,            \* of the machine
  round,            \* times data was fetched
  lastPrices, cash, equity, dailyPnl,
  positions,        \* symbol -> [qty, cost], qty 0 when there is none
  signals,          \* of the round: [symbol, kind]
  intents,          \* what the risk manager made of them, the rejected ones left out
  fills             \* filled orders: [key, symbol, signed, price]

account == <<cash, dailyPnl, positions>>
vars == <<state, round, lastPrices, equity, account, signals, intents, fills>>

Init ==
  /\ state = "IDLE" /\ round = 0
  /\ lastPrices = [s \in Range(Symbols) |-> 0]
  /\ cash = InitialCapital /\ equity = InitialCapital /\ dailyPnl = 0
  /\ positions = [s \in Range(Symbols) |-> [qty |-> 0, cost |-> 0]]
  /\ signals = <<>> /\ intents = <<>> /\ fills = <<>>

Held == {s \in Range(Symbols) : positions[s].qty # 0}
Abs(n) == IF n < 0 THEN -n ELSE n
Sgn(n) == IF n < 0 THEN -1 ELSE IF n > 0 THEN 1 ELSE 0

-----------------------------------------------------------------------------
(* The machine: one handler a step, an exception leads to ERROR.           *)

Begin ==
  /\ state = "IDLE" /\ round < MaxRounds
  /\ state' = "FETCH_DATA"
  /\ UNCHANGED <<round, lastPrices, equity, account, signals, intents, fills>>

\* fetchData: new prices, at which the positions are marked.
FetchData(prices) ==
  /\ state = "FETCH_DATA" /\ state' = "EVALUATE_RULES"
  /\ round' = round + 1
  /\ lastPrices' = prices
  /\ equity' = cash + MapThenSumSet(LAMBDA s : prices[s] * positions[s].qty - positions[s].cost, Held)
  /\ UNCHANGED <<account, signals, intents, fills>>

FetchFails ==
  /\ state = "FETCH_DATA" /\ state' = "ERROR"
  /\ UNCHANGED <<round, lastPrices, equity, account, signals, intents, fills>>

\* handleError
Halt ==
  /\ state = "ERROR" /\ state' = "HALTED"
  /\ UNCHANGED <<round, lastPrices, equity, account, signals, intents, fills>>

\* RuleEngine.run: for each symbol each rule may signal; both rules signal
\* entries that buy and exits that sell.
Evaluate(fired) ==
  /\ Cardinality({x \in Range(Symbols) \X Range(Rules) : fired[x[1]][x[2]] # "none"}) <= MaxSignals
  /\ state = "EVALUATE_RULES" /\ state' = "RISK_CHECK"
  /\ signals' = FlattenSeq([i \in DOMAIN Symbols |->
       FlattenSeq([r \in DOMAIN Rules |->
         IF fired[Symbols[i]][Rules[r]] = "none" THEN <<>>
         ELSE <<[key |-> <<round, Symbols[i], Rules[r]>>, symbol |-> Symbols[i],
                 kind |-> fired[Symbols[i]][Rules[r]]]>>])])
  /\ UNCHANGED <<round, lastPrices, equity, account, intents, fills>>

-----------------------------------------------------------------------------
(* RiskManager.decide.                                                     *)

LossLimitHit == -dailyPnl * 100 >= equity * DailyLossPct

EntryQuantity(price) ==
  LET byRisk == (equity * RiskPct) \div (100 * Atr * StopAtrMult)
      bySize == (equity * PositionPct) \div (100 * price)
  IN  Min({byRisk, bySize})

Accepted(signal) ==
  /\ ~LossLimitHit
  /\ signal.kind = "ENTRY" =>
       Cardinality(Held) < MaxOpenPositions /\ EntryQuantity(lastPrices[signal.symbol]) > 0

IntentOf(signal) ==
  [key |-> signal.key, symbol |-> signal.symbol,
   signed |-> IF signal.kind = "ENTRY" THEN EntryQuantity(lastPrices[signal.symbol])
              ELSE -Abs(positions[signal.symbol].qty)]

\* riskCheck: all signals of the round against the account as it is now.
RiskCheck ==
  /\ state = "RISK_CHECK" /\ state' = "EXECUTE"
  /\ intents' = [i \in DOMAIN SelectSeq(signals, Accepted) |-> IntentOf(SelectSeq(signals, Accepted)[i])]
  /\ UNCHANGED <<round, lastPrices, equity, account, signals, fills>>

-----------------------------------------------------------------------------
(* PaperBrokerage.                                                         *)

Price(intent) == lastPrices[intent.symbol] + (IF intent.signed > 0 THEN Slippage ELSE -Slippage)
FeeOf(price, signed) == (price * Abs(signed) * FeePct) \div 100
Affordable(intent) ==
  intent.signed <= 0 \/ cash >= Price(intent) * intent.signed + FeeOf(Price(intent), intent.signed)

\* applyPosition, for the side of the position or from none ...
Increase(p, signed, price) == [qty |-> p.qty + signed, cost |-> p.cost + price * signed]

\* ... and against it.  What is left of a position that was reduced is valued at
\* the price of the order, what came of a flip at the old average entry.
Decrease(p, signed, price) ==
  LET left == p.qty + signed
      average == p.cost \div p.qty
  IN  [qty |-> left, cost |-> left * IF Sgn(left) = Sgn(p.qty) THEN price ELSE average]

Applied(p, signed, price) ==
  IF p.qty = 0 \/ Sgn(p.qty) = Sgn(signed) THEN Increase(p, signed, price) ELSE Decrease(p, signed, price)

RealizedBy(p, signed, price) ==
  IF p.qty = 0 \/ Sgn(signed) \in {0, Sgn(p.qty)} THEN 0
  ELSE Sgn(p.qty) * Min({Abs(p.qty), Abs(signed)}) * (price - p.cost \div p.qty)

\* submit.  Keys do not come up again within a run, each signal has its own.
Submit(intent) ==
  LET s == intent.symbol
      price == Price(intent)
  IN  IF Affordable(intent)
      THEN /\ cash' = cash - price * intent.signed - FeeOf(price, intent.signed)
           /\ positions' = [positions EXCEPT ![s] = Applied(@, intent.signed, price)]
           /\ dailyPnl' = dailyPnl + RealizedBy(positions[s], intent.signed, price)
           /\ fills' = Append(fills, [key |-> intent.key, symbol |-> s, signed |-> intent.signed, price |-> price])
      ELSE UNCHANGED <<account, fills>>

\* execute: the intents one by one.
Execute ==
  /\ state = "EXECUTE" /\ intents # <<>>
  /\ Submit(Head(intents))
  /\ intents' = Tail(intents)
  /\ UNCHANGED <<state, round, lastPrices, equity, signals>>

Executed ==
  /\ state = "EXECUTE" /\ intents = <<>> /\ state' = "RECONCILE"
  /\ UNCHANGED <<round, lastPrices, equity, account, signals, intents, fills>>

Reconcile ==
  /\ state = "RECONCILE" /\ state' = "IDLE"
  /\ UNCHANGED <<round, lastPrices, equity, account, signals, intents, fills>>

Next ==
  \/ Begin \/ FetchFails \/ Halt \/ RiskCheck \/ Execute \/ Executed \/ Reconcile
  \/ \E prices \in PriceLists : FetchData(prices)
  \/ \E fired \in [Range(Symbols) -> [Range(Rules) -> {"none", "ENTRY", "EXIT"}]] : Evaluate(fired)

Spec == Init /\ [][Next]_vars

-----------------------------------------------------------------------------
(* Properties.                                                             *)

SumOver(F(_), S) == MapThenSumSet(F, S)
FillsOf(s) == {i \in DOMAIN fills : fills[i].symbol = s}
RoundOf(i) == fills[i].key[1]

\* Cash and positions are what the fills of the journal add up to, each signal
\* filled at most once.
LedgerMatchesFills ==
  /\ cash = InitialCapital - SumOver(LAMBDA i :
       fills[i].price * fills[i].signed + FeeOf(fills[i].price, fills[i].signed), DOMAIN fills)
  /\ \A s \in Range(Symbols) : positions[s].qty = SumOver(LAMBDA i : fills[i].signed, FillsOf(s))
  /\ \A i, j \in DOMAIN fills : fills[i].key = fills[j].key => i = j

\* The rules buy to enter and sell to exit, so the agent is long only -- but for
\* two exits of one symbol decided in one round, against the same position.
ShortOnlyAfterTwoExits ==
  \A s \in Range(Symbols) : positions[s].qty < 0 =>
    \E i, j \in FillsOf(s) : i < j /\ RoundOf(i) = RoundOf(j) /\ fills[i].signed < 0 /\ fills[j].signed < 0

\* More positions than maxOpenPositions come only of entries decided together.
LimitPassedWithinARound ==
  Cardinality(Held) > MaxOpenPositions =>
    \E i, j \in DOMAIN fills : /\ RoundOf(i) = RoundOf(j) /\ fills[i].symbol # fills[j].symbol
                               /\ fills[i].signed > 0 /\ fills[j].signed > 0

\* "Hard gate 2: too many open positions" (riskManager.ts:22).
PositionsWithinLimit == Cardinality(Held) <= MaxOpenPositions
=============================================================================
