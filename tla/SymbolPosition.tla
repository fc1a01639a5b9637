--------------------------- MODULE SymbolPosition ---------------------------
(***************************************************************************)
(* The netting rules of src/paper-trading/symbol-position.ts: one position *)
(* per symbol, shared by every strategy on it.  A fired strategy is only   *)
(* an intent; it opens, adds to, reduces or flips the one position.        *)
(*                                                                         *)
(* The operators are pure, as the class is: they take a position and       *)
(* return the next one with the fills that explain the change.  Prices and *)
(* quantities are integers, so every proportional share is rounded, as the *)
(* floats of the code are; EPS is 0.  pos.notional is left out (nothing    *)
(* here reads it).                                                         *)
(*                                                                         *)
(* The position holds the two-phase trailing stop of its governing         *)
(* strategy (src/paper-trading/trailing.ts): lock the stop at breakeven,   *)
(* then trail it behind the best price seen.  The code measures profit and *)
(* trail distance as a fraction of the price and ATR as a percentage; here *)
(* both are distances in ticks, so `atr' is the ATR percentage times the   *)
(* entry price.                                                            *)
(***************************************************************************)
EXTENDS Integers, SequencesExt

CONSTANTS
  BreakevenMult,    \* profit, in ATRs, that locks the stop at breakeven
  BreakevenOffset,  \* ticks beyond the entry price the locked stop lands on
  ActivationMult,   \* profit, in ATRs, that starts the trail
  TrailMult,        \* trail distance behind the extreme, in ATRs
  MinTrail,         \* floor of the trail distance
  MaxTrail,         \* ceiling of the trail distance
  Leverage,     \* margin is notional / Leverage
  FeeDiv,       \* fee is notional / FeeDiv (10_000 / feeBps)
  StopTicks,    \* distance from the entry price to the stop ...
  TargetTicks,  \* ... to the target ...
  LiqTicks,     \* ... and to the liquidation price
  NoOne         \* governingStrategyId = null

ASSUME TrailingAssumption ==
  /\ BreakevenMult \in Nat /\ ActivationMult \in Nat /\ TrailMult \in Nat
  /\ BreakevenOffset \in Nat /\ MinTrail \in Nat /\ MaxTrail \in Nat

\* assertStopsClearLiquidation: the stop fires before the exchange would.
ASSUME PositionAssumption ==
  /\ Leverage \in Nat \ {0} /\ FeeDiv \in Nat \ {0}
  /\ TargetTicks \in Nat /\ StopTicks \in Nat /\ LiqTicks \in Nat
  /\ StopTicks < LiqTicks

-----------------------------------------------------------------------------
(* The trailing stop.                                                      *)

Directions == {"long", "short"}

\* "off" stands for trailing = null: the governing strategy has no trail.
Phases == {"off", "initial", "breakeven", "trailing"}

Least(a, b) == IF a <= b THEN a ELSE b
Greatest(a, b) == IF a >= b THEN a ELSE b

\* b is a better price than a for a position in this direction.
Improves(dir, a, b) == IF dir = "long" THEN b > a ELSE b < a

\* Mutants: the latest price whichever is better; a distance that ignores shorts.
LatestPrice(dir, a, b) == b
AheadOfLong(dir, p, d) == p + d

\* The better of two prices, and the price d ticks in favour of p.
Best(dir, a, b) == IF Improves(dir, a, b) THEN b ELSE a
Ahead(dir, p, d) == IF dir = "long" THEN p + d ELSE p - d

Gain(dir, from, to) == IF dir = "long" THEN to - from ELSE from - to

InitTrailingState(entry) == [phase |-> "initial", extreme |-> entry]
NoTrail == [phase |-> "off", extreme |-> 0]

TrailDistance(atr) == Greatest(MinTrail, Least(MaxTrail, TrailMult * atr))

\* Phase after this bar: both thresholds can be crossed by the same bar.
NextPhase(phase, profit, atr) ==
  IF phase = "trailing" \/ profit >= ActivationMult * atr THEN "trailing"
  ELSE IF phase = "initial" /\ profit >= BreakevenMult * atr THEN "breakeven"
  ELSE phase

\* updateTrailingStop for an enabled trail.
UpdateTrailingStop(trail, bar, dir, entry, stop, atr) ==
  LET extreme == Best(dir, trail.extreme, IF dir = "long" THEN bar.high ELSE bar.low)
      profit  == Gain(dir, entry, extreme)
      phase   == NextPhase(trail.phase, profit, atr)
      locked  == IF trail.phase = "initial" /\ profit >= BreakevenMult * atr
                 THEN Best(dir, stop, Ahead(dir, entry, BreakevenOffset))
                 ELSE stop
      trailed == IF phase = "trailing"
                 THEN Best(dir, locked, Ahead(dir, extreme, -TrailDistance(atr)))
                 ELSE locked
  IN  [state          |-> [phase |-> phase, extreme |-> extreme],
       stop           |-> trailed,
       targetDisabled |-> phase = "trailing"]

-----------------------------------------------------------------------------
(* Netting.                                                                *)

Fee(notional) == notional \div FeeDiv
MarginOf(notional) == notional \div Leverage

\* flatPosition: 0 stands for the null of a field only read when not flat.
FlatPosition ==
  [direction |-> "none", qty |-> 0, avgEntry |-> 0, margin |-> 0,
   gov |-> NoOne, stop |-> 0, target |-> 0, liq |-> 0, entryIdx |-> 0,
   contributors |-> {}, lots |-> <<>>, trailing |-> NoTrail]

Lot(s, q) == [strategyId |-> s, qty |-> q]

Fill(action, s, trigger, dir, price, q, margin, pnl, fee) ==
  [action |-> action, strategyId |-> s, trigger |-> trigger, direction |-> dir,
   price |-> price, qty |-> q, marginDelta |-> margin, realizedPnl |-> pnl,
   feeUsd |-> fee]

\* One field of every lot or fill of a list, and the total of a list of amounts.
Column(list, field) == [i \in DOMAIN list |-> list[i][field]]
TotalOf(amounts) == FoldLeft(LAMBDA sum, x : sum + x, 0, amounts)

-----------------------------------------------------------------------------
(* Attribution of a reduction to the FIFO lots it consumes.                *)

\* What a reduction moves in all; each lot gets a share of each total.
Totals(pnl, fee, margin) == [pnl |-> pnl, fee |-> fee, margin |-> margin]
Quantities == {"pnl", "fee", "margin"}

\* One lot's part in a cut of the position: the oldest lots go first; the last
\* slice takes what the others left over, so the slices add up to the totals
\* whatever the rounding.
Consume(acc, lot, cut) ==
  IF acc.toConsume <= 0
  THEN [acc EXCEPT !.remaining = Append(@, lot)]
  ELSE
  LET used  == Least(lot.qty, acc.toConsume)
      left  == acc.toConsume - used
      slice == [k \in Quantities |->
                  IF left <= 0 THEN cut.totals[k] - acc.done[k]
                  ELSE (cut.totals[k] * used) \div cut.qty]
  IN [toConsume |-> left,
      done      |-> [k \in Quantities |-> acc.done[k] + slice[k]],
      fills     |-> Append(acc.fills,
                      Fill(cut.action, lot.strategyId, cut.trigger, cut.dir, cut.price, used,
                           -slice["margin"], slice["pnl"], slice["fee"])),
      remaining |-> IF lot.qty - used > 0
                    THEN Append(acc.remaining, Lot(lot.strategyId, lot.qty - used))
                    ELSE acc.remaining]

NothingConsumed(q) ==
  [toConsume |-> q, done |-> [k \in Quantities |-> 0], fills |-> <<>>, remaining |-> <<>>]

AllocateAcrossLots(lots, q, totals, action, trigger, dir, price) ==
  LET cut == [qty |-> q, totals |-> totals, action |-> action, trigger |-> trigger,
              dir |-> dir, price |-> price]
  IN  FoldLeft(LAMBDA acc, lot : Consume(acc, lot, cut), NothingConsumed(q), lots)

LotOwners(lots) == {lots[i].strategyId : i \in DOMAIN lots}

\* Economics of a reduction, off the one average entry price.
ReduceTotals(pos, q, price) ==
  LET gross == Gain(pos.direction, pos.avgEntry, price) * q
      fee   == Fee(q * price)
  IN  Totals(gross - fee, fee,
             IF pos.qty = 0 THEN 0   \* the code's 0/0 reaches no fill
             ELSE (pos.margin * q) \div pos.qty)

ReduceBy(pos, q, price, trigger, emptied) ==
  LET totals == ReduceTotals(pos, q, price)
      rest   == pos.qty - q
      split  == AllocateAcrossLots(pos.lots, q, totals,
                                   IF rest <= 0 THEN emptied ELSE "reduce",
                                   trigger, pos.direction, price)
  IN  [position |->
         IF rest <= 0 THEN FlatPosition
         ELSE [pos EXCEPT !.qty = rest,
                          !.margin = @ - totals.margin,
                          !.lots = split.remaining,
                          !.contributors = LotOwners(split.remaining)],
       fills |-> split.fills]

-----------------------------------------------------------------------------
(* An intent is [strategyId, direction, trailing, entryIdx].               *)

\* The opener's risk plan governs until the position is flat again.
Open(intent, price, q, action) ==
  LET dir    == intent.direction
      margin == MarginOf(q * price)
  IN  [position |->
         [direction |-> dir, qty |-> q, avgEntry |-> price, margin |-> margin,
          gov |-> intent.strategyId,
          stop |-> Ahead(dir, price, -StopTicks),
          target |-> Ahead(dir, price, TargetTicks),
          liq |-> Ahead(dir, price, -LiqTicks),
          entryIdx |-> intent.entryIdx,
          contributors |-> {intent.strategyId},
          lots |-> <<Lot(intent.strategyId, q)>>,
          trailing |-> IF intent.trailing THEN InitTrailingState(price) ELSE NoTrail],
       fills |-> <<Fill(action, intent.strategyId, intent.strategyId, dir, price,
                        q, margin, 0, Fee(q * price))>>]

\* Mutants: an add grows the position without a lot of its own, or queues its lot
\* before the older ones.
Grown(pos, intent, price, q) ==
  [pos EXCEPT !.qty = @ + q, !.margin = @ + MarginOf(q * price),
              !.contributors = @ \union {intent.strategyId}]
AddFill(pos, intent, price, q) ==
  Fill("add", intent.strategyId, intent.strategyId, pos.direction, price, q,
       MarginOf(q * price), 0, Fee(q * price))
AddWithoutLot(pos, intent, price, q) ==
  [position |-> Grown(pos, intent, price, q),
   fills    |-> <<AddFill(pos, intent, price, q)>>]
AddInFront(pos, intent, price, q) ==
  [position |-> [Grown(pos, intent, price, q) EXCEPT
                   !.lots = <<Lot(intent.strategyId, q)>> \o @],
   fills    |-> <<AddFill(pos, intent, price, q)>>]

Add(pos, intent, price, q) ==
  LET newQty == pos.qty + q
      margin == MarginOf(q * price)
  IN  [position |->
         [pos EXCEPT !.qty = newQty,
                     !.avgEntry = (pos.qty * pos.avgEntry + q * price) \div newQty,
                     !.margin = @ + margin,
                     !.contributors = @ \union {intent.strategyId},
                     !.lots = Append(@, Lot(intent.strategyId, q))],
       fills |-> <<Fill("add", intent.strategyId, intent.strategyId, pos.direction,
                        price, q, margin, 0, Fee(q * price))>>]

\* Mutant: a flip opens the whole quantity asked for.
FlipInFull(pos, intent, price, q) ==
  LET closed == ReduceBy(pos, pos.qty, price, intent.strategyId, "flip_close")
      opened == Open(intent, price, q, "flip_open")
  IN  [position |-> opened.position, fills |-> closed.fills \o opened.fills]

Flip(pos, intent, price, q) ==
  LET closed == ReduceBy(pos, pos.qty, price, intent.strategyId, "flip_close")
      opened == Open(intent, price, q - pos.qty, "flip_open")
  IN  [position |-> opened.position, fills |-> closed.fills \o opened.fills]

ApplyIntent(pos, intent, price, q) ==
  IF pos.direction = "none" THEN Open(intent, price, q, "open")
  ELSE IF pos.direction = intent.direction THEN Add(pos, intent, price, q)
  ELSE IF q >= pos.qty THEN Flip(pos, intent, price, q)
  ELSE ReduceBy(pos, q, price, intent.strategyId, "close")

ClosePosition(pos, trigger, price) ==
  ReduceBy(pos, pos.qty, price, trigger, "close")

\* Fills that realise PnL; the others pay their fee in cash.
ClosingActions == {"reduce", "close", "flip_close"}
=============================================================================
