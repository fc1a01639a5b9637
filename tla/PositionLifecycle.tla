-------------------------- MODULE PositionLifecycle -------------------------
(***************************************************************************)
(* One symbol's position from open to flat: the strategies' intents        *)
(* (SymbolPositionManager.applyIntent) and the exit management that        *)
(* LivePaperRunner.processGroup runs on each closed candle of the          *)
(* governing group (trailing stop, then liquidation, stop, target or       *)
(* timeout).  One caller at a time: LiveRunner has the concurrent ones.    *)
(***************************************************************************)
EXTENDS SymbolPosition

CONSTANTS
  Strategies,
  DirOf,        \* the direction each strategy trades
  Trails,       \* the strategies with an enabled trailing config
  Prices,       \* price levels of bars and of entries
  Sizes,        \* quantities an entry can ask for
  Atrs,         \* ATR distances
  Adjustments,  \* what slippage and funding add to an exit price
  MaxQty,       \* bound on the held quantity
  MaxHoldBars,  \* the strategies' holding limit
  Window        \* candles the fixed lookback returns once history is long enough

ASSUME LifecycleAssumption ==
  /\ NoOne \notin Strategies
  /\ DirOf \in [Strategies -> Directions]
  /\ Trails \subseteq Strategies
  /\ Prices \subseteq Nat /\ Atrs \subseteq Nat /\ Adjustments \subseteq Int
  /\ Sizes \subseteq Nat \ {0}
  /\ MaxQty \in Nat /\ MaxHoldBars \in Nat /\ Window \in Nat \ {0}

VARIABLES
  pos,      \* state.symbolPositions[symbol]
  fills,    \* the PositionFills of the last operation
  candles,  \* length of the candle window of the last closed bar
  heldBars  \* history: bars closed since the position opened, capped past the limit

vars == <<pos, fills, candles, heldBars>>

Bars == {b \in [low : Prices, high : Prices, close : Prices] :
           b.low <= b.close /\ b.close <= b.high}

Intent(s) == [strategyId |-> s, direction |-> DirOf[s], trailing |-> s \in Trails,
              entryIdx |-> candles - 1]

Init ==
  /\ pos = FlatPosition
  /\ fills = <<>>
  /\ candles = 1
  /\ heldBars = 0

Settle(result) ==
  /\ pos' = result.position
  /\ fills' = result.fills

\* A strategy's entry signal, sized and filled at price.
Signal(s, price, q) ==
  LET adds == pos.direction = DirOf[s]
  IN  /\ adds => pos.qty + q <= MaxQty
      /\ Settle(ApplyIntent(pos, Intent(s), price, q))
      /\ heldBars' = IF fills'[Len(fills')].action \in {"open", "flip_open"} THEN 0
                     ELSE IF pos'.direction = "none" THEN 0 ELSE heldBars
      /\ UNCHANGED candles

-----------------------------------------------------------------------------
(* Exit management on one closed bar.                                      *)

\* The position with its stop moved by the trail, and whether the target is off.
Trailed(bar, atr) ==
  IF pos.trailing.phase = "off"
  THEN [position |-> pos, targetDisabled |-> FALSE]
  ELSE LET moved == UpdateTrailingStop(pos.trailing, bar, pos.direction,
                                       pos.avgEntry, pos.stop, atr)
       IN [position |-> [pos EXCEPT !.trailing = moved.state, !.stop = moved.stop],
           targetDisabled |-> moved.targetDisabled]

Adverse(dir, bar) == IF dir = "long" THEN bar.low ELSE bar.high
Favourable(dir, bar) == IF dir = "long" THEN bar.high ELSE bar.low

\* The level was touched by the adverse, or the favourable, side of the bar.
Lost(dir, bar, level) == ~Improves(dir, level, Adverse(dir, bar))
Won(dir, bar, level) == ~Improves(dir, Favourable(dir, bar), level)

\* Exit reasons in the order the code prefers them, with their prices.
ExitOf(p, targetDisabled, bar, length) ==
  LET dir == p.direction
  IN  IF Lost(dir, bar, p.liq) THEN [reason |-> "liquidation", price |-> p.liq]
      ELSE IF Lost(dir, bar, p.stop) THEN [reason |-> "stop", price |-> p.stop]
      ELSE IF ~targetDisabled /\ Won(dir, bar, p.target)
        THEN [reason |-> "target", price |-> p.target]
      ELSE IF length - 1 - p.entryIdx >= MaxHoldBars
        THEN [reason |-> "timeout", price |-> bar.close]
      ELSE [reason |-> "none", price |-> 0]

\* The next bar closes and the governing group manages the position on it.
BarClose(bar, atr, adjustment) ==
  LET length == Least(candles + 1, Window)
      moved  == Trailed(bar, atr)
      exit   == ExitOf(moved.position, moved.targetDisabled, bar, length)
  IN  /\ pos.direction # "none"
      /\ candles' = length
      /\ IF exit.reason = "none"
         THEN /\ pos' = moved.position
              /\ fills' = <<>>
              /\ heldBars' = Least(heldBars + 1, MaxHoldBars + 1)
         ELSE /\ Settle(ClosePosition(moved.position, pos.gov, exit.price + adjustment))
              /\ heldBars' = 0

\* Nothing to manage: the window just grows to its fixed length.
QuietBar ==
  /\ pos.direction = "none"
  /\ candles' = Least(candles + 1, Window)
  /\ fills' = <<>>
  /\ UNCHANGED <<pos, heldBars>>

Next ==
  \/ \E s \in Strategies, price \in Prices, q \in Sizes : Signal(s, price, q)
  \/ \E bar \in Bars, atr \in Atrs, a \in Adjustments : BarClose(bar, atr, a)
  \/ QuietBar

Spec == Init /\ [][Next]_vars

-----------------------------------------------------------------------------
(* Properties.                                                             *)

Sign(dir) == CASE dir = "long" -> 1 [] dir = "short" -> -1 [] dir = "none" -> 0
Net(p) == Sign(p.direction) * p.qty

\* Every variable holds a value of its kind: the shape of a SymbolPosition and
\* of the fills symbol-position.ts returns.
TypeOK ==
  /\ pos.direction \in Directions \union {"none"}
  /\ pos.qty \in Nat /\ pos.margin \in Int /\ pos.avgEntry \in Int
  /\ pos.stop \in Int /\ pos.target \in Int /\ pos.liq \in Int
  /\ pos.gov \in Strategies \union {NoOne}
  /\ pos.contributors \subseteq Strategies
  /\ pos.lots \in Seq([strategyId : Strategies, qty : Nat])
  /\ pos.trailing.phase \in Phases /\ pos.trailing.extreme \in Int
  /\ pos.entryIdx \in 0 .. Window - 1
  /\ \A i \in DOMAIN fills : fills[i].strategyId \in Strategies /\ fills[i].qty \in Nat
  /\ candles \in 1 .. Window /\ heldBars \in 0 .. MaxHoldBars + 1

\* The FIFO lots and the one position never drift apart: their quantities add
\* up to the position's, their owners are its contributors, and an empty
\* position carries no margin.  allocateAcrossLots trusts this: were the lots
\* short, part of a close's PnL would be attributed to nobody.
LotsCoverPosition ==
  /\ TotalOf(Column(pos.lots, "qty")) = pos.qty
  /\ pos.contributors = LotOwners(pos.lots)
  /\ pos.qty = 0 => pos.margin = 0
  /\ pos.margin >= 0

\* The state is well-typed and the lots in the ledger add up, strategy by strategy
\* and in sum, to the position they attribute.
PositionIsSound == TypeOK /\ LotsCoverPosition

\* The owner of each unit held, oldest first: what FIFO means, with no lots.
Units(lots) == FoldLeft(LAMBDA units, l : units \o [i \in 1 .. l.qty |-> l.strategyId],
                        <<>>, lots)

IsClosing(f) == f.action \in ClosingActions
Signed(f) == IF IsClosing(f) THEN -Sign(f.direction) * f.qty ELSE Sign(f.direction) * f.qty
ClosedQty(f) == IF IsClosing(f) THEN f.qty ELSE 0

\* The units that some fills close.
Taken(fs) == Units([j \in DOMAIN fs |-> Lot(fs[j].strategyId, ClosedQty(fs[j]))])

\* The units that the fills fs take from position p are the oldest, and those it
\* keeps in n, if that is not another position, stay in order before newer ones.
TakesOldest(fs, p, n) ==
  LET taken  == Taken(fs)
      before == Units(p.lots)
  IN  /\ taken = SubSeq(before, 1, Len(taken))
      /\ n.direction = p.direction =>
           SubSeq(before, Len(taken) + 1, Len(before))
             = SubSeq(Units(n.lots), 1, Len(before) - Len(taken))

\* A reduction takes the oldest units and leaves the others in order: the
\* closing fills, read as units, are the head of the old queue, and the lots
\* kept are its tail (a flip's new lot apart).
FifoAttribution == [][TakesOldest(fills', pos, pos')]_vars

ClosedPnl(f) == IF IsClosing(f) THEN f.realizedPnl ELSE 0

\* The fills fs tell all of the change from position p to position n.
Explain(fs, p, n) ==
  /\ Net(n) - Net(p) = TotalOf([i \in DOMAIN fs |-> Signed(fs[i])])
  /\ n.margin - p.margin = TotalOf(Column(fs, "marginDelta"))
  /\ LET q   == TotalOf([i \in DOMAIN fs |-> ClosedQty(fs[i])])
         pnl == TotalOf([i \in DOMAIN fs |-> ClosedPnl(fs[i])])
     IN  \A i \in DOMAIN fs :
           IsClosing(fs[i]) => pnl = Gain(p.direction, p.avgEntry, fs[i].price) * q
                                  - Fee(fs[i].price * q)

\* The journalled fills explain the change they report: replayed, they give the
\* position's signed quantity and margin, and the slices of a close add up to
\* its one true PnL ("no rounding drift", symbol-position.ts:166-168).
FillsAccountForChange == [][Explain(fills', pos, pos')]_vars

\* The fills of one signal close lots first in, first out, and replay to the change
\* of quantity and realised profit that the signal made.
FillsAreSound == FifoAttribution /\ FillsAccountForChange

\* While one opener's plan governs, its stop only moves in favour of the
\* position, the target and the liquidation price stay, and the trail never
\* returns to an earlier phase -- whoever adds, reduces, or closes bars.
Rank(phase) == CASE phase = "off" -> 0 [] phase = "initial" -> 1
                 [] phase = "breakeven" -> 2 [] phase = "trailing" -> 3
SamePlan == /\ pos.direction # "none" /\ pos'.direction = pos.direction
PlanOnlyTightens ==
  [][SamePlan =>
       /\ ~Improves(pos.direction, pos'.stop, pos.stop)
       /\ pos'.target = pos.target /\ pos'.liq = pos.liq /\ pos'.gov = pos.gov
       /\ Rank(pos'.trailing.phase) >= Rank(pos.trailing.phase)]_vars

\* Whatever is added, reduced or trailed, the stop lies on the near side of the
\* liquidation price of the position it protects: a move that does not gap over
\* both reaches the stop first (the comment of assertStopsClearLiquidation).
StopClearsLiquidation ==
  pos.direction # "none" => Improves(pos.direction, pos.liq, pos.stop)

\* Open, add, reduce, close and flip together are one signed sum.
Abstract == INSTANCE NetPosition WITH net <- Net(pos)
NettingIsASum == Abstract!Spec

\* A position is never held past its strategy's holding limit ("Actual
\* entries/exits ... matching the backtest engine bar-for-bar",
\* live-runner.ts:497-499).
MaxHoldEnforced == pos.direction # "none" => heldBars < MaxHoldBars + 1
=============================================================================
