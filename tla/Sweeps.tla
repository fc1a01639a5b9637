------------------------------- MODULE Sweeps -------------------------------
(***************************************************************************)
(* What is done with a backtest: computeMetrics (backtest/engine.ts) and   *)
(* the metrics of runFuturesBacktest, walkForward, monteCarlo and          *)
(* paramSweep (backtest/analysis.ts), the sweeps of the futures tools      *)
(* (tools/backtest-futures-tools.ts) and of the research cycle             *)
(* (paper-trading/research-pipeline.ts), and the backtest of a rule engine *)
(* (paper-trading/rules-engine.ts).  All are functions of the candles, and *)
(* are compared with what they say they compute.                           *)
(*                                                                         *)
(* A trade's return is in ticks less the fee, so that returns add up where *)
(* the engine compounds them, and a mean is kept as a sum and a count.     *)
(***************************************************************************)
EXTENDS Backtest, FiniteSetsExt

CONSTANTS
  TradeFee,
  Folds,        \* the numbers of folds to walk through
  Stops, Targets, MinTrades,   \* the grid of a sweep
  CycleFolds,   \* the folds a candidate of the research cycle gains in
  Rules,        \* of a rule engine: sequence of [logic, conditions, direction, stop, target]
  Draws,        \* sequences of random picks
  Ranges        \* sequences of the values of each swept parameter

SweepsAssumption ==
  /\ Folds \subseteq Nat \ {0} /\ CycleFolds \in Nat \ {0}
  /\ \A n, m \in DOMAIN Stops : Stops[n] = Stops[m] => n = m
  /\ \A n, m \in DOMAIN Targets : Targets[n] = Targets[m] => n = m

-----------------------------------------------------------------------------
(* The metrics.                                                            *)

ReturnOf(trade) ==
  (IF long THEN trade.exitPrice - trade.entryPrice ELSE trade.entryPrice - trade.exitPrice) - TradeFee
Returns(trades) == [n \in DOMAIN trades |-> ReturnOf(trades[n])]
Total(returns) == FoldLeft(LAMBDA sum, r : sum + r, 0, returns)

Curve(returns) == [n \in DOMAIN returns |-> Total(SubSeq(returns, 1, n))]

\* An average of the returns of some trades, as their sum and count.
MeanOf(returns) == [sum |-> Total(returns), count |-> Len(returns)]

Wins(returns) == MeanOf(SelectSeq(returns, LAMBDA r : r > 0))
Losses(returns) == MeanOf(SelectSeq(returns, LAMBDA r : r <= 0))

\* Is the profit factor, whose losses may be none, over 1?
FactorIsOverOne(returns) ==
  IF Losses(returns).sum < 0 THEN Wins(returns).sum > -Losses(returns).sum ELSE Wins(returns).sum > 0

\* The sharpe ratio of the futures engine: the sign of the mean, and the square of
\* its ratio to the deviation as a fraction; a deviation of 0 counts as 1.
SharpeOf(returns) ==
  LET n == Len(returns)
      sum == Total(returns)
      spread == n * Total([k \in DOMAIN returns |-> returns[k] * returns[k]]) - sum * sum
  IN  [sign |-> IF sum > 0 THEN 1 ELSE IF sum < 0 THEN -1 ELSE 0,
       square |-> IF spread = 0 THEN sum * sum ELSE sum * sum * (n - 1),
       unit |-> CASE n = 0 -> 1 [] n > 0 /\ spread = 0 -> n * n [] OTHER -> n * spread]
Higher(a, b) ==
  \/ a.sign > b.sign
  \/ a.sign = b.sign /\ a.sign * a.square * b.unit > b.sign * b.square * a.unit

TimeInMarket(trades) == Total([n \in DOMAIN trades |-> trades[n].exitIndex - trades[n].entryIndex])

\* winRateByHour: the trades and the wins by the hour of the entry.
ByHour(trades) ==
  [hour \in {trades[n].entryIndex % 2 : n \in DOMAIN trades} |->
     LET here == SelectSeq(trades, LAMBDA t : t.entryIndex % 2 = hour)
     IN  [trades |-> Len(here), wins |-> Wins(Returns(here)).count]]

\* What the sortino and the calmar ratio divide by, next to the rest of the metrics;
\* without trades all are 0.
Downside(returns) == Total([n \in DOMAIN returns |-> IF returns[n] < 0 THEN returns[n] * returns[n] ELSE 0])
Metrics(trades) ==
  LET returns == Returns(trades)
  IN  [trades |-> Len(trades), wins |-> Wins(returns), losses |-> Losses(returns), total |-> Total(returns),
       drawdown |-> Drawdown(<<0>> \o Curve(returns)), downside |-> Downside(returns),
       bars |-> TimeInMarket(trades), hours |-> ByHour(trades),
       streaks |-> Streaks([n \in DOMAIN returns |-> returns[n] > 0])]

-----------------------------------------------------------------------------
(* Walking forward, resampling and sweeping.                               *)

\* One fold of the candles; the last takes what the division left over.
FoldBars(all, folds, fold) ==
  LET size == Len(all) \div folds
  IN  SubSeq(all, (fold - 1) * size + 1, IF fold = folds THEN Len(all) ELSE fold * size)

\* The expectancies of the folds with trades, as sums and counts.
Expectancies(all, folds) ==
  LET means == [fold \in 1..folds |->
                  MeanOf(Returns(Trades(FoldBars(all, folds, fold))))]
  IN  SelectSeq(means, LAMBDA m : m.count > 0)
Sign(x) == IF x > 0 THEN 1 ELSE IF x < 0 THEN -1 ELSE 0

\* The mean of means, over their common denominator.
MeanOfMeans(means) ==
  LET Product(skip) == FoldLeft(LAMBDA p, k : IF k = skip THEN p ELSE p * means[k].count, 1,
                                [k \in DOMAIN means |-> k])
  IN  Total([k \in DOMAIN means |-> means[k].sum * Product(k)])

ConsistentDirection(means) ==
  LET mean == MeanOfMeans(means)
      direction == IF mean # 0 THEN Sign(mean) ELSE Sign(means[1].sum)
  IN  means # <<>> /\ \A n \in DOMAIN means : Sign(means[n].sum) = direction

\* The simulated totals of a resampling, each of as many picks as there are trades,
\* the picks going on where the last simulation ended.
Simulated(returns, draws, simulations) ==
  [s \in 1..simulations |->
     Total([n \in DOMAIN returns |->
       LET i == (s - 1) * Len(returns) + n - 1
       IN  returns[(draws[(i % Len(draws)) + 1] % Len(returns)) + 1]])]
Sorted(values) == SortSeq(values, LAMBDA a, b : a < b)
Percentile(values, p) == Sorted(values)[Min({Len(values), ((p * Len(values)) \div 100) + 1})]
LossCount(values) == Len(SelectSeq(values, LAMBDA r : r < 0))

\* The combinations of a grid, the values of the first range changing slowest.
CartesianProduct(ranges) ==
  LET From[n \in 1..Len(ranges) + 1] ==
        IF n > Len(ranges) THEN << <<>> >>
        ELSE FlattenSeq([v \in DOMAIN ranges[n] |->
               [c \in DOMAIN From[n + 1] |-> <<ranges[n][v]>> \o From[n + 1][c]]])
  IN  From[1]

Run(stop, target) == INSTANCE Backtest WITH Stop <- stop, Target <- target

\* One row of a sweep: a combination's results over all the candles and over each
\* part of them.
Results(candles, stop, target) == Returns(Run(stop, target)!Trades(candles))
Row(all, parts, stop, target) ==
  LET returns == Results(all, stop, target)
  IN  [stop |-> stop, target |-> target, trades |-> Len(returns), sharpe |-> SharpeOf(returns),
       survives |-> \A n \in DOMAIN parts : Total(Results(parts[n], stop, target)) > 0]

Grid == [n \in 1..Len(Stops) * Len(Targets) |->
           <<Stops[((n - 1) \div Len(Targets)) + 1], Targets[((n - 1) % Len(Targets)) + 1]>>]

\* The rows with enough trades.
Rows(all, parts) ==
  SelectSeq([n \in DOMAIN Grid |-> Row(all, parts, Grid[n][1], Grid[n][2])],
            LAMBDA r : r.trades >= MinTrades)

\* The tool splits the candles in two: the survivors first, then by their sharpe ratio.
Halves(all, mid) == <<SubSeq(all, 1, mid), SubSeq(all, mid + 1, Len(all))>>
Sweep(all, mid) ==
  SortSeq(Rows(all, Halves(all, mid)),
          LAMBDA a, b : (a.survives /\ ~b.survives)
                        \/ (a.survives = b.survives /\ Higher(a.sharpe, b.sharpe)))

\* The research cycle folds them: a signal's candidate is the survivor of the best
\* sharpe ratio, the first of the grid among equals.
CycleParts(all) == [fold \in 1..CycleFolds |-> FoldBars(all, CycleFolds, fold)]
Candidate(rows) ==
  FoldLeft(LAMBDA best, r :
             IF r.survives /\ (best = None \/ Higher(r.sharpe, best.sharpe)) THEN r ELSE best,
           None, rows)

\* The rows a futures sweep shows: of those over a sharpe ratio of 1, or else of all,
\* the best few.
First(rows, n) == SubSeq(rows, 1, Min({n, Len(rows)}))
Top(rows, good, any) ==
  LET sorted == SortSeq(rows, LAMBDA a, b : Higher(a.sharpe, b.sharpe))
      best == SelectSeq(sorted, LAMBDA r : Higher(r.sharpe, [sign |-> 1, square |-> 1, unit |-> 1]))
  IN  IF best # <<>> THEN First(best, good) ELSE First(sorted, any)

-----------------------------------------------------------------------------
(* The rule engine and its backtest.                                       *)

\* A JSON condition reads an indicator of the context and fails where there is none; a
\* condition written in code may read the price, and is one on it here.
ValueOf(ctx, indicator) ==
  IF indicator = "price" THEN ctx.price
  ELSE IF indicator \in DOMAIN ctx.indicators THEN ctx.indicators[indicator] ELSE None
Compares(val, c) ==
  /\ val # None
  /\ \/ c.operator = ">" /\ val > c.value
     \/ c.operator = "<" /\ val < c.value
     \/ c.operator = ">=" /\ val >= c.value
     \/ c.operator = "<=" /\ val <= c.value
     \/ c.operator = "==" /\ val = c.value
Holds(rule, ctx) ==
  LET Part(n) == Compares(ValueOf(ctx, rule.conditions[n].indicator), rule.conditions[n])
  IN  IF rule.logic = "AND" THEN \A n \in DOMAIN rule.conditions : Part(n)
      ELSE \E n \in DOMAIN rule.conditions : Part(n)

\* The first rule that holds speaks, here by its place.
Evaluate(ctx) ==
  LET hits == {n \in DOMAIN Rules : Holds(Rules[n], ctx)} IN IF hits = {} THEN None ELSE Min(hits)

\* The backtest gives it no indicators; a rule may say to stay flat.
Signal(all, n) ==
  LET rule == Evaluate([price |-> all[n].close, indicators |-> <<>>])
  IN  IF rule # None /\ Rules[rule].direction # "flat" THEN rule ELSE None
RuleRun(rule) ==
  INSTANCE Backtest WITH long <- Rules[rule].direction = "long", futures <- FALSE,
    Stop <- IF Rules[rule].stop = None THEN Stop ELSE Rules[rule].stop,
    Target <- IF Rules[rule].target = None THEN Target ELSE Rules[rule].target
RuleTrade(all, n) == [rule \in DOMAIN Rules |-> RuleRun(rule)!Trade(all, n)][Signal(all, n)]
RuleTrades(all) ==
  LET From[n \in 1..Len(all) + 1] ==
        IF n > Len(all) THEN <<>>
        ELSE IF Signal(all, n) = None THEN From[n + 1]
        ELSE <<RuleTrade(all, n)>> \o From[Resume(RuleTrade(all, n))]
  IN  From[1]

-----------------------------------------------------------------------------
(* Properties.                                                             *)

\* The figures of a run are about its trades: wins and losses are all of them, the
\* profit factor is over 1 where the run made money, no candle is held twice, the
\* hours share out the trades, no fall is deeper than the losses, and the sortino and
\* the calmar ratio have nothing to divide by in the same runs, those without a loss.
FiguresOf(m, returns) ==
  /\ m.wins.count + m.losses.count = m.trades
  /\ FactorIsOverOne(returns) <=> m.total > 0
  /\ m.bars + m.trades <= Len(bars)
  /\ MapThenSumSet(LAMBDA h : m.hours[h].trades, DOMAIN m.hours) = m.trades
  /\ MapThenSumSet(LAMBDA h : m.hours[h].wins, DOMAIN m.hours) = m.wins.count
  /\ returns # <<>> => Last(Curve(returns)) = m.total
  /\ -m.total <= m.drawdown /\ m.drawdown <= -m.losses.sum
  /\ m.downside = 0 <=> m.drawdown = 0
FiguresAgree == FiguresOf(Metrics(Trades(bars)), Returns(Trades(bars)))

\* The folds are a partition of the candles, and their direction is consistent when
\* all the folds that traded gained, all lost or all came out even.
WalkIsForward ==
  \A folds \in Folds :
    /\ FlattenSeq([fold \in 1..folds |-> FoldBars(bars, folds, fold)]) = bars
    /\ \A means \in {Expectancies(bars, folds)} :
         ConsistentDirection(means) <=> Cardinality({Sign(mean.sum) : mean \in ToSet(means)}) = 1

\* A percentile has no more than its share of the simulations below it and at least
\* its share at or below it, and so has the count of losses.
IsPercentile(value, p, values) ==
  LET Count(Test(_)) == Len(SelectSeq(values, Test))
  IN  /\ 100 * Count(LAMBDA r : r < value) <= p * 4
      /\ 100 * Count(LAMBDA r : r <= value) > p * 4 \/ (p = 95 /\ value = Max(ToSet(values)))
      /\ value >= 0 => 100 * LossCount(values) <= p * 4
PercentilesAreRight ==
  \A returns \in {Returns(Trades(bars))} \ {<<>>} :
    \A draws \in Draws, p \in {5, 50, 95} :
      \A values \in {Simulated(returns, draws, 4)} : IsPercentile(Percentile(values, p), p, values)

\* A parameter sweep tries every combination of its values once.
GridIsCovered ==
  \A ranges \in Ranges :
    LET combos == CartesianProduct(ranges)
    IN  /\ ToSet(combos) = {c \in [DOMAIN ranges -> UNION {ToSet(ranges[n]) : n \in DOMAIN ranges}] :
                              \A n \in DOMAIN ranges : c[n] \in ToSet(ranges[n])}
        /\ IsInjective(combos)

\* What ended in the first half is traded alike, but for the stamp, by the run over that
\* half, so that a combination that survives did gain in it; the best row survives if any
\* does, and no row that is not shown is better than one that is.
BestAreShown(rows, shown) ==
  LET Shows(row) == \E k \in DOMAIN shown : shown[k].stop = row.stop /\ shown[k].target = row.target
  IN  /\ (\E n \in DOMAIN rows : rows[n].survives) => rows[1].survives
      /\ \A n \in DOMAIN rows, k \in DOMAIN shown :
           ~Shows(rows[n]) => ~Higher(rows[n].sharpe, shown[k].sharpe)

\* A candidate gained in every fold, and no combination that did has a better sharpe
\* ratio, or the same and an earlier place in the grid.
CandidateIsBest(rows, best) ==
  LET survivors == {n \in DOMAIN rows : rows[n].survives}
  IN  /\ best = None <=> survivors = {}
      /\ best # None =>
           \E n \in survivors : rows[n] = best /\ \A m \in survivors :
             /\ ~Higher(rows[m].sharpe, best.sharpe)
             /\ m < n => Higher(best.sharpe, rows[m].sharpe)
SweepsAreHonest ==
  LET mid == Len(bars) \div 2
      InFirst(trades) == SelectSeq(trades, LAMBDA t : t.exitIndex < mid)
  IN  /\ \A rows \in {Rows(bars, CycleParts(bars))} : CandidateIsBest(rows, Candidate(rows))
      /\ \A c \in ToSet(Grid) :
           InFirst(Run(c[1], c[2])!Trades(bars))
             = Restamped(InFirst(Run(c[1], c[2])!Trades(SubSeq(bars, 1, mid))), Len(bars))
      /\ \A rows \in {Sweep(bars, mid)} : BestAreShown(rows, Top(rows, 2, 1))

\* A rule engine trades what it would have traded had the data ended earlier: what
\* ended by a candle is traded alike by the run up to it, but for the stamp, which is
\* that of the run's last candle, and one trade at a time.
RulesAreCausal ==
  LET trades == RuleTrades(bars)
      EndedBy(run, n) == SelectSeq(run, LAMBDA t : t.exitReason # "end-of-data" /\ t.exitIndex <= n)
      Stamped(run, time) == [k \in DOMAIN run |-> [run[k] EXCEPT !.exitTime = time]]
  IN  /\ \A n \in DOMAIN bars :
           EndedBy(trades, n) = Stamped(EndedBy(RuleTrades(SubSeq(bars, 1, n)), n), Len(bars))
      /\ \A k \in 2..Len(trades) : trades[k].entryIndex > trades[k - 1].exitIndex

SweepsAreRight == RulesAreCausal /\ FiguresAgree /\ WalkIsForward /\ PercentilesAreRight /\ GridIsCovered /\ SweepsAreHonest
=============================================================================
