------------------------------ MODULE Backtest ------------------------------
(***************************************************************************)
(* The single-position backtests: runBacktest and runRuleEngineBacktest    *)
(* (backtest/engine.ts) and runFuturesBacktest (tools/backtest-futures.ts).*)
(* They are given all the candles at once and scan ahead for each trade's  *)
(* exit.  What they promise is what a trader who sees one candle at a time *)
(* would have done: the module holds both, the scans as functions of the   *)
(* candles and the trader as a state machine.                              *)
(*                                                                         *)
(* Prices are ticks; the entry signal of a candle is an input (the entry   *)
(* mask is part of it).  Slippage, fees and the trailing stop (which is in *)
(* SymbolPosition) are left out.  A trade that the data cuts off is called *)
(* a timeout by the futures engine.                                        *)
(***************************************************************************)
EXTENDS Integers, Sequences, SequencesExt

CONSTANTS
  Bars,        \* the candles: [low, high, close, signal, subs]; subs is the
               \* sequence of the lower-timeframe candles in it, maybe empty
  Stop, Target, Liq,   \* distances from the entry price
  MaxHold,     \* maxHoldBars
  None,
  MaxBars

VARIABLES
  long,      \* direction
  futures,   \* the engine that knows of liquidation and looks into sub-bars
  bars,      \* the candles that have closed
  held,      \* the trader's position, or None
  done       \* the trader's closed trades

vars == <<long, futures, bars, held, done>>

-----------------------------------------------------------------------------
(* The scans.                                                              *)

\* Does a candle trade at a level below, or above, the entry of a long?
Against(bar, level) == IF long THEN bar.low <= level ELSE bar.high >= level
InFavour(bar, level) == IF long THEN bar.high >= level ELSE bar.low <= level
Worse(price, ticks) == IF long THEN price - ticks ELSE price + ticks
Better(price, ticks) == Worse(price, -ticks)

\* The level a candle of unknown inside takes out: the worst it reached.
Level(bar, entry) ==
  CASE futures /\ Against(bar, Worse(entry, Liq)) -> "liq"
    [] Against(bar, Worse(entry, Stop)) -> "stop"
    [] InFavour(bar, Better(entry, Target)) -> "target"
    [] OTHER -> "none"

\* The level a bar takes out: with sub-bars, that of the first one to reach any.
Taken(bar, entry) ==
  IF ~futures \/ bar.subs = <<>> THEN Level(bar, entry)
  ELSE LET hits == {n \in DOMAIN bar.subs : Level(bar.subs[n], entry) # "none"}
       IN  IF hits = {} THEN "none"
           ELSE Level(bar.subs[CHOOSE n \in hits : \A m \in hits : n <= m], entry)

At(level, entry) ==
  CASE level = "liq" -> Worse(entry, Liq)
    [] level = "stop" -> Worse(entry, Stop)
    [] level = "target" -> Better(entry, Target)

\* A trade leaves at the level its bar took out, or at the close of its last bar.
ExitOn(bar, n, level, price) ==
  IF level # "none" THEN [index |-> n, reason |-> level, price |-> At(level, price)]
  ELSE [index |-> n, reason |-> "timeout", price |-> bar.close]

\* The scan of a trade's exit, from the bar after its entry.
ExitFrom(all, price, outs) ==
  IF outs = {} THEN [index |-> Len(all), reason |-> "end-of-data", price |-> Last(all).close]
  ELSE LET n == CHOOSE n \in outs : \A m \in outs : n <= m
       IN  ExitOn(all[n], n, Taken(all[n], price), price)
Exit(all, entry) ==
  LET price == all[entry].close
  IN  ExitFrom(all, price,
               {n \in entry + 1..Len(all) :
                  n <= entry + MaxHold /\ (Taken(all[n], price) # "none" \/ n = entry + MaxHold)})

\* runBacktest and the rule engine's read the time of the exit off a candle that they pick
\* before the scan moves exitIndex, the last one; the futures engine picks it afterwards.
Stamp(all, exit) == IF futures THEN exit.index ELSE Len(all)

TradeOf(all, entry, exit) ==
  [entryIndex |-> entry, exitIndex |-> exit.index, entryPrice |-> all[entry].close,
   exitPrice |-> exit.price, exitReason |-> exit.reason, exitTime |-> Stamp(all, exit)]
Trade(all, entry) == TradeOf(all, entry, Exit(all, entry))

\* Mutant: the bar of an exit is looked at again for an entry.
ResumeOnExit(trade) == IF trade.exitIndex = trade.entryIndex THEN trade.exitIndex + 1 ELSE trade.exitIndex

\* The whole run: the scan for an entry goes on after the exit.
Resume(trade) == trade.exitIndex + 1

Trades(all) ==
  LET From[n \in 1..Len(all) + 1] ==
        IF n > Len(all) THEN <<>>
        ELSE IF ~all[n].signal THEN From[n + 1]
        ELSE <<Trade(all, n)>> \o From[Resume(Trade(all, n))]
  IN  From[1]

-----------------------------------------------------------------------------
(* The metrics of a run, over the signs or the results of its trades.      *)

\* computeMetrics' loop over the trades: the current and the longest streaks.
Streaks(won) ==
  FoldLeft(LAMBDA s, w :
             IF w THEN [cur |-> [wins |-> s.cur.wins + 1, losses |-> 0],
                        max |-> [s.max EXCEPT !.wins = IF s.cur.wins + 1 > @ THEN s.cur.wins + 1 ELSE @]]
             ELSE [cur |-> [wins |-> 0, losses |-> s.cur.losses + 1],
                   max |-> [s.max EXCEPT !.losses = IF s.cur.losses + 1 > @ THEN s.cur.losses + 1 ELSE @]],
           [cur |-> [wins |-> 0, losses |-> 0], max |-> [wins |-> 0, losses |-> 0]], won).max

\* The running peak of an equity curve, and the deepest fall from it.
Drawdown(curve) ==
  FoldLeft(LAMBDA d, e :
             LET peak == IF e > d.peak THEN e ELSE d.peak
             IN  [peak |-> peak, max |-> IF peak - e > d.max THEN peak - e ELSE d.max],
           [peak |-> curve[1], max |-> 0], curve).max

-----------------------------------------------------------------------------
(* The trader.                                                             *)

Init ==
  /\ long \in BOOLEAN /\ futures \in BOOLEAN
  /\ bars = <<>> /\ held = None /\ done = <<>>

Leave(reason, price) ==
  /\ held' = None
  /\ done' = Append(done, [entryIndex |-> held.index, exitIndex |-> Len(bars) + 1,
                           entryPrice |-> held.price, exitPrice |-> price, exitReason |-> reason,
                           exitTime |-> Len(bars) + 1])

\* A candle closes: a position leaves at the level it took out, or at its close
\* when the time is up; a trader who held none may enter at its close.
Close(bar) ==
  /\ Len(bars) < MaxBars
  /\ bars' = Append(bars, bar)
  /\ UNCHANGED <<long, futures>>
  /\ IF held = None
     THEN /\ held' = IF bar.signal THEN [index |-> Len(bars) + 1, price |-> bar.close] ELSE None
          /\ UNCHANGED done
     ELSE IF Taken(bar, held.price) # "none"
          THEN Leave(Taken(bar, held.price), At(Taken(bar, held.price), held.price))
          ELSE IF Len(bars) + 1 = held.index + MaxHold
               THEN Leave("timeout", bar.close)
               ELSE UNCHANGED <<held, done>>

Next == \E bar \in Bars : Close(bar)

Spec == Init /\ [][Next]_vars

-----------------------------------------------------------------------------
(* Properties.                                                             *)

\* The stamp of runBacktest is that of the last candle of its data.
Restamped(trades, time) ==
  IF futures THEN trades ELSE [n \in DOMAIN trades |-> [trades[n] EXCEPT !.exitTime = time]]

\* The trades of a backtest that ended before the data did are the trader's: no
\* candle is used before it closes, none is traded twice, and no position of the
\* trader is missed.  What the data cuts off is what the trader still holds.  The
\* exception is the time of an exit, which but for the futures engine is no candle's that
\* the trader has seen when he leaves, but the last one's.
AreTheTraders(trades) ==
  LET Ended == SelectSeq(trades, LAMBDA t : t.exitReason # "end-of-data")
      Open == SelectSeq(trades, LAMBDA t : t.exitReason = "end-of-data")
  IN  /\ Ended = Restamped(done, Len(bars))
      /\ IF held = None THEN Open = <<>>
         ELSE Len(Open) = 1 /\ Open[1].entryIndex = held.index /\ Last(trades) = Open[1]
NoLookAhead == AreTheTraders(Trades(bars))

\* The streaks are the longest runs of wins and of losses, and the drawdown is the
\* deepest fall between any two points of the equity curve.
Won == [n \in DOMAIN done |-> IF long THEN done[n].exitPrice > done[n].entryPrice
                                      ELSE done[n].exitPrice < done[n].entryPrice]
Equity == [n \in 1..Len(bars) |-> bars[n].close]
RunsOf(won, w) == {m - n + 1 : <<n, m>> \in {p \in (DOMAIN won) \X (DOMAIN won) :
                     p[1] <= p[2] /\ \A k \in p[1]..p[2] : won[k] = w}} \cup {0}
MetricsAreRight ==
  /\ \A r \in RunsOf(Won, TRUE) : r <= Streaks(Won).wins
  /\ Streaks(Won).wins \in RunsOf(Won, TRUE)
  /\ \A r \in RunsOf(Won, FALSE) : r <= Streaks(Won).losses
  /\ Streaks(Won).losses \in RunsOf(Won, FALSE)
  /\ bars # <<>> =>
       LET falls == {Equity[p[1]] - Equity[p[2]] : p \in {q \in (DOMAIN bars) \X (DOMAIN bars) : q[1] <= q[2]}}
       IN  Drawdown(Equity) \in falls /\ \A f \in falls : f <= Drawdown(Equity)
=============================================================================
