------------------------------- MODULE Fusion -------------------------------
(***************************************************************************)
(* The backtests over several symbols: BinanceSignalFusionTool             *)
(* (tools/backtest-fusion-tools.ts), where several strategies of several   *)
(* symbols trade one capital and add to each other's positions, and        *)
(* runPairsBacktest (backtest/pairs-engine.ts) over two of the symbols.    *)
(*                                                                         *)
(* The candles come with the readings of the indicators at them (Signals   *)
(* and History say how those come about).  The n-th candles of all symbols *)
(* are traded together, whatever their times: a symbol that was listed     *)
(* later is shifted.  Prices are ticks, fees ticks of the price traded at, *)
(* and quantities whole; the spread of a pair is a difference.             *)
(***************************************************************************)
EXTENDS Integers, Sequences, SequencesExt, FiniteSetsExt

CONSTANTS
  Symbols,       \* a sequence
  Strategies,    \* what is traded on each: sequences of
                 \* [id, kind, up, value, period, side, stop, target]
  Candles,       \* of each: [low, high, close, open] with the readings there, and the
                 \* time since the candle before
  Period, EmaPeriod,   \* the periods of a strategy that names none
  InitialCapital, Leverage, MarginPct, AddPct, FeePct,
  Liq,           \* the distance of a liquidation, in ticks
  Warmup, MaxHold, Sample,
  Lookback, EntryZ, ExitZ, StopZ,  \* the pairs' parameters
  None, MaxBars

FusionAssumption ==
  /\ \A n, m \in DOMAIN Symbols : Symbols[n] = Symbols[m] => n = m
  /\ Warmup \in Nat /\ MaxHold \in Nat \ {0} /\ Sample \in Nat \ {0}

VARIABLES
  candles,     \* symbolData, each candle with its openTime
  ended,       \* the symbols with no more candles
  positions,
  capital,
  eqCurve,
  tradeLog,
  closed       \* the run is over, what was left open settled

vars == <<candles, ended, positions, capital, eqCurve, tradeLog, closed>>

Syms == {Symbols[n] : n \in DOMAIN Symbols}

-----------------------------------------------------------------------------
(* The readings and the signals.                                           *)

\* The averages that were computed: an EMA for each strategy that reads one.
Averages(sym) ==
  {IF s.period = None THEN EmaPeriod ELSE s.period :
     s \in {t \in ToSet(Strategies[sym]) : t.kind = "price_ema"}}

\* Has the strategy's signal triggered at the n-th candle?  A reading that is not
\* there triggers nothing.
Hit(all, sym, s, n) ==
  LET now == all[sym][n]
      was == all[sym][n - 1]
      Sign(x) == IF s.up THEN x ELSE -x
      Above(x) == x # None /\ Sign(x) > 0
      NotAbove(x) == x # None /\ Sign(x) <= 0
      Pattern(name) == <<name, s.up>> \in now.patterns
  IN CASE s.kind = "rsi" -> now.rsi # None /\ (IF s.up THEN now.rsi > s.value ELSE now.rsi < s.value)
       [] s.kind = "macd_cross" -> NotAbove(was.macd) /\ Above(now.macd)
       [] s.kind = "bollinger_touch" -> Above(now.band)
       [] s.kind = "price_ema" ->
            (IF s.period = None THEN Period ELSE s.period) \in Averages(sym) /\ Above(now.ema)
       [] s.kind \in {"ob", "fvg", "liq_sweep", "displacement"} -> Pattern(s.kind)
       [] s.kind = "bos_displacement" -> Pattern("displacement")
       [] s.kind = "liq_ob" -> Pattern("liq_sweep") /\ Pattern("ob")
       [] s.kind = "liq_fvg" -> Pattern("liq_sweep") /\ Pattern("fvg")
       [] s.kind = "htf_trend" -> Above(now.stretch) /\ Pattern("ob")
       [] s.kind = "supertrend_flip" -> Above(now.trend) /\ NotAbove(was.trend)
       [] s.kind = "adx_trend" -> now.strong /\ Above(now.di)
       [] s.kind = "adx_di_cross" -> now.strong /\ Above(now.di) /\ NotAbove(was.di)
       [] s.kind = "ichimoku_breakout" -> Above(now.cloud) /\ ~Above(was.cloud)
       [] s.kind = "ichimoku_cloud" -> Above(now.cloud)
       [] s.kind = "volume_spike" -> now.heavy /\ Above(now.close - now.open)

Triggered(all, sym, n) == SelectSeq(Strategies[sym], LAMBDA s : Hit(all, sym, s, n))

\* The signals that confirm nothing.
Trivial == {"price_ema", "bollinger_touch"}

-----------------------------------------------------------------------------
(* The fusion.                                                             *)

Worse(side, price, ticks) == IF side = "long" THEN price - ticks ELSE price + ticks

Init ==
  /\ candles = [sym \in Syms |-> <<>>]
  /\ ended = {}
  /\ positions = [sym \in Syms |-> None]
  /\ capital = InitialCapital /\ eqCurve = <<InitialCapital>>
  /\ tradeLog = <<>> /\ closed = FALSE

\* The first strategy that triggered opens, for a share of the capital of which
\* nothing is set aside for the others.
Enter(all, book, sym, n, strategy) ==
  LET price == all[sym][n].close
      margin == Min({(capital * MarginPct) \div 100, capital \div 2})
  IN  [positions |-> [book.positions EXCEPT ![sym] =
         [side |-> strategy.side, entryPrice |-> price, entryIdx |-> n, baseMargin |-> margin,
          margin |-> margin, qty |-> (margin * Leverage) \div price,
          stopPrice |-> Worse(strategy.side, price, strategy.stop),
          targetPrice |-> Worse(strategy.side, price, -strategy.target),
          liqPrice |-> Worse(strategy.side, price, Liq), confluences |-> 0]],
       log |-> Append(book.log, [type |-> "entry", sym |-> sym, index |-> n, side |-> strategy.side,
                                 amount |-> margin])]

\* A strategy of the position's side adds to it, three times at most; its price and
\* its levels stay those of the entry.
Add(all, book, sym, n, strategy) ==
  LET pos == book.positions[sym]
      more == (pos.baseMargin * AddPct) \div 100
  IN  IF strategy.kind \in Trivial \/ strategy.side # pos.side \/ pos.confluences = 3 THEN book
      ELSE [positions |-> [book.positions EXCEPT ![sym] =
              [pos EXCEPT !.margin = @ + more, !.confluences = @ + 1,
                          !.qty = @ + (more * Leverage) \div all[sym][n].close]],
            log |-> Append(book.log, [type |-> "confluence_add", sym |-> sym, index |-> n,
                                      side |-> pos.side, amount |-> more])]

\* Mutant: enters whether or not the symbol has a position.
EnterAnyway(all, book, sym, n) ==
  LET triggered == Triggered(all, sym, n)
  IN  IF n > Len(all[sym]) \/ triggered = <<>> \/ capital <= 0 THEN book
      ELSE Enter(all, book, sym, n, triggered[1])

EnterOrAdd(all, book, sym, n) ==
  LET triggered == Triggered(all, sym, n)
  IN  IF n > Len(all[sym]) \/ triggered = <<>> THEN book
      ELSE IF book.positions[sym] # None
           THEN FoldLeft(LAMBDA b, s : Add(all, b, sym, n, s), book, triggered)
           ELSE IF capital <= 0 THEN book ELSE Enter(all, book, sym, n, triggered[1])

\* What the position has made at a price, the fees of both its ends taken off.
Pnl(pos, price) ==
  (IF pos.side = "long" THEN price - pos.entryPrice ELSE pos.entryPrice - price) * pos.qty
    - ((pos.entryPrice + price) * pos.qty * FeePct) \div 100

\* Why the position leaves at this candle, a liquidation before a stop before a
\* target; the candle it entered at counts.
ReasonAt(pos, bar, n) ==
  LET Against(level) == IF pos.side = "long" THEN bar.low <= level ELSE bar.high >= level
      InFavour(level) == IF pos.side = "long" THEN bar.high >= level ELSE bar.low <= level
  IN  CASE Against(pos.liqPrice) -> "liquidation"
        [] Against(pos.stopPrice) -> "stop"
        [] InFavour(pos.targetPrice) -> "target"
        [] n - pos.entryIdx >= MaxHold -> "timeout"
        [] OTHER -> None

PriceAt(pos, bar, reason) ==
  CASE reason = "liquidation" -> pos.liqPrice
    [] reason = "stop" -> pos.stopPrice
    [] reason = "target" -> pos.targetPrice
    [] reason = "timeout" -> bar.close

Settle(book, sym, n, price, reason) ==
  LET pnl == Pnl(book.positions[sym], price)
  IN  [positions |-> [book.positions EXCEPT ![sym] = None],
       capital |-> Max({book.capital + pnl, 0}),
       log |-> IF reason = "end" THEN book.log
               ELSE Append(book.log, [type |-> "exit", sym |-> sym, index |-> n,
                                      side |-> book.positions[sym].side, amount |-> pnl])]

Leave(all, book, sym, n) ==
  LET pos == book.positions[sym]
      bar == all[sym][n]
      reason == ReasonAt(pos, bar, n)
  IN  IF pos = None \/ n > Len(all[sym]) \/ reason = None THEN book
      ELSE Settle(book, sym, n, PriceAt(pos, bar, reason), reason)

\* The n-th candles: each symbol's strategies open or add, then the positions leave.
Trade(n) ==
  LET entered == FoldLeft(LAMBDA b, sym : EnterOrAdd(candles', b, sym, n),
                          [positions |-> positions, log |-> tradeLog], Symbols)
      left == FoldLeft(LAMBDA b, sym : Leave(candles', b, sym, n),
                       [positions |-> entered.positions, capital |-> capital, log |-> entered.log], Symbols)
  IN  /\ eqCurve' = IF (n - 1) % Sample = 0 THEN Append(eqCurve, capital) ELSE eqCurve
      /\ positions' = left.positions /\ capital' = left.capital /\ tradeLog' = left.log

\* The next candle of every symbol that has one.
Bar ==
  LET n == Max({Len(candles[sym]) : sym \in Syms}) + 1
      timeOf(sym) == IF candles[sym] = <<>> THEN 0 ELSE Last(candles[sym]).openTime
  IN  /\ ~closed /\ n <= MaxBars
      /\ ended' \in {e \in SUBSET Syms : ended \subseteq e /\ e # Syms}
      /\ \E bar \in [Syms -> UNION {Candles[sym] : sym \in Syms}] :
           /\ \A sym \in Syms : bar[sym] \in Candles[sym]
           /\ candles' = [sym \in Syms |->
                IF sym \in ended' THEN candles[sym]
                ELSE Append(candles[sym], [openTime |-> timeOf(sym) + bar[sym].gap] @@ bar[sym])]
      /\ closed' = FALSE
      /\ IF n > Warmup THEN Trade(n) ELSE UNCHANGED <<positions, capital, eqCurve, tradeLog>>

\* What is open at the end leaves at the last close of its symbol; the log and the
\* curve do not show it.
CloseRest ==
  LET rest == FoldLeft(LAMBDA b, sym :
                IF b.positions[sym] = None THEN b
                ELSE Settle(b, sym, Len(candles[sym]), Last(candles[sym]).close, "end"),
                [positions |-> positions, capital |-> capital, log |-> tradeLog], Symbols)
  IN  /\ ~closed /\ closed' = TRUE
      /\ positions' = rest.positions /\ capital' = rest.capital
      /\ UNCHANGED <<candles, ended, eqCurve, tradeLog>>

Next == Bar \/ CloseRest

Spec == Init /\ [][Next]_vars

-----------------------------------------------------------------------------
(* The pairs.                                                              *)

\* The candles both symbols have, by their times.
Aligned ==
  LET TimesOf(s) == {s[n].openTime : n \in DOMAIN s}
      a == SelectSeq(candles[Symbols[1]], LAMBDA c : c.openTime \in TimesOf(candles[Symbols[2]]))
  IN  [a |-> a, b |-> SelectSeq(candles[Symbols[2]], LAMBDA c : c.openTime \in TimesOf(a))]

Total(seq) == FoldLeft(LAMBDA sum, x : sum + x, 0, seq)

\* The z-score of the n-th spread among the Lookback before it, as the sign and the
\* fraction of its square; None while they are too few or all alike.
ZScore(pair, n) ==
  LET spread == [k \in DOMAIN pair.a |-> pair.a[k].close - pair.b[k].close]
      window == SubSeq(spread, n - Lookback, n - 1)
      sum == Total(window)
      off == Lookback * spread[n] - sum
      variance == Lookback * Total([k \in DOMAIN window |-> window[k] * window[k]]) - sum * sum
  IN  IF n <= Lookback \/ variance = 0 THEN None
      ELSE [over |-> off > 0, square |-> off * off, unit |-> variance]
Beyond(z, level) == z.square > level * level * z.unit
Within(z, level) == z.square < level * level * z.unit

\* Why a position of a candle would leave at a later one: the spread is too far off,
\* back, or the time is up.
ReasonFor(pair, entry, n) ==
  LET z == ZScore(pair, n)
  IN  CASE z = None -> None
        [] Beyond(z, StopZ) -> "stop"
        [] Within(z, ExitZ) -> "target"
        [] n - entry >= MaxHold -> "timeout"
        [] OTHER -> None

\* The trades of a pair, one at a time; a position open at the end is not among them.
PairsOver(pair) ==
  LET From[n \in 1..Len(pair.a) + 1] ==
        LET outs == {m \in n + 1..Len(pair.a) : ReasonFor(pair, n, m) # None}
            out == Min(outs)
        IN  CASE n > Len(pair.a) -> <<>>
              [] ZScore(pair, n) = None \/ ~Beyond(ZScore(pair, n), EntryZ) -> From[n + 1]
              [] outs = {} -> <<>>
              [] OTHER -> <<[entry |-> n, exit |-> out, shortA |-> ZScore(pair, n).over,
                             reason |-> ReasonFor(pair, n, out)]>> \o From[out + 1]
  IN  From[1]

-----------------------------------------------------------------------------
(* Properties.                                                             *)

\* The log tells the whole story: read from the start it gives the capital and the
\* margin of every open position, with one exit for each entry before the next, and
\* no more than three adds between them.
Told(log) ==
  FoldLeft(LAMBDA told, e :
    CASE e.type = "entry" ->
           [told EXCEPT !.margin[e.sym] = e.amount, !.adds[e.sym] = 0,
                        !.right = @ /\ told.margin[e.sym] = None]
      [] e.type = "confluence_add" ->
           [told EXCEPT !.margin[e.sym] = @ + e.amount, !.adds[e.sym] = @ + 1,
                        !.right = @ /\ told.adds[e.sym] < 3]
      [] OTHER ->
           [told EXCEPT !.margin[e.sym] = None, !.capital = Max({@ + e.amount, 0}),
                        !.right = @ /\ told.margin[e.sym] # None],
    [margin |-> [sym \in Syms |-> None], adds |-> [sym \in Syms |-> 0], capital |-> InitialCapital,
     right |-> TRUE], log)
LogTellsTheStory ==
  /\ Told(tradeLog).right
  /\ ~closed => /\ Told(tradeLog).capital = capital
                /\ \A sym \in Syms :
                     Told(tradeLog).margin[sym] = IF positions[sym] = None THEN None ELSE positions[sym].margin

\* The order of the symbols gives none of them an advantage: the entries of one
\* candle are sized from the same capital.
EntriesAreSizedAlike ==
  \A n, m \in DOMAIN tradeLog :
    (tradeLog[n].type = "entry" /\ tradeLog[m].type = "entry" /\ tradeLog[n].index = tradeLog[m].index)
      => tradeLog[n].amount = tradeLog[m].amount

\* No position outlives its time while its symbol has candles.
HoldIsBounded ==
  \A sym \in Syms : positions[sym] # None => Len(candles[sym]) - positions[sym].entryIdx < MaxHold

\* The legs of a pair are compared at the same times, though either may miss candles.
LegsMatch ==
  LET pair == Aligned
  IN  Len(pair.a) = Len(pair.b) /\ \A n \in DOMAIN pair.a : pair.a[n].openTime = pair.b[n].openTime

\* What a pair has traded stays as it is when more candles come: no score looks
\* ahead, and no candle is traded twice.
PairsAreCausal ==
  LET pair == Aligned
      trades == PairsOver(pair)
      Upto(n) == [a |-> SubSeq(pair.a, 1, n), b |-> SubSeq(pair.b, 1, n)]
  IN  \A n \in DOMAIN pair.a :
        PairsOver(Upto(n)) = SelectSeq(trades, LAMBDA t : t.exit <= n)

FusionIsSound == LogTellsTheStory /\ EntriesAreSizedAlike /\ HoldIsBounded /\ LegsMatch /\ PairsAreCausal
=============================================================================
