------------------------------- MODULE Signals -------------------------------
(***************************************************************************)
(* What a chart says about each of its bars: the per-bar signals of the    *)
(* concepts engine (concepts/adapter.ts), the conditions built on them     *)
(* (concepts/legacy-conditions.ts and the SMC half of                      *)
(* tools/backtest-signals.ts) and the tools that trade or describe them    *)
(* (concepts/tools.ts).                                                    *)
(*                                                                         *)
(* One evaluator serves the backtest, which holds the whole history, and   *)
(* the live runner, which sees the chart end at the present bar.  The      *)
(* module lets the chart grow a bar at a time and keeps what was said      *)
(* then: a signal of a bar may not change because later bars exist.        *)
(*                                                                         *)
(* The analysis library is external: a fact is what it finds on a bar, and *)
(* it keeps what it has found (only "mitigated" is a look ahead, and the   *)
(* engine does not use it).  Prices and volumes are small numbers.         *)
(***************************************************************************)
EXTENDS Integers, Sequences, FiniteSetsExt, SequencesExt

CONSTANTS
  Shapes,       \* of bars: [low, high, close, delta, heavy]
  Families,     \* sets of [kind, side]: what one behaviour may find
  Score,        \* of a scored zone
  Lookaround,   \* LOOKAROUND_BARS
  CvdLookback, Warmup, MinActive,
  Closes,       \* that a close is held against
  Stop, Target, Liq, MaxHold,
  MaxPois,      \* zones offered for a timeframe
  None,
  MaxBars

Sides == {"bullish", "bearish"}
Structures == {"MSS", "CHoCH", "BOS"}
Zones == {"ob", "fvg", "breaker", "invfvg"}

VARIABLES
  family,
  bars,    \* the candles
  found,   \* set of [kind, side, at]: the analysis; an "htf" one is of another chart, with its time
  said     \* of each bar, what was signalled when it was the last

vars == <<family, bars, found, said>>

N == Len(bars)

\* The analysis of the first n bars.
Found(n) == {f \in found : f.at <= n}
At(n, i, kinds) == {f \in Found(n) : f.at = i /\ f.kind \in kinds}

-----------------------------------------------------------------------------
(* The arrays of the engine, at bar i of the first n.                      *)

StructureAt(n, i) == {<<f.kind, f.side>> : f \in At(n, i, Structures)}

Top(f) == bars[f.at].high
Bottom(f) == bars[f.at].low

\* Computed by the library over all the candles it is given.
Mitigated(n, f) ==
  \E j \in f.at + 1..n : IF f.side = "bullish" THEN bars[j].low <= Top(f) ELSE bars[j].high >= Bottom(f)

\* "NOT gated on !mitigated".
ZonesAt(n, i) == {<<f.kind, f.side>> : f \in At(n, i, Zones)}

\* A swept level marks the bar that swept it: sellside is bullish.
SweepsAt(n, i) == {<<f.kind, f.side>> : f \in At(n, i, {"sweep"})}
JudasAt(n, i) == {<<f.kind, f.side>> : f \in At(n, i, {"judas"})}
SessionAt(n, i) == {f.side : f \in At(n, i, {"session"})}

\* A dealing range runs from its bar to the bar before the next one; its equilibrium is
\* the middle of its bar and its OTE zone the half above.
RangesOver(n, i) ==
  {f \in Found(n) : f.kind = "range" /\ f.at <= i
     /\ \A g \in Found(n) : g.kind = "range" /\ g.at > f.at => i < g.at}
Middle(f) == (Top(f) + Bottom(f)) \div 2
RangeAt(n, i) ==
  LET px == bars[i].close
  IN  [premium |-> \E f \in RangesOver(n, i) : IF f.side = "bullish" THEN px > Middle(f) ELSE px < Middle(f),
       discount |-> \E f \in RangesOver(n, i) : IF f.side = "bullish" THEN px < Middle(f) ELSE px > Middle(f),
       ote |-> \E f \in RangesOver(n, i) : px \in Middle(f)..Top(f)]

\* The best score of the zones of a bar, and its side.
ScoreAt(n, i) ==
  LET scored == At(n, i, {"score"})
  IN  IF scored = {} THEN [max |-> 0, side |-> None]
      ELSE [max |-> Score, side |-> (CHOOSE f \in scored : TRUE).side]

\* The volume profile is that of all the candles, the later ones included.
VolumeAt(n, i) ==
  LET nodes == {bars[j].close : j \in {k \in 1..n : bars[k].heavy}}
  IN  [above |-> \A p \in nodes : bars[i].close > p,
       below |-> \A p \in nodes : bars[i].close < p,
       poc |-> bars[i].close \in nodes]

Deltas(from, to) == MapThenSumSet(LAMBDA j : bars[j].delta, from..to)
CvdAt(i) ==
  LET warm == i > CvdLookback
      recent == Deltas(i - CvdLookback, i - 1)
      earlier == IF i <= 2 * CvdLookback THEN 0 ELSE Deltas(i - 2 * CvdLookback, i - CvdLookback - 1)
  IN  [rising |-> warm /\ 100 * recent > 105 * earlier,
       falling |-> warm /\ 100 * recent < 95 * earlier,
       positive |-> warm /\ bars[i].delta > 0,
       negative |-> warm /\ bars[i].delta < 0]

\* The average price so far, every bar of one volume.
VwapAt(i) ==
  LET total == MapThenSumSet(LAMBDA j : bars[j].low + bars[j].high + bars[j].close, 1..i)
  IN  [above |-> 3 * i * bars[i].close > total, below |-> 3 * i * bars[i].close < total]

\* The events of the higher timeframe.  The time of one is when its candle opened: the
\* candle, of two bars, closes with the bar that finds it.
Opened(f) == f.at - 1
HtfEvents(n) == SetToSortSeq({f \in Found(n) : f.kind = "htf"}, LAMBDA f, g : Opened(f) < Opened(g))

InTime(event, i) == IF event # None /\ Opened(event) <= i THEN event ELSE None

\* The cursor moves on while the next event is not after the bar.
HtfAlignedAt(n, i) ==
  LET events == HtfEvents(n)
      Cursor[j \in 0..n] ==
        IF j = 0 THEN 1
        ELSE LET later == {k \in Cursor[j - 1] + 1..Len(events) : Opened(events[k]) > j}
             IN  IF later = {} THEN Max({Len(events), 1}) ELSE Min(later) - 1
      event == InTime(IF events = <<>> THEN None ELSE events[Cursor[i]], i)
  IN  IF event = None THEN None ELSE event.side

\* A sweep or a Judas swing marks the bars before it too.
SweptNear(n, i) ==
  \E f \in Found(n) : f.kind \in {"sweep", "judas"} /\ i \in f.at - Lookaround..f.at + Lookaround

Events(n, i) == StructureAt(n, i) \union ZonesAt(n, i) \union SweepsAt(n, i) \union JudasAt(n, i)

\* getSignals.
Signals(n, i) ==
  [events |-> Events(n, i), session |-> SessionAt(n, i), range |-> RangeAt(n, i),
   score |-> ScoreAt(n, i), cvd |-> CvdAt(i), vwap |-> VwapAt(i),
   volume |-> VolumeAt(n, i), htf |-> HtfAlignedAt(n, i), swept |-> SweptNear(n, i)]

-----------------------------------------------------------------------------
(* Conditions: the concepts_* types, and the types of the shared evaluator *)
(* that read the same chart.                                               *)

\* evaluator: every condition must hold.
Holds(n, i, condition) ==
  CASE condition = "judas_swing" -> JudasAt(n, i) # {}
    [] condition = "in_premium" -> RangeAt(n, i).premium
    [] condition = "in_discount" -> RangeAt(n, i).discount
    [] condition = "in_ote" -> RangeAt(n, i).ote
    [] condition = "confluence_gte" -> ScoreAt(n, i).max >= Score
    [] condition = "cvd_rising" -> CvdAt(i).rising
    [] condition = "above_vwap" -> VwapAt(i).above
    [] condition = "at_poc" -> VolumeAt(n, i).poc
    [] condition = "htf_aligned_bullish" -> HtfAlignedAt(n, i) = "bullish"
    [] condition = "liquidity_swept_near" -> SweptNear(n, i)
    [] OTHER -> condition \in Events(n, i)
Evaluator(n, i, conditions) == \A c \in conditions : Holds(n, i, c)

\* A bar that breaks structure both ways counts as an upward displacement.
Displacement(n, i) ==
  IF <<"BOS", "bullish">> \in Events(n, i) THEN "up"
  ELSE IF <<"BOS", "bearish">> \in Events(n, i) THEN "down" ELSE None

\* The first touch, unless the zone was closed through before or on that bar.
FirstTouch(f, touched, through) ==
  {i \in touched : /\ \A j \in touched : i <= j
                   /\ \A j \in through : i < j}

\* buildRetestArrays: the bars that fire, of one order block.
RetestsOf(n, f) ==
  LET up == f.side = "bullish"
      after == f.at + 1..n
      touched == {i \in after : IF up THEN bars[i].low <= Top(f) ELSE bars[i].high >= Bottom(f)}
      through == {i \in after : IF up THEN bars[i].close < Bottom(f) ELSE bars[i].close > Top(f)}
  IN  FirstTouch(f, touched, through)
Retests(n, side) == UNION {RetestsOf(n, f) : f \in {g \in Found(n) : g.kind = "ob" /\ g.side = side}}

\* Against the mean of the closes before it.
Stretched(i, side) ==
  LET sum == MapThenSumSet(LAMBDA j : bars[j].close, i - Closes..i - 1)
      close == 100 * Closes * bars[i].close
  IN  i > Warmup /\ IF side = "bullish" THEN close > 102 * sum ELSE close < 98 * sum

\* The arrays of buildSignalEvaluator that need the concepts engine.
Smc(n, i, side) ==
  LET has(kind) == <<kind, side>> \in Events(n, i)
  IN  [ob |-> has("ob"), fvg |-> has("fvg"), sweep |-> has("sweep"),
       displacement |-> Displacement(n, i) = (IF side = "bullish" THEN "up" ELSE "down"),
       sweepOb |-> has("sweep") /\ has("ob"), sweepFvg |-> has("sweep") /\ has("fvg"),
       htfTrend |-> Stretched(i, side) /\ has("ob"),
       retest |-> i \in Retests(n, side)]

-----------------------------------------------------------------------------
(* The tools.                                                              *)

\* The mask of a direction, or None when too few bars agree with it.
EntryMask(n, side) ==
  LET mask == {i \in Warmup + 1..n :
                 \/ StructureAt(n, i) \cap (Structures \X {side}) # {}
                 \/ <<"ob", side>> \in ZonesAt(n, i)
                 \/ ScoreAt(n, i) = [max |-> Score, side |-> side]}
  IN  IF Cardinality(mask) < MinActive THEN None ELSE mask

\* The bar a long leaves on and at what price: the last one unless it leaves before.
ExitOf(n, entry) ==
  LET price == bars[entry].close
      Hit(j) == bars[j].low <= price - Stop \/ bars[j].low <= price - Liq \/ bars[j].high >= price + Target
      outs == {j \in entry + 1..n : j <= entry + MaxHold /\ (Hit(j) \/ j = entry + MaxHold)}
      out == Min(outs)
  IN  IF outs = {} THEN [index |-> n, price |-> bars[n].close]
      ELSE [index |-> out,
            price |-> CASE bars[out].low <= price - Liq -> price - Liq
                        [] bars[out].low <= price - Stop -> price - Stop
                        [] bars[out].high >= price + Target -> price + Target
                        [] OTHER -> bars[out].close]

\* futuresBacktest of a long: the entries and their exits.
Trades(n, conditions, mask) ==
  LET From[i \in 1..n + 1] ==
        IF i > n THEN <<>>
        ELSE IF ~Evaluator(n, i, conditions) \/ (mask # None /\ i \notin mask) THEN From[i + 1]
        ELSE <<[entry |-> i, exit |-> ExitOf(n, i)]>> \o From[ExitOf(n, i).index + 1]
  IN  From[1]

\* binance_concepts_backtest.  The filter is the mask of a higher timeframe, fetched and
\* numbered on its own and applied by number: this chart stands for that one too.  When
\* none is asked for, the fetch fails or the mask is too small, there is no filter.
Backtested(n, conditions, higher) ==
  LET mask == IF higher THEN EntryMask(n, "bullish") ELSE None
  IN  [trades |-> Trades(n, conditions, mask), filtered |-> mask # None,
       zones |-> {f \in Found(n) : f.kind \in {"ob", "fvg"} /\ ~Mitigated(n, f)}]

\* A level of liquidity lies at the low of its bar (sellside, bullish) or at the high, and
\* is swept by trading beyond it.
Level(f) == IF f.side = "bullish" THEN Bottom(f) ELSE Top(f)
Swept(n, f) ==
  \E j \in f.at + 1..n : IF f.side = "bullish" THEN bars[j].low < Level(f) ELSE bars[j].high > Level(f)
Open(n, side) == {f \in Found(n) : f.kind = "level" /\ f.side = side /\ ~Swept(n, f)}

LastPrice(n) == IF n = 0 THEN 0 ELSE bars[n].close

\* The open level of a side nearest to the price.
Nearest(n, side) ==
  LET distance(f) == Max({Level(f) - LastPrice(n), LastPrice(n) - Level(f)})
  IN  CHOOSE f \in Open(n, side) : \A g \in Open(n, side) : distance(f) <= distance(g)

Draw(n) ==
  CASE Open(n, "bullish") = {} /\ Open(n, "bearish") = {} -> None
    [] Open(n, "bearish") = {} -> "SSL"
    [] Open(n, "bullish") = {} -> "BSL"
    [] OTHER -> IF Level(Nearest(n, "bullish")) < Level(Nearest(n, "bearish")) THEN "BSL" ELSE "SSL"

\* binance_concepts_analyze: all that is found, but of zones and levels what is left.
Analysis(n) ==
  [zones |-> {f \in Found(n) : f.kind \in {"ob", "fvg"} /\ ~Mitigated(n, f)},
   levels |-> [side \in Sides |-> Open(n, side)],
   others |-> {f \in Found(n) : f.kind \notin {"ob", "fvg", "level"}},
   volume |-> IF n = 0 THEN None ELSE VolumeAt(n, n),
   vwap |-> IF n = 0 THEN None ELSE VwapAt(n)]

\* What the market-state tool says of a timeframe.  A chart that ranges is given the
\* zones of the bears.
Trend(n) ==
  LET structure == SetToSortSeq({f \in Found(n) : f.kind \in Structures}, LAMBDA f, g : f.at < g.at)
      recent == {i \in DOMAIN structure : i > Len(structure) - 3}
      count(side) == Cardinality({i \in recent : structure[i].side = side})
  IN  IF count("bullish") > count("bearish") THEN "bullish"
      ELSE IF count("bearish") > count("bullish") THEN "bearish" ELSE "ranging"

\* The order blocks of the trend not traded into since, then the gaps, as many as are offered.
Pois(n) ==
  LET fresh(kind) ==
        SetToSortSeq({f \in Analysis(n).zones :
                        f.kind = kind /\ f.side = (IF Trend(n) = "bullish" THEN "bullish" ELSE "bearish")},
                     LAMBDA f, g : f.at < g.at)
      all == fresh("ob") \o fresh("fvg")
  IN  SubSeq(all, 1, Min({MaxPois, Len(all)}))

MarketState(n) ==
  [trend |-> Trend(n),
   draw |-> Draw(n),
   poi |-> Pois(n),
   range |-> IF RangesOver(n, n) = {} THEN "equilibrium"
             ELSE LET m == Middle(CHOOSE f \in RangesOver(n, n) : TRUE)
                  IN  IF bars[n].close > m THEN "premium" ELSE IF bars[n].close < m THEN "discount" ELSE "equilibrium"]

\* The answer, of three charts that were fetched together: None stands for a failed fetch,
\* whose error is the whole answer.
Brief(high, middle, low) ==
  IF None \in {high, middle, low} THEN None
  ELSE LET has(kinds) == \E f \in Found(low) : f.kind \in kinds
       IN  [htf |-> MarketState(high), mtf |-> MarketState(middle), ltf |-> MarketState(low),
            lastPrice |-> LastPrice(low),
            summary |-> [sweep |-> \E f \in Found(low) : f.kind = "level" /\ Swept(low, f),
                         mss |-> has({"MSS"}), judas |-> has({"judas"}), range |-> has({"range"}),
                         score |-> has({"score"})]]

-----------------------------------------------------------------------------
\* What a live evaluator tells of its last bar.
Present(n, i) ==
  [signals |-> Signals(n, i),
   smc |-> [side \in Sides |-> Smc(n, i, side)]]

Init == family \in Families /\ bars = <<>> /\ found = {} /\ said = <<>>

\* A bar closes and the library finds something on it, or nothing.
Close(bar, facts) ==
  /\ N < MaxBars
  /\ bars' = Append(bars, bar)
  /\ found' = found \union {[kind |-> f.kind, side |-> f.side, at |-> N + 1] : f \in facts}
  /\ said' = Append(said, Present(N, N)')
  /\ UNCHANGED family

Next == \E bar \in Shapes, facts \in {{}} \union {{f} : f \in family} : Close(bar, facts)

Spec == Init /\ [][Next]_vars

-----------------------------------------------------------------------------
(* Properties.                                                             *)

\* "Hindsight information in a batch backtest": what was signalled for a bar when it was
\* the last is what the whole history signals for it, retests of zones included, but for
\* the arrays that look ahead, and these look no further than their rule.  The higher
\* timeframe takes an event to be known when its candle opens: a bar is told of it before
\* that candle closes, and of none that opens later.  A sweep marks bars before it, and
\* unmarks none.  The volume profile is that of later volume too.
SignalsAreCausal ==
  \A i \in 1..N :
    LET now == Present(N, i)
        then == said[i]
        Knows(signals) == [signals EXCEPT !.htf = None, !.swept = None, !.volume = None]
    IN  /\ now.smc = then.smc /\ Knows(now.signals) = Knows(then.signals)
        /\ now.signals.htf # then.signals.htf =>
             \E f \in found : f.kind = "htf" /\ Opened(f) <= i /\ i < f.at
        /\ now.signals.swept # then.signals.swept =>
             now.signals.swept /\ \E f \in found :
               f.kind \in {"sweep", "judas"} /\ i < f.at /\ f.at <= i + Lookaround
        /\ now.signals.volume # then.signals.volume => \E k \in i + 1..N : bars[k].heavy

\* The higher timeframe of a bar is that of the latest event whose candle opened by then,
\* and of none when there is no such event.
HtfIsTheLatest ==
  \A i \in 1..N :
    LET past == {f \in found : f.kind = "htf" /\ Opened(f) <= i}
    IN  HtfAlignedAt(N, i) = IF past = {} THEN None
                             ELSE (CHOOSE f \in past : \A g \in past : g.at <= f.at).side

\* A zone fires at most once, at its first touch, and not after a close beyond it.
RetestsAreFirstTouches ==
  \A f \in {g \in found : g.kind = "ob"} :
    /\ Cardinality(RetestsOf(N, f)) <= 1
    /\ \A i \in RetestsOf(N, f) : \A j \in f.at + 1..i :
         IF f.side = "bullish" THEN bars[j].close >= Bottom(f) /\ (j < i => bars[j].low > Top(f))
                               ELSE bars[j].close <= Top(f) /\ (j < i => bars[j].high < Bottom(f))

\* The trades that are over stay the trades of any longer history, one at a time, without
\* a filter and under one, as long as the new bar is not what makes the filter.
TradesAreCausal ==
  \A c \in {{}} \union {{<<f.kind, f.side>>} : f \in family}, higher \in BOOLEAN :
    LET last == Backtested(N, c, higher)
        past == Backtested(N - 1, c, higher)
        Over(n, t) == t.exit.index < n
    IN  N > 0 /\ last.filtered = past.filtered =>
          /\ \A k \in DOMAIN past.trades :
               Over(N - 1, past.trades[k]) => k \in DOMAIN last.trades /\ last.trades[k] = past.trades[k]
          /\ \A k \in 2..Len(last.trades) : last.trades[k - 1].exit.index < last.trades[k].entry

\* A mask, once enough bars make one, only gains the bars that come.
MaskIsCausal ==
  \A side \in Sides :
    N > 0 /\ EntryMask(N - 1, side) # None =>
      EntryMask(N, side) # None /\ EntryMask(N, side) \ {N} = EntryMask(N - 1, side)

\* The zones offered for a trend were not traded into since, those of a trend are its own,
\* and no gap is offered while an order block of the trend is left out.
PoisAreFresh ==
  N > 0 =>
    LET state == MarketState(N)
        offered == {state.poi[k] : k \in DOMAIN state.poi}
    IN  /\ \A f \in offered :
             /\ f.side = state.trend \/ state.trend = "ranging"
             /\ \A i \in 1..N : i \in RetestsOf(N, f) => f.kind # "ob"
        /\ \A f \in offered, g \in Analysis(N).zones :
             f.kind = "fvg" /\ g.kind = "ob" /\ g.side = f.side => g \in offered

\* The draw is a side that still has a level to reach, and when both have one it is the
\* buyside, however much nearer the other: open levels lie on either side of the price.  A
\* chart whose levels are all gone says that it was swept.
DrawIsOpen ==
  LET draw == MarketState(N).draw
      levels == {f \in found : f.kind = "level"}
  IN  /\ draw = "SSL" => Open(N, "bullish") # {}
      /\ draw = "BSL" => Open(N, "bearish") # {}
      /\ \A f \in Open(N, "bullish"), g \in Open(N, "bearish") :
           Level(f) <= LastPrice(N) /\ LastPrice(N) <= Level(g)
           /\ (draw = "SSL" => Level(Nearest(N, "bullish")) = Level(Nearest(N, "bearish")))
      /\ draw = None /\ levels # {} => Brief(N, N, N).summary.sweep

SignalsAreSound ==
  SignalsAreCausal /\ HtfIsTheLatest /\ RetestsAreFirstTouches
  /\ TradesAreCausal /\ MaskIsCausal /\ PoisAreFresh /\ DrawIsOpen
=============================================================================
