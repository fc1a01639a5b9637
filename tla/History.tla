------------------------------- MODULE History -------------------------------
(***************************************************************************)
(* The history a strategy is tested on and what is read from it: the       *)
(* fetch of candles or of open interest a page at a time                   *)
(* (tools/backtest-fetch.ts), the indicators of each bar                   *)
(* (tools/indicators.ts), and the two evaluators of entry conditions, the  *)
(* one shared with the live runner (tools/backtest-signals.ts) and that of *)
(* the spot backtest (backtest/conditions.ts).                             *)
(*                                                                         *)
(* The exchange goes on while pages are fetched.  Bar i opens at time      *)
(* 2 * i.  Averages are in hundredths, rounded down; the periods are small *)
(* constants.  The conditions that need the concepts engine are in         *)
(* Signals.                                                                *)
(***************************************************************************)
EXTENDS Integers, Sequences, FiniteSetsExt, SequencesExt

CONSTANTS
  Shapes,                     \* of bars: [open, high, low, close, volume]
  Starts, Ends,               \* startTime and endTime of a fetch
  PageSize, Retries,
  Points,                     \* lists of [time, level] of the open interest
  Fast, Slow, SignalPeriod,
  BandPeriod, BandWidth,
  AtrPeriod, Multiplier, AdxPeriod,
  Tenkan, Kijun, SenkouB, Shift,
  VolumePeriod,
  Conditions,                 \* lists of [type, period, value]
  None,                       \* NaN, or a field left out
  MaxBars

HistoryAssumption ==
  /\ PageSize \in Nat \ {0} /\ Shift < SenkouB /\ AtrPeriod > 0 /\ AdxPeriod > 0
  /\ \A s \in Starts, e \in Ends : s < e

VARIABLES
  market,     \* the bars of the exchange
  kind,       \* "candles" or "oi"
  start, end,
  from,       \* of the next page
  got,        \* sequence of times, the rows received
  attempts,   \* of fetchWithRetry
  status,     \* "asking", "done" or "error"
  \* history
  seen        \* the bars there were when the last page was served

vars == <<market, kind, start, end, from, got, attempts, status, seen>>

Time(i) == 2 * i

Init ==
  /\ market = <<>>
  /\ kind \in {"candles", "oi"} /\ start \in Starts /\ end \in Ends
  /\ from = start /\ got = <<>> /\ attempts = 0 /\ status = "asking" /\ seen = 0

-----------------------------------------------------------------------------
(* Fetching.                                                               *)

\* A bar opens at the exchange while the fetch goes on.
Opens(bar) ==
  /\ Len(market) < MaxBars /\ status = "asking"
  /\ market' = Append(market, bar)
  /\ UNCHANGED <<kind, start, end, from, got, attempts, status, seen>>

\* A page of either: the oldest rows between the two times, at most PageSize.
Rows ==
  LET times == SetToSortSeq({Time(i) : i \in DOMAIN market} \cap from..end, <)
  IN  SubSeq(times, 1, Min({PageSize, Len(times)}))

\* The rows are taken and the next page starts after the last; open interest ends with
\* a page that is not full.
Page ==
  /\ status = "asking"
  /\ got' = got \o Rows
  /\ from' = IF Rows = <<>> THEN from ELSE Last(Rows) + 1
  /\ status' = IF Rows = <<>> \/ from' >= end \/ (kind = "oi" /\ Len(Rows) < PageSize)
               THEN "done" ELSE "asking"
  /\ attempts' = 0 /\ seen' = Len(market)
  /\ UNCHANGED <<market, kind, start, end>>

\* The request fails on the way: it is tried again, and the last time is an error.
NetworkFails ==
  /\ status = "asking"
  /\ IF attempts < Retries THEN attempts' = attempts + 1 /\ UNCHANGED status
     ELSE status' = "error" /\ UNCHANGED attempts
  /\ UNCHANGED <<market, kind, start, end, from, got, seen>>

\* An answer of the exchange that is not OK is never tried again.
ApiError ==
  /\ status = "asking"
  /\ status' = "error"
  /\ UNCHANGED <<market, kind, start, end, from, got, attempts, seen>>

Next == Page \/ NetworkFails \/ ApiError \/ \E bar \in Shapes : Opens(bar)

Spec == Init /\ [][Next]_vars /\ WF_vars(Page \/ NetworkFails \/ ApiError)

-----------------------------------------------------------------------------
(* Indicators, at bar i of a chart.                                        *)

Sum(values) == FoldLeft(+, 0, values)
Average(values) == (100 * Sum(values)) \div Len(values)
Upto(values, i, period) == SubSeq(values, Max({1, i - period + 1}), i)
Closes(chart) == [i \in DOMAIN chart |-> chart[i].close]
Abs(x) == IF x < 0 THEN -x ELSE x

SmaAt(values, period, i) == IF i < period THEN None ELSE Average(Upto(values, i, period))

\* emaSeries: from a seed, the average of the first values, of fewer if there are fewer.
EmaSeries(values, period) ==
  LET n == Len(values)
      first == Min({n, period})
      E[j \in first..n] ==
        IF j = first THEN Average(SubSeq(values, 1, first))
        ELSE (200 * values[j] + (period - 1) * E[j - 1]) \div (period + 1)
  IN  [j \in 1..n - first + 1 |-> E[j + first - 1]]

\* Padded in front: the last of the series is of the last bar.
EmaAt(values, period, i) ==
  LET raw == EmaSeries(values, period)
      pad == Len(values) - Len(raw)
  IN  IF i <= pad THEN None ELSE raw[i - pad]

\* Wilder's average of the moves one way: sign is 1 for gains, -1 for losses.
Wilder(values, period, i, sign) ==
  LET changes == [j \in 1..i - 1 |-> Max({sign * (values[j + 1] - values[j]), 0})]
      W[j \in period..i - 1] ==
        IF j = period THEN Average(SubSeq(changes, 1, period))
        ELSE (W[j - 1] * (period - 1) + 100 * changes[j]) \div period
  IN  W[i - 1]
RsiAt(values, period, i) ==
  IF i < period + 1 THEN None
  ELSE LET gain == Wilder(values, period, i, 1)
           loss == Wilder(values, period, i, -1)
       IN  IF loss = 0 THEN 100 ELSE (100 * gain) \div (gain + loss)

MacdLine(fast, slow) == [j \in DOMAIN slow |-> fast[j + Len(fast) - Len(slow)] - slow[j]]
MacdOf(line) == [macd |-> 100 * Last(line), signal |-> Last(EmaSeries(line, SignalPeriod))]
MacdAt(values, i) ==
  IF i < Slow + SignalPeriod THEN None
  ELSE MacdOf(MacdLine(EmaSeries(SubSeq(values, 1, i), Fast), EmaSeries(SubSeq(values, 1, i), Slow)))

\* Whether a close is outside the bands: its distance from the mean, over the deviation.
Outside(values, i, side) ==
  LET window == Upto(values, i, BandPeriod)
      above == Len(window) * values[i] - Sum(window)
      spread == Len(window) * Sum([j \in DOMAIN window |-> window[j] * window[j]])
                - Sum(window) * Sum(window)
  IN  /\ i >= BandPeriod
      /\ IF side = "lower" THEN above <= 0 ELSE above >= 0
      /\ above * above >= BandWidth * BandWidth * spread

TrueRange(chart, i) ==
  LET bar == chart[i]
  IN  IF i = 1 THEN bar.high - bar.low
      ELSE Max({bar.high - bar.low, Abs(bar.high - chart[i - 1].close),
                Abs(bar.low - chart[i - 1].close)})

AtrAt(chart, at) ==
  LET A[i \in AtrPeriod..Len(chart)] ==
        IF i = AtrPeriod THEN Average([j \in 1..AtrPeriod |-> TrueRange(chart, j)])
        ELSE (A[i - 1] * (AtrPeriod - 1) + 100 * TrueRange(chart, i)) \div AtrPeriod
  IN  A[at]

\* Each band is held against the one before it.
SuperTrend(chart) ==
  LET none == [trend |-> "up", upper |-> None, lower |-> None]
      Kept(fresh, before, holds, Pick(_)) ==
        IF before # None /\ holds THEN Pick({fresh, before}) ELSE fresh
      Or(band, fresh) == IF band = None THEN fresh ELSE band
      S[i \in 0..Len(chart)] ==
        IF i <= AtrPeriod THEN none
        ELSE LET prev  == S[i - 1]
                 close == 100 * chart[i].close
                 was   == 100 * chart[i - 1].close
                 mid   == 50 * (chart[i].high + chart[i].low)
                 band  == Multiplier * AtrAt(chart, i)
                 lower == Kept(mid - band, prev.lower, prev.lower # None /\ was > prev.lower, Max)
                 upper == Kept(mid + band, prev.upper, prev.upper # None /\ was < prev.upper, Min)
             IN  [trend |-> CASE prev.trend = "down" /\ close > Or(prev.upper, upper) -> "up"
                              [] prev.trend = "up" /\ close < Or(prev.lower, lower) -> "down"
                              [] OTHER -> prev.trend,
                  upper |-> upper, lower |-> lower]
  IN  S

\* What a bar adds to the three sums: its range and its moves up and down.
Moves(chart, i) ==
  LET up   == chart[i].high - chart[i - 1].high
      down == chart[i - 1].low - chart[i].low
  IN  [tr |-> TrueRange(chart, i),
       up |-> IF up < 0 \/ up < down THEN 0 ELSE up,
       down |-> IF down < 0 \/ down < up THEN 0 ELSE down]
Plus(a, b) == [k \in {"tr", "up", "down"} |-> a[k] + b[k]]
Minus(a, b) == [k \in {"tr", "up", "down"} |-> a[k] - b[k]]

Share(part, whole) == IF whole > 0 THEN (100 * part) \div whole ELSE 0

\* The sums are kept by adding a bar and taking off the one that leaves.
RunningSums(sums, chart, i) ==
  LET more == Plus(sums, Moves(chart, i))
  IN  IF i - 1 > AdxPeriod THEN Minus(more, Moves(chart, i - AdxPeriod)) ELSE more

\* The directional indicators, and their smoothed difference.
AdxFrom(prev, sums, plus, minus, i) ==
  LET dx == 100 * Share(Abs(plus - minus), plus + minus)
  IN  IF i - 1 < AdxPeriod THEN [sums |-> sums, adx |-> None, plus |-> None, minus |-> None]
      ELSE [sums |-> sums, plus |-> plus, minus |-> minus,
            adx |-> IF i - 1 = AdxPeriod THEN dx ELSE (prev.adx * (AdxPeriod - 1) + dx) \div AdxPeriod]
AdxStep(prev, sums, i) ==
  AdxFrom(prev, sums, Share(sums.up, sums.tr), Share(sums.down, sums.tr), i)
Adx(chart) ==
  LET A[i \in 1..Len(chart)] ==
        IF i = 1 THEN [sums |-> [tr |-> 0, up |-> 0, down |-> 0], adx |-> None, plus |-> None, minus |-> None]
        ELSE AdxStep(A[i - 1], RunningSums(A[i - 1].sums, chart, i), i)
  IN  A

\* Twice the middle of the last bars; SenkouA and SenkouB are then in quarters.
Middle(chart, i, period) ==
  LET window == Upto(chart, i, period)
  IN  Max({window[j].high : j \in DOMAIN window}) + Min({window[j].low : j \in DOMAIN window})

\* The cloud of a bar is of the lines Shift bars before it, once those were known.
CloudAt(chart, i) ==
  IF i < SenkouB \/ i - Shift < SenkouB THEN "inside"
  ELSE LET a == Middle(chart, i - Shift, Tenkan) + Middle(chart, i - Shift, Kijun)
           b == 2 * Middle(chart, i - Shift, SenkouB)
       IN  IF 4 * chart[i].close > Max({a, b}) THEN "above"
           ELSE IF 4 * chart[i].close < Min({a, b}) THEN "below" ELSE "inside"

\* alignOiToCandles: the cursor moves on while the next point is not after the bar.
AlignOi(times, points) ==
  LET P[i \in 0..Len(times)] ==
        IF i = 0 THEN 1
        ELSE LET later == {p \in P[i - 1] + 1..Len(points) : points[p].time > times[i]}
             IN  IF later = {} THEN Max({Len(points), P[i - 1]}) ELSE Min(later) - 1
  IN  [i \in DOMAIN times |->
         IF P[i] \in DOMAIN points /\ points[P[i]].time <= times[i] THEN points[P[i]].level ELSE None]

-----------------------------------------------------------------------------
(* Conditions.                                                             *)

Beyond(x, side, y) == x # None /\ y # None /\ IF side = "above" THEN x > y ELSE x < y

Crosses(before, now, side) ==
  /\ before # None /\ now # None
  /\ IF side = "bullish" THEN before.macd <= before.signal /\ now.macd > now.signal
                         ELSE before.macd >= before.signal /\ now.macd < now.signal

\* The types both evaluators know.
OfSma == {"price_above_sma", "price_below_sma"}
OfEma == {"price_above_ema", "price_below_ema"}
OfRsi == {"rsi_below", "rsi_above"}
OfMacd == {"macd_bullish_cross", "macd_bearish_cross"}
OfBands == {"bollinger_touch_lower", "bollinger_touch_upper"}
SideOf(type) ==
  CASE type \in {"rsi_below", "price_below_sma", "price_below_ema"} -> "below"
    [] type \in {"rsi_above", "price_above_sma", "price_above_ema"} -> "above"
    [] type = "macd_bullish_cross" -> "bullish"
    [] type = "macd_bearish_cross" -> "bearish"
    [] type = "bollinger_touch_lower" -> "lower"
    [] type = "bollinger_touch_upper" -> "upper"
Common == OfSma \union OfEma \union OfRsi \union OfMacd \union OfBands
FamilyOf(type) == CHOOSE f \in {OfSma, OfEma, OfRsi, Common} :
                    type \in f /\ (f = Common => type \notin OfSma \union OfEma \union OfRsi)

\* A condition on a series that was made for its period.
Holds(chart, c, i) ==
  LET closes == Closes(chart)
      close == 100 * closes[i]
  IN  CASE c.type \in OfRsi -> Beyond(RsiAt(closes, c.period, i), SideOf(c.type), c.value)
        [] c.type \in OfSma -> Beyond(close, SideOf(c.type), SmaAt(closes, c.period, i))
        [] c.type \in OfEma -> Beyond(close, SideOf(c.type), EmaAt(closes, c.period, i))
        [] c.type \in OfMacd -> i > 1 /\ Crosses(MacdAt(closes, i - 1), MacdAt(closes, i), SideOf(c.type))
        [] c.type \in OfBands -> Outside(closes, i, SideOf(c.type))
        [] OTHER -> FALSE

\* The conditions that the shared evaluator alone knows.
HoldsOn(chart, oi, c, i, trend, adx, cloud) ==
  LET Strong(side) == adx[i].adx # None /\ adx[i].adx > 100 * c.value
                      /\ IF side = "up" THEN adx[i].plus > adx[i].minus ELSE adx[i].minus > adx[i].plus
      Spike == LET mean == SmaAt([j \in DOMAIN chart |-> chart[j].volume], VolumePeriod, i)
               IN  mean # None /\ 100 * chart[i].volume > 2 * mean
      Falls == i > c.period /\ oi[i] # None /\ oi[i - c.period] # None
               /\ 100 * (oi[i - c.period] - oi[i]) > c.value * oi[i - c.period]
      prior == {chart[j].close : j \in i - c.period..i - 1}
  IN  CASE c.type = "supertrend_bullish_flip" -> i > 1 /\ trend[i].trend = "up" /\ trend[i - 1].trend = "down"
        [] c.type = "supertrend_bearish_flip" -> i > 1 /\ trend[i].trend = "down" /\ trend[i - 1].trend = "up"
        [] c.type = "adx_bullish_trend" -> Strong("up")
        [] c.type = "adx_bearish_trend" -> Strong("down")
        [] c.type = "adx_di_cross_long" -> i > 1 /\ Strong("up") /\ adx[i - 1].plus # None /\ adx[i - 1].plus <= adx[i - 1].minus
        [] c.type = "adx_di_cross_short" -> i > 1 /\ Strong("down") /\ adx[i - 1].plus # None /\ adx[i - 1].minus <= adx[i - 1].plus
        [] c.type = "ichimoku_bullish_breakout" -> i > 1 /\ cloud[i] = "above" /\ cloud[i - 1] # "above"
        [] c.type = "ichimoku_bearish_breakout" -> i > 1 /\ cloud[i] = "below" /\ cloud[i - 1] # "below"
        [] c.type = "ichimoku_above_cloud_long" -> cloud[i] = "above"
        [] c.type = "ichimoku_below_cloud_short" -> cloud[i] = "below"
        [] c.type = "volume_spike_long" -> Spike /\ chart[i].close > chart[i].open
        [] c.type = "volume_spike_short" -> Spike /\ chart[i].close < chart[i].open
        [] c.type = "oi_bearish_divergence" -> Falls /\ chart[i].close > Max(prior)
        [] c.type = "oi_bullish_divergence" -> Falls /\ chart[i].close < Min(prior)
        [] OTHER -> Holds(chart, c, i)
HoldsShared(chart, oi, c, i) ==
  HoldsOn(chart, oi, c, i, SuperTrend(chart), Adx(chart), [j \in DOMAIN chart |-> CloudAt(chart, j)])

\* buildSignalEvaluator makes the series of the first condition of each type.
PeriodsOfFirst(conditions, family) ==
  {conditions[SelectInSeq(conditions, LAMBDA c : c.type = t)].period :
     t \in {conditions[k].type : k \in DOMAIN conditions} \cap family}
SignalEvaluator(chart, oi, conditions, i) ==
  \A k \in DOMAIN conditions :
    LET c == conditions[k]
    IN  /\ c.type \in OfSma \union OfEma \union OfRsi =>
             c.period \in PeriodsOfFirst(conditions, FamilyOf(c.type))
        /\ HoldsShared(chart, oi, c, i)

\* evaluateAll has the series of every condition.
EvaluateAll(chart, conditions, i) == \A k \in DOMAIN conditions : Holds(chart, conditions[k], i)

-----------------------------------------------------------------------------
(* Properties.                                                             *)

\* However it is cut into pages and however often a page is asked again, a history that
\* is returned has every bar of its time once and in order, as of its last page.
HistoryIsComplete ==
  status = "done" =>
    got = SetToSortSeq({Time(i) : i \in 1..seen} \cap start..end, <)

\* Every fetch returns, though the exchange goes on.
FetchEnds == <>(status # "asking")

Chart == [k \in DOMAIN got |-> market[got[k] \div 2]]
Ready == status = "done" /\ kind = "candles" /\ got # <<>>

\* Whatever comes after a bar, the indicators and the evaluator say the same of it: the
\* backtest, which has the whole history, and a chart that ends there agree.  An EMA is an
\* exception on a chart shorter than its period, where it has a value at the end.
AllPeriods == UNION {{list[k].period : k \in DOMAIN list} : list \in Conditions} \ {None}
Said(chart, i) ==
  LET closes == Closes(chart)
  IN  [sma |-> [p \in AllPeriods |-> SmaAt(closes, p, i)],
       ema |-> [p \in {q \in AllPeriods : q <= i} |-> EmaAt(closes, p, i)],
       rsi |-> [p \in AllPeriods |-> RsiAt(closes, p, i)],
       macd |-> MacdAt(closes, i), low |-> Outside(closes, i, "lower"), high |-> Outside(closes, i, "upper"),
       trend |-> SuperTrend(chart)[i], adx |-> Adx(chart)[i], cloud |-> CloudAt(chart, i)]
UsesOi(list) == \E k \in DOMAIN list : list[k].type \in {"oi_bearish_divergence", "oi_bullish_divergence"}
IndicatorsAreCausal ==
  Ready => \A i \in DOMAIN got :
    LET then == SubSeq(Chart, 1, i)
    IN  /\ Said(Chart, i) = Said(then, i)
        /\ \A list \in Conditions : \A points \in IF UsesOi(list) THEN Points ELSE {<<>>} :
             (\A k \in DOMAIN list : list[k].type \notin OfEma \/ list[k].period <= i) =>
               SignalEvaluator(Chart, AlignOi(got, points), list, i)
                 = SignalEvaluator(then, AlignOi(SubSeq(got, 1, i), points), list, i)

\* What looks back a bounded number of bars says the same wherever a long enough chart
\* begins: the live runner has the last bars only.
WindowsAgree ==
  Ready => \A k \in DOMAIN got :
    LET late == SubSeq(Chart, k, Len(got))
        n == Len(late)
    IN  /\ \A p \in AllPeriods : n >= p =>
             SmaAt(Closes(late), p, n) = SmaAt(Closes(Chart), p, Len(got))
        /\ n >= BandPeriod => \A side \in {"lower", "upper"} :
             Outside(Closes(late), n, side) = Outside(Closes(Chart), Len(got), side)
        /\ n >= SenkouB + Shift => CloudAt(late, n) = CloudAt(Chart, Len(got))

\* The running sums of the ADX are those of its last AdxPeriod bars.
AdxIsOfItsWindow ==
  Ready => \A i \in AdxPeriod + 1..Len(got) :
    Adx(Chart)[i].sums = [k \in {"tr", "up", "down"} |->
                            MapThenSumSet(LAMBDA j : Moves(Chart, j)[k], i - AdxPeriod + 1..i)]

\* The open interest of a bar is the latest known when it opened.
AlignmentIsTheLatest ==
  Ready => \A points \in Points :
    LET Past(k) == {p \in DOMAIN points : points[p].time <= got[k]}
    IN  \A k \in DOMAIN got :
          AlignOi(got, points)[k] = IF Past(k) = {} THEN None ELSE points[Max(Past(k))].level

\* The two evaluators agree on lists with one period for each type; with two periods for
\* one type the shared one is never the first to fire.
EvaluatorsAgree ==
  Ready => \A list \in Conditions :
    (\A k \in DOMAIN list : list[k].type \in Common) =>
      \A i \in DOMAIN got :
        LET shared == SignalEvaluator(Chart, <<>>, list, i)
            own == EvaluateAll(Chart, list, i)
        IN  /\ shared => own
            /\ (\A k, l \in DOMAIN list : list[k].type = list[l].type => list[k].period = list[l].period)
                 => shared = own

ChartIsRight ==
  IndicatorsAreCausal /\ WindowsAgree /\ AdxIsOfItsWindow /\ AlignmentIsTheLatest /\ EvaluatorsAgree
=============================================================================
