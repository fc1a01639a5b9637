------------------------------ MODULE MCMarket ------------------------------
(* The live runner in rules mode, and the parts around it: its sockets, the  *)
(* histories strategies are tested on, and the candle stores of the chat.    *)
(* The runner is modelled against any timing of its candles, so the parts    *)
(* share nothing and a behaviour runs one of them, the others staying as     *)
(* they began.                                                               *)
EXTENDS LiveRunner

CONSTANT None, ClosedSocket, Components  \* the parts to explore

MCOrder == <<"A", "B">>
MCOneGroup == [s \in {"A", "B"} |-> "1h"]
MCTwoGroups == [s \in {"A", "B"} |-> IF s = "A" THEN "1h" ELSE "4h"]
MCOpposed == [s \in {"A", "B"} |-> IF s = "A" THEN "long" ELSE "short"]
MCJustA == <<"A">>
MCSizeOf == [s \in {"A", "B"} |-> IF s = "A" THEN 10 ELSE 5]

Shape(open, high, low, close, volume) ==
  [open |-> open, high |-> high, low |-> low, close |-> close, volume |-> volume]
MCShapes == {Shape(5, 7, 4, 5, 1), Shape(6, 8, 2, 3, 5), Shape(6, 10, 6, 10, 5)}
Cond(type, period, value) == [type |-> type, period |-> period, value |-> value]
MCConditions ==
  {<<Cond("price_above_sma", 2, 0), Cond("price_below_sma", 3, 0)>>,
   <<Cond("price_above_sma", 2, 0), Cond("price_above_sma", 3, 0)>>,
   <<Cond("price_above_ema", 2, 0), Cond("rsi_above", 2, 50)>>,
   <<Cond("rsi_below", 2, 50), Cond("bollinger_touch_lower", 2, 0)>>,
   <<Cond("macd_bullish_cross", 2, 0)>>, <<Cond("macd_bearish_cross", 2, 0)>>,
   <<Cond("bollinger_touch_upper", 2, 0), Cond("price_below_ema", 3, 0)>>}
  \union {<<Cond(type, 1, 20)>> : type \in
     {"supertrend_bullish_flip", "supertrend_bearish_flip", "adx_bullish_trend", "adx_bearish_trend",
      "adx_di_cross_long", "adx_di_cross_short", "ichimoku_bullish_breakout", "ichimoku_bearish_breakout",
      "ichimoku_above_cloud_long", "ichimoku_below_cloud_short", "volume_spike_long", "volume_spike_short",
      "oi_bearish_divergence", "oi_bullish_divergence"}}
Point(time, level) == [time |-> time, level |-> level]
MCPoints == {<<>>, <<Point(3, 9)>>, <<Point(1, 8), Point(4, 9), Point(6, 4)>>}

VARIABLE component  \* the one that runs

\* The sockets under the runner: one stream of each kind, one caller.
VARIABLES
  streamsSockets, streamsConn, streamsRetries, streamsClosedIntentionally,
  streamsLatest, streamsAlerts, streamsCall, streamsFailures, streamsUnsubscribes,
  streamsWanted, streamsAdopted
streamsVars == <<
  streamsSockets, streamsConn, streamsRetries, streamsClosedIntentionally,
  streamsLatest, streamsAlerts, streamsCall, streamsFailures, streamsUnsubscribes,
  streamsWanted, streamsAdopted>>
Streams == INSTANCE StreamManager WITH
  Steady <- {"kline"}, Tickers <- {"ticker"}, Callers <- {"caller"}, Slots <- 1 .. 5,
  Prices <- {1, 2}, Threshold <- 2, MaxFailures <- 1, MaxUnsubscribes <- 1,
  None <- None, ClosedSocket <- ClosedSocket, sockets <- streamsSockets,
  conn <- streamsConn, retries <- streamsRetries,
  closedIntentionally <- streamsClosedIntentionally, latest <- streamsLatest,
  alerts <- streamsAlerts, call <- streamsCall, failures <- streamsFailures,
  unsubscribes <- streamsUnsubscribes, wanted <- streamsWanted,
  adopted <- streamsAdopted

\* The candle stores of one symbol on two timeframes, and two that watch them.
VARIABLES
  marketBar, marketWatch, marketStores, marketListeners, marketReplays, marketRaced,
  marketMixed
marketVars == <<
  marketBar, marketWatch, marketStores, marketListeners, marketReplays, marketRaced,
  marketMixed>>
Market == INSTANCE MarketState WITH
  Timeframes <- {"1h", "2h"}, Duration <- [tf \in {"1h", "2h"} |-> IF tf = "1h" THEN 1 ELSE 2],
  Watchers <- {"w1", "w2"}, MaxSize <- 3, Backfill <- 2, MaxTime <- 3, MaxReplays <- 2, None <- None, bar <- marketBar, watch <- marketWatch,
  stores <- marketStores, listeners <- marketListeners, replays <- marketReplays,
  raced <- marketRaced, mixed <- marketMixed

\* A history of up to five bars, fetched two at a time, and its indicators.
VARIABLES
  historyMarket, historyKind, historyStart, historyEnd, historyFrom, historyGot,
  historyAttempts, historyStatus, historySeen
historyVars == <<
  historyMarket, historyKind, historyStart, historyEnd, historyFrom, historyGot,
  historyAttempts, historyStatus, historySeen>>
History == INSTANCE History WITH
  Shapes <- MCShapes, Starts <- {1, 8}, Ends <- {10}, PageSize <- 2, Retries <- 1,
  Points <- MCPoints, Fast <- 1, Slow <- 2, SignalPeriod <- 2, BandPeriod <- 2,
  BandWidth <- 1, AtrPeriod <- 1, Multiplier <- 1, AdxPeriod <- 2, Tenkan <- 1,
  Kijun <- 2, SenkouB <- 3, Shift <- 1, VolumePeriod <- 3, Conditions <- MCConditions,
  None <- None, MaxBars <- 5, market <- historyMarket, kind <- historyKind,
  start <- historyStart, end <- historyEnd, from <- historyFrom, got <- historyGot,
  attempts <- historyAttempts, status <- historyStatus, seen <- historySeen

-----------------------------------------------------------------------------
ASSUME BundleAssumption ==
  /\ Components \subseteq {"runner", "streams", "market", "history"}
  /\ Streams!StreamAssumption
  /\ Market!MarketAssumption
  /\ History!HistoryAssumption

bundle == <<component, vars, streamsVars, marketVars, historyVars>>

BundleInit ==
  /\ component \in Components
  /\ Init
  /\ Streams!Init
  /\ Market!Init
  /\ component # "history" => historyKind = "oi" /\ historyStart = 1
  /\ History!Init

BundleNext ==
  \/ component = "runner" /\ Next
     /\ UNCHANGED <<component, streamsVars, marketVars, historyVars>>
  \/ component = "streams" /\ Streams!Next
     /\ UNCHANGED <<component, vars, marketVars, historyVars>>
  \/ component = "market" /\ Market!Next
     /\ UNCHANGED <<component, vars, streamsVars, historyVars>>
  \/ component = "history" /\ History!Next
     /\ UNCHANGED <<component, vars, streamsVars, marketVars>>
  \/ component \in {"market", "history"}  \* what may stop
     /\ UNCHANGED bundle

BundleSpec ==
  /\ BundleInit /\ [][BundleNext]_bundle
  /\ WF_vars(component = "runner" /\ PollStart)
  /\ \A g \in Groups : SF_vars(component = "runner" /\ FetchDoneOf(g))
  /\ WF_vars(component = "runner" /\ \E w \in Passes : ExitStep(w) \/ EvalStep(w) \/ EvalEnd(w))
  /\ \A w \in Passes :
       SF_vars(component = "runner" /\ (FundingDone(w) \/ HtfDone(w) \/ GateDone(w)))
  /\ \A s \in {"kline", "ticker"} : WF_streamsVars(component = "streams" /\ Streams!Retry(s))
  /\ \A i \in 1 .. 5 :
       WF_streamsVars(component = "streams" /\ (Streams!Opens(i) \/ Streams!Fails(i)))
  /\ WF_streamsVars(component = "streams"
      /\ (Streams!AnswerTick("caller") \/ Streams!AddAlert("caller")))
  /\ WF_historyVars(component = "history"
      /\ (History!Page \/ History!NetworkFails \/ History!ApiError))

-----------------------------------------------------------------------------
\* A wanted stream has a connection or a timer that makes one, unless it took over the
\* socket of a late timer; a kline stream never both or two (its callback would be called
\* twice for a candle), and the candles of a store follow one another without a gap
\* between the backfill and the newest, unless another timeframe of its symbol is
\* watched; a history that was fetched has every bar once, and what is read from it
\* tells the backtest and the runner the same.
FeedIsComplete ==
  /\ component = "streams" => Streams!OnlyAdoptedForgotten /\ Streams!OneConnection
  /\ component = "market" => Market!StoresAreComplete /\ Market!OwnBarsInOrder
  /\ component = "history" => History!HistoryIsComplete /\ History!ChartIsRight

\* The poll brings every strategy of the pool up to the latest candle, whatever
\* fetches fail.
RunnerCatchesUp == component = "runner" => PollCatchesUp

\* A kline stream comes back after every drop and after a first attempt that failed,
\* whoever waits for a stream is answered, and every fetch of a history returns.
StreamsComeBack ==
  Streams!StreamsComeBack /\ Streams!CallsAreAnswered
  /\ (component = "history" => History!FetchEnds)

=============================================================================
