----------------------------- MODULE MCLedgers -----------------------------
(* The live runner with its streams and its AI gate, and the accounts kept   *)
(* beside it: its money, the equity agent, and the fusion of strategies on   *)
(* one capital. They share nothing, so a behaviour runs one of them, the     *)
(* others staying as they began.                                             *)
EXTENDS LiveRunner

CONSTANT None, NotANumber, Components  \* the parts to explore

MCOrder == <<"A", "B">>
MCOneGroup == [s \in {"A", "B"} |-> "1h"]
MCOpposed == [s \in {"A", "B"} |-> IF s = "A" THEN "long" ELSE "short"]
MCSizeOf == [s \in {"A", "B"} |-> IF s = "A" THEN 10 ELSE 5]

MCSymbolOf == [s \in {"A", "B", "C"} |-> IF s = "C" THEN "eth" ELSE "btc"]
MCDirOf == [s \in {"A", "B", "C"} |-> IF s = "B" THEN "short" ELSE "long"]
MCRiskMarginPct == [s \in {"A", "B", "C"} |-> IF s = "B" THEN 50 ELSE 30]

\* A market that turned wild, a calm one, and one too new to tell.
Candle(low, high, close) == [low |-> low, high |-> high, close |-> close]
MCCharts == {<<Candle(9, 11, 10), Candle(9, 11, 10), Candle(5, 15, 10)>>,
             <<Candle(8, 12, 10), Candle(7, 13, 10), Candle(9, 11, 10)>>, <<Candle(9, 11, 10)>>}

Rule(kind, up, value, period, side, stop, target) ==
  [id |-> kind, kind |-> kind, up |-> up, value |-> value, period |-> period, side |-> side,
   stop |-> stop, target |-> target]
Plain(kind, up, side) == Rule(kind, up, None, None, side, 3, 4)
MCTraded ==
  [btc |-> <<Rule("rsi", TRUE, 70, 7, "short", 2, 2), Plain("liq_ob", TRUE, "long"), Plain("htf_trend", TRUE, "long"),
             Plain("supertrend_flip", TRUE, "long"), Rule("price_ema", TRUE, None, 9, "long", 1, 1),
             Plain("ichimoku_breakout", TRUE, "long"), Plain("bollinger_touch", TRUE, "short"),
             Plain("adx_di_cross", FALSE, "short")>>,
   eth |-> <<Plain("macd_cross", TRUE, "long"), Plain("ob", TRUE, "long"), Plain("adx_trend", FALSE, "short"),
             Plain("liq_fvg", FALSE, "short"), Plain("bos_displacement", FALSE, "short"),
             Plain("volume_spike", FALSE, "short"), Plain("ichimoku_cloud", FALSE, "short")>>]
Quiet == [gap |-> 1, low |-> 10, high |-> 10, close |-> 10, open |-> 10, rsi |-> 50, macd |-> 1, band |-> 0, ema |-> 0,
          patterns |-> {}, stretch |-> 0, trend |-> -1, strong |-> TRUE, di |-> 1, cloud |-> None, heavy |-> FALSE]
MCCandles ==
  [btc |-> {[Quiet EXCEPT !.rsi = 80, !.ema = 1],
            [Quiet EXCEPT !.high = 13, !.close = 12, !.trend = 1, !.stretch = 1, !.cloud = 1,
                          !.patterns = {<<"ob", TRUE>>, <<"liq_sweep", TRUE>>}],
            [Quiet EXCEPT !.low = 6, !.close = 9, !.rsi = None, !.di = -1, !.band = 1]},
   eth |-> {[Quiet EXCEPT !.patterns = {<<"ob", TRUE>>}],
            [Quiet EXCEPT !.gap = 2, !.low = 9, !.high = 11, !.close = 9, !.macd = -1, !.di = -1, !.cloud = -1],
            [Quiet EXCEPT !.heavy = TRUE, !.close = 9, !.low = 9,
                          !.patterns = {<<"liq_sweep", FALSE>>, <<"fvg", FALSE>>, <<"displacement", FALSE>>}]}]

VARIABLE component  \* the one that runs

\* The money of the runner: three strategies on two symbols, and the gate.
VARIABLES
  booksAiMode, booksPositions, booksCapital, booksStats, booksMultiplier, booksReview,
  booksTools, booksJournal, booksSpoilt, booksSteps, booksLimit, booksOdd
booksVars == <<
  booksAiMode, booksPositions, booksCapital, booksStats, booksMultiplier, booksReview,
  booksTools, booksJournal, booksSpoilt, booksSteps, booksLimit, booksOdd>>
Books == INSTANCE Accounts WITH
  BreakevenMult <- 1, BreakevenOffset <- 0, ActivationMult <- 2, TrailMult <- 1,
  MinTrail <- 1, MaxTrail <- 2, Leverage <- 2, FeeDiv <- 10, StopTicks <- 1,
  TargetTicks <- 1, LiqTicks <- 2, NoOne <- None, Strategies <- {"A", "B", "C"},
  SymbolOf <- MCSymbolOf, DirOf <- MCDirOf, Prices <- {4, 6}, Capital <- 40,
  MarginPct <- 40, RiskMarginPct <- MCRiskMarginPct, UtilizationPct <- 60,
  Charts <- MCCharts, AtrPeriod <- 1, ThresholdPct <- 40, Multipliers <- {25, 120}, HasCatalog <- TRUE,
  Sizes <- {0, 50, 300}, MaxSteps <- 3, None <- None, NotANumber <- NotANumber,
  aiMode <- booksAiMode, positions <- booksPositions, capital <- booksCapital,
  stats <- booksStats, multiplier <- booksMultiplier, review <- booksReview,
  tools <- booksTools, journal <- booksJournal, spoilt <- booksSpoilt,
  steps <- booksSteps, limit <- booksLimit, odd <- booksOdd

\* The equity agent: two symbols, two rules, two rounds.
VARIABLES
  equityState, equityRound, equityLastPrices, equityCash, equityEquity,
  equityDailyPnl, equityPositions, equitySignals, equityIntents, equityFills
equityVars == <<
  equityState, equityRound, equityLastPrices, equityCash, equityEquity,
  equityDailyPnl, equityPositions, equitySignals, equityIntents, equityFills>>
Equity == INSTANCE TradingAgent WITH
  Symbols <- <<"AAPL", "MSFT">>, Rules <- <<"ema", "rsi">>,
  PriceLists <- {[AAPL |-> 4, MSFT |-> 4], [AAPL |-> 2, MSFT |-> 3]}, Atr <- 1,
  Slippage <- 1, FeePct <- 10, InitialCapital <- 60, MaxOpenPositions <- 1,
  DailyLossPct <- 10, RiskPct <- 10, PositionPct <- 20, StopAtrMult <- 2,
  MaxRounds <- 2, MaxSignals <- 2, state <- equityState, round <- equityRound,
  lastPrices <- equityLastPrices, cash <- equityCash, equity <- equityEquity,
  dailyPnl <- equityDailyPnl, positions <- equityPositions, signals <- equitySignals,
  intents <- equityIntents, fills <- equityFills

\* Several strategies on two symbols of one capital, over up to four candles.
VARIABLES
  fusionCandles, fusionEnded, fusionPositions, fusionCapital, fusionEqCurve,
  fusionTradeLog, fusionClosed
fusionVars == <<
  fusionCandles, fusionEnded, fusionPositions, fusionCapital, fusionEqCurve,
  fusionTradeLog, fusionClosed>>
Fusion == INSTANCE Fusion WITH
  Symbols <- <<"btc", "eth">>, Strategies <- MCTraded, Candles <- MCCandles,
  Period <- 4, EmaPeriod <- 9, InitialCapital <- 40, Leverage <- 5, MarginPct <- 60,
  AddPct <- 50, FeePct <- 1, Liq <- 3, Warmup <- 1, MaxHold <- 2, Sample <- 2,
  Lookback <- 2, EntryZ <- 1, ExitZ <- 1, StopZ <- 3, None <- None, MaxBars <- 4,
  candles <- fusionCandles, ended <- fusionEnded, positions <- fusionPositions,
  capital <- fusionCapital, eqCurve <- fusionEqCurve, tradeLog <- fusionTradeLog,
  closed <- fusionClosed

-----------------------------------------------------------------------------
ASSUME BundleAssumption ==
  /\ Components \subseteq {"runner", "books", "equity", "fusion"}
  /\ Equity!TradingAssumption
  /\ Books!AccountsAssumption
  /\ Fusion!FusionAssumption

bundle == <<component, vars, booksVars, equityVars, fusionVars>>

BundleInit ==
  /\ component \in Components
  /\ Init
  /\ component # "books" => booksAiMode = FALSE
  /\ Books!Init
  /\ Equity!Init
  /\ Fusion!Init

BundleNext ==
  \/ component = "runner" /\ Next
     /\ UNCHANGED <<component, booksVars, equityVars, fusionVars>>
  \/ component = "books" /\ Books!Next
     /\ UNCHANGED <<component, vars, equityVars, fusionVars>>
  \/ component = "equity" /\ Equity!Next
     /\ UNCHANGED <<component, vars, booksVars, fusionVars>>
  \/ component = "fusion" /\ Fusion!Next
     /\ UNCHANGED <<component, vars, booksVars, equityVars>>
  \/ component \in {"books", "equity", "fusion"}  \* what may stop
     /\ UNCHANGED bundle

BundleSpec ==
  /\ BundleInit /\ [][BundleNext]_bundle

-----------------------------------------------------------------------------
\* The cash and the positions of the equity agent are those of its fills; a symbol is
\* sold short only by two exits of one round, and the limit on open positions is
\* passed only by the entries of one round; the capital of the runner moves by its
\* fills, and its margin keeps the ceiling, whatever the gate answers; a fusion of
\* strategies is accounted for by its log.
LedgerMatchesFills ==
  /\ component = "equity" =>
       Equity!LedgerMatchesFills /\ Equity!ShortOnlyAfterTwoExits /\ Equity!LimitPassedWithinARound
  /\ component = "books" => Books!AccountsAreSound
  /\ component = "fusion" => Fusion!FusionIsSound

=============================================================================
