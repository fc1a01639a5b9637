------------------------------ MODULE MCReplay ------------------------------
(* The position that strategies share, under the runner, and the backtests a *)
(* strategy is researched with: their replays, signals and accounts. Each    *)
(* replays any bars, so they share nothing and a behaviour runs one of them, *)
(* the others staying as they began.                                         *)
EXTENDS PositionLifecycle

CONSTANT None

MCStrategies == {"A", "B", "C"}
MCDirOf == [s \in MCStrategies |-> IF s = "C" THEN "short" ELSE "long"]
MCTrails == {"A", "C"}
MCPrices == 4 .. 6
MCSizes == {1, 2}
MCAtrs == {1}
MCAdjustments == {-1}

Bar(low, high, close, signal, subs) ==
  [low |-> low, high |-> high, close |-> close, signal |-> signal, subs |-> subs]
MCBars ==
  {Bar(10, 10, 10, signal, <<>>) : signal \in BOOLEAN}
  \union {Bar(9, 12, 11, TRUE, <<>>), Bar(7, 10, 9, TRUE, <<>>), Bar(10, 13, 13, FALSE, <<>>)}
  \union {Bar(8, 12, 10, FALSE, <<[low |-> 10, high |-> 12], [low |-> 8, high |-> 11]>>)}

\* A rule on an indicator no backtest gives, and rules on the price; the last one never
\* trades.
Rule(logic, conditions, direction, stop, target) ==
  [logic |-> logic, conditions |-> conditions, direction |-> direction, stop |-> stop, target |-> target]
On(indicator, operator, value) == [indicator |-> indicator, operator |-> operator, value |-> value]
MCRules == <<
  Rule("AND", <<On("rsi", "<", 30)>>, "long", 1, 1),
  Rule("AND", <<On("price", ">=", 10), On("price", "<", 11)>>, "long", None, 3),
  Rule("OR", <<On("price", "==", 13), On("rsi", ">", 70)>>, "short", 1, None),
  Rule("OR", <<On("price", "<=", 10), On("price", ">", 10)>>, "flat", None, None)>>

Shape(low, high, close, delta, heavy) ==
  [low |-> low, high |-> high, close |-> close, delta |-> delta, heavy |-> heavy]
MCShapes == {Shape(5, 7, 6, 1, FALSE), Shape(3, 8, 4, -2, TRUE), Shape(6, 9, 9, 0, FALSE)}
Of(kinds, sides) == {[kind |-> k, side |-> s] : k \in kinds, s \in sides}
MCFamilies == {Of({"ob", "BOS"}, {"bullish", "bearish"}), Of({"htf", "range"}, {"bullish", "bearish"}),
   Of({"sweep", "judas"}, {"bullish"}) \union Of({"score"}, {"bearish"}),
   Of({"ob", "fvg", "level"}, {"bearish"}) \union Of({"level"}, {"bullish"})}

VARIABLE component  \* the one that runs

\* A replay of up to four candles, of both engines and directions, and what is made of it.
VARIABLES
  testLong, testFutures, testBars, testHeld, testDone
testVars == <<
  testLong, testFutures, testBars, testHeld, testDone>>
Test == INSTANCE Sweeps WITH
  Bars <- MCBars, Stop <- 2, Target <- 2, Liq <- 3, MaxHold <- 2, None <- None,
  MaxBars <- 4, CycleFolds <- 2, Rules <- MCRules, TradeFee <- 1, Folds <- {1, 2, 3}, Stops <- <<1, 2>>,
  Targets <- <<2, 3>>, MinTrades <- 1, Draws <- {<<0, 1, 1>>, <<1, 0, 2, 3, 1>>},
  Ranges <- {<<>>, << <<1, 2>>, <<3>>, <<5, 6, 7>> >>}, long <- testLong,
  futures <- testFutures, bars <- testBars, held <- testHeld, done <- testDone

\* A chart of up to three bars and what the concepts engine finds on it.
VARIABLES
  chartFamily, chartBars, chartFound, chartSaid
chartVars == <<
  chartFamily, chartBars, chartFound, chartSaid>>
Chart == INSTANCE Signals WITH
  Shapes <- MCShapes, Families <- MCFamilies, Score <- 70, Lookaround <- 1,
  CvdLookback <- 1, Warmup <- 1, MinActive <- 1, Closes <- 1, Stop <- 2, Target <- 2,
  Liq <- 3, MaxHold <- 2, MaxPois <- 1, None <- None, MaxBars <- 3, family <- chartFamily,
  bars <- chartBars, found <- chartFound, said <- chartSaid

\* A replay of the trades of three symbols on one account.
VARIABLES
  folioTodo, folioCapital, folioActive, folioExecuted
folioVars == <<
  folioTodo, folioCapital, folioActive, folioExecuted>>
Folio == INSTANCE Portfolio WITH
  Symbols <- <<"eth", "btc", "sol">>, LastTime <- [eth |-> 2, btc |-> 3, sol |-> 1],
  Times <- 0 .. 3, Returns <- {-10, 20}, Capital <- 1000, AllocationPct <- 50,
  MaxPositions <- 2, todo <- folioTodo, capital <- folioCapital,
  active <- folioActive, executed <- folioExecuted

-----------------------------------------------------------------------------
ASSUME BundleAssumption == Test!SweepsAssumption

bundle == <<component, vars, testVars, chartVars, folioVars>>

BundleInit ==
  /\ component \in {"position", "backtest", "signals", "portfolio"}
  /\ Init
  /\ component # "backtest" => testLong = TRUE /\ testFutures = FALSE
  /\ Test!Init
  /\ component # "signals" => chartFamily = CHOOSE f \in MCFamilies : TRUE
  /\ Chart!Init
  /\ IF component = "portfolio" THEN Folio!Init
     ELSE (folioTodo = <<>> /\ folioCapital = 1000 /\ folioActive = {} /\ folioExecuted = <<>>)

BundleNext ==
  \/ component = "position" /\ Next
     /\ UNCHANGED <<component, testVars, chartVars, folioVars>>
  \/ component = "backtest" /\ Test!Next
     /\ UNCHANGED <<component, vars, chartVars, folioVars>>
  \/ component = "signals" /\ Chart!Next
     /\ UNCHANGED <<component, vars, testVars, folioVars>>
  \/ component = "portfolio" /\ Folio!Next
     /\ UNCHANGED <<component, vars, testVars, chartVars>>
  \/ component \in {"backtest", "signals", "portfolio"}  \* what may stop
     /\ UNCHANGED bundle

BundleSpec ==
  /\ BundleInit /\ [][BundleNext]_bundle

-----------------------------------------------------------------------------
\* A replay decides nothing by a later candle, though all but the futures engine stamp
\* every exit with the last one, and its figures are those of its trades; an account that
\* replays the trades of several symbols by their stamps overdraws no place and loses or
\* makes up no capital; sweeps, folds and percentiles are those of the trades; and a signal
\* of a bar changes with the bars after it in the three arrays that look ahead only, and
\* there by their rule.
BacktestsAreRight ==
  /\ component = "backtest" => Test!NoLookAhead /\ Test!MetricsAreRight /\ Test!SweepsAreRight
  /\ component = "portfolio" => Folio!CapitalIsAccountedFor /\ Folio!RealisedInOrder
  /\ component = "signals" => Chart!SignalsAreSound

=============================================================================
