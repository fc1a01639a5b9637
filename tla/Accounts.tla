------------------------------ MODULE Accounts ------------------------------
(***************************************************************************)
(* What a signal is worth and what its fills do to the books               *)
(* (src/paper-trading/live-runner.ts): an entry is sized by the capital of *)
(* its symbol, the volatility, the positions of the other symbols and the  *)
(* margin in use; the AI gate (ai-gate.ts) may veto or scale it while the  *)
(* other symbols trade on; every fill moves the capital of the symbol and  *)
(* the record of the strategy it is attributed to.                         *)
(*                                                                         *)
(* Which candle is looked at and when is LiveRunner's; here a strategy     *)
(* fires, and a position is closed, at any time and price.  Money is in    *)
(* whole units, rounded down; one entry at a time is under review on a     *)
(* symbol (LiveRunner has the overlaps).                                   *)
(***************************************************************************)
EXTENDS SymbolPosition

CONSTANTS
  Strategies, SymbolOf, DirOf,
  Prices,            \* of entries and exits, slippage and funding included
  Capital,           \* initialCapitalPerSymbol
  MarginPct,         \* marginPerTradePct
  RiskMarginPct,     \* of each strategy: riskPerTradePct / stopPct / leverage
  UtilizationPct,    \* maxMarginUtilizationPct
  Charts,            \* the candles an entry may be sized by: sequences of [high, low, close]
  AtrPeriod,
  ThresholdPct,      \* correlationThreshold
  Multipliers,       \* the sizeMultipliers of the adaptor, in percent
  HasCatalog,        \* the gate can look up what its model supports
  Sizes,             \* the sizes a model writes, in percent
  MaxSteps

Symbols == {SymbolOf[s] : s \in Strategies}

\* NotANumber is the quantity that a size such as "1.0." leaves.
CONSTANTS None, NotANumber

AccountsAssumption ==
  /\ Multipliers \subseteq Nat /\ Prices \subseteq Nat \ {0} /\ ThresholdPct \in 0 .. 99
  /\ Capital \in Nat \ {0} /\ Leverage \in Nat \ {0} /\ AtrPeriod \in Nat \ {0}
  /\ MarginPct \in 1 .. 100 /\ UtilizationPct \in 1 .. 100 /\ RiskMarginPct \in [Strategies -> Nat]

VARIABLES
  aiMode,      \* cfg.aiMode
  positions,   \* state.symbolPositions
  capital,     \* state.symbolCapital
  stats,       \* of each strategy: [trades, wins, losses]
  multiplier,  \* of each strategy, sizeMultiplier
  review,      \* of each symbol, the entry its gate is asked about, or None
  tools,       \* toolsSupported, None while it is not resolved
  journal,     \* sequence of [symbol, fill]
  spoilt,      \* symbols whose figures are no longer numbers
  steps,
  \* history
  limit,       \* of each symbol, the most an entry was allowed in all
  odd          \* an approval of size 0, or from free text of no size in (0, 100], was taken

vars == <<aiMode, positions, capital, stats, multiplier, review, tools, journal, spoilt, steps, limit, odd>>

Init ==
  /\ aiMode \in BOOLEAN
  /\ positions = [y \in Symbols |-> FlatPosition]
  /\ capital = [y \in Symbols |-> Capital]
  /\ stats = [s \in Strategies |-> [trades |-> 0, wins |-> 0, losses |-> 0]]
  /\ multiplier = [s \in Strategies |-> 100]
  /\ review = [y \in Symbols |-> None]
  /\ tools = None /\ journal = <<>> /\ spoilt = {} /\ steps = 0
  /\ limit = [y \in Symbols |-> 0] /\ odd = FALSE

Step == steps < MaxSteps /\ steps' = steps + 1

-----------------------------------------------------------------------------
(* Sizing.                                                                 *)

Distance(a, b) == IF a >= b THEN a - b ELSE b - a
Most(a, b) == IF a >= b THEN a ELSE b
Between(low, x, high) == Most(low, Least(x, high))

\* atrRatio, as a fraction: the mean of the last true ranges over that of all, in
\* percent of the close before; too few, or none, count as usual.
TrueRange(bar, before) ==
  (100 * Most(bar.high - bar.low, Most(Distance(bar.high, before), Distance(bar.low, before)))) \div before
AtrRatio(chart) ==
  LET ranges == [n \in 1 .. Len(chart) - 1 |-> TrueRange(chart[n + 1], chart[n].close)]
      last == TotalOf(SubSeq(ranges, Len(ranges) - AtrPeriod + 1, Len(ranges)))
  IN  IF Len(ranges) < AtrPeriod \/ last <= 0 THEN [num |-> 1, den |-> 1]
      ELSE [num |-> last * Len(ranges), den |-> TotalOf(ranges) * AtrPeriod]

\* Both in percent: a wild market halves a size at most, and triples the slippage.
VolScale(chart) == Between(50, (100 * AtrRatio(chart).den) \div AtrRatio(chart).num, 100)
SlippageMultiplier(chart) == Between(100, (100 * AtrRatio(chart).num) \div AtrRatio(chart).den, 300)

\* In percent, never below 40.
CorrelationScale(same, total) ==
  LET fraction == (100 * same) \div total
  IN  IF fraction <= ThresholdPct THEN 100
      ELSE Most(40, 100 - (60 * (fraction - ThresholdPct)) \div (100 - ThresholdPct))

SameDirectionElsewhere(s) ==
  {y \in Symbols \ {SymbolOf[s]} : positions[y].direction = DirOf[s]}

InUse(s) ==
  LET p == positions[SymbolOf[s]] IN IF p.direction = DirOf[s] THEN p.margin ELSE 0

Ceiling(y) == (capital[y] * UtilizationPct) \div 100

\* computeEntryMargin: the smaller of the flat and the risk margin, scaled, within the
\* headroom.
EntryMargin(s, scale) ==
  LET wanted == (capital[SymbolOf[s]] * Least(MarginPct, RiskMarginPct[s])) \div 100
  IN  Least((wanted * scale) \div 100, Most(0, Ceiling(SymbolOf[s]) - InUse(s)))

Quantity(s, margin, price) == (margin * Leverage * multiplier[s]) \div (100 * price)

-----------------------------------------------------------------------------
(* The books.                                                              *)

\* What the fills of a symbol do to the figures of their strategies.
Counted(record, fill) ==
  [record EXCEPT ![fill.strategyId] =
     [trades |-> @.trades + 1,
      wins |-> @.wins + (IF fill.realizedPnl > 0 THEN 1 ELSE 0),
      losses |-> @.losses + (IF fill.realizedPnl > 0 THEN 0 ELSE 1)]]

IsExit(fill) == fill.action \in ClosingActions

Cash(fill) == IF IsExit(fill) THEN fill.realizedPnl ELSE -fill.feeUsd

\* journalFills and what follows it, of an entry or an exit.
Book(y, result) ==
  /\ positions' = [positions EXCEPT ![y] = result.position]
  /\ journal' = journal \o [i \in DOMAIN result.fills |-> [symbol |-> y, fill |-> result.fills[i]]]
  /\ stats' = FoldLeft(Counted, stats, SelectSeq(result.fills, IsExit))
  /\ capital' = [capital EXCEPT ![y] = FoldLeft(LAMBDA sum, f : sum + Cash(f), @, result.fills)]

IntentOf(s) == [strategyId |-> s, direction |-> DirOf[s], trailing |-> FALSE, entryIdx |-> 0]

Enter(s, price, q) == Book(SymbolOf[s], ApplyIntent(positions[SymbolOf[s]], IntentOf(s), price, q))

Usable(y) == y \notin spoilt /\ review[y] = None

\* A strategy fires: it is blocked by the cap, enters, or waits for the gate.
Fire(s, price, chart) ==
  LET y      == SymbolOf[s]
      scale  == (VolScale(chart) * CorrelationScale(Cardinality(SameDirectionElsewhere(s)), Cardinality(Symbols))) \div 100
      q      == Quantity(s, EntryMargin(s, scale), price)
  IN  /\ Step /\ Usable(y)
      /\ limit' = [limit EXCEPT ![y] = Most(@, Ceiling(y))]
      /\ \/ q <= 0 /\ UNCHANGED <<positions, capital, stats, journal, review>>
         \/ q > 0 /\ ~aiMode /\ Enter(s, price, q) /\ UNCHANGED review
         \/ /\ q > 0 /\ aiMode
            /\ review' = [review EXCEPT ![y] = [strategy |-> s, price |-> price, qty |-> q]]
            /\ UNCHANGED <<positions, capital, stats, journal>>
      /\ UNCHANGED <<aiMode, multiplier, tools, spoilt, odd>>

\* An exit level, a timeout or a liquidation: the position is closed.
Exit(y, price) ==
  /\ Step /\ y \notin spoilt
  /\ positions[y].direction # "none"
  /\ Book(y, ClosePosition(positions[y], positions[y].gov, price))
  /\ UNCHANGED <<aiMode, multiplier, review, tools, spoilt, limit, odd>>

\* PnlAdaptor has resized a strategy, and the pool is reloaded.
Resize(s, m) ==
  /\ Step /\ m # multiplier[s]
  /\ multiplier' = [multiplier EXCEPT ![s] = m]
  /\ UNCHANGED <<aiMode, positions, capital, stats, review, tools, journal, spoilt, limit, odd>>

-----------------------------------------------------------------------------
(* The gate.  An answer is what the model wrote: its verdict, or none that *)
(* can be read, and the size beside it, if any.                            *)

Rejected == [approved |-> FALSE, size |-> 0]
Approved(size) == [approved |-> TRUE, size |-> size]

\* A line of text: the size is taken as it stands.
ParseDecision(answer) ==
  CASE answer.verdict # "APPROVE" -> Rejected
    [] answer.verdict = "APPROVE" /\ answer.size = None -> Approved(100)
    [] OTHER -> Approved(answer.size)

\* A tool call: the size must be a number, and is clamped.
ParseToolDecision(answer) ==
  IF answer.verdict # "APPROVE" \/ answer.size \in {None, NotANumber} THEN Rejected
  ELSE Approved(Least(100, answer.size))

Answers == [verdict : {"APPROVE", "REJECT", "unreadable"}, size : Sizes \union {None, NotANumber}]

\* resolveToolsSupported, once: a catalog that fails to load means no.
Resolved == IF tools # None THEN {tools} ELSE IF HasCatalog THEN BOOLEAN ELSE {FALSE}

\* The average entry of a position of nothing to which nothing is added is no number.
Spoils(y, strategy, size) ==
  \/ size = NotANumber
  \/ size = 0 /\ positions[y].direction = DirOf[strategy] /\ positions[y].qty = 0

Scaled(qty, size) == IF size = 0 THEN 0 ELSE Most(1, (qty * size) \div 100)

\* The gate answers, or fails, which is a rejection; what was sized before is scaled.
GateAnswers(y) ==
  /\ review[y] # None
  /\ review' = [review EXCEPT ![y] = None]
  /\ \E supported \in Resolved, answer \in Answers :
       LET decision == IF supported THEN ParseToolDecision(answer) ELSE ParseDecision(answer)
           asked    == review[y]
       IN  /\ tools' = supported
           /\ odd' = (odd \/ (decision.approved /\ decision.size \notin 1 .. 100
                             /\ (~supported \/ decision.size = 0)))
           /\ \/ /\ ~decision.approved \/ y \in spoilt
                 /\ UNCHANGED <<positions, capital, stats, journal, spoilt>>
              \/ /\ decision.approved /\ Spoils(y, asked.strategy, decision.size)
                 /\ spoilt' = spoilt \union {y}
                 /\ UNCHANGED <<positions, capital, stats, journal>>
              \/ /\ decision.approved /\ y \notin spoilt
                 /\ ~Spoils(y, asked.strategy, decision.size)
                 /\ Enter(asked.strategy, asked.price, Scaled(asked.qty, decision.size))
                 /\ UNCHANGED spoilt
  /\ UNCHANGED <<aiMode, multiplier, steps, limit>>

Next ==
  \/ \E s \in Strategies :
       \/ \E price \in Prices, chart \in Charts : Fire(s, price, chart)
       \/ \E m \in Multipliers : Resize(s, m)
  \/ \E y \in Symbols : GateAnswers(y) \/ \E price \in Prices : Exit(y, price)

Spec == Init /\ [][Next]_vars

-----------------------------------------------------------------------------
(* What the dashboard shows.                                               *)

FillsOf(y) == SelectSeq(journal, LAMBDA e : e.symbol = y)
ClosedBy(s) == SelectSeq(journal, LAMBDA e : e.fill.strategyId = s /\ IsExit(e.fill))

\* getStatus: what the journal attributes to a strategy.
AttributedPnl(s) == FoldLeft(LAMBDA sum, e : sum + e.fill.realizedPnl, 0, ClosedBy(s))

\* getPortfolio.
SumOver(f) == FoldFunction(+, 0, f)
TotalRealizedPnl == SumOver(capital) - Cardinality(Symbols) * Capital
AvailableBalance == SumOver(capital) - SumOver([y \in Symbols |-> positions[y].margin])

\* getSymbolPositions, and the count getPortfolio gives.
Blotter == {y \in Symbols : positions[y].direction # "none" /\ positions[y].qty > 0}
OpenPositions == Cardinality({y \in Symbols : positions[y].direction # "none"})

\* unrealizedPnl: marked to a price, less the fee of the entry's notional.
UnrealizedPnl(y, price) ==
  LET p == positions[y]
  IN  IF p.direction = "none" THEN 0
      ELSE Gain(p.direction, p.avgEntry, price) * p.qty - Fee(p.qty * p.avgEntry)

\* totalUnrealizedPnl leaves out a symbol without a tick.
TotalUnrealizedPnl(ticks) ==
  SumOver([y \in Symbols |-> IF ticks[y] = None THEN 0 ELSE UnrealizedPnl(y, ticks[y])])

-----------------------------------------------------------------------------
(* Properties.                                                             *)

\* Through opens, adds, reductions, flips and exits of several strategies and symbols,
\* the realised result of the portfolio is what the journal attributes to the
\* strategies less the fees of their entries, and a strategy's record counts its closed
\* fills, each as a win or a loss.
EntryFees ==
  FoldLeft(LAMBDA sum, e : sum + (IF IsExit(e.fill) THEN 0 ELSE e.fill.feeUsd), 0, journal)
BooksAddUp ==
  /\ TotalRealizedPnl = SumOver([s \in Strategies |-> AttributedPnl(s)]) - EntryFees
  /\ \A s \in Strategies :
       stats[s].trades = Len(ClosedBy(s)) /\ stats[s].wins + stats[s].losses = stats[s].trades

\* maxMarginUtilizationPct holds up to the multipliers applied after it: the margin of a
\* symbol passes the ceiling of its capital by the largest sizeMultiplier at most, though
\* the gate is awaited in between, and its figures are numbers, unless an approval of size 0, or of
\* any size in free text, was taken.
LargestMultiplier == CHOOSE m \in Multipliers : \A n \in Multipliers : n <= m
CeilingHolds ==
  ~odd => /\ spoilt = {}
          /\ \A y \in Symbols :
               100 * positions[y].margin <= Most(100, LargestMultiplier) * limit[y]

\* The dashboard shows what is there: it counts the positions it lists, and beside them
\* only one of nothing that a flip of exactly the quantity held has opened; what it
\* marks to the last ticks, symbol by symbol and in sum, is what closing at them would
\* realise, but that the fee is that of the entry.
Realised(y, price) ==
  TotalOf(Column(ClosePosition(positions[y], positions[y].gov, price).fills, "realizedPnl"))
DashboardIsTrue ==
  ~odd =>
    /\ OpenPositions >= Cardinality(Blotter)
    /\ \A y \in Symbols \ Blotter :
         positions[y].direction # "none" =>
           Last(FillsOf(y)).fill.action = "flip_open" /\ Last(FillsOf(y)).fill.qty = 0
    /\ \A ticks \in [Symbols -> Prices \union {None}] :
         TotalUnrealizedPnl(ticks) =
           SumOver([y \in Symbols |->
             IF y \notin Blotter \/ ticks[y] = None THEN 0
             ELSE Realised(y, ticks[y]) + Fee(positions[y].qty * ticks[y])
                    - Fee(positions[y].qty * positions[y].avgEntry)])

\* A market that is wild for its own past shrinks entries and widens their slippage, a
\* quiet one does neither.
VolatilityCounts ==
  \A chart \in Charts :
    /\ SlippageMultiplier(chart) > 100 => VolScale(chart) < 100
    /\ AtrRatio(chart).num <= AtrRatio(chart).den => VolScale(chart) = 100 /\ SlippageMultiplier(chart) = 100

AccountsAreSound == BooksAddUp /\ CeilingHolds /\ DashboardIsTrue /\ VolatilityCounts
=============================================================================
