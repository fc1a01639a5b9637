----------------------------- MODULE Portfolio ------------------------------
(***************************************************************************)
(* runPortfolioBacktest (backtest/portfolio.ts): the trades that           *)
(* runBacktest found in each symbol are replayed in the order of their     *)
(* entries against one capital, a number of positions and one position per *)
(* symbol.                                                                 *)
(*                                                                         *)
(* The candidates are inputs: any trades that runBacktest may find, one    *)
(* after the other.  leftAt is the candle a trade left on; its exitTime is *)
(* what runBacktest stamps it with, the time of the last candle of its     *)
(* symbol, and the replay knows of no other.                               *)
(***************************************************************************)
EXTENDS Integers, Sequences, FiniteSets, SequencesExt, FiniteSetsExt

CONSTANTS
  Symbols,       \* sequence: the order in which the symbols' trades are concatenated
  LastTime,      \* symbol -> time of its last candle
  Times,         \* of the candles
  Returns,       \* returnPct, in percent
  Capital,       \* initialCapital
  AllocationPct, \* allocationPerTradePct, in percent
  MaxPositions

VARIABLES
  todo,       \* sequence of the candidates still to replay
  capital,    \* currentCapital
  active,     \* activePositions, a set of [trade, allocated]
  executed    \* executedTrades, sequence of [trade, allocated, profit]

vars == <<todo, capital, active, executed>>

Trade(symbol, span, ret) ==
  [symbol |-> symbol, entryTime |-> span[1], leftAt |-> span[2], exitTime |-> LastTime[symbol], returnPct |-> ret]

\* From entry to exit; what enters on the last candle leaves on it.
Spans(symbol) ==
  {span \in Times \X Times : /\ span[2] <= LastTime[symbol]
                            /\ (span[1] < span[2] \/ span = <<LastTime[symbol], LastTime[symbol]>>)}

\* A symbol's candidates: after an exit the scan goes on with the next candle.
CandidatesOf(symbol) ==
  LET apart == {spans \in SUBSET Spans(symbol) :
                  \A a, b \in spans : a = b \/ a[2] < b[1] \/ b[2] < a[1]}
      InOrder(spans) == SetToSortSeq(spans, LAMBDA a, b : a[1] < b[1])
  IN  UNION {{[n \in 1..Cardinality(spans) |-> Trade(symbol, InOrder(spans)[n], ret[InOrder(spans)[n]])]
                : ret \in [spans -> Returns]} : spans \in apart}

\* candidates.sort: stable, by entryTime.
ByEntry(trades) == SortSeq(trades, LAMBDA a, b : a.entryTime < b.entryTime)

Concatenated == FoldLeft(LAMBDA lists, s : {l \o c : l \in lists, c \in CandidatesOf(s)}, {<<>>}, Symbols)

Init ==
  /\ todo \in {ByEntry(l) : l \in Concatenated}
  /\ capital = Capital
  /\ active = {}
  /\ executed = <<>>

-----------------------------------------------------------------------------

Profit(pos) == (pos.allocated * pos.trade.returnPct) \div 100
Settled(pos) == [trade |-> pos.trade, allocated |-> pos.allocated, profit |-> Profit(pos)]

\* What closing some positions, in the order of their exits, brings back.
BringsBack(closing) == MapThenSumSet(LAMBDA pos : pos.allocated + Profit(pos), closing)

InExitOrder(closing) == SetToSortSeq(closing, LAMBDA a, b : a.trade.exitTime < b.trade.exitTime)

\* The loop's body: first the positions whose exit is due are closed, then the
\* candidate is opened if there is room for it.
Replay ==
  /\ todo # <<>>
  /\ LET candidate == Head(todo)
         due == {pos \in active : pos.trade.exitTime <= candidate.entryTime}
         freed == capital + BringsBack(due)
         left == active \ due
         allocation == (freed * AllocationPct) \div 100
         opens == /\ Cardinality(left) < MaxPositions
                  /\ \A pos \in left : pos.trade.symbol # candidate.symbol
                  /\ allocation > 0 /\ allocation <= freed
     IN  /\ executed' = executed \o [n \in 1..Cardinality(due) |-> Settled(InExitOrder(due)[n])]
         /\ active' = IF opens THEN left \cup {[trade |-> candidate, allocated |-> allocation]} ELSE left
         /\ capital' = IF opens THEN freed - allocation ELSE freed
  /\ todo' = Tail(todo)

\* What is still open at the end is closed.
CloseRest ==
  /\ todo = <<>>
  /\ active # {}
  /\ executed' = executed \o [n \in 1..Cardinality(active) |-> Settled(InExitOrder(active)[n])]
  /\ capital' = capital + BringsBack(active)
  /\ active' = {}
  /\ UNCHANGED todo

Next == Replay \/ CloseRest

Spec == Init /\ [][Next]_vars

-----------------------------------------------------------------------------
(* Properties.                                                             *)

Sum(s) == FoldLeft(LAMBDA a, x : a + x, 0, s)

\* The capital, what is allocated and what was realised account for each other.
CapitalIsAccountedFor ==
  capital + MapThenSumSet(LAMBDA pos : pos.allocated, active)
    = Capital + Sum([n \in DOMAIN executed |-> executed[n].profit])

\* "Close positions whose exitTime is <= entryTime of current candidate": trades are
\* realised in the order of their exits, but for those whose stamp is later than their
\* exit, and none before it left; as a place is given back at the stamp, no more trades
\* than there are places for, and none of one symbol, are open at once, and a symbol that
\* has traded trades again on its last candle only.
Taken == {executed[n].trade : n \in DOMAIN executed} \cup {pos.trade : pos \in active}
OpenAt(time) == {t \in Taken : t.entryTime <= time /\ time < t.leftAt}
RealisedInOrder ==
  /\ \A n, m \in DOMAIN executed :
       LET earlier == executed[n].trade
           later == executed[m].trade
       IN  n < m /\ earlier.leftAt > later.leftAt => later.leftAt < later.exitTime
  /\ \A pos \in active, n \in DOMAIN executed :
       executed[n].trade.leftAt <= pos.trade.leftAt \/ pos.trade.leftAt < pos.trade.exitTime
  /\ \A time \in Times :
       /\ Cardinality(OpenAt(time)) <= MaxPositions
       /\ \A t, u \in OpenAt(time) : t.symbol = u.symbol => t = u
  /\ \A t, u \in Taken : t.symbol = u.symbol /\ t.entryTime < u.entryTime => u.entryTime = LastTime[u.symbol]
=============================================================================
