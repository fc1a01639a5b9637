--------------------------- MODULE CircuitBreaker ---------------------------
(***************************************************************************)
(* StrategyCircuitBreaker (src/paper-trading/circuit-breaker.ts) and what  *)
(* it acts on: the closed trades it replays from the runner's journal, the *)
(* runner's paused flags and its global halt.                              *)
(*                                                                         *)
(* check() has no await, so nothing interleaves with it; the process can   *)
(* still die inside it, after some flags were saved by the runner          *)
(* (setPaused) and before the breaker saved its own state.                 *)
(***************************************************************************)
EXTENDS ProfitFactor

CONSTANTS
  Strategies,
  RollingWindow,        \* last N closed trades used for the rolling PF
  PfNum, PfDen,         \* pfFloor = PfNum / PfDen
  MaxConsecutiveLosses,
  CooldownTrades,
  DailyLimit,           \* dailyMaxLossPct of the initial capital
  Pnls,                 \* PnL of a closed trade
  Marks,                \* unrealised PnL a check may see
  NoDate,               \* dailyHaltDate = null
  MaxOpen,              \* bound on the lots of a strategy, open or about to be
  MaxTrades, MaxDay, MaxCrashes   \* bounds

ASSUME BreakerAssumption ==
  /\ RollingWindow \in Nat \ {0} /\ MaxConsecutiveLosses \in Nat \ {0}
  /\ CooldownTrades \in Nat \ {0}
  /\ PfNum \in Nat /\ PfDen \in Nat \ {0} /\ DailyLimit \in Nat
  /\ Pnls \subseteq Int /\ Marks \subseteq Int
  /\ NoDate \notin Nat
  /\ MaxOpen \in Nat /\ MaxTrades \in Nat /\ MaxDay \in Nat \ {0} /\ MaxCrashes \in Nat

VARIABLES
  trades,     \* the closed trades the journal replays to, oldest first
  open,       \* open lots of each strategy, each still to be closed
  passes,     \* entries of each strategy past the halt test and not yet applied
  day,        \* the UTC date
  paused,     \* the runner's paused flags: saved as soon as they are set
  globalHalt, \* the runner's halt, in memory
  haltDate,   \* dailyHaltDate, in memory
  entry,      \* the breaker's state: [paused, pausedTradeCount]
  entryDisk,  \* its state file
  crashes,
  tripped,    \* history: the date of the last trip
  looked,     \* history: the trades the last check of this process saw, or -1
  torn,       \* history: strategies whose change a crash cut in half
  anchorLen   \* history: length of trades when a strategy was paused or re-anchored

persistent == <<paused, entryDisk>>
history == <<tripped, looked, torn, anchorLen>>
vars == <<trades, open, passes, day, persistent, globalHalt, haltDate, entry, crashes, history>>

\* byStrategy: the trades of one strategy, in the order they closed.
OfStrategy(s, list) ==
  FoldLeft(LAMBDA own, t : IF t.s = s THEN Append(own, t) ELSE own, <<>>, list)
TradesOf(s) == OfStrategy(s, trades)
PfBelowFloor(seq) == PfBelow(seq, PfNum, PfDen)

ConsecutiveLosses(seq) ==
  FoldLeft(LAMBDA n, t : IF t.pnl <= 0 THEN n + 1 ELSE 0, 0, seq)

Window(s) == LastN(TradesOf(s), RollingWindow)

\* What a check decides of one strategy that has closed trades.
ShouldPause(s) ==
  /\ ~entry[s].paused
  /\ \/ Len(Window(s)) >= RollingWindow /\ PfBelowFloor(Window(s))
     \/ ConsecutiveLosses(TradesOf(s)) >= MaxConsecutiveLosses

\* Mutant: the trades before the pause count as fresh.
CooledOnAllTrades(s) ==
  entry[s].paused /\ Len(TradesOf(s)) >= CooldownTrades

CooledDown(s) ==
  entry[s].paused /\ Len(TradesOf(s)) - entry[s].pausedTradeCount >= CooldownTrades

ShouldResume(s) ==
  /\ CooledDown(s)
  /\ ~PfBelowFloor(Window(s))
  /\ ConsecutiveLosses(TradesOf(s)) < MaxConsecutiveLosses

Running == [paused |-> FALSE, pausedTradeCount |-> 0]

Init ==
  /\ trades = <<>>
  /\ open = [s \in Strategies |-> 0]
  /\ passes = open
  /\ day = 1
  /\ paused = [s \in Strategies |-> FALSE]
  /\ globalHalt = FALSE
  /\ haltDate = NoDate
  /\ entry = [s \in Strategies |-> Running]
  /\ entryDisk = entry
  /\ crashes = 0
  /\ tripped = NoDate /\ looked = -1 /\ torn = {}
  /\ anchorLen = [s \in Strategies |-> 0]

-----------------------------------------------------------------------------
(* The runner: entries are gated, exits are not. An entry passes the test  *)
(* of pause and halt, and is applied after the candles of the higher       *)
(* timeframe and the answer of the gate were awaited: checks run between.  *)

\* Mutant: the test forgets the halt.
BeginDespiteHalt(s) ==
  /\ ~paused[s]
  /\ open[s] + passes[s] < MaxOpen
  /\ passes' = [passes EXCEPT ![s] = @ + 1]
  /\ UNCHANGED <<trades, open, day, persistent, globalHalt, haltDate, entry, crashes, history>>

BeginEntry(s) ==
  /\ ~paused[s] /\ ~globalHalt
  /\ open[s] + passes[s] < MaxOpen
  /\ passes' = [passes EXCEPT ![s] = @ + 1]
  /\ UNCHANGED <<trades, open, day, persistent, globalHalt, haltDate, entry, crashes, history>>

Enter(s) ==
  /\ passes[s] > 0
  /\ passes' = [passes EXCEPT ![s] = @ - 1]
  /\ open' = [open EXCEPT ![s] = @ + 1]
  /\ UNCHANGED <<trades, day, persistent, globalHalt, haltDate, entry, crashes, history>>

\* No signal, no margin left, a veto of the gate, or an error.
GiveUpEntry(s) ==
  /\ passes[s] > 0
  /\ passes' = [passes EXCEPT ![s] = @ - 1]
  /\ UNCHANGED <<trades, open, day, persistent, globalHalt, haltDate, entry, crashes, history>>

\* A lot is closed, or reduced and still open.
CloseTrade(s, pnl, left) ==
  /\ open[s] > 0 /\ Len(trades) < MaxTrades
  /\ trades' = Append(trades, [s |-> s, pnl |-> pnl, day |-> day])
  /\ open' = [open EXCEPT ![s] = left]
  /\ UNCHANGED <<passes, day, persistent, globalHalt, haltDate, entry, crashes, history>>

NewDay ==
  /\ day < MaxDay
  /\ day' = day + 1
  /\ UNCHANGED <<trades, open, passes, persistent, globalHalt, haltDate, entry, crashes, history>>

-----------------------------------------------------------------------------
(* check()                                                                 *)

RealizedOn(date) == SumPnl(SelectSeq(trades, LAMBDA t : t.day = date))

Breached(mark) == RealizedOn(day) + mark <= -DailyLimit

\* Mutant: a live threshold, released as soon as the loss is clawed back.
LiveThreshold(mark) ==
  /\ globalHalt' = Breached(mark)
  /\ haltDate' = IF Breached(mark) THEN day ELSE NoDate
  /\ tripped' = IF Breached(mark) THEN day ELSE tripped

\* checkDailyLoss: a halt of an earlier date is released; one of today holds,
\* whatever the PnL is by now.
CheckDailyLoss(mark) ==
  LET trips == haltDate # day /\ Breached(mark)
  IN  /\ haltDate' = IF trips THEN day ELSE IF haltDate = day THEN day ELSE NoDate
      /\ globalHalt' = IF trips THEN TRUE
                       ELSE IF haltDate \notin {NoDate, day} THEN FALSE
                       ELSE globalHalt
      /\ tripped' = IF trips THEN day ELSE tripped

\* The breaker's entry of a strategy after its turn in the loop.
EntryAfter(s) ==
  IF ShouldPause(s) THEN [paused |-> TRUE, pausedTradeCount |-> Len(TradesOf(s))]
  ELSE IF ShouldResume(s) THEN [entry[s] EXCEPT !.paused = FALSE]
  ELSE IF CooledDown(s) THEN [entry[s] EXCEPT !.pausedTradeCount = Len(TradesOf(s))]
  ELSE entry[s]

\* Mutant: a resume does not reach the runner.
PausedForGood(s) == ShouldPause(s) \/ paused[s]

\* setPaused is called on a change only.
PausedAfter(s) ==
  IF ShouldPause(s) THEN TRUE ELSE IF ShouldResume(s) THEN FALSE ELSE paused[s]

Check(mark) ==
  /\ CheckDailyLoss(mark)
  /\ entry' = [s \in Strategies |-> EntryAfter(s)]
  /\ paused' = [s \in Strategies |-> PausedAfter(s)]
  /\ entryDisk' = entry'
  /\ looked' = Len(trades)
  /\ anchorLen' = [s \in Strategies |->
                     IF ShouldPause(s) \/ CooledDown(s) THEN Len(trades)
                     ELSE anchorLen[s]]
  /\ UNCHANGED <<trades, open, passes, day, crashes, torn>>

\* Mutant: the breaker's state file is not read.
RestartAfresh ==
  /\ crashes < MaxCrashes
  /\ crashes' = crashes + 1
  /\ passes' = [s \in Strategies |-> 0]
  /\ globalHalt' = FALSE /\ haltDate' = NoDate
  /\ entry' = [s \in Strategies |-> Running]
  /\ looked' = -1
  /\ UNCHANGED <<trades, open, day, entryDisk, tripped, anchorLen>>

Restart ==
  /\ crashes < MaxCrashes
  /\ crashes' = crashes + 1
  /\ passes' = [s \in Strategies |-> 0]
  /\ globalHalt' = FALSE /\ haltDate' = NoDate
  /\ entry' = entryDisk
  /\ looked' = -1
  /\ UNCHANGED <<trades, open, day, entryDisk, tripped, anchorLen>>

Crash == Restart /\ UNCHANGED <<paused, torn>>

\* byStrategy lists the strategies as their first trades come.
TurnOf(s) == SelectInSeq(trades, LAMBDA t : t.s = s)

\* The process dies inside check(), after the turns of some strategies.
CrashInCheck(turns) ==
  /\ Restart
  /\ \A s \in turns, r \in Strategies : TurnOf(r) < TurnOf(s) => r \in turns
  /\ paused' = [s \in Strategies |-> IF s \in turns THEN PausedAfter(s) ELSE paused[s]]
  /\ torn' = torn \union {s \in turns : PausedAfter(s) # paused[s]}

Next ==
  \/ \E s \in Strategies : BeginEntry(s) \/ Enter(s) \/ GiveUpEntry(s)
  \/ \E s \in Strategies, pnl \in Pnls :
       \E left \in {open[s] - 1, open[s]} : CloseTrade(s, pnl, left)
  \/ NewDay
  \/ \E mark \in Marks : Check(mark)
  \/ Crash
  \/ \E turns \in SUBSET Strategies : CrashInCheck(turns)

Spec == Init /\ [][Next]_vars

-----------------------------------------------------------------------------
(* Properties.                                                             *)

Dates == 1 .. MaxDay

TypeOK ==
  /\ trades \in Seq([s : Strategies, pnl : Pnls, day : Dates])
  /\ open \in [Strategies -> Nat] /\ passes \in [Strategies -> Nat]
  /\ \A s \in Strategies : open[s] + passes[s] <= MaxOpen
  /\ day \in Dates
  /\ paused \in [Strategies -> BOOLEAN]
  /\ globalHalt \in BOOLEAN
  /\ haltDate \in Dates \union {NoDate}
  /\ entry \in [Strategies -> [paused : BOOLEAN, pausedTradeCount : Nat]]
  /\ entryDisk = entry
  /\ crashes \in 0 .. MaxCrashes
  /\ tripped \in Dates \union {NoDate}
  /\ looked \in Int
  /\ torn \subseteq Strategies
  /\ anchorLen \in [Strategies -> Nat]

\* The breaker's own state and the runner's paused flags are two files, and say
\* the same of every strategy, restarts included; only a crash inside check()
\* sets them apart.
PauseFlagsAgree ==
  \A s \in Strategies \ torn : entry[s].paused <=> paused[s]

\* Once the daily loss has tripped, the only entries of the rest of the UTC day are
\* those that had passed the test before the trip, one each, even if later exits
\* claw the loss back (comment of dailyHaltDate); the process staying up.
NoEntryOnHaltedDay ==
  [][tripped = day /\ crashes = 0 =>
       \A s \in Strategies : open'[s] + passes'[s] <= open[s] + passes[s]]_vars

\* The trades of a strategy that closed since it was paused or last re-checked.
ClosedSince(s) ==
  Len(TradesOf(s)) - Len(OfStrategy(s, SubSeq(trades, 1, anchorLen[s])))

\* A paused strategy is not resumed before CooldownTrades trades of its own closed
\* since it was paused or last re-checked, however often the process restarts and
\* whatever the others trade.
ResumesAfterCooldown ==
  [][\A s \in Strategies :
       entry[s].paused /\ ~entry'[s].paused => ClosedSince(s) >= CooldownTrades]_vars

\* "A restart re-derives the halt": a check after a restart on the day of the
\* trip halts again.
HaltRederived == looked >= 0 /\ tripped = day => globalHalt

\* "Fresh closed trades (pool-wide) before re-checking a paused strategy": a
\* check that sees CooldownTrades new trades of the pool re-checks, so that a
\* strategy that is above the bar again does not stay paused.
CooldownIsPoolWide ==
  \A s \in Strategies :
    /\ entry[s].paused /\ looked = Len(trades)
    /\ Len(trades) - anchorLen[s] >= CooldownTrades
    => PfBelowFloor(Window(s)) \/ ConsecutiveLosses(TradesOf(s)) >= MaxConsecutiveLosses

=============================================================================
