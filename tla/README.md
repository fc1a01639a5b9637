# Verification of the trading agent

TLA+ models, model-checking configurations and machine-checked proofs about the
trading agent in this repository. Paths below are relative to `src/` of the
repository, with these short names:

| Short | File |
|---|---|
| `live-runner` | `paper-trading/live-runner.ts` |
| `symbol-position` | `paper-trading/symbol-position.ts` |
| `circuit-breaker` | `paper-trading/circuit-breaker.ts` |
| `pnl-adaptor` | `paper-trading/pnl-adaptor.ts` |
| `research-pipeline` | `paper-trading/research-pipeline.ts` |
| `orchestrator`, `checkpoint` | `orchestrator/orchestrator.ts`, `runtime/checkpoint.ts` |

`PROJECT.json` lists the components, the runs, the lines every definition
translates, the disagreements found between code and documents, the hazards and
the theorems.

## 1. The system

The repository is a terminal coding and trading agent. Its core is a daemon
(`scripts/autonomous-trading-daemon.ts`) that paper-trades a pool of strategies
unattended. It is one Node process: one event loop, no threads, and **all
concurrency is at the `await`s**. The daemon starts these actors:

* the **runner's poll** (`tick`), which starts again after each pass;
* one **kline stream** callback for each (symbol, timeframe) group (`attachStream`);
* the **circuit breaker**, every five minutes;
* the **PnL adaptor**, every hour, and the **research pipeline**, every week;
* read-only reporters (drift monitor, notifier, readiness, evaluator, analyst).

An uncaught exception exits the process and a watchdog starts it again, so a
crash and restart is an ordinary event. Beside the daemon stand the coding
agent with its terminal, tools, providers and learning; two older trading
agents with brokerages of their own; and the backtests and indicators that all
of them use.

### 1.1 Components

| Component | State it keeps | Operations | Behaves badly when |
|---|---|---|---|
| Netting (`symbol-position`) | one position of a symbol: quantity, average entry, margin, risk plan, FIFO lots, contributors | `applyIntent` (open, add, reduce, flip), `closePosition` | rounding and ordering set lots, fills and totals apart |
| Trailing stop (`trailing`) | phase, extreme, trail distance | `initTrailingState`, `updateTrailingStop` | a stop loosens, or a phase goes back |
| Runner (`live-runner`) | positions, `strategyStats` (last evaluated candle, paused), capital, the pool, global halt; state file and journal | `tick`, the kline callback, `processGroup`, `setPaused`, `setGlobalHalt`, `reloadPool`, `loadState` | two passes interleave at the fetch, the funding rates, the higher-timeframe candles or the AI gate; a crash falls between journal and state file |
| Circuit breaker | which strategies it paused and at what trade count; the date of a daily halt (memory only) | `check`, `checkDailyLoss`, `pause`, `resume` | a crash falls between its file and the runner's; a halt is forgotten |
| PnL adaptor, research pipeline | `strategies.json`; the adaptor's `lastAdjustedTradeCount` | `check` (resize, prune), `runCycle` (promote) | both read, await Telegram and write back the same file |
| Sizing, AI gate, candle fetch | capital and record per symbol and strategy | sizing, gate verdicts, pages of candles | answers are late, stale or fail; a page is lost or doubled |
| Stream manager (`exchange/binance-stream`) | sockets, backoff timers, `closedIntentionally`, alerts, waiting calls | subscribe, unsubscribe, retry, alert, `getLiveTick` | a reconnect timer outlives an unsubscribe |
| Market state (`market-state/`) | candle stores | watch, backfill, candle events | a bar closes between backfill and subscription |
| Orchestrator (`orchestrator`, `checkpoint`) | plan steps with status and retries, executed order, re-plan count; checkpoint file | `run`: dependency rounds, retry, re-plan, rollback; `resumePlannedTask` | a resumed run has forgotten what it executed; a crash cuts a rollback off |
| Loop of the coding agent (`cli/agent.ts`) | conversation, episode, session file | `runUserMessage`, `ask`, `resetContext` | runs overlap on one conversation; a call stays unanswered |
| Shell tool (`tools/shell.ts`) | clients and containers | run, time out, escalate, kill | the client dies and the container lives on |
| Terminal (`tui/`, `runtime/store.ts`) | the store, throttled renders, model switches, the prompt | reduce, render, keys, pastes | events late or doubled; two runs at once |
| Equity agent, futures agent, chat's paper positions | cash, positions, processed idempotency keys, machine state | place, close, cancel; transitions | two ticks at once; cached rejections; flips |
| Trackers (shadow signals, funding and pairs arbitrage) | ledgers in files | open, mark, close | await between read and write |
| Reporters (notifier, drift monitor, readiness, evaluator, analyst) | their place in the journal | read the journal, tell once | the place is saved before or after the message |
| Providers, router, catalog | health, key in use, catalog | complete, fail over, rotate | half an answer was shown when the stream fails |
| Learning, memory, skills | lessons, skill files, usage | record, reflect, promote, withdraw | work in the background meets a restart |
| Backtests, indicators, concepts | none | formulas over candles | a bar is judged by bars after it; figures do not add up |

### 1.2 Interactions

```
 kline stream ──callback──┐                      ┌── setPaused, setGlobalHalt ── circuit breaker
                          ▼                      ▼                                  ▲ replays
 poll (tick) ───────▶ processGroup ──▶ symbol position ──▶ journal (append) ────────┤
                       │  awaits: candles, OI,       │                              ▼
                       │  funding, HTF, AI gate      └──▶ state file          PnL adaptor ──┐
                       ▲                                                                    ▼
                       └──────────── reloadPool ◀────── strategies.json ◀── read/await/write
                                                            ▲
                                                  research pipeline

 terminal ──message──▶ agent loop ──▶ providers ──▶ model
    ▲                     │  └──▶ tools (shell containers, trackers, chat's paper positions, backtests)
    └──events── store ◀───┘
                          └──▶ orchestrator (plans: concurrent agent loops) ──▶ checkpoint file
```

The **journal is the source of truth** for closed trades
(`docs/E2E-SYSTEM-REFERENCE.md:142`): breaker and adaptor replay it, the runner
only appends. The state file is what a restart resumes from. The two are
written at different moments, and that gap, the gap between the runner's file
and the breaker's, and the awaits of `processGroup` and of the two pool writers
are where the hard behaviours are.

### 1.3 What makes each component correct

* **Netting**: a position is the signed sum of what was asked; the lots are the
  position, oldest first; the fills that are journalled explain every change,
  to the last unit of PnL and margin.
* **Exits**: a stop never loosens while its plan governs, it stays on the near
  side of liquidation, and no position outlives its holding limit.
* **Runner**: one entry per strategy and candle; the margin passes its cap by no
  more than the multipliers that come after the clip; the journal replays to the position; a candle is not marked evaluated before its
  exits were checked; the poll brings every strategy up to date; a pruned
  strategy's position still exits.
* **Breaker**: its file and the runner's flags agree; no entry begins on a halted
  day, though one under way still comes in; a resume waits for its cooldown.
* **Orchestrator**: steps run on completed dependencies; completed work is not
  done again; a failed run undoes what it did, backwards; it ends.
* **Pool**: prunes are final; the runner trades what the file says; no signal
  is in the file twice; sizes move a bounded step per trade; losers leave.
* **Ledgers**: cash, margin and results are those of the fills; a result never
  changes; a position ends.
* **Readers of the journal**: nothing is told twice, nothing is overlooked, but
  where calls overlap or a crash falls between two writes (2.9).
* **Agent and terminal**: every call is answered, every run ends, a killed
  container goes, the screen shows the latest, what is typed is what is sent.
* **Backtests**: the scan finds what a trader who sees one candle at a time
  would have done; a signal of a bar does not depend on later bars, but for three
  arrays that look ahead, as far as they do (2.7).

## 2. Modules

| Module | Models | Kind |
|---|---|---|
| `SymbolPosition` | `symbol-position`: every operation, from a position to `[position, fills]`; `trailing`: `updateTrailingStop` and what it calls | operators |
| `NetPosition` | the promise of netting: one signed quantity | abstract state machine |
| `PositionLifecycle` | intents and exits on one position, one caller at a time | state machine; implements `NetPosition` |
| `LiveRunner` | `live-runner`: all passes, files, interventions, crashes | state machine over `SymbolPosition` |
| `ProfitFactor` | `rollingPf` and comparisons with it | operators |
| `CircuitBreaker` | `circuit-breaker` with the runner's flags and the journal's trades | state machine |
| `StrategyPool` | `pnl-adaptor`, `research-pipeline`, `reloadPool` over `strategies.json` | state machine |
| `Orchestrator` | `orchestrator`, `checkpoint`, `resumePlannedTask` of `cli/agent.ts` | state machine |
| `StreamManager`, `MarketState`, `History` | sockets and alerts; candle stores; paged history, indicators and entry conditions | state machines |
| `Accounts` | capital, sizing and the AI gate of the runner | state machine over `SymbolPosition` |
| `Signals`, `Backtest`, `Sweeps`, `Portfolio`, `Fusion` | concepts engine and its tools; single-position backtests; metrics, walk-forward, Monte Carlo, sweeps, the rule engine and the research cycle; portfolio; fused strategies and pairs | state machines that feed pure functions |
| `TradingAgent`, `AutonomousAgent`, `PaperTrading`, `Trackers` | equity agent; futures agent; chat's positions; shadow, funding and pairs ledgers | state machines (`Bracket`: the exit they share) |
| `Notifiers`, `DriftMonitor`, `Reviewers` | readers of the journal | state machines |
| `AgentLoop`, `ShellTool`, `AgentShell`, `RuntimeStore` | the coding agent, its shell, the terminal around it, the store | state machines |
| `ProviderPool`, `Learning`, `Prompt` | requests and fail-over; lessons and skills; the prompt line | state machines |
| `MC*` | values of the constants for TLC, and the bundles of section 3 | |
| `FoldTheorems`, `*_proofs` | theorems and their proofs | |

Operators and actions carry the names of the code wherever they are a function
there. Definitions whose comment begins with "Mutant:" are deliberate bugs,
used by no specification: replacing the definition that follows with one must
break the property that `PROJECT.json` pairs it with, which shows that
the property depends on that code. A property that is a conjunction of named
parts (`PositionIsSound`, `RunnerIsSafe`, `PoolIsSound`, `PlanIsSound`,
`RollbackIsComplete`, ...) has the comment of each part beside it.

### 2.1 `SymbolPosition`, `PositionLifecycle`

`pos` is `state.symbolPositions[symbol]`, a record with the fields of
`SymbolPosition`; `fills` are the fills the last operation returned.
`ApplyIntent` picks open, add, reduce or flip as the code does; `ReduceBy`
attributes the reduction with `AllocateAcrossLots`, a fold over the lots that
splits PnL, fee and margin by proportion and gives the last slice the
remainder, as the loop does. `BarClose` is the exit part of `processGroup`: trail first, then
liquidation, stop, target and timeout in that order, with an adjustment of the
exit price for slippage and funding. `candles` is the length of the fixed
lookback window and `heldBars` a history variable that counts what the code
means to count.

Prices, quantities, fees and margin are integers and divisions round, so sums
and remainders are exact questions; the code's floats are not modelled. The
code's tolerance of 1e-9 for a quantity of zero is 0. `notional` (a product of
two fields), the reason and the entry time of a fill, and display fields are
left out. Flipping with exactly the held quantity, which the code allows, is in
the model.

### 2.2 `LiveRunner`

One symbol, with groups by timeframe. The event loop is `running`: the pass
whose code is on the stack. An action runs from one await to the next or less,
and only the pass in `running`, or a waiting pass whose answer arrives, can
step; so interleavings happen at the awaits and nowhere else.

| Action | Code |
|---|---|
| `PollStart`, `StreamFire` | `tick` begins; the kline callback fires on a closed kline |
| `FetchDone`, `FetchFail` | `fetchCandlesRange` answers, with rows as of when it was asked; or an error |
| `ExitStep`, `FundingDone` | exit management; the close after funding rates are awaited, of the position *as read before* |
| `EvalStep`, `HtfDone`, `GateDone` | one strategy's turn: `isNew`, paused and halted, evaluation, sizing, the gate's answer, the entry, `lastEvalOpenTime` |
| `EvalEnd` | the group ends; the last one saves the state |
| `BarCloses` | the exchange |
| `SetPaused`, `SetGlobalHalt`, `ReloadPool` | calls of the breaker and of the pool writers |
| `Crash` | death and restart from the state file and `strategies.json` |

A candle is reduced to whether it crosses an exit level of whatever position is
open. `journal` is what the file replays to: a signed quantity and the entries
of each strategy on each bar. A fetch that straddles a close may deliver a last
row that is not final: such bars are recorded in `misread`, and the invariant
about evaluated bars excuses them, because the code does not guard against it.

`MayOverlap = FALSE` restricts exploration to passes that do not run while
another is suspended between reading shared state and using it (they may still
wait for candles together, and interventions and crashes may fall anywhere).
The code does **not** enforce this; the run `double_entry` shows what happens
without it, and `rules_mode`, where nothing is awaited after the candles, needs
no such restriction.

What the code does to a quantity *after* it was clipped to the headroom is in the
model: the strategy's `sizeMultiplier` (755) from `Multipliers` and the gate's (786)
from `GateSizes`, in tenths, rounded but never to nothing. So the cap itself is not the bound of the
margin, and `ExposureIsBounded` states the one that holds. Capital, sizing over several
symbols and the correlation guard are `Accounts`. Left out: the mutation of the trailing state in place while a close awaits;
exceptions in a signal evaluator; torn writes of the state file. The OI history
await directly follows the candle fetch and is folded into it; a callback of
one stream does not overlap with another callback of the same stream.

### 2.3 `ProfitFactor`, `CircuitBreaker`

`check` has no await, so `Check` is one action; the process can still die
inside it, and `CrashInCheck` is that: the flags of a prefix of the strategies,
in the order of `byStrategy`, were saved by the runner and the breaker's file
was not. `trades` is what the journal replays to, `paused` the runner's flags,
`entry` and `entryDisk` the breaker's state and file, `haltDate` and
`globalHalt` live in memory. The profit factor is a fraction, compared by cross
multiplication, infinite without losses as in `rollingPf`.
`BeginEntry` is the test of halt and pause (711), `Enter` the entry (790), and
`GiveUpEntry` an entry that comes to nothing; between the first and the others the
higher-timeframe candles and the gate are awaited, and anything may happen, a halt or a
pause included. `passes` counts the entries under way. `anchorLen` and `tripped` are
history.

### 2.4 `StrategyPool`

`file` is `strategies.json`, `active` the runner's strategies with their
sizes. `adaptor` and `research` hold each writer's copy of the file and its place in its loop;
`running` is the writer on the stack. `AdaptorRead`, `AdaptorDecide` (one
iteration), `AdaptorNotified` (Telegram answered), `AdaptorSave` (the state
file, saved first), `AdaptorWrite` (the pool and `reloadPool`) are `check`;
`ResearchRead`, `Promote`, `ResearchNotified` and `ResearchWrite` are `runCycle`
after its sweep, whose result is any set of signals: the sweep returns at most one
candidate per symbol, timeframe and signal. A crash between any two steps
restarts from the two files.

With `MayOverlap = FALSE` a writer does not read while the other awaits
Telegram; the code does not enforce that either, and `pool_overlap` is what
happens without it. In `dryRun` (the default) the adaptor writes nothing; the
runs look at the live mode. What a human edits in the file is left out.
One remark without a run: the comment at `pnl-adaptor.ts:142-143` says the lists
returned are empty in dry run, the code fills them (173, 183).

### 2.5 `Orchestrator`

`pc` is where `run` awaits: a `round` of concurrent steps, the planner
(`replan`) or a rollback command. `StartRound` marks everything that is ready
and saves; `StepSucceeds`, `StepRetries` and `StepFails` are what `runStep` does
when one of them settles, in any order, and the last one decides what comes next as
the lines after `Promise.all` do. The stages between two awaits (analyzing to
implementing, testing to completed) are one status, because every stage that is not
trusted on resumption becomes "pending" alike. `Cascade` is the recursion of
`cascadeFailure` as the least set closed under it. `Crash` may fall at every
await, `Resume` builds a new orchestrator from the file: `executed` and
`replans` start over, `retryCount` does not.

The planner is an interface; the model lets it throw or answer with any steps that
have not completed, fresh and pending. A planner that sent back a completed
step, or one with its retries kept, is not modelled, and the dependencies of an
id are the same in every revision. Steps settle by success, a retryable or a blocking error; the
runner of the agent turns exceptions into the second. Two things the model shows and no
document speaks of: a failed step that the planner replaces under a new id
still counts as failed in the end, so everything is rolled back after a
re-plan that worked; and a run given up for too many re-plans is not rolled back.

`attempts`, `finished`, `effects` and `torn` are history. `torn` holds the steps
undone by a rollback that a crash cut off: the checkpoint still calls them
completed and a resumed run builds on them, which `RunsOnItsDependencies`
excuses explicitly.

### 2.6 Around the runner

| Module | State and actions | Code |
|---|---|---|
| `StreamManager` | `conn` (slots for sockets), `retries` (timers), `closedIntentionally`, `latest`, `alerts`, `call`, `adopted` (history: subscriptions that took over the socket of a late timer); `Subscribe`, `Unsubscribe`, `Opens`, `Fails`, `Closes`, `Retry`, `TickerMessage`, `AddAlert`, `StartCall`, `AnswerTick` | `exchange/binance-stream.ts`, `tools/binance-stream-tools.ts` |
| `MarketState` | `stores`, `listeners`, `watch` of two timeframes of one symbol; `Watch`, `Serve`, `FetchFails`, `Received`, `BarCloses`, `Replay`. `Deliver` hands a candle to every listener of the symbol, as the code does, so stores mix timeframes (`mixed`) | `market-state/`, `exchange/binance/client.ts` |
| `History` | a paged fetch (`Page`, `NetworkFails`, `ApiError`) while the exchange opens bars; then the indicators and both condition evaluators as functions of the chart | `tools/backtest-fetch.ts`, `tools/indicators.ts`, `tools/backtest-signals.ts`, `backtest/conditions.ts` |
| `Accounts` | capital per symbol, record per strategy, an entry under review; `Fire`, `Resize`, `GateAnswers`, `Exit`; the volatility a symbol is scaled by and the figures of the dashboard are functions of it | sizing and books of `live-runner`, `ai-gate.ts` |

Left out of `StreamManager`: the doubling of the delay (a timer fires at any
time), the liquidation buffer, `closeAll`.

### 2.7 Backtests and signals

`Backtest` holds both the scan of the engine (a function of all candles) and a
trader that sees one candle at a time; `NoLookAhead` says that they agree in every
field of a trade at every length of the chart, but for `exitTime` in the engines that
stamp it from the last candle they were given (`Stamp`, `engine.ts:67-68`), where it
says exactly that. `Signals` lets the chart grow and keeps what was
`said` of each bar. All of it is compared with what is said later; of the three arrays
that do look ahead the property says when: the higher timeframe for an event whose bar
had opened, the sweep marks within the lookaround, the volume profile for a heavy bar to
come. What the tools of `concepts/tools.ts` trade and describe follows from them. `Sweeps` compares metrics, walk-forward windows, Monte
Carlo percentiles, parameter sweeps, the trades of a rule engine and what the
research cycle promotes with their definitions; `Portfolio`
replays trades against one capital (`Replay`, `CloseRest`), by the `exitTime` the
engine's trades carry, the last candle's, with `leftAt` the time the exit really had:
`RealisedInOrder` says what order that leaves; `Fusion` trades
several strategies and a pair bar by bar (`Bar`, `CloseRest`).

### 2.8 Ledgers

`TradingAgent` is the equity agent: `Begin`, `FetchData`, `Evaluate`,
`RiskCheck`, `Execute`, `Executed`, `Reconcile`, `Halt` are the states of
`fsm/agentMachine.ts` with the calls made in each. `AutonomousAgent` is the
futures agent with two ticks under way at once (`RunTick`, `Size`, `Placed`)
and other clients of its brokerage (`ClientOrder`, `CancelOrder`). The balance is
computed when it is asked for and the order sized when the tick resumes, so `balance`
is what each tick was told, and `undercut` (history) the orders sized on more than was
left.
`PaperTrading` awaits a live tick between `Open` and `Opened`. `Trackers` is
one machine for the three ledgers (`kind`): `StartTick`, the awaited `Quote`,
`Rates` and `Spot`, and `Crash`, which loses what the tick has not saved.

### 2.9 Readers of the journal

`Notifiers`, `DriftMonitor` and `Reviewers` grow a journal while a reader
awaits Telegram or a model, and crash between its steps. They differ in
whether the place in the journal is saved before or after the message.
`NewlyReady` is read when a check begins and `TakenOn` written as it goes on, so checks
that overlap find the same strategy; `excused` (history) has the strategies of such
overlaps and of checks a crash cut off. The analyst's state, log and digest are three
writes, and `CrashInSummary` falls between any two of them.
`Reviewers` also keeps the analyst's log of learnings and its digest, the file
whose entries end in "-->": a summary that contains those characters cuts the
ones below it off, which the invariant on the digest says and excuses.

### 2.10 Coding agent and terminal

| Module | State and actions | Code |
|---|---|---|
| `AgentLoop` | transcript, detector, episode, session shared by runs that may overlap; `Start`, `BeginTurn`, `Reply`, `ChatFails`, `ToolReturns`, `Crash`, and in a run too `ResetContext`, `SetModel`, `ResumeSession`; `overlapped`, `replaced`, `lastEnd` are history | `cli/agent.ts`, `cli/agent-conversation.ts`, `orchestrator/loop-detector.ts`, `learning/episode-recorder.ts`, `runtime/session.ts` |
| `ShellTool` | docker's clients, containers, timers; `Call`, `Probed`, `Starts`, `Ends`, `Closes`, `Overflows`, `TimesOut`, `Escalates`, in which the kill, the inspect and the rm may each fail (`misled`, history, has the calls where one behind the kill did) | `tools/shell.ts` |
| `AgentShell` | runs, throttled renders (`Flush`, `QuietTime`), model switches, the commands and what they say or change | `tui/` |
| `RuntimeStore` | the reducer, one action per event, in any order and doubled | `runtime/store.ts`, `runtime/task-machine.ts` |
| `ProviderPool` | `Ask`, `Route`, `Replies`, `Fails`, `RateLimited`, `Refreshed` | `provider/` |
| `Learning` | `StartTurn`, `EndTurn`, `Record`, `Reflect`, `NothingFound`, `ReflectFails`, `CrashInReflect`, `WeekPasses`, `DeleteEntry`, `Restart`; the skill file and the lesson store are written one after the other, and `torn` (history) has what a stop between them left apart | `learning/`, `skills/`, `memory/` |
| `Prompt` | the line, pastes, history and its two files, overlay; `Type`, `Accept`, `Arrow`, pastes, `KeyIsCommand`, `KeyOfOverlay`; the piece that brings a paste's end marker is typed too (`PasteEnd`; `echo`, history, has what came in twice) | `tui/` |

## 3. Runs

TLC explores every run completely. The parts that share nothing with each other
are explored **side by side, not multiplied**: an MC module EXTENDS its main
component and INSTANCEs the others, and each behaviour runs one of them,
chosen by `component` in the initial state, while the others stay as they
began. Each part is modelled against any behaviour of what surrounds it
(answers, prices, timing and failures are inputs), so nothing is lost by it. A
property of a part is conditioned on the behaviours that run it. The constant
`Components` lets the violation runs explore the runner alone.

| Bundle | Main component | Beside it |
|---|---|---|
| `MCReplay` | `PositionLifecycle` | `Sweeps` with `Backtest`, `Signals`, `Portfolio` |
| `MCLedgers` | `LiveRunner` with gate and funding | `Accounts`, `TradingAgent`, `Fusion` |
| `MCMarket` | `LiveRunner` in rules mode | `StreamManager`, `MarketState`, `History` |
| `MCSafety` | `CircuitBreaker` | `Notifiers`, `DriftMonitor`, `Reviewers`, `Learning`, `ProviderPool`, `Prompt` |
| `MCResearch` | `StrategyPool` | `PaperTrading`, `AutonomousAgent`, `Trackers` |
| `MCAgent` | `Orchestrator` | `AgentLoop`, `ShellTool`, `AgentShell`, `RuntimeStore` |

Deadlock is checked in all passing runs but `orchestrator`: the daemon's actors
always have a step (a poll, a check, a quiet bar) left, and the bundles say
explicitly which of the other parts may stop. A plan and a message to the agent
end; that they do is `EveryRunEnds`.

| Run | Question | Bounds and why they are enough |
|---|---|---|
| `position_lifecycle` | Does the shared position stay consistent through any order of intents and exits? Do the backtests see only the past? | 3 strategies (two long, one short; one of each direction trails), prices 4..6, quantities up to 3, leverage 3 and fee 1/5 so that both round; every pair of operations and every exit reason occurs, and three lots of mixed owners are the least that tell FIFO from other orders. Charts of 4 (backtest) and 3 (signals) bars hold an entry, an exit on a later bar and a re-entry |
| `live_runner` | Is the runner safe with all awaits, two interventions and a crash? Do the books balance? | 2 opposed strategies in one group with a stream, 2 bars, AI gate, funding and HTF awaits, quantities 10 and 5 under a cap of 10, times 12 and then 15 tenths, so that a flip, a reduction, a full cap and one passed by the multipliers happen. Books: 3 strategies on 2 symbols, 3 steps; equity agent: 2 symbols, 2 rules, 2 rounds; fusion: 2 symbols, 4 candles |
| `rules_mode` | Is it safe with overlap when nothing is awaited after the candles, and does the poll catch up? Is the feed complete? | 2 groups of one symbol, one of them streamed, one intervention, no gate. Streams: 5 socket slots, a failure and an unsubscribe, so that a retry meets a second subscription and a late timer one that comes back; stores of two timeframes, one twice as long as the other, and a candle sent again; history of several pages |
| `breaker` | Do two files and two halves of a pause agree across restarts? Is anything told twice, forgotten or typed wrongly? | 2 strategies, 4 trades, window, streak and cooldown of 2, 2 days, 1 crash: a pause, a failed re-check, a resume and a second pause fit, with an entry of each strategy under way through any of them. Readers (`Notes*`, `Drift*`, `Reviews*` of `MCSafety.cfg`): 3 trades or lines, 3 comparisons, 2 overlapping calls, 1 crash, so that a second call finds the first one's message unsent and a restart falls between message and save, or between any two of the analyst's writes. 2 requests, one at a time, and 2 keys, so that the second begins at either key |
| `strategy_pool` | Is the pool sound when writers take turns? Do ledgers balance and positions end? | 3 signals, cap 2, 2 trades each, 2 cycles, 1 crash: enough to fill the pool, prune, meet the pruned signal again and lose an adjustment. Trackers: 2 candidates, 4 instants; futures agent: 2 ticks of which one may begin while the other awaits, an order of another client between them |
| `orchestrator` | Is a plan executed once, in order, undone backwards, and brought to an end? Do messages and commands end? | 5 steps, two of them chained and two that only the planner adds, one of which is out of order without the other; 1 retry, 1 re-plan, 1 resumption: a retry beside a failure, a cascade, a re-plan, one too many, a rollback and a crash in each all fit. Loop: 2 runs, beside each other or not, 2 tool turns, and a crash or another conversation in one of them; shell: 2 commands; store: any 3 events |

Invariants and properties, with the code they are about, are at the end of each
module, and those of a bundle's parts are named in the MC module. Those that
took most thought:

* `FillsAreSound` (`FillsAccountForChange`, `FifoAttribution`): the fills replay
  to the change of quantity and of margin, the slices of a close add up to its
  one PnL though each is rounded, and the lots of a reduction are the oldest.
* `NettingIsASum`: `PositionLifecycle` implements `NetPosition` under `Net(pos)`.
* `EvaluatedBarsAreSafe`: in a loop that serves several strategies and may flip
  who governs, no candle is marked evaluated for the governing strategy with
  its exits unchecked.
* `JournalAccounts`: the journal replays to the position, and (write-ahead) each
  lot in memory or in the state file has its entry in the journal, crashes included.
* `ResumesAfterCooldown`: counted in trades of the strategy's own, as the code does,
  from the last pause or failed re-check, over restarts and the trades of others.
* `NoEntryOnHaltedDay`: what was under way when the halt came is counted, and from then
  on can only become fewer.
* `PoolIsSound` (`OneStepPerTrade`): over any number of checks and restarts a
  size moves at most a step for each trade, because what was used is saved
  before the file.
* `RollbackIsComplete` (`FailedRunIsUndone`, `DependentsUndoneFirst`): what
  concurrent steps did over several rounds and re-plans is all undone,
  dependents before what they stand on.
* `FeedIsComplete`: retries, closes and second subscriptions in any order leave no
  kline stream without a socket or with two, and of the others only one that took over
  the socket of a late timer (`adopted`); a store has the bars of its own timeframe in
  order, whatever is pushed between them; a paged history has no gap though
  the exchange goes on.
* `LoopIsAccountedFor`: of runs beside each other no two share an episode, and what is
  lost or mixed is of runs that overlapped or whose conversation was replaced.
* `LearningIsSound`: a reflection that fails, and a stop between the skill file and the
  lesson store, leave apart only the skill that was being written (`torn`).
* `WhatIsTypedIsKept`: what is sent is what was typed and pasted, label by label, but for
  the last piece of a paste, which comes in twice (`echo`).
* `BacktestsAreRight`: a trade found with all candles is the one a trader would have made
  with those until then, field by field, but for the stamp of the exit.

Runs that end in a violation show a disagreement of code and document; each
checks what the document says:

| Run | What the document says | What the code does |
|---|---|---|
| `double_entry` | a candle is looked at for an entry only once (`live-runner.ts:705`) | poll and stream both pass `isNew` while the other awaits the gate: two entries |
| `orphaned_position` | a pruned strategy's position still exits (`live-runner.ts:415-419`) | only a group that holds the governing strategy manages it: nobody does |
| `max_hold` | exits match the backtest engine (`live-runner.ts:497-499`), which leaves after `maxHoldBars` | the count is a difference of indices into a window that slides: it stops growing |
| `halt_restart` | a restart re-derives the daily halt (`circuit-breaker.ts:82-86`) | it is recomputed from the loss of that moment, which may be smaller |
| `pool_cooldown` | the cooldown counts pool-wide trades (`circuit-breaker.ts:27`) | it counts the paused strategy's own, which it cannot make |
| `pool_overlap` | a prune is permanent (`pnl-adaptor.ts:16-18`) | the pipeline's older copy of the file brings the strategy back |

### 3.1 Fairness

Only temporal properties need any; each module states its own next to them.

* *Code on the stack runs on* (weak fairness of the running pass's steps): the
  event loop does not preempt.
* *The poll starts again* (weak): its loop has a `catch` around each pass and
  sleeps between them. Streams get **no** fairness: a stream may never fire.
* *Awaited answers come* (strong, per pass): the AI gate times out after 20 seconds and
  counts as a refusal, a request ends with an answer or an error of the
  connection. Strong because an answer waits
  for the loop to be free, which it is again and again.
* *The candles of a group are not refused for ever* (strong, per group of the
  poll): without it, an exchange that is down for good evaluates nothing.
* *Timers fire and sockets open or fail* (weak): streams' retries, the waiting
  calls' time-outs, the escalation of a killed container, the flush of a render.
* *Docker answers* (weak): `docker info`, `kill`, `inspect` and `rm` come back, with an
  error or without. No timer in the code stands behind that (`shell.ts:71-75`,
  `189-195`): a docker daemon that hangs would hang the probe or the escalation.
* *The adaptor runs every hour* (weak), and a Telegram message answers or times
  out after five seconds (weak): `sendTelegram` never throws. Promotion and research cycles need not happen.
* *A request ends* (weak): pages of history, the brokerage of the futures
  agent, the model's replies and the tools of a turn, the trackers' quotes. For
  the trackers also strong fairness that a tick is answered and not failed for
  ever, because a failed request aborts the whole tick.
* *A running plan goes on* (weak): each step, planner call and rollback command
  is a bounded number of turns of the agent and settles. A process that died or
  a run that was given up need not be resumed.

## 4. Proofs

TLAPS checks the theorems below for every value of the constants that satisfies
the named assumptions of the modules.

| Theorem | Statement | Argument |
|---|---|---|
| `AllocationAddsUp` (`SymbolPosition_proofs`) | the slices of a reduction by FIFO add up to its quantity, PnL, fee and margin, and the lots that are left to the rest | induction over the lots, along the fold |
| `TrailNeverLoosens`, `PhaseNeverRegresses` | one update of the trail | by cases on the phase, from the clamp and the comparison that ends the update |
| `StopClearsLiquidationAlways` | `Spec => []StopClearsLiquidation` | invariant `IInv` |
| `PlanOnlyTightensAlways` | `Spec => PlanOnlyTightens` | each action under `IInv` |
| `NettingImplementsSum` | `Spec => NettingIsASum` | refinement: each action maps to `Buy`, `Sell`, `Exit` or a stutter |
| `PositionIsSoundAlways` | `Spec => []PositionIsSound` | invariant `SoundInv` |
| `FillsExplainAlways` | `Spec => FillsAccountForChange` | each action under `SoundInv`, from `AllocationAddsUp` |
| `OldestUnitsGoFirst`, `FillsAreAlwaysSound` | `Spec => FifoAttribution`, `Spec => FillsAreSound` | each action under `SoundInv`, from `AllocationSplits` |
| `EntersOncePerCandle`, `MarginIsBounded`, `NoExitPassedOver`, `RunnerIsAlwaysSafe`, `JournalAlwaysAccounts` (`LiveRunner_proofs`) | `NothingInterleaves => (Spec => []...)` for `EntryOncePerCandle`, `ExposureIsBounded`, `EvaluatedBarsAreSafe`, `RunnerIsSafe`, `JournalAccounts` | invariant `RunnerInv` |
| `PauseFlagsAlwaysAgree` (`CircuitBreaker_proofs`) | `Spec => []PauseFlagsAgree` | invariant `FlagsInv` |
| `HaltedDayHasNoEntry` | `Spec => NoEntryOnHaltedDay` | invariant `HaltInv` |
| `BreakerIsTyped`, `PauseOutlastsCooldown` | `Spec => []TypeOK`, `Spec => ResumesAfterCooldown` | invariant `StateInv` |
| `ReviewsAreAlwaysSound` | `BundleSpec => []ReviewsAreSound` | invariant `ReviewsInv` |
| `EachIsToldOnce` | `BundleSpec => []ToldOnce` | invariants `NotesInv`, `DriftInv` |
| `RequestsAreAlwaysCarriedThrough` | `BundleSpec => RequestsAreCarriedThrough` | invariant `ProviderInv` |
| `PoolAlwaysWithinCap` (`Research_proofs`) | `Spec => []PoolWithinCap` | invariant `CapInv` |
| `PoolIsAlwaysSound`, `PrunesArePermanent` | `WritersTakeTurns => (Spec => []PoolIsSound)`, `... PruneIsPermanent` | invariant `TurnInv` |
| `ResultsAreAlwaysFinal` | `BundleSpec => ResultsAreFinal` | invariant `PaperInv` |
| `BooksAlwaysBalance` | `MarginCoversFees => (BundleSpec => []BooksBalance)` | invariant `AgentInv` |
| `TrackersAlwaysKeepBooks` | `BundleSpec => []TrackersKeepTheirBooks` | invariant `TrackersInv` |
| `CompletedNeverRerun` | `Spec => CompletedNotRerun` | invariant `KeptInv` |
| `PlanIsAlwaysSound`, `RollbackIsAlwaysComplete` | `Spec => []PlanIsSound`, `Spec => RollbackIsComplete` | invariant `PlanInv` |
| `LoopIsAlwaysAccountedFor` | `BundleSpec => []LoopIsAccountedFor` | invariant `LoopInv` |
| `ShellIsAlwaysConsistent` | `BundleSpec => []ShellIsConsistent` | invariants `ScreenInv`, `StoreInv` |
| `OnlyAdoptedAreForgotten`, `NeverTwoConnections` | `StreamAssumption => (Spec => []OnlyAdoptedForgotten)`, `... []OneConnection` | invariant `StreamInv` |

**`IInv`** types the fields of the position that the arguments need and adds
that a flat position has quantity 0 and a held one its stop on the near side of
liquidation. `StopClearsLiquidation` alone is not inductive: a trailing update
must know the stop is an integer and the direction is one of two, and a
reduction to zero must land on the flat position. It rests on
`StopTicks < LiqTicks`, which is what `assertStopsClearLiquidation` checks when
the runner starts. `reloadPool` (450-462) does not ask again: a strategy promoted with
other distances is outside the theorem. **`SoundInv`** adds the lots: they are typed, and their
quantities and margins add up to those of the position. What the loop over the
lots returns for every list is an induction, and that is where
`AllocationAddsUp` is cited. In which *order* lots go is another induction along the
same loop, `AllocationSplits`: read unit by unit, what the fills took so far and what
the lots keep so far are together the queue of the lots seen so far, and nothing is
kept while more is to be taken.

**`RunnerInv`** is five parts. `LoopInv`: what the passes hold is of the group
they are at, and what is on the stack is `running`. `MemoryInv` and `DiskInv`:
the position in memory *and* the one in the state file are sound, and a candle
counts as evaluated for the governing strategy only when its exits were checked
(the file must be part of it, because a restart takes the position from there).
`AloneInv`: only one pass is past its candles at a time, and what it read before
an await still holds when it goes on: the position it closes is the present
one, the candle is still not evaluated, the quantity, times any answer of the gate,
still fits under the cap times the multipliers.
`JournalInv`: entries on a candle that does not count as evaluated were made
before a crash, at most one for each crash, and every lot has its entry. The
theorems assume `NothingInterleaves == ~MayOverlap \/ Unawaited`: either passes
take turns or nothing is awaited after the candles. It is not a convenience:
`double_entry` is the counterexample without it. `rules_mode` is the second
disjunct, the configuration of a daemon without AI and funding, where the
theorems hold whatever the order of poll and streams.

**`FlagsInv`** adds to the agreement of the flags that the breaker's file equals
its memory between two actions (a restart reads what was decided) and excuses
the strategies a crash caught in the middle of `check`. **`HaltInv`** says that while
the process is up, the date of the last trip is the halt date until the day
changes, which is what makes `checkDailyLoss` keep the halt, and the halt keeps new
entries from beginning; those under way are counted by the property itself.
**`StateInv`** adds to the types that the number a paused strategy was anchored at is
that of its own trades among the first `anchorLen` of the journal: what the code
subtracts is then exactly what has closed of its own since.

**`CapInv`** bounds the file *and the two copies that may still be written
back*. With it the theorem holds for both values of `MayOverlap`: an overlap
can lose entries but never adds two copies up.

**`TurnInv`** is what taking turns buys: at most one writer is at work; the file
is what the runner loaded, and its sizes are within the budget of steps of the
*saved* counts of trades; the adaptor's copy has the entries of the file, some
resized or pruned, within the budget of the counts in memory, but for the one
entry that waits for Telegram before it is counted; the pipeline's copy is the
file grown at its end. The counts never run ahead of the journal and those on
disk never ahead of memory, so a crash can repeat a decision but not take a
step twice. `WritersTakeTurns == MayOverlap => ~Telegram`: without messages to
await, nothing can come between a read and its write; `pool_overlap` is the
counterexample with them.

**`PaperInv`** (the chat's positions): a result is written by one call, the one
that finds its position open, and the calls that wait for a price hold an index
and no copy, so that a late one finds it closed.

**`AgentInv`** is `BooksInv`, `TicksInv` and `KeysInv`. `BooksInv` is the balance
itself: cash is what the account began with, plus the results of the closed
positions, less what is in the open ones, a sum along the list of positions
that every action extends or changes in one place. `TicksInv` says where the one tick
under way stands by the machine's state, and that the order it holds is covered by
the cash it was told of, and by the cash there is unless the order is one of
`undercut`: nothing else of the agent spends in between, because the machine refuses
a second tick, but another client of the brokerage may. `KeysInv` ties processed keys to positions, so that a retried
order is answered and not filled again. The theorem assumes `MarginCoversFees`,
`100 * U + L * U * C <= 10000` for utilisation `U`, leverage `L` and commission
`C` in percent: of an order sized by the margin, the fees fit in what is left. The
defaults of `trading-config.ts` and the run's constants satisfy it;
`validateTradingConfig` does not ask for it.

**`TrackersInv`** says of each of the three trackers where memory, state file and
journal stand at each step of a tick: equal between ticks, and while a tick
saves, apart by the one line that is being written.

**`ReviewsInv`** is that of the evaluator and that of the analyst. The first
says that what waits in the queue lies ahead of what was reviewed, in the order of
the journal and behind the cursor, that what was reviewed is at most once in the
log, and that the entry remembered for a strategy is its latest. The second says that
the cursor in memory, on disk and in the request under way are in order, that the
analyses chain (each begins where the one before ended) and are in the log but for at
most one for each crash, and that the digest holds the latest of them, newest first, down to the bound or to a summary that
contains the "-->" the file is split at.

**`NotesInv`** counts: a fill is claimed by one call before it is sent, so it is
either still to be said by one call or was said once. The same holds of a strategy
that becomes ready: one call has it still to say, while nobody knows it, and what nobody
knows was not said. Two things break that in the code, and put the strategy into
`excused`: a check that begins while another has found it and not said so, which the
runner allows by not awaiting its callback, and a crash that cuts off the save.

**`DriftInv`**: `ComparedInv` says that the flags in memory and in the file are
those of the trades counted as compared, and during a comparison those of the
strategies that are done; `AlertsInv` counts, for each thing watched, one alert more
than recoveries and crashes only while its flag is up on a bad comparison.

**`ProviderInv`** says where a request stands. A routed one stands at some
candidate: what is left are those behind it in their order, and what refused are those before
it, so one that runs out has been through all. The catalog, and with it the
candidates of any capability, has no cloud model before a local one, which picking
models by capability keeps (`AbleKeepsOrder`, along the fold). The keys a chat tried run
from the one it began with round to the one it holds, which is where its provider
stands: that needs one request at a time, since another one would turn the provider's
rotation between two attempts. When the attempts are spent the run of keys has come
full circle (`EveryKeyTried`), from whichever key it began.

**`KeptInv`** says that what ever completed is "completed" in memory *and* in
the checkpoint, and not in flight. **`PlanInv`** is three invariants proved one
on top of the other: `RoundInv` (what is awaited and what is in flight go
together, in-flight steps stand on completed ones, and what completed is in
effect unless a rollback took it back), `AttemptInv` (attempts are bounded by
retries counted in the plan, resumptions, and one) and `OrderInv` (`executed` is
in an order in which nothing precedes what it depends on, and a run that was
never resumed has executed all that is in effect).

**`LoopInv`** is about any number of runs, each of which may begin beside others and
lose its conversation to a reset, another model or a resumed session. What is claimed of
a run is claimed while it is *alone* (nothing overlapped it) or *undisturbed* (alone, and
its conversation its own), and what makes that inductive is that a run cannot get
those back. `TurnsInv`: a run alone is the only one at work. `TalkInv`: the transcript
begins with the system prompt while a run whose conversation was not replaced is at
work, and for an undisturbed one ends with its message and is within its bound when the
model is asked. The three go together: a pruning must leave the prompt, and it can only
bound what a run says because a run appends to the transcript it was pruned from.
`EpisodesInv`: the episode being recorded is of the run at work when that is alone; of
those kept no two are by the same run or of the same one, because whoever ends first takes
it away. `SavedInv`: the transcript on disk ends with the last run that ended, so a
process that resumes behind a crash never begins in the middle of a run; only a run that
fails without a word saves what others left. A killed run has no episode and saves
nothing, which is why "ended" and "killed" must be told apart in the invariant.

**`ScreenInv`** has one part for each thing the terminal keeps. `CallBook`: of each
tool, the open calls are those shown running, each once, and they are as many as
runs wait for. That count is what survives when runs overlap and swap their results,
because a result closes the oldest open call of its tool and ends the wait of one
run; where runs never overlapped, the call that is waited for *is* the one
shown running. `RunBook` and `ShownBusy` tie the waits to the runs that are under way,
and those to what is shown of them. `ModelBook`: while no two switches raced, there is one
to be validated at most, and it falls back on a model that answers. `TalkBook` is about
what is said: no line is in the transcript, or on the screen, before its run has asked or
answered, so a new line is new to both; what the model remembers is on the screen or was
cleared; and a run that speaks alone has the last line, so that its answer joins the
transcript in the place it has on the screen. A resumed session is the one step
that rebuilds the screen: that it shows what is spoken, each line once and in order, is
proved along the fold that replays it (`Replays`).

**`StoreInv`**: each list of the store is within its bound and has entries of its kind, no
two tool calls of the conversation, no two tasks and no two steps have one id, and a call that
runs has a tool to be shown. It has to hold of the lists after they were cut at their bounds
and after an entry was taken out, again along a fold (`WithoutOnce`). That what is over
stays over is an action property of the store (`ReportsUndoNothing`), left to TLC.

**`StreamInv`** is needed because a call of `subscribe` only looks at the map. So
a stream that is in the map, *wanted or not*, has a socket that has not closed
or a timer, unless it counts as closed on purpose; the socket the map holds is one of its stream, and live; and a kline
stream has a socket or a timer, never both, where a socket counts until it has
*closed*. A timer is set exactly when a socket of the stream goes, and spent
exactly when one comes. The two properties are parts of `FeedIsComplete`.

Induction over a list: the induction theorems of the library take a predicate as
a parameter, which the provers used here cannot instantiate. `FoldTheorems`
goes around it: a fold is unrolled into a function of the prefix's length, and
a claim about all lengths is proved by least counterexample. The models write
the loops they need theorems about with `FoldLeft` (`AllocateAcrossLots`,
`UndoOrder`, `Filter`, `OfStrategy`, `Without`, `Replayed`), because `SelectSeq` is opaque to the
provers. Nothing uses recursive operators.

Assumptions on constants: `PositionAssumption` (distances natural, leverage and
fee divisor positive, `StopTicks < LiqTicks`), `TrailingAssumption` (distances
and multiples natural), `LifecycleAssumption`, `RunnerAssumption` (each strategy
has a direction and a positive size, the cap is a natural),
`BreakerAssumption`, `PoolAssumption` (the first pool is within the cap and names
no signal twice, new entries have a size within the bounds, and a prune asks for
at least the sample a resize does, as the constants of `pnl-adaptor` do),
`OrchestratorAssumption` (dependencies are among the steps), and
`StreamAssumption` (a key is of a kline or of a ticker, not of both; slots are
numbers). The components that run beside the main ones of a bundle take their
constants from the MC module, and their assumptions (`LoopAssumption`,
`ReviewersAssumption`, `AgentAssumption` and so on) are stated of those: numbers are
natural, "none" is no member of the set it is absent from, a saved session has no line
of a run of this process and no line twice, and rates are percentages. Only `MarginCoversFees` says more, and is a premise of the theorem
that needs it. The bounds of the models (failures, crashes, slots, candles) are
constants of any value in the theorems, or not mentioned at all.

### 4.1 What is only model-checked

* Liveness and `ENABLED`, beyond the prover: `RunnerCatchesUp`,
  `UnderperformersLeave`, `EveryRunEnds`, `StreamsComeBack`, `PositionsEnd`,
  `KilledIsGone`, `ShowsTheLatest`, and the temporal parts of the others.
* What folds over candles and trades compute (`BacktestsAreRight`): claims about the
  value of a fold for every input are inductions over data.
* `LedgerMatchesFills`, `LearningIsSound`, `WhatIsTypedIsKept`, and `FeedIsComplete` but for its two parts on streams: not attempted,
  each holds for the bounds of its run.
* Providers are checked and proved with one request at a time; that a failed run is
  undone is claimed of runs that were never resumed.
* The runner and the pool where passes or writers interleave, which is where
  the code fails its documents.

## 5. Remarks

What the models show of the code beside the six runs, with the comment or line
it is measured against. None is checked by a run.

* **Streams**: "never reconnects after an unsubscribe" (`binance-stream.ts:76`) is
  not so when the retry timer was already set: it is not cancelled. A stream asked for
  again over the socket of such a timer is still `closedIntentionally` (120 returns before
  it is cleared), and its next drop is not retried (81-82).
* **Market state**: a candle event is applied when the symbol fits, whatever its
  timeframe (`client.ts:194`, `market-state.ts:31`), so a store of one "(symbol,
  timeframe)" (`candle-store.ts:3`) mixes those of all that are watched.
* **Runner**: "a scaled-down trade shouldn't be able to bypass the pyramiding cap"
  (`live-runner.ts:180-182`), but the strategy's multiplier (755, up to 1.2) and the
  gate's (786, unclamped in free text) scale what was clipped to the headroom (747-752).
  An entry that has passed the test of halt and pause (711) enters (790) though the
  breaker trips while its candles or the gate are awaited (716, 774).
* **Accounts**: the runner builds its gate without a catalog (`live-runner.ts:306`),
  so answers are free text: sizes are not clamped, and a size that parses to
  NaN trades. A
  size of 0, or a flip by exactly the held quantity, leaves an empty position
  with a direction. The correlation scale is computed before the gate is awaited.
* **Equity agent**: the condition for the new average entry is reversed
  (`paperBrokerage.ts:97`); two exits of one round go short; equity ignores the
  notional of positions; `stopLoss` is never stored; the daily PnL is never
  reset; "hard gate 2" (`riskManager.ts:21`) can be passed within a round.
* **Trackers**: a failed `fetchFundingRates` aborts the whole tick; a tick at the
  very millisecond of a payment counts it twice (assumed not to happen); the
  pairs tracker counts ticks as bars; the state is saved only when a tick ends.
* **Reporters**: "Notifies ONCE per strategy" (`readiness.ts:136-137`): the runner's callback
  is not awaited, so overlapping checks announce a strategy once each, and so does the
  one after a crash before the save; a lost message is not sent again; a strategy that
  loses readiness and earns it again is not announced, which 138-140 say it is. The analyst counts
  trades as analysed before their summary is logged (`trade-analyst.ts:245`, 246, 247): a
  crash in between loses it.
  The runner writes `position_fill` lines only, which the evaluator
  (`trade-evaluator.ts:9-11`) does not read.
* **Agent loop**: the loop detector is never reset between messages; calls stay
  unanswered in the transcript when a run is aborted; "one Episode per runUserMessage
  call" (`episode-recorder.ts:6`) is not so of runs that overlap, of which some take
  another's episode and some have none; a reset, `setModel` or a resumed session during a
  run (`agent.ts:406-409`, 493-496, 505-509) leaves it to go on in another conversation,
  without the system prompt or without its question; a failed summary in the background reports an error
  of the run. "Classification never breaks the turn" (`agent.ts:415-418`) is
  not covered.
* **Shell tool**: "timed out" may be answered while the container still runs. An
  `inspect` that fails counts as "not running" (`shell.ts:197-205`) and an `rm -f` that
  fails as done (189-195), so a docker that also failed the kill leaves the container.
* **Terminal**: overlapping runs show idle when the first ends; two overlapping
  switches may revert to a model that is not valid; a task created twice starts
  again; `conversation.plan` keeps the current step of an older plan.
* **Learning**: a loop abort and a spent turn budget count as success of a skill;
  deleted entries return (`skill-synthesizer.ts:113`); usage is not reset after
  a demotion; new skills are not seen until a restart; a skill file and the lessons in it
  are written one after the other (`skill-synthesizer.ts:50-51`, 70-71) and may be set
  apart by a failure between the two.
* **Futures agent**: an order sized on a balance that another client has spent from
  meanwhile (`autonomous-agent.ts:51`, `brokerage.ts:196-209`) may be rejected.
* **Backtests**: trades carry the time of the last candle as exit time
  (`engine.ts:67-68`, 311-312; not so the futures engine), by which `portfolio.ts:78-80`
  orders them: all trades of a symbol count as open until its last candle, so it trades
  again only on that one. Sweeps count only
  combinations with ten trades.
* **Signals**: an event of the higher timeframe is visible from its bar's open
  (against the comment at `adapter.ts:274-277`); swept-near and the volume
  profile look ahead; `entryMask` is indexed by one timeframe and read with
  another; a mask without data takes all entries; draw-on-liquidity compares
  levels, not distances.
* **History**: the EMA of a chart shorter than its period is its seed; a window
  that begins later changes EMA, RSI, ATR, ADX and SuperTrend of the same bar;
  `find` keeps only the first period of a kind, so two periods of one kind
  never both count; ADX counts equal moves up and down as both.
* **Fusion**: the EMA strategy without a period computes 20 and looks up 14, so it
  never fires; the entry bar's own range can exit; margin is not reserved across
  symbols; candles are matched by index, not by time; a pair whose score is not
  a number is not exited, not even by its timeout.
* **Prompt**: Down after an edit in the history discards it; entries of several
  lines are split at a restart (`history.ts:5`); text pasted under an open
  overlay goes to the prompt; the piece of a paste that comes with its end marker reaches the keys too
  (`app-input.ts:154-156`, 201, 302-308): its text is typed a second time, and a single
  letter into an empty prompt is taken as the command of that key; "/plan", "/commit", "/review" and others only print a message.
* **Pool**: the comment at `pnl-adaptor.ts:142-143` says the lists returned are
  empty in dry run, the code fills them (173, 183).

## 6. Not modelled

* **The daemon's script, its heartbeat and start-up, the chat assistant**: calls in
  sequence and text of a language model; what they start is modelled.
* **Other tools of the coding agent** (files, git, web): one call, one answer.
* **A rule condition that throws** in the futures agent (`rules-engine.ts:52`), which would
  leave its machine in EVALUATING_RULES, and the **live prices** of the chat's positions
  when their stream has gone: `ResultsAreFinal` is about results, not about how old the
  price was they were made of.
* **Two requests to the providers at once**, and a planner that sends back completed steps.
* **Layout of the terminal**, wording, prompts and parsing of models' texts.
* **Floating point**: money, prices and indicators are integers with rounding.
* **External libraries**: the analysis library behind `concepts/`, ink, ws, docker
  and the exchanges are modelled from how the code uses them.
