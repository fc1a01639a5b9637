---------------------------- MODULE StrategyPool ----------------------------
(***************************************************************************)
(* strategies.json and the three parties that share it: PnlAdaptor         *)
(* (src/paper-trading/pnl-adaptor.ts) resizes and prunes its strategies,   *)
(* ResearchPipeline (research-pipeline.ts) appends new ones, and the live  *)
(* runner reloads it after each write.                                     *)
(*                                                                         *)
(* Both writers read the whole file, change their copy and write it back,  *)
(* and both wait for Telegram between the read and the write.  All run on  *)
(* one event loop: `running' is the one whose code is on the stack.        *)
(*                                                                         *)
(* A signal stands for the (symbol, tf, entry, direction) the pipeline     *)
(* recognises a strategy by; a strategy's id is its signal and the cycle   *)
(* that promoted it, 0 for those the file started with.  Sizes are integer *)
(* multiples of a unit.                                                    *)
(***************************************************************************)
EXTENDS ProfitFactor, FiniteSets

CONSTANTS
  Signals,
  InitialSignals,   \* the sequence of signals of the file at the start
  BacktestPf,       \* metrics.pf, the same for all
  FloorNum, FloorDen,   \* pruneFloorPf
  MinSampleSize, PruneMinSample, RecoverySliceSize,
  InitialSize, SizeStep, SizeMin, SizeMax,
  DryRun,           \* the adaptor only logs what it would do
  Telegram,         \* notifyTelegram: a message is awaited at each prune and promotion
  MaxPromotionsPerCycle, MaxPoolSize,
  MayOverlap,       \* explore a writer that reads while the other waits for Telegram
  Pnls,             \* PnL of a closed trade
  MaxTrades, MaxCycles, MaxCrashes,   \* bounds
  Nobody            \* no writer is on the stack

ASSUME PoolAssumption ==
  /\ InitialSignals \in Seq(Signals) /\ Len(InitialSignals) <= MaxPoolSize
  /\ \A i, j \in DOMAIN InitialSignals : InitialSignals[i] = InitialSignals[j] => i = j
  /\ BacktestPf \in Nat /\ FloorNum \in Nat /\ FloorDen \in Nat \ {0}
  /\ MinSampleSize \in Nat \ {0} /\ PruneMinSample \in Nat /\ RecoverySliceSize \in Nat
  /\ PruneMinSample >= MinSampleSize
  /\ SizeStep \in Nat /\ SizeMin \in Nat /\ SizeMax \in Nat /\ InitialSize \in SizeMin .. SizeMax
  /\ DryRun \in BOOLEAN /\ Telegram \in BOOLEAN /\ MayOverlap \in BOOLEAN
  /\ MaxPromotionsPerCycle \in Nat /\ MaxPoolSize \in Nat
  /\ Pnls \subseteq Int /\ MaxTrades \in Nat /\ MaxCycles \in Nat /\ MaxCrashes \in Nat
  /\ Nobody \notin {"adaptor", "research"}

VARIABLES
  file,         \* strategies.json
  active,       \* the runner's strategies, each with its size
  trades,       \* the closed trades of each strategy in the journal
  adjusted,     \* the adaptor's state: lastAdjustedTradeCount of each strategy
  adjustedDisk, \* its state file
  adaptor,      \* the progress of check()
  research,     \* the progress of runCycle()
  running,      \* the writer on the stack, or Nobody
  cycles, crashes

vars == <<file, active, trades, adjusted, adjustedDisk, adaptor, research, running, cycles, crashes>>

Ids == Signals \X (0 .. MaxCycles)
Entry(signal, cycle) == [id |-> <<signal, cycle>>, size |-> InitialSize, enabled |-> TRUE]
SignalsOf(f) == {e.id[1] : e \in Range(f)}

\* loadStrategiesFromPool: the enabled entries.
Loaded(f) ==
  LET enabled == {e \in Range(f) : e.enabled}
  IN  [id \in {e.id : e \in enabled} |-> (CHOOSE e \in enabled : e.id = id).size]

AdaptorIdle == [pc |-> "idle", pool |-> <<>>, seen |-> <<>>, next |-> 1, changed |-> FALSE]
ResearchIdle == [pc |-> "idle", pool |-> <<>>, fresh |-> {}, promoted |-> 0]

Init ==
  /\ file = [i \in DOMAIN InitialSignals |-> Entry(InitialSignals[i], 0)]
  /\ active = Loaded(file)
  /\ trades = [id \in Ids |-> <<>>]
  /\ adjusted = [id \in Ids |-> 0]
  /\ adjustedDisk = adjusted
  /\ adaptor = AdaptorIdle
  /\ research = ResearchIdle
  /\ running = Nobody
  /\ cycles = 0 /\ crashes = 0

\* Mutants: a reload that loads pruned strategies too, or only adds.
ReloadAll(f) ==
  [id \in DOMAIN active \union {e.id : e \in Range(f)} |->
     IF id \in {e.id : e \in Range(f)} THEN (CHOOSE e \in Range(f) : e.id = id).size
     ELSE active[id]]
ReloadNew(f) ==
  [id \in DOMAIN active \union DOMAIN Loaded(f) |->
     IF id \in DOMAIN active THEN active[id] ELSE Loaded(f)[id]]

\* reloadPool: sizes follow the file, pruned strategies leave, new ones join;
\* one the file does not mention stays.
Reload(f) ==
  LET fresh  == Loaded(f)
      pruned == {e.id : e \in {x \in Range(f) : ~x.enabled}}
  IN  [id \in (DOMAIN active \ pruned) \union DOMAIN fresh |->
         IF id \in DOMAIN fresh THEN fresh[id] ELSE active[id]]

\* A strategy of the runner, or a lot of one that was pruned, closes a trade.
TradeCloses(id, pnl) ==
  /\ running = Nobody
  /\ id \in DOMAIN active \union {e.id : e \in Range(file)}
  /\ Len(trades[id]) < MaxTrades
  /\ trades' = [trades EXCEPT ![id] = Append(@, [pnl |-> pnl])]
  /\ UNCHANGED <<file, active, adjusted, adjustedDisk, adaptor, research, running, cycles, crashes>>

-----------------------------------------------------------------------------
(* PnlAdaptor.check()                                                      *)

Clamp(size) == IF size > SizeMax THEN SizeMax ELSE IF size < SizeMin THEN SizeMin ELSE size

\* decideSizeMultiplier, with the current size for null.
NewSize(t, size) ==
  IF Len(t) < MinSampleSize THEN size
  ELSE IF PfBelow(t, 7 * BacktestPf, 10) THEN Clamp(size - SizeStep)
  ELSE IF PfAbove(t, BacktestPf, 1) THEN Clamp(size + SizeStep)
  ELSE size

DecidePrune(t) ==
  /\ Len(t) >= PruneMinSample
  /\ PfBelow(t, FloorNum, FloorDen)
  /\ PfBelow(LastN(t, RecoverySliceSize), FloorNum, FloorDen)

\* Mutant: one decision of a strategy per check, the resizing first.
PruneIfNotResized(e, t) == e.enabled /\ DecidePrune(t) /\ NewSize(t, e.size) = e.size

PruneNow(e, t) == e.enabled /\ DecidePrune(t)

\* The journal and the file are read at once, at the start.
AdaptorRead ==
  /\ running = Nobody /\ adaptor.pc = "idle"
  /\ MayOverlap \/ research.pc # "notify"
  /\ adaptor' = [AdaptorIdle EXCEPT !.pc = "check", !.pool = file, !.seen = trades]
  /\ running' = "adaptor"
  /\ UNCHANGED <<file, active, trades, adjusted, adjustedDisk, research, cycles, crashes>>

Current == adaptor.pool[adaptor.next]
Seen == adaptor.seen[Current.id]

NewData == Len(Seen) # adjusted[Current.id]

\* On to the next strategy; `counted' tells whether this one's sample was new.
Advance(a, counted) ==
  /\ adaptor' = [a EXCEPT !.pc = "check", !.next = @ + 1]
  /\ adjusted' = IF counted THEN [adjusted EXCEPT ![Current.id] = Len(Seen)] ELSE adjusted
  /\ running' = "adaptor"

\* What the check makes of an entry: a size and perhaps a prune.
Decided(e, t) ==
  IF DryRun THEN e
  ELSE [e EXCEPT !.size = NewSize(t, e.size), !.enabled = @ /\ ~PruneNow(e, t)]

\* A prune is told to Telegram before the loop goes on.
AdaptorDecide ==
  LET entry  == Decided(Current, Seen)
      edited == [adaptor EXCEPT !.pool = [@ EXCEPT ![adaptor.next] = entry],
                                !.changed = @ \/ entry # Current]
      waits  == Telegram /\ Current.enabled /\ ~entry.enabled
  IN  /\ running = "adaptor" /\ adaptor.pc = "check" /\ adaptor.next <= Len(adaptor.pool)
      /\ \/ ~NewData /\ Advance(adaptor, FALSE)
         \/ NewData /\ ~waits /\ Advance(edited, TRUE)
         \/ /\ NewData /\ waits
            /\ adaptor' = [edited EXCEPT !.pc = "notify"]
            /\ running' = Nobody
            /\ UNCHANGED adjusted
      /\ UNCHANGED <<file, active, trades, adjustedDisk, research, cycles, crashes>>

AdaptorNotified ==
  /\ running = Nobody /\ adaptor.pc = "notify"
  /\ Advance(adaptor, TRUE)
  /\ UNCHANGED <<file, active, trades, adjustedDisk, research, cycles, crashes>>

\* The adaptor's state is saved before the file is written.
AdaptorSave ==
  /\ running = "adaptor" /\ adaptor.pc = "check" /\ adaptor.next > Len(adaptor.pool)
  /\ adjustedDisk' = adjusted
  /\ IF adaptor.changed
     THEN adaptor' = [adaptor EXCEPT !.pc = "write"] /\ UNCHANGED running
     ELSE adaptor' = AdaptorIdle /\ running' = Nobody
  /\ UNCHANGED <<file, active, trades, adjusted, research, cycles, crashes>>

AdaptorWrite ==
  /\ running = "adaptor" /\ adaptor.pc = "write"
  /\ file' = adaptor.pool
  /\ active' = Reload(adaptor.pool)
  /\ adaptor' = AdaptorIdle
  /\ running' = Nobody
  /\ UNCHANGED <<trades, adjusted, adjustedDisk, research, cycles, crashes>>

-----------------------------------------------------------------------------
(* ResearchPipeline.runCycle()                                             *)

\* existingKeys: disabled entries count.
ExistingSignals(f) == SignalsOf(f)

\* The sweep has found some signals: the file is read, known ones are left out.
ResearchRead(found) ==
  /\ running = Nobody /\ research.pc = "idle"
  /\ cycles < MaxCycles
  /\ MayOverlap \/ adaptor.pc # "notify"
  /\ cycles' = cycles + 1
  /\ research' = [ResearchIdle EXCEPT !.pc = "promote", !.pool = file,
                                      !.fresh = found \ ExistingSignals(file)]
  /\ running' = "research"
  /\ UNCHANGED <<file, active, trades, adjusted, adjustedDisk, adaptor, crashes>>

\* Mutant: the limit is checked one promotion late.
RoomForOneMore == Len(research.pool) <= MaxPoolSize
Room == Len(research.pool) < MaxPoolSize

MayPromote ==
  research.fresh # {} /\ research.promoted < MaxPromotionsPerCycle /\ Room

\* The candidates come by Sharpe ratio, which could be any order.
Promote(signal) ==
  /\ running = "research" /\ research.pc = "promote"
  /\ MayPromote /\ signal \in research.fresh
  /\ research' = [research EXCEPT !.pool = Append(@, Entry(signal, cycles)),
                                  !.fresh = @ \ {signal},
                                  !.promoted = @ + 1,
                                  !.pc = IF Telegram THEN "notify" ELSE @]
  /\ running' = IF Telegram THEN Nobody ELSE running
  /\ UNCHANGED <<file, active, trades, adjusted, adjustedDisk, adaptor, cycles, crashes>>

ResearchNotified ==
  /\ running = Nobody /\ research.pc = "notify"
  /\ research' = [research EXCEPT !.pc = "promote"]
  /\ running' = "research"
  /\ UNCHANGED <<file, active, trades, adjusted, adjustedDisk, adaptor, cycles, crashes>>

ResearchWrite ==
  /\ running = "research" /\ research.pc = "promote" /\ ~MayPromote
  /\ IF research.promoted > 0
     THEN file' = research.pool /\ active' = Reload(research.pool)
     ELSE UNCHANGED <<file, active>>
  /\ research' = ResearchIdle
  /\ running' = Nobody
  /\ UNCHANGED <<trades, adjusted, adjustedDisk, adaptor, cycles, crashes>>

-----------------------------------------------------------------------------
\* The process dies and is restarted from the files.
Crash ==
  /\ crashes < MaxCrashes
  /\ crashes' = crashes + 1
  /\ active' = Loaded(file)
  /\ adjusted' = adjustedDisk
  /\ adaptor' = AdaptorIdle /\ research' = ResearchIdle
  /\ running' = Nobody
  /\ UNCHANGED <<file, trades, adjustedDisk, cycles>>

Next ==
  \/ \E id \in Ids, pnl \in Pnls : TradeCloses(id, pnl)
  \/ AdaptorRead \/ AdaptorDecide \/ AdaptorNotified \/ AdaptorSave \/ AdaptorWrite
  \/ \E found \in SUBSET Signals : ResearchRead(found)
  \/ \E signal \in Signals : Promote(signal)
  \/ ResearchNotified \/ ResearchWrite
  \/ Crash

Spec == Init /\ [][Next]_vars

\* The adaptor runs every hour, code on the stack runs on, and Telegram answers
\* or times out after five seconds.
Fairness ==
  /\ WF_vars(AdaptorRead)
  /\ WF_vars(AdaptorDecide \/ AdaptorSave \/ AdaptorWrite)
  /\ WF_vars((\E signal \in Signals : Promote(signal)) \/ ResearchWrite)
  /\ WF_vars(AdaptorNotified) /\ WF_vars(ResearchNotified)

FairSpec == Spec /\ Fairness

-----------------------------------------------------------------------------
(* Properties.                                                             *)

EntryType == [id : Ids, size : SizeMin .. SizeMax, enabled : BOOLEAN]

TypeOK ==
  /\ file \in Seq(EntryType)
  /\ DOMAIN active \subseteq Ids /\ Range(active) \subseteq SizeMin .. SizeMax
  /\ \A id \in Ids : adjusted[id] \in 0 .. Len(trades[id])
  /\ \A id \in Ids : adjustedDisk[id] \in 0 .. Len(trades[id])
  /\ adaptor.pc \in {"idle", "check", "notify", "write"} /\ adaptor.pool \in Seq(EntryType)
  /\ research.pc \in {"idle", "promote", "notify"} /\ research.pool \in Seq(EntryType)
  /\ running \in {"adaptor", "research", Nobody}
  /\ running = "adaptor" => adaptor.pc \in {"check", "write"}
  /\ running = "research" => research.pc = "promote"

\* A pruned strategy is out of the file and of the runner for good: "permanent
\* until a human re-enables it in strategies.json" (pnl-adaptor.ts:18).
PrunedIn(f) == {e.id : e \in {x \in Range(f) : ~x.enabled}}
PruneIsPermanent ==
  [][/\ PrunedIn(file) \subseteq PrunedIn(file')
     /\ PrunedIn(file) \intersect DOMAIN active' = {}]_vars

\* Between two writes the runner trades what the file says, at its sizes: no
\* promotion, resizing or prune reaches only one of the two (reloadPool).
RunnerFollowsFile == active = Loaded(file)

\* A signal is in the file at most once: neither a running nor a pruned strategy
\* is promoted again under a new id (existingKeys of runCycle).
OneEntryPerSignal == Cardinality(SignalsOf(file)) = Len(file)

\* The file never holds more than maxPoolSize strategies, whatever is promoted
\* while others are being pruned or resized.
PoolWithinCap == Len(file) <= MaxPoolSize

\* A strategy's size moves by one step at most for each trade it closed since
\* its sample was large enough, over any number of checks, crashes and restarts
\* (lastAdjustedTradeCount; "bounded per cycle", pnl-adaptor.ts:15).
OneStepPerTrade ==
  \A e \in Range(file) :
    LET n      == Len(trades[e.id])
        budget == IF n < MinSampleSize THEN 0 ELSE (n - MinSampleSize + 1) * SizeStep
    IN  e.size - InitialSize \in -budget .. budget

\* Runner and file agree on who trades and how much, a signal has one entry at
\* most, and a size moves one step per closed trade.
PoolIsSound == TypeOK /\ RunnerFollowsFile /\ OneEntryPerSignal /\ OneStepPerTrade

\* A strategy that is decisively below the floor is out of the pool in the end,
\* unless the process dies between saving its state and writing the file.
UnderperformersLeave ==
  [](crashes = 0) =>
    \A id \in Ids : <>[](DecidePrune(trades[id])) => <>[](id \notin DOMAIN active)
=============================================================================
