----------------------------- MODULE LiveRunner -----------------------------
(***************************************************************************)
(* LivePaperRunner (src/paper-trading/live-runner.ts): the REST poll loop  *)
(* and the kline stream callbacks both run processGroup over the one       *)
(* position of a symbol, while the circuit breaker pauses strategies, the  *)
(* pool is reloaded and the process may die.                               *)
(*                                                                         *)
(* The program is one event loop.  `running' names the pass whose code is  *)
(* on the stack; a pass gives it up only where the code awaits (candles,   *)
(* funding rates, higher-timeframe candles, the AI gate), so between two   *)
(* awaits nothing interleaves.                                             *)
(*                                                                         *)
(* Bars are numbered per (symbol, tf) group by their openTime.  A bar is   *)
(* reduced to whether it crosses the stop, target or liquidation price of  *)
(* an open position; price is constant, so netting keeps only quantities.  *)
(***************************************************************************)
EXTENDS SymbolPosition

CONSTANTS
  Order,        \* all strategies, in the order of the pool
  GroupOf,      \* the (symbol, tf) group of each strategy
  DirOf,        \* the direction of each strategy
  SizeOf,       \* the quantity each strategy asks for, cap and multipliers aside
  Multipliers,  \* the values of sizeMultiplier, in tenths: the adaptor moves it
  MaxMultiplier, \* sizeMultiplierMax, in tenths
  GateSizes,    \* the sizes of an approval by the AI gate, in tenths
  MaxGateSize,  \* bound on those sizes: free text is not clamped
  Streamed,     \* the groups with a kline stream attached
  HtfReaders,   \* strategies with a concepts_htf condition
  Cap,          \* maxMarginUtilizationPct of the capital, as a quantity
  AiMode,       \* aiMode = "ai": an approval is awaited before an entry
  FundingAwait, \* cfg.funding and an 8h boundary: rates awaited before a close
  InitialPool,  \* the strategies the process starts with
  MayOverlap,   \* explore passes that run while another is suspended half way
  MaxBar,       \* bound on the bars of a group
  MaxInterventions, \* bound on pauses, resumes, halts, releases and pool reloads
  MaxCrashes,   \* bound on crashes
  Nobody        \* no pass is on the stack

Strategies == {Order[i] : i \in DOMAIN Order}
Groups == {GroupOf[s] : s \in Strategies}
Poll == "poll"
Whole == 10   \* the size 1, in tenths
Passes == {Poll} \union Streamed   \* one poll loop, one callback per stream

ASSUME RunnerAssumption ==
  /\ Order \in Seq(Strategies) /\ NoOne \notin Strategies /\ Poll \notin Groups /\ Nobody \notin Passes
  /\ DirOf \in [Strategies -> Directions] /\ SizeOf \in [Strategies -> Nat \ {0}]
  /\ HtfReaders \subseteq Strategies /\ Streamed \subseteq Groups /\ InitialPool \in Seq(Strategies)
  /\ AiMode \in BOOLEAN /\ MayOverlap \in BOOLEAN /\ FundingAwait \in BOOLEAN
  /\ Multipliers \subseteq 1 .. MaxMultiplier /\ GateSizes \subseteq 1 .. MaxGateSize
  /\ MaxMultiplier \in Nat /\ MaxGateSize \in Nat /\ Whole <= MaxMultiplier /\ Whole <= MaxGateSize
  /\ Cap \in Nat /\ MaxBar \in Nat \ {0} /\ MaxInterventions \in Nat /\ MaxCrashes \in Nat

VARIABLES
  bars,       \* per group, for each closed bar, whether it crosses an exit level
  pool,       \* this.strategies, and the enabled entries of strategies.json
  attached,   \* per group, the array of strategies its stream callback captured
  heard,      \* per stream, the last bar whose close it has reported
  pos,        \* state.symbolPositions[symbol]
  lastEval,   \* strategyStats[s].lastEvalOpenTime
  paused,     \* strategies with strategyStats[s].paused
  globalHalt, \* entries halted for the day; in memory only
  disk,       \* the state file
  journal,    \* the journal file, as the quantities and entries it replays to
  pass,       \* the progress of each pass
  running,    \* the pass on the stack, or Nobody
  interventions, crashes,  \* counters for the bounds
  misread     \* history: the bars exit management judged from a partial row

memory == <<pos, lastEval, paused>>
streams == <<attached, heard>>
vars == <<bars, pool, streams, memory, globalHalt, disk, journal, pass, running,
          interventions, crashes, misread>>

Closed(g) == Len(bars[g])

\* The strategies of a list that are in a set, in the order of the list.
Filter(p, kept) == FoldLeft(LAMBDA list, s : IF s \in kept THEN Append(list, s) ELSE list, <<>>, p)

StratsOf(p, g) == Filter(p, {s \in Strategies : GroupOf[s] = g})

\* groupMap: the groups of a pool, in the order their first strategy appears.
WithGroup(groups, s) ==
  IF GroupOf[s] \in Range(groups) THEN groups ELSE Append(groups, GroupOf[s])
GroupsOf(p) == FoldLeft(WithGroup, <<>>, p)

Price == 10   \* constant: the PnL of a fill plays no part here

Idle == [pc |-> "idle", pool |-> <<>>, groups |-> <<>>, strats |-> <<>>, asked |-> 0,
         bar |-> 0, final |-> TRUE, crosses |-> FALSE,
         held |-> FlatPosition, qty |-> 0]

Saved == [pos |-> pos, lastEval |-> lastEval, paused |-> paused]

\* One bar has closed before the process starts; nothing is open.
Init ==
  /\ bars = [g \in Groups |-> <<FALSE>>]
  /\ pool = InitialPool
  /\ attached = [g \in Streamed |-> StratsOf(pool, g)]
  /\ heard = [g \in Streamed |-> Closed(g)]
  /\ pos = FlatPosition
  /\ lastEval = [s \in Strategies |-> 0]
  /\ paused = {}
  /\ globalHalt = FALSE
  /\ disk = Saved
  /\ journal = [net |-> 0, entries |-> [s \in Strategies |-> [b \in 1 .. MaxBar |-> 0]]]
  /\ pass = [w \in Passes |-> Idle]
  /\ running = Nobody
  /\ interventions = 0 /\ crashes = 0
  /\ misread = {}

Group(w) == Head(pass[w].groups)

Signed(f) == (IF f.action \in ClosingActions THEN -1 ELSE 1)
             * (IF f.direction = "long" THEN f.qty ELSE -f.qty)

EntriesOf(s, fills) ==
  {i \in DOMAIN fills : fills[i].strategyId = s /\ fills[i].action \notin ClosingActions}

\* journalFills, replayed: the signed quantity and the entries made on a bar.
Journalled(fills, bar) ==
  [net |-> journal.net + TotalOf([i \in DOMAIN fills |-> Signed(fills[i])]),
   entries |-> [s \in Strategies |->
                  [journal.entries[s] EXCEPT ![bar] = @ + Cardinality(EntriesOf(s, fills))]]]

\* A pass is suspended half way through the shared state it has read.
HalfWay(w) == pass[w].pc \in {"funding", "htf", "gate"}
MayRun(w) == running = Nobody /\ (MayOverlap \/ \A v \in Passes \ {w} : ~HalfWay(v))

-----------------------------------------------------------------------------
(* A pass over one group starts, fetches its candles and ends.             *)

Fetching(p, groups) ==
  [Idle EXCEPT !.pc = "fetch", !.pool = p, !.groups = groups,
               !.strats = StratsOf(p, Head(groups)), !.asked = Closed(Head(groups))]

\* tick(): the groups of the pool, one after the other.
PollStart ==
  /\ running = Nobody /\ pass[Poll].pc = "idle"
  /\ \/ /\ pool # <<>>
        /\ pass' = [pass EXCEPT ![Poll] = Fetching(pool, GroupsOf(pool))]
        /\ UNCHANGED disk
     \/ pool = <<>> /\ disk' = Saved /\ UNCHANGED pass
  /\ UNCHANGED <<bars, pool, streams, memory, globalHalt, journal, running,
                 interventions, crashes, misread>>

\* The stream reports a closed kline, or never does: the callback works on the
\* strategies it captured.
StreamFire(g) ==
  /\ running = Nobody /\ pass[g].pc = "idle"
  /\ heard[g] < Closed(g)
  /\ heard' = [heard EXCEPT ![g] = Closed(g)]
  /\ attached[g] # <<>>
  /\ pass' = [pass EXCEPT ![g] = Fetching(attached[g], <<g>>)]
  /\ UNCHANGED <<bars, pool, attached, memory, globalHalt, disk, journal, running,
                 interventions, crashes, misread>>

\* Mutant: a pass ends with its first group.
EndPass(w) ==
  /\ running' = Nobody
  /\ pass' = [pass EXCEPT ![w] = Idle]
  /\ disk' = Saved

\* The poll goes on to its next group; the last group of a pass saves the state.
EndGroup(w) ==
  LET rest == Tail(pass[w].groups)
  IN  /\ running' = Nobody
      /\ IF rest = <<>>
         THEN /\ pass' = [pass EXCEPT ![w] = Idle]
              /\ disk' = Saved
         ELSE /\ pass' = [pass EXCEPT ![w] = Fetching(pass[w].pool, rest)]
              /\ UNCHANGED disk

\* The fetch returned an error: the group is skipped on this pass.
FetchFail(w) ==
  /\ running = Nobody /\ pass[w].pc = "fetch"
  /\ EndGroup(w)
  /\ UNCHANGED <<bars, pool, streams, memory, globalHalt, journal,
                 interventions, crashes, misread>>

\* Candles arrive.  Rows end at the bar forming when they were asked for; it is
\* dropped unless it has closed by now, in which case the row may be final or
\* may still be what the exchange served before the close.
FetchDone(w) ==
  /\ MayRun(w) /\ pass[w].pc = "fetch"
  /\ LET g   == Group(w)
         bar == Least(pass[w].asked + 1, Closed(g))
     IN  \E final \in {TRUE, bar = pass[w].asked}, crosses \in {FALSE, bars[g][bar]} :
           /\ final => crosses = bars[g][bar]
           /\ pass' = [pass EXCEPT ![w].pc = "exit", ![w].bar = bar, ![w].final = final,
                                   ![w].crosses = crosses]
  /\ running' = w
  /\ UNCHANGED <<bars, pool, streams, memory, globalHalt, disk, journal,
                 interventions, crashes, misread>>

-----------------------------------------------------------------------------
(* Exit management, then the entries of the group's strategies.            *)

\* Mutant: the bar after the last one evaluated is taken as evaluated.
GoverningLater(w) ==
  /\ pos.direction # "none"
  /\ pos.gov \in Range(pass[w].strats)
  /\ pass[w].bar > lastEval[pos.gov] + 1

\* Only the group of the governing strategy manages the position, on a bar that
\* strategy has not evaluated.
GoverningHere(w) ==
  /\ pos.direction # "none"
  /\ pos.gov \in Range(pass[w].strats)
  /\ pass[w].bar > lastEval[pos.gov]

\* Mutant: a close that the journal does not see.
CloseUnlogged(w, p) ==
  /\ pos' = ClosePosition(p, p.gov, Price).position
  /\ UNCHANGED journal

Close(w, p) ==
  LET closed == ClosePosition(p, p.gov, Price)
  IN  /\ pos' = closed.position
      /\ journal' = Journalled(closed.fills, pass[w].bar)

\* The position to close is read before the funding rates are awaited, and
\* closed as read afterwards.
ExitStep(w) ==
  /\ running = w /\ pass[w].pc = "exit"
  /\ IF ~(GoverningHere(w) /\ pass[w].crosses)
     THEN /\ pass' = [pass EXCEPT ![w].pc = "eval"]
          /\ UNCHANGED <<pos, journal, running>>
     ELSE IF FundingAwait
     THEN /\ pass' = [pass EXCEPT ![w].pc = "funding", ![w].held = pos]
          /\ running' = Nobody
          /\ UNCHANGED <<pos, journal>>
     ELSE /\ pass' = [pass EXCEPT ![w].pc = "eval"]
          /\ Close(w, pos)
          /\ UNCHANGED running
  /\ misread' = IF GoverningHere(w) /\ ~pass[w].final
                THEN misread \union {<<Group(w), pass[w].bar>>} ELSE misread
  /\ UNCHANGED <<bars, pool, streams, lastEval, paused, globalHalt, disk,
                 interventions, crashes>>

FundingDone(w) ==
  /\ running = Nobody /\ pass[w].pc = "funding"
  /\ Close(w, pass[w].held)
  /\ pass' = [pass EXCEPT ![w].pc = "eval", ![w].held = FlatPosition]
  /\ running' = w
  /\ UNCHANGED <<bars, pool, streams, lastEval, paused, globalHalt, disk,
                 interventions, crashes, misread>>

Strat(w) == Head(pass[w].strats)
\* Mutant: a candle already evaluated is new again.
IsNewOrSame(w) == pass[w].bar >= lastEval[Strat(w)]
IsNew(w) == pass[w].bar > lastEval[Strat(w)]
MayEnter(w) == IsNew(w) /\ Strat(w) \notin paused /\ ~globalHalt

\* The strategy is done with this bar: on to the next one.
Evaluated(w, new) ==
  /\ lastEval' = IF new THEN [lastEval EXCEPT ![Strat(w)] = pass[w].bar] ELSE lastEval
  /\ pass' = [pass EXCEPT ![w].pc = "eval", ![w].strats = Tail(@), ![w].qty = 0]
  /\ running' = w

\* Mutant: the margin already in use is not counted.
WholeCap(s) == Cap

\* computeEntryMargin's headroom, as a quantity.
Headroom(s) == Cap - (IF pos.direction = DirOf[s] THEN pos.qty ELSE 0)

\* A quantity times a size, in whole units and never rounded to nothing.
Scaled(q, size) == Greatest(1, (q * size) \div Whole)

IntentOf(s, bar) ==
  [strategyId |-> s, direction |-> DirOf[s], trailing |-> FALSE, entryIdx |-> bar]

Enter(w, q) ==
  LET entered == ApplyIntent(pos, IntentOf(Strat(w), pass[w].bar), Price, q)
  IN  /\ pos' = entered.position
      /\ journal' = Journalled(entered.fills, pass[w].bar)

\* A signal fired: clip it to the headroom, multiply what is left by the size of
\* the strategy, and enter now or after the AI gate's answer.
Fired(w) ==
  LET q == Least(SizeOf[Strat(w)], Headroom(Strat(w)))
  IN  \/ q <= 0 /\ Evaluated(w, TRUE) /\ UNCHANGED <<pos, journal>>
      \/ \E m \in Multipliers :
           \/ q > 0 /\ ~AiMode /\ Enter(w, Scaled(q, m)) /\ Evaluated(w, TRUE)
           \/ /\ q > 0 /\ AiMode
              /\ pass' = [pass EXCEPT ![w].pc = "gate", ![w].qty = Scaled(q, m)]
              /\ running' = Nobody
              /\ UNCHANGED <<pos, journal, lastEval>>

EvalStep(w) ==
  /\ running = w /\ pass[w].pc = "eval" /\ pass[w].strats # <<>>
  /\ \/ /\ ~MayEnter(w)
        /\ Evaluated(w, IsNew(w)) /\ UNCHANGED <<pos, journal>>
     \/ /\ MayEnter(w) /\ Strat(w) \in HtfReaders
        /\ pass' = [pass EXCEPT ![w].pc = "htf"]
        /\ running' = Nobody
        /\ UNCHANGED <<pos, journal, lastEval>>
     \/ /\ MayEnter(w) /\ Strat(w) \notin HtfReaders
        /\ \/ Evaluated(w, TRUE) /\ UNCHANGED <<pos, journal>>
           \/ Fired(w)
  /\ UNCHANGED <<bars, pool, streams, paused, globalHalt, disk, interventions, crashes, misread>>

HtfDone(w) ==
  /\ running = Nobody /\ pass[w].pc = "htf"
  /\ \/ Evaluated(w, TRUE) /\ UNCHANGED <<pos, journal>>
     \/ Fired(w)
  /\ UNCHANGED <<bars, pool, streams, paused, globalHalt, disk, interventions, crashes, misread>>

\* The gate's answer, acted on with the quantity sized before it was asked, times
\* the size the gate says. (Approvals of nothing are Accounts' matter.)
GateDone(w) ==
  /\ running = Nobody /\ pass[w].pc = "gate"
  /\ \/ UNCHANGED <<pos, journal>>
     \/ \E size \in GateSizes : Enter(w, Scaled(pass[w].qty, size))
  /\ Evaluated(w, TRUE)
  /\ UNCHANGED <<bars, pool, streams, paused, globalHalt, disk, interventions, crashes, misread>>

EvalEnd(w) ==
  /\ running = w /\ pass[w].pc = "eval" /\ pass[w].strats = <<>>
  /\ EndGroup(w)
  /\ UNCHANGED <<bars, pool, streams, memory, globalHalt, journal,
                 interventions, crashes, misread>>

-----------------------------------------------------------------------------
(* What happens around the passes.                                         *)

BarCloses(g, crosses) ==
  /\ running = Nobody
  /\ Closed(g) < MaxBar
  /\ bars' = [bars EXCEPT ![g] = Append(@, crosses)]
  /\ UNCHANGED <<pool, streams, memory, globalHalt, disk, journal, pass, running,
                 interventions, crashes, misread>>

Intervene ==
  /\ running = Nobody
  /\ interventions < MaxInterventions
  /\ interventions' = interventions + 1

\* setPaused saves the whole state at once, whatever passes are half way.
SetPaused(s, on) ==
  /\ Intervene
  /\ on <=> s \notin paused
  /\ paused' = IF on THEN paused \union {s} ELSE paused \ {s}
  /\ disk' = [Saved EXCEPT !.paused = paused']
  /\ UNCHANGED <<bars, pool, streams, pos, lastEval, globalHalt, journal, pass, running,
                 crashes, misread>>

SetGlobalHalt(on) ==
  /\ Intervene
  /\ on <=> ~globalHalt
  /\ globalHalt' = on
  /\ UNCHANGED <<bars, pool, streams, memory, disk, journal, pass, running,
                 crashes, misread>>

\* reloadPool: pruned strategies leave, new ones join at the end; the streams
\* keep the arrays they captured.
ReloadPool(enabled) ==
  /\ Intervene
  /\ enabled # Range(pool)
  /\ pool' = Filter(pool, enabled) \o Filter(Order, enabled \ Range(pool))
  /\ disk' = Saved
  /\ UNCHANGED <<bars, streams, memory, globalHalt, journal, pass, running,
                 crashes, misread>>

\* The process dies and the watchdog restarts it from its files.
Crash ==
  /\ crashes < MaxCrashes
  /\ crashes' = crashes + 1
  /\ pos' = disk.pos /\ lastEval' = disk.lastEval /\ paused' = disk.paused
  /\ globalHalt' = FALSE
  /\ pool' = Filter(Order, Range(pool))
  /\ attached' = [g \in Streamed |-> StratsOf(pool', g)]
  /\ heard' = [g \in Streamed |-> Closed(g)]
  /\ pass' = [w \in Passes |-> Idle]
  /\ running' = Nobody
  /\ UNCHANGED <<bars, disk, journal, interventions, misread>>

Next ==
  \/ PollStart
  \/ \E g \in Streamed : StreamFire(g)
  \/ \E w \in Passes : FetchFail(w) \/ FetchDone(w) \/ ExitStep(w) \/ FundingDone(w)
                       \/ EvalStep(w) \/ HtfDone(w) \/ GateDone(w) \/ EvalEnd(w)
  \/ \E g \in Groups, crosses \in BOOLEAN : BarCloses(g, crosses)
  \/ \E s \in Strategies, on \in BOOLEAN : SetPaused(s, on)
  \/ \E on \in BOOLEAN : SetGlobalHalt(on)
  \/ \E enabled \in SUBSET Strategies : ReloadPool(enabled)
  \/ Crash

Spec == Init /\ [][Next]_vars

\* The poll loop restarts after every pass, the event loop runs code that is
\* ready, and what is awaited settles (requests and the AI gate time out); the
\* candles of a group are asked for again and again, and not always refused.
FetchDoneOf(g) == pass[Poll].pc = "fetch" /\ Group(Poll) = g /\ FetchDone(Poll)

Fairness ==
  /\ WF_vars(PollStart)
  /\ \A g \in Groups : SF_vars(FetchDoneOf(g))
  /\ WF_vars(\E w \in Passes : ExitStep(w) \/ EvalStep(w) \/ EvalEnd(w))
  /\ \A w \in Passes : SF_vars(FundingDone(w) \/ HtfDone(w) \/ GateDone(w))

FairSpec == Spec /\ Fairness

-----------------------------------------------------------------------------
(* Properties.                                                             *)

LotsBy(s, lots) == {i \in DOMAIN lots : lots[i].strategyId = s}
SignedQty(p) == IF p.direction = "short" THEN -p.qty ELSE p.qty

TypeOK ==
  /\ \A g \in Groups : bars[g] \in Seq(BOOLEAN) /\ Closed(g) \in 1 .. MaxBar
  /\ Range(pool) \subseteq Strategies
  /\ pos.direction \in Directions \union {"none"} /\ pos.qty \in Nat
  /\ pos.direction = "none" <=> pos = FlatPosition
  /\ pos.gov \in Strategies \union {NoOne}
  /\ lastEval \in [Strategies -> 0 .. MaxBar]
  /\ paused \in SUBSET Strategies
  /\ globalHalt \in BOOLEAN
  /\ DOMAIN disk = {"pos", "lastEval", "paused"}
  /\ journal.net \in Int
  /\ \A w \in Passes :
       /\ pass[w].pc \in {"idle", "fetch", "exit", "funding", "eval", "htf", "gate"}
       /\ pass[w].pc # "idle" => Len(pass[w].groups) > 0
  /\ running \in Passes \union {Nobody}
  /\ running # Nobody => pass[running].pc \in {"exit", "eval"}
  /\ misread \subseteq Groups \X (1 .. MaxBar)

\* A strategy enters at most once on a candle, whichever of the poll and the
\* stream sees it first; every crash may replay one entry that the journal had
\* and the state file had not (the isNew check of processGroup).
EntryOncePerCandle ==
  \A s \in Strategies, b \in 1 .. MaxBar :
                    journal.entries[s][b] <= 1 + crashes

\* The journal, which the breaker and every report replay, accounts for the
\* position held: journalFills writes each fill where the position changes.
JournalReplaysToPosition ==
  crashes = 0 => journal.net = SignedQty(pos)

\* Write-ahead: whatever was lost in a crash or an overlap, a lot of the
\* position or of the state file has its entry in the journal.
LotsAreJournalled ==
  \A s \in Strategies, p \in {pos, disk.pos} :
     Cardinality(LotsBy(s, p.lots)) <= TotalOf(journal.entries[s])

\* Whatever order the awaits end in, the journal replays to the position held, and
\* a crash leaves no lot, held or in the state file, without its journalled entry.
JournalAccounts == TypeOK /\ JournalReplaysToPosition /\ LotsAreJournalled

\* The margin in use passes maxMarginUtilizationPct by no more than what multiplies
\* an entry after it was clipped to the headroom: sizeMultiplier and the size the AI
\* gate answers. What was added before counts, and past the ceiling nothing is added.
ExposureIsBounded == pos.qty <= Scaled(Scaled(Cap, MaxMultiplier), MaxGateSize)

\* A candle counts as evaluated for the governing strategy only once its exits
\* were checked on it: had it crossed a level, the position would be closed.
EvaluatedBarsAreSafe ==
  pos.direction # "none"
    => LET g == GroupOf[pos.gov]
           b == lastEval[pos.gov]
       IN  b > pos.entryIdx => ~bars[g][b] \/ <<g, b>> \in misread

\* A strategy enters once per candle, the margin passes its ceiling by no more than
\* the multipliers that come after it, and a candle counts as evaluated only once the
\* exits were checked on it.
RunnerIsSafe == EntryOncePerCandle /\ ExposureIsBounded /\ EvaluatedBarsAreSafe

\* The last candle of the governing group crosses an exit level of the position.
Crossed ==
  /\ pos.direction # "none"
  /\ LET g == GroupOf[pos.gov]
     IN  Closed(g) > pos.entryIdx /\ bars[g][Closed(g)] /\ <<g, Closed(g)>> \notin misread

\* What reloadPool's comment promises of a pruned strategy: its open position
\* still exits, as exits do not depend on the pool (while the poll has a pool).
PrunedPositionExits == []<>~(Crossed /\ pool # <<>> /\ pos.gov \notin Range(pool))

\* A strategy that stays in the pool is evaluated on the latest candle, once no
\* newer one closes, whatever streams drop and requests fail: the poll is the
\* fallback entry path (tick).
PollCatchesUp ==
  \A s \in Strategies :
    <>[](s \in Range(pool)) => <>[](lastEval[s] = Closed(GroupOf[s]))
=============================================================================
