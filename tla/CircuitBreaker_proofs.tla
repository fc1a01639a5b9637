----------------------- MODULE CircuitBreaker_proofs -----------------------
(***************************************************************************)
(* The breaker's two flags of a strategy agree, a daily halt holds and a    *)
(* pause outlasts its cooldown, for every pool of strategies, every history *)
(* of trades and every parameter.  Of the parts checked beside it: the      *)
(* reviews of the journal follow it whatever fails and restarts, a fill and *)
(* a strategy that becomes ready are announced at most once, a drift is     *)
(* alerted once, and a request to a model is given up last.                 *)
(***************************************************************************)
EXTENDS MCSafety, FoldTheorems, FiniteSetTheorems

\* What the agreement of the flags rests on: between two actions the breaker's
\* memory and its file are equal, so a restart reads what was decided.  The
\* count of an entry is left free: no flag depends on its type.
IsEntry(e) == e \in [paused : BOOLEAN, pausedTradeCount : {e.pausedTradeCount}]

FlagsInv ==
  /\ \A s \in Strategies : IsEntry(entry[s])
  /\ paused \in [Strategies -> BOOLEAN]
  /\ entryDisk = entry
  /\ PauseFlagsAgree

\* What the halt rests on: while the process is up, the date of the last trip
\* is the breaker's halt date until the day changes.
HaltInv ==
  /\ day \in Nat
  /\ tripped = NoDate \/ (tripped \in Nat /\ tripped <= day)
  /\ crashes \in Nat
  /\ (crashes = 0 /\ tripped = day) => (globalHalt /\ haltDate = day)

-----------------------------------------------------------------------------

\* One turn of check()'s loop leaves a strategy with an entry, and with a flag
\* that says the same if they agreed before.
LEMMA TurnsAgree ==
  ASSUME NEW s \in Strategies, IsEntry(entry[s]), paused[s] \in BOOLEAN
  PROVE  /\ IsEntry(EntryAfter(s))
         /\ PausedAfter(s) \in BOOLEAN
         /\ (entry[s].paused <=> paused[s]) => (EntryAfter(s).paused <=> PausedAfter(s))
<1> DEFINE e == entry[s]
<1>1. e.paused \in BOOLEAN
         /\ e = [paused |-> e.paused, pausedTradeCount |-> e.pausedTradeCount]
  BY DEF IsEntry
<1>2. CASE ShouldPause(s)
  BY <1>2 DEF EntryAfter, PausedAfter, IsEntry
<1>3. CASE ~ShouldPause(s) /\ ShouldResume(s)
  <2>1. EntryAfter(s) = [e EXCEPT !.paused = FALSE] /\ PausedAfter(s) = FALSE
    BY <1>3 DEF EntryAfter, PausedAfter
  <2>2. EntryAfter(s) = [paused |-> FALSE, pausedTradeCount |-> e.pausedTradeCount]
    BY <1>1, <2>1
  <2>3. QED
    BY <2>1, <2>2 DEF IsEntry
<1>4. CASE ~ShouldPause(s) /\ ~ShouldResume(s)
  <2>1. PausedAfter(s) = paused[s]
    BY <1>4 DEF PausedAfter
  <2>2. CASE CooledDown(s)
    <3> DEFINE n == Len(TradesOf(s))
    <3>1. EntryAfter(s) = [e EXCEPT !.pausedTradeCount = n]
      BY <1>4, <2>2 DEF EntryAfter
    <3>2. EntryAfter(s) = [paused |-> e.paused, pausedTradeCount |-> n]
      <4> HIDE DEF n
      <4> QED BY <1>1, <3>1
    <3>3. QED
      <4> HIDE DEF n
      <4> QED BY <1>1, <2>1, <3>2 DEF IsEntry
  <2>3. CASE ~CooledDown(s)
    BY <1>4, <2>1, <2>3 DEF EntryAfter
  <2>4. QED
    BY <2>2, <2>3
<1>5. QED
  BY <1>2, <1>3, <1>4

\* Neither the flags nor their agreement depend on anything else.
LEMMA FlagsKept ==
  ASSUME FlagsInv, UNCHANGED <<paused, entry, entryDisk, torn>>
  PROVE  FlagsInv'
  BY DEF FlagsInv, PauseFlagsAgree, IsEntry

LEMMA CheckFlags ==
  ASSUME FlagsInv, NEW mark, Check(mark)
  PROVE  FlagsInv'
<1>1. /\ entry' = [s \in Strategies |-> EntryAfter(s)]
      /\ paused' = [s \in Strategies |-> PausedAfter(s)]
      /\ entryDisk' = entry' /\ torn' = torn
  BY DEF Check
<1>2. ASSUME NEW s \in Strategies
      PROVE  /\ IsEntry(entry'[s]) /\ paused'[s] \in BOOLEAN
             /\ s \notin torn' => (entry'[s].paused <=> paused'[s])
  <2>1. IsEntry(entry[s]) /\ paused[s] \in BOOLEAN
    BY DEF FlagsInv
  <2>2. s \notin torn => (entry[s].paused <=> paused[s])
    BY DEF FlagsInv, PauseFlagsAgree
  <2>3. entry'[s] = EntryAfter(s) /\ paused'[s] = PausedAfter(s)
    BY <1>1
  <2>4. QED
    BY <1>1, <2>1, <2>2, <2>3, TurnsAgree
<1>3. QED
  BY <1>1, <1>2 DEF FlagsInv, PauseFlagsAgree, IsEntry

LEMMA CrashFlags ==
  ASSUME FlagsInv, NEW turns, CrashInCheck(turns)
  PROVE  FlagsInv'
<1>1. /\ entry' = entry /\ entryDisk' = entry
      /\ paused' = [s \in Strategies |-> IF s \in turns THEN PausedAfter(s) ELSE paused[s]]
      /\ torn' = torn \union {s \in turns : PausedAfter(s) # paused[s]}
  BY DEF CrashInCheck, Restart, FlagsInv
<1>2. ASSUME NEW s \in Strategies
      PROVE  /\ paused'[s] \in BOOLEAN
             /\ s \notin torn' => (entry'[s].paused <=> paused'[s])
  <2>1. IsEntry(entry[s]) /\ paused[s] \in BOOLEAN
    BY DEF FlagsInv
  <2>2. s \notin torn => (entry[s].paused <=> paused[s])
    BY DEF FlagsInv, PauseFlagsAgree
  <2>3. PausedAfter(s) \in BOOLEAN
    BY <2>1, TurnsAgree
  <2>4. QED
    BY <1>1, <2>1, <2>2, <2>3
<1>3. QED
  BY <1>1, <1>2 DEF FlagsInv, PauseFlagsAgree, IsEntry

-----------------------------------------------------------------------------

LEMMA CheckHalt ==
  ASSUME HaltInv, NEW mark, Check(mark)
  PROVE  HaltInv'
<1>1. day' = day /\ crashes' = crashes /\ CheckDailyLoss(mark)
  BY DEF Check
<1>2. CASE haltDate # day /\ Breached(mark)
  BY <1>1, <1>2 DEF CheckDailyLoss, HaltInv
<1>3. CASE ~(haltDate # day /\ Breached(mark))
  BY <1>1, <1>3 DEF CheckDailyLoss, HaltInv
<1>4. QED
  BY <1>2, <1>3

LEMMA RestartHalt ==
  ASSUME HaltInv, Restart
  PROVE  HaltInv'
  BY DEF HaltInv, Restart

\* What is open, and what is about to be, is counted.
Lots == [Strategies -> Int]
Passes == [Strategies -> Nat]

Inv == FlagsInv /\ HaltInv /\ open \in Lots /\ passes \in Passes

LEMMA InitInv == Init => Inv
<1> SUFFICES ASSUME Init PROVE Inv
  OBVIOUS
<1>1. FlagsInv
  BY DEF Init, FlagsInv, PauseFlagsAgree, IsEntry, Running
<1>2. HaltInv
  BY BreakerAssumption DEF Init, HaltInv, BreakerAssumption
<1>3. open \in Lots /\ passes \in Passes
  BY DEF Init, Lots, Passes
<1>4. QED
  BY <1>1, <1>2, <1>3 DEF Inv

LEMMA StepInv == Inv /\ [Next]_vars => Inv'
<1> SUFFICES ASSUME Inv, [Next]_vars PROVE Inv'
  OBVIOUS
<1> USE DEF Inv
<1>1. ASSUME NEW s \in Strategies, BeginEntry(s) \/ Enter(s) \/ GiveUpEntry(s) PROVE Inv'
  <2>1. FlagsInv'
    BY <1>1, FlagsKept DEF BeginEntry, Enter, GiveUpEntry, persistent, history
  <2>2. HaltInv'
    BY <1>1 DEF BeginEntry, Enter, GiveUpEntry, HaltInv, history
  <2>3. open' \in Lots /\ passes' \in Passes
    BY <1>1 DEF BeginEntry, Enter, GiveUpEntry, Lots, Passes
  <2>4. QED
    BY <2>1, <2>2, <2>3
<1>2. ASSUME NEW s \in Strategies, NEW pnl \in Pnls, 
             NEW left \in {open[s] - 1, open[s]}, CloseTrade(s, pnl, left)
      PROVE  Inv'
  <2>1. FlagsInv'
    BY <1>2, FlagsKept DEF CloseTrade, persistent, history
  <2>2. HaltInv'
    BY <1>2 DEF CloseTrade, HaltInv, history
  <2>3. open' \in Lots /\ passes' \in Passes
    BY <1>2 DEF CloseTrade, Lots, Passes
  <2>4. QED
    BY <2>1, <2>2, <2>3
<1>3. CASE NewDay
  <2>1. FlagsInv'
    BY <1>3, FlagsKept DEF NewDay, persistent, history
  <2>2. HaltInv'
    BY <1>3, BreakerAssumption DEF NewDay, HaltInv, history, BreakerAssumption
  <2>3. QED
    BY <1>3, <2>1, <2>2 DEF NewDay
<1>4. ASSUME NEW mark \in Marks, Check(mark) PROVE Inv'
  BY <1>4, CheckFlags, CheckHalt DEF Check
<1>5. CASE Crash
  <2>1. FlagsInv'
    BY <1>5, FlagsKept DEF Crash, Restart, FlagsInv
  <2>2. HaltInv'
    BY <1>5, RestartHalt DEF Crash
  <2>3. QED
    BY <1>5, <2>1, <2>2 DEF Crash, Restart, Lots, Passes
<1>6. ASSUME NEW turns \in SUBSET Strategies, CrashInCheck(turns) PROVE Inv'
  BY <1>6, CrashFlags, RestartHalt DEF CrashInCheck, Restart, Lots, Passes
<1>7. CASE UNCHANGED vars
  <2>1. FlagsInv'
    BY <1>7, FlagsKept DEF vars, persistent, history
  <2>2. HaltInv'
    BY <1>7 DEF vars, HaltInv, history
  <2>3. QED
    BY <1>7, <2>1, <2>2 DEF vars
<1>8. QED
  BY <1>1, <1>2, <1>3, <1>4, <1>5, <1>6, <1>7 DEF Next

\* The two files say the same of every strategy no crash cut a check in half
\* for: StrategyCircuitBreaker's state and the runner's paused flags.
THEOREM PauseFlagsAlwaysAgree == Spec => []PauseFlagsAgree
<1>1. Inv => PauseFlagsAgree
  BY DEF Inv, FlagsInv
<1>2. QED
  BY <1>1, InitInv, StepInv, PTL DEF Spec

\* While the process stays up, what enters on the day of a daily-loss halt had passed
\* the test before the halt: no entry begins, and each of those under way enters at
\* most once, whatever trades close and whatever later checks see.
THEOREM HaltedDayHasNoEntry == Spec => NoEntryOnHaltedDay
<1> DEFINE NoEntry == tripped = day /\ crashes = 0
                        => \A s \in Strategies : open'[s] + passes'[s] <= open[s] + passes[s]
<1>1. Inv /\ [Next]_vars => [NoEntry]_vars
  <2> SUFFICES ASSUME Inv, Next, tripped = day, crashes = 0, NEW r \in Strategies
               PROVE  open'[r] + passes'[r] <= open[r] + passes[r]
    OBVIOUS
  <2>1. globalHalt /\ open \in Lots /\ passes \in Passes /\ crashes \in Nat
    BY DEF Inv, HaltInv
  <2>2. open[r] \in Int /\ passes[r] \in Int
    BY <2>1 DEF Lots, Passes
  <2>3. ASSUME NEW s \in Strategies, BeginEntry(s) PROVE FALSE
    BY <2>1, <2>3 DEF BeginEntry
  <2>4. ASSUME NEW s \in Strategies, Enter(s) \/ GiveUpEntry(s)
        PROVE  open'[r] + passes'[r] <= open[r] + passes[r]
    <3>1. open[s] \in Int /\ passes[s] \in Nat
      BY <2>1 DEF Lots, Passes
    <3>2. /\ open'[r] \in {open[r], IF r = s THEN open[r] + 1 ELSE open[r]}
          /\ passes'[r] = IF r = s THEN passes[r] - 1 ELSE passes[r]
      BY <2>1, <2>4 DEF Enter, GiveUpEntry, Lots, Passes
    <3> QED BY <2>2, <3>2
  <2>5. ASSUME NEW s \in Strategies, NEW pnl \in Pnls,
               NEW left \in {open[s] - 1, open[s]}, CloseTrade(s, pnl, left)
        PROVE  open'[r] + passes'[r] <= open[r] + passes[r]
    BY <2>1, <2>2, <2>5 DEF CloseTrade, Lots, Passes
  <2>6. CASE UNCHANGED <<open, passes>>
    BY <2>2, <2>6
  <2>7. CASE Restart
    <3>1. open' = open /\ passes' = [s \in Strategies |-> 0]
      BY <2>7 DEF Restart
    <3>2. passes[r] \in Nat
      BY <2>1 DEF Passes
    <3> QED BY <2>2, <3>1, <3>2
  <2> QED BY <2>3, <2>4, <2>5, <2>6, <2>7 DEF Next, NewDay, Check, Crash, CrashInCheck
<1>2. QED
  BY <1>1, InitInv, StepInv, PTL DEF Spec, NoEntryOnHaltedDay

-----------------------------------------------------------------------------
(* The trades of one strategy among all of them.                           *)

\* What is kept of a list after each of its trades.
Kept(own, s, list, R) ==
  /\ own \in [0 .. Len(list) -> Seq(R)] /\ own[0] = <<>>
  /\ \A i \in 1 .. Len(list) :
       own[i] = IF list[i].s = s THEN Append(own[i - 1], list[i]) ELSE own[i - 1]

LEMMA KeptUnrolls ==
  ASSUME NEW R, NEW list \in Seq(R), NEW s
  PROVE  \E own : Kept(own, s, list, R) /\ OfStrategy(s, list) = own[Len(list)]
<1> DEFINE n == Len(list)
           S == Seq(R)
           next(was, t) == IF t.s = s THEN Append(was, t) ELSE was
           IsFold(g) == g = [d \in SUBSET (1 .. n) |->
                               IF d = {} THEN <<>> ELSE next(g[d \ {Max(d)}], list[Max(d)])]
           iter == CHOOSE g : IsFold(g)
           step == [a \in (1 .. n) \X S |-> next(a[2], list[a[1]])]
           own == [i \in 0 .. n |-> iter[1 .. i]]
<1>1. OfStrategy(s, list) = iter[1 .. n]
  <2>1. DOMAIN list = 1 .. n OBVIOUS
  <2> HIDE DEF step, S
  <2> QED BY <2>1 DEF OfStrategy, FoldLeft, MapThenFoldSet
<1>2. n \in Nat /\ <<>> \in S /\ \A i \in 1 .. n : list[i] \in R
  OBVIOUS
<1>3. \A was \in S, t \in R : next(was, t) \in S
  OBVIOUS
<1>4. step = [a \in (1 .. n) \X S |-> next(a[2], list[a[1]])]
  OBVIOUS
<1> HIDE DEF n, S, next, step, iter, IsFold
<1>5. step \in [(1 .. n) \X S -> S]
  <2>1. \A a \in (1 .. n) \X S : next(a[2], list[a[1]]) \in S
    BY <1>2, <1>3
  <2> QED BY <1>4, <2>1
<1>6. PICK f \in [SUBSET (1 .. n) -> S] : FoldsTo(f, n, <<>>, step)
  BY <1>2, <1>5, FoldExists
<1>7. IsFold(f)
  <2>1. ASSUME NEW d \in SUBSET (1 .. n)
        PROVE  f[d] = IF d = {} THEN <<>> ELSE next(f[d \ {Max(d)}], list[Max(d)])
    <3>1. d # {} => Max(d) \in 1 .. n /\ f[d \ {Max(d)}] \in S
      BY <1>2, MaxUpTo
    <3> QED BY <1>4, <1>6, <3>1 DEF FoldsTo
  <2> QED BY <2>1 DEF IsFold
<1>8. IsFold(iter)
  BY <1>7 DEF iter
<1>9. iter[{}] = <<>>
  <2>1. {} \in SUBSET (1 .. n) OBVIOUS
  <2> QED BY <1>8, <2>1 DEF IsFold
<1>10. \A i \in 1 .. n : iter[1 .. i] = next(iter[1 .. i - 1], list[i])
  <2> TAKE i \in 1 .. n
  <2>1. /\ 1 .. i \in SUBSET (1 .. n) /\ 1 .. i # {}
        /\ Max(1 .. i) = i /\ (1 .. i) \ {i} = 1 .. i - 1
    BY <1>2, IntervalStep
  <2>2. iter[1 .. i] = next(iter[(1 .. i) \ {Max(1 .. i)}], list[Max(1 .. i)])
    BY <1>8, <2>1 DEF IsFold
  <2> QED BY <2>1, <2>2
<1>11. \A i \in 0 .. n : iter[1 .. i] \in S
  <2>1. \A i \in 1 .. n : iter[1 .. i - 1] \in S => iter[1 .. i] \in S
    BY <1>2, <1>3, <1>10
  <2> QED BY <1>2, <1>9, <2>1, FoldReaches
<1>12. own \in [0 .. n -> S] /\ own[0] = <<>> /\ own[n] = iter[1 .. n]
  <2>1. 0 \in 0 .. n /\ n \in 0 .. n /\ 1 .. 0 = {}
    BY <1>2
  <2> QED BY <1>9, <1>11, <2>1
<1>13. \A i \in 1 .. n : own[i] = next(own[i - 1], list[i])
  <2>1. \A i \in 1 .. n : i \in 0 .. n /\ i - 1 \in 0 .. n
    BY <1>2
  <2> QED BY <1>10, <2>1
<1> HIDE DEF own
<1>14. Kept(own, s, list, R)
  BY <1>12, <1>13 DEF Kept, n, S, next
<1> QED BY <1>1, <1>12, <1>14 DEF n

-----------------------------------------------------------------------------
(* Types, and the trades since a pause.                                    *)

Trades == [s : Strategies, pnl : Pnls, day : Dates]

\* The count a paused strategy was anchored at is that of its own trades then.
CooldownInv ==
  \A s \in Strategies :
    entry[s].paused
      => /\ anchorLen[s] <= Len(trades)
         /\ entry[s].pausedTradeCount = Len(OfStrategy(s, SubSeq(trades, 1, anchorLen[s])))

StateInv == TypeOK /\ CooldownInv

LEMMA OwnTrades ==
  ASSUME trades \in Seq(Trades), NEW s
  PROVE  TradesOf(s) \in Seq(Trades) /\ Len(TradesOf(s)) \in Nat
<1>1. PICK own : Kept(own, s, trades, Trades) /\ OfStrategy(s, trades) = own[Len(trades)]
  BY KeptUnrolls
<1>2. Len(trades) \in 0 .. Len(trades)
  OBVIOUS
<1> QED BY <1>1, <1>2 DEF Kept, TradesOf

\* Nothing of the cooldown changes with the rest of the state.
LEMMA CooldownKept ==
  ASSUME CooldownInv, UNCHANGED <<trades, entry, anchorLen>>
  PROVE  CooldownInv'
  BY DEF CooldownInv

\* Nor do the types, what is open and about to be apart.
LotsOK ==
  /\ open \in [Strategies -> Nat] /\ passes \in [Strategies -> Nat]
  /\ \A s \in Strategies : open[s] + passes[s] <= MaxOpen

LEMMA EntryKeepsState ==
  ASSUME StateInv, LotsOK',
         UNCHANGED <<trades, day, persistent, globalHalt, haltDate, entry, crashes, history>>
  PROVE  StateInv'
<1>1. CooldownInv'
  BY CooldownKept DEF StateInv, history
<1>2. TypeOK'
  BY DEF StateInv, TypeOK, LotsOK, persistent, history
<1> QED BY <1>1, <1>2 DEF StateInv

LEMMA EntryState ==
  ASSUME StateInv, NEW s \in Strategies, BeginEntry(s) \/ Enter(s) \/ GiveUpEntry(s)
  PROVE  StateInv'
<1>1. LotsOK /\ MaxOpen \in Nat
  BY BreakerAssumption DEF StateInv, TypeOK, LotsOK, BreakerAssumption
<1>2. ASSUME BeginEntry(s) PROVE LotsOK'
  BY <1>1, <1>2 DEF BeginEntry, LotsOK
<1>3. ASSUME Enter(s) PROVE LotsOK'
  BY <1>1, <1>3 DEF Enter, LotsOK
<1>4. ASSUME GiveUpEntry(s) PROVE LotsOK'
  BY <1>1, <1>4 DEF GiveUpEntry, LotsOK
<1>5. UNCHANGED <<trades, day, persistent, globalHalt, haltDate, entry, crashes, history>>
  BY DEF BeginEntry, Enter, GiveUpEntry
<1> QED BY <1>2, <1>3, <1>4, <1>5, EntryKeepsState

LEMMA CloseTradeState ==
  ASSUME StateInv, NEW s \in Strategies, NEW pnl \in Pnls,
         NEW left \in {open[s] - 1, open[s]}, CloseTrade(s, pnl, left)
  PROVE  StateInv'
<1> DEFINE t == [s |-> s, pnl |-> pnl, day |-> day]
<1>1. /\ trades \in Seq(Trades) /\ t \in Trades /\ trades' = Append(trades, t)
      /\ entry' = entry /\ anchorLen' = anchorLen
  BY DEF StateInv, TypeOK, Trades, CloseTrade, history
<1>2. TypeOK'
  <2>1. LotsOK /\ open[s] > 0 /\ MaxOpen \in Nat
    BY BreakerAssumption DEF StateInv, TypeOK, LotsOK, CloseTrade, BreakerAssumption
  <2>2. LotsOK'
    <3>1. left \in Nat /\ left <= open[s]
      BY <2>1 DEF LotsOK
    <3> QED BY <2>1, <3>1 DEF CloseTrade, LotsOK
  <2>3. trades' \in Seq(Trades)
    BY <1>1
  <2> QED BY <1>1, <2>2, <2>3
          DEF StateInv, TypeOK, Trades, CloseTrade, persistent, history, LotsOK
<1> HIDE DEF t
<1>3. ASSUME NEW r \in Strategies, entry[r].paused
      PROVE  /\ anchorLen[r] <= Len(trades')
             /\ SubSeq(trades', 1, anchorLen[r]) = SubSeq(trades, 1, anchorLen[r])
  <2>1. anchorLen[r] \in Nat /\ anchorLen[r] <= Len(trades)
    BY <1>3 DEF StateInv, TypeOK, CooldownInv
  <2> QED BY <1>1, <2>1
<1>4. CooldownInv'
  BY <1>1, <1>3 DEF StateInv, CooldownInv
<1> QED BY <1>2, <1>4 DEF StateInv

\* The entries after a check, and the trades counted when they were anchored.
LEMMA CheckState ==
  ASSUME StateInv, NEW mark \in Marks, Check(mark)
  PROVE  StateInv'
<1>1. /\ TypeOK /\ CooldownInv /\ trades \in Seq(Trades) /\ Len(trades) \in Nat
      /\ \A s \in Strategies : Len(TradesOf(s)) \in Nat
  BY OwnTrades DEF StateInv, TypeOK, Trades
<1>2. /\ entry' = [s \in Strategies |-> EntryAfter(s)] /\ entryDisk' = entry'
      /\ paused' = [s \in Strategies |-> PausedAfter(s)]
      /\ trades' = trades /\ open' = open /\ passes' = passes /\ day' = day
      /\ crashes' = crashes /\ torn' = torn
      /\ looked' = Len(trades)
      /\ anchorLen' = [s \in Strategies |-> IF ShouldPause(s) \/ CooledDown(s) THEN Len(trades)
                                            ELSE anchorLen[s]]
      /\ CheckDailyLoss(mark)
  BY DEF Check
<1>3. ASSUME NEW s \in Strategies
      PROVE  /\ EntryAfter(s) \in [paused : BOOLEAN, pausedTradeCount : Nat]
             /\ PausedAfter(s) \in BOOLEAN
             /\ EntryAfter(s).paused
                  => \/ EntryAfter(s).pausedTradeCount = Len(TradesOf(s))
                        /\ (ShouldPause(s) \/ CooledDown(s))
                     \/ EntryAfter(s) = entry[s] /\ ~(ShouldPause(s) \/ CooledDown(s))
  <2> DEFINE n == Len(TradesOf(s))
  <2>1. entry[s] \in [paused : BOOLEAN, pausedTradeCount : Nat] /\ paused[s] \in BOOLEAN /\ n \in Nat
    BY <1>1 DEF TypeOK
  <2>2. EntryAfter(s) = IF ShouldPause(s) THEN [paused |-> TRUE, pausedTradeCount |-> n]
                        ELSE IF ShouldResume(s) THEN [entry[s] EXCEPT !.paused = FALSE]
                        ELSE IF CooledDown(s) THEN [entry[s] EXCEPT !.pausedTradeCount = n]
                        ELSE entry[s]
    BY DEF EntryAfter
  <2>3. PausedAfter(s) \in BOOLEAN
    BY <2>1 DEF PausedAfter
  <2> HIDE DEF n
  <2>4. EntryAfter(s) \in [paused : BOOLEAN, pausedTradeCount : Nat]
    <3> DEFINE e == entry[s]
               E == [paused : BOOLEAN, pausedTradeCount : Nat]
    <3>1. e \in E /\ e = [paused |-> e.paused, pausedTradeCount |-> e.pausedTradeCount]
      BY <2>1
    <3>2. [paused |-> TRUE, pausedTradeCount |-> n] \in E
      BY <2>1
    <3>3. [e EXCEPT !.paused = FALSE] \in E
      BY <3>1
    <3>4. [e EXCEPT !.pausedTradeCount = n] \in E
      BY <2>1, <3>1
    <3> HIDE DEF E
    <3>5. EntryAfter(s) \in E
      BY <2>2, <3>1, <3>2, <3>3, <3>4
    <3> QED BY <3>5 DEF E
  <2>5. EntryAfter(s).paused =>
          \/ EntryAfter(s).pausedTradeCount = n /\ (ShouldPause(s) \/ CooledDown(s))
          \/ EntryAfter(s) = entry[s] /\ ~(ShouldPause(s) \/ CooledDown(s))
    BY <2>1, <2>2
  <2> QED BY <2>3, <2>4, <2>5 DEF n
<1>4. haltDate' \in Dates \union {NoDate} /\ globalHalt' \in BOOLEAN
      /\ tripped' \in Dates \union {NoDate}
  <2>1. /\ haltDate' \in {day, NoDate} /\ tripped' \in {day, tripped}
        /\ globalHalt' \in {TRUE, FALSE, globalHalt}
    BY <1>2 DEF CheckDailyLoss
  <2> QED BY <1>1, <2>1 DEF TypeOK
<1>5. TypeOK'
  <2>1. entry' \in [Strategies -> [paused : BOOLEAN, pausedTradeCount : Nat]]
        /\ paused' \in [Strategies -> BOOLEAN]
    BY <1>2, <1>3
  <2>2. anchorLen' \in [Strategies -> Nat] /\ looked' \in Int
    BY <1>1, <1>2 DEF TypeOK
  <2> QED BY <1>1, <1>2, <1>4, <2>1, <2>2 DEF TypeOK
<1>6. ASSUME NEW s \in Strategies, entry'[s].paused
      PROVE  /\ anchorLen'[s] <= Len(trades)
             /\ entry'[s].pausedTradeCount = Len(OfStrategy(s, SubSeq(trades, 1, anchorLen'[s])))
  <2>1. entry'[s] = EntryAfter(s)
    BY <1>2
  <2>2. CASE entry'[s].pausedTradeCount = Len(TradesOf(s)) /\ (ShouldPause(s) \/ CooledDown(s))
    <3>1. anchorLen'[s] = Len(trades)
      BY <1>2, <2>2
    <3>2. SubSeq(trades, 1, Len(trades)) = trades
      BY <1>1
    <3>3. TradesOf(s) = OfStrategy(s, SubSeq(trades, 1, anchorLen'[s]))
      BY <3>1, <3>2, Zenon DEF TradesOf
    <3> QED BY <1>1, <2>2, <3>1, <3>3
  <2>3. CASE EntryAfter(s) = entry[s] /\ ~(ShouldPause(s) \/ CooledDown(s))
    <3>1. anchorLen'[s] = anchorLen[s]
      BY <1>2, <2>3
    <3> QED BY <1>1, <1>6, <2>1, <2>3, <3>1 DEF CooldownInv
  <2> QED BY <1>3, <1>6, <2>1, <2>2, <2>3
<1>7. CooldownInv'
  BY <1>2, <1>6 DEF CooldownInv
<1> QED BY <1>5, <1>7 DEF StateInv

LEMMA RestartState ==
  ASSUME StateInv, Restart, paused' \in [Strategies -> BOOLEAN], torn' \subseteq Strategies
  PROVE  StateInv'
<1>1. /\ TypeOK /\ CooldownInv /\ crashes < MaxCrashes /\ crashes' = crashes + 1
      /\ globalHalt' = FALSE /\ haltDate' = NoDate /\ entry' = entry /\ entryDisk' = entry
      /\ looked' = -1 /\ trades' = trades /\ open' = open /\ day' = day
      /\ passes' = [s \in Strategies |-> 0] /\ tripped' = tripped
      /\ anchorLen' = anchorLen
  BY DEF StateInv, Restart, TypeOK
<1>2. CooldownInv'
  BY <1>1, CooldownKept
<1>3. MaxCrashes \in Nat
  BY BreakerAssumption DEF BreakerAssumption
<1>4. TypeOK'
  <2>0. LotsOK'
    <3>1. LotsOK /\ MaxOpen \in Nat
      BY BreakerAssumption DEF StateInv, TypeOK, LotsOK, BreakerAssumption
    <3>2. open' = open /\ passes' = [s \in Strategies |-> 0]
      BY <1>1
    <3> QED BY <3>1, <3>2 DEF LotsOK
  <2>1. /\ trades' \in Seq([s : Strategies, pnl : Pnls, day : Dates])
        /\ entry' \in [Strategies -> [paused : BOOLEAN, pausedTradeCount : Nat]]
        /\ day' \in Dates
    BY <1>1 DEF TypeOK
  <2>2. crashes' \in 0 .. MaxCrashes
    BY <1>1, <1>3 DEF TypeOK
  <2>3. /\ tripped' \in Dates \union {NoDate} /\ anchorLen' \in [Strategies -> Nat]
        /\ looked' \in Int
    BY <1>1 DEF TypeOK
  <2> QED BY <1>1, <2>0, <2>1, <2>2, <2>3 DEF TypeOK, LotsOK
<1> QED BY <1>2, <1>4 DEF StateInv

LEMMA InitState == Init => StateInv
<1> SUFFICES ASSUME Init PROVE StateInv
  OBVIOUS
<1>1. TypeOK
  <2>1. Running \in [paused : BOOLEAN, pausedTradeCount : Nat]
    BY DEF Running
  <2>2. trades \in Seq(Trades)
    BY DEF Init
  <2>3. entry \in [Strategies -> [paused : BOOLEAN, pausedTradeCount : Nat]]
    BY <2>1 DEF Init
  <2>4. /\ 1 \in Dates /\ MaxOpen \in Nat /\ 0 \in 0 .. MaxCrashes
    BY BreakerAssumption DEF BreakerAssumption, Dates
  <2>5. /\ LotsOK /\ paused \in [Strategies -> BOOLEAN]
        /\ anchorLen \in [Strategies -> Nat] /\ crashes \in 0 .. MaxCrashes /\ day \in Dates
    BY <2>4 DEF Init, LotsOK
  <2>6. /\ haltDate \in Dates \union {NoDate} /\ tripped \in Dates \union {NoDate}
        /\ torn \subseteq Strategies /\ globalHalt \in BOOLEAN
    BY DEF Init
  <2>7. looked \in Int
    <3>1. looked = -1
      BY DEF Init
    <3> QED BY <3>1
  <2>8. entryDisk = entry
    BY DEF Init
  <2> QED BY <2>2, <2>3, <2>5, <2>6, <2>7, <2>8 DEF TypeOK, Trades, LotsOK
<1>2. CooldownInv
  BY DEF Init, CooldownInv, Running
<1> QED BY <1>1, <1>2 DEF StateInv

LEMMA StepState == StateInv /\ [Next]_vars => StateInv'
<1> SUFFICES ASSUME StateInv, [Next]_vars PROVE StateInv'
  OBVIOUS
<1>1. ASSUME NEW s \in Strategies, BeginEntry(s) \/ Enter(s) \/ GiveUpEntry(s) PROVE StateInv'
  BY <1>1, EntryState
<1>2. ASSUME NEW s \in Strategies, NEW pnl \in Pnls,
             NEW left \in {open[s] - 1, open[s]}, CloseTrade(s, pnl, left)
      PROVE  StateInv'
  BY <1>2, CloseTradeState
<1>3. CASE NewDay
  <2>1. CooldownInv'
    BY <1>3, CooldownKept DEF StateInv, NewDay, history
  <2>2. day' \in Dates
    BY <1>3, BreakerAssumption DEF StateInv, TypeOK, NewDay, BreakerAssumption, Dates
  <2>3. TypeOK'
    BY <1>3, <2>2 DEF StateInv, TypeOK, NewDay, persistent, history
  <2> QED BY <2>1, <2>3 DEF StateInv
<1>4. ASSUME NEW mark \in Marks, Check(mark) PROVE StateInv'
  BY <1>4, CheckState
<1>5. CASE Crash
  BY <1>5, RestartState DEF Crash, StateInv, TypeOK
<1>6. ASSUME NEW turns \in SUBSET Strategies, CrashInCheck(turns) PROVE StateInv'
  <2>1. Restart /\ torn' \subseteq Strategies
    BY <1>6 DEF CrashInCheck, StateInv, TypeOK
  <2>2. \A s \in Strategies : PausedAfter(s) \in BOOLEAN /\ paused[s] \in BOOLEAN
    BY DEF StateInv, TypeOK, PausedAfter
  <2>3. paused' \in [Strategies -> BOOLEAN]
    BY <1>6, <2>2 DEF CrashInCheck
  <2> QED BY <2>1, <2>3, RestartState
<1>7. CASE UNCHANGED vars
  <2>1. CooldownInv'
    BY <1>7, CooldownKept DEF StateInv, vars, history
  <2>2. TypeOK'
    BY <1>7 DEF StateInv, TypeOK, vars, persistent, history
  <2> QED BY <2>1, <2>2 DEF StateInv
<1> QED BY <1>1, <1>2, <1>3, <1>4, <1>5, <1>6, <1>7 DEF Next

\* The breaker's state and its journal keep their types, and between two actions
\* the state file says what is in memory (persist() at the end of check).
THEOREM BreakerIsTyped == Spec => []TypeOK
<1>1. StateInv => TypeOK
  BY DEF StateInv
<1> QED BY <1>1, InitState, StepState, PTL DEF Spec

\* A paused strategy stays paused until CooldownTrades trades of its own closed since
\* it was paused or re-checked, through restarts and the trades of others (ShouldResume).
THEOREM PauseOutlastsCooldown == Spec => ResumesAfterCooldown
<1> DEFINE Cooled == \A s \in Strategies :
                       entry[s].paused /\ ~entry'[s].paused
                         => ClosedSince(s) >= CooldownTrades
<1>1. StateInv /\ [Next]_vars => [Cooled]_vars
  <2> SUFFICES ASSUME StateInv, Next, NEW s \in Strategies, entry[s].paused, ~entry'[s].paused
               PROVE  ClosedSince(s) >= CooldownTrades
    OBVIOUS
  <2>1. entry' # entry
    OBVIOUS
  <2>2. PICK mark \in Marks : Check(mark)
    <3>1. entryDisk = entry
      BY DEF StateInv, TypeOK
    <3> QED BY <2>1, <3>1 DEF Next, BeginEntry, Enter, GiveUpEntry, CloseTrade, NewDay, Crash, CrashInCheck, Restart
  <2>3. ~EntryAfter(s).paused
    BY <2>2 DEF Check
  <2>4. entry[s] \in [paused : BOOLEAN, pausedTradeCount : Nat]
    BY DEF StateInv, TypeOK
  <2>5. CooledDown(s)
    <3> DEFINE n == Len(TradesOf(s))
    <3>1. EntryAfter(s) = IF ShouldPause(s) THEN [paused |-> TRUE, pausedTradeCount |-> n]
                          ELSE IF ShouldResume(s) THEN [entry[s] EXCEPT !.paused = FALSE]
                          ELSE IF CooledDown(s) THEN [entry[s] EXCEPT !.pausedTradeCount = n]
                          ELSE entry[s]
      BY DEF EntryAfter
    <3> HIDE DEF n
    <3>2. ShouldResume(s)
      BY <2>3, <2>4, <3>1
    <3> QED BY <3>2 DEF ShouldResume
  <2>6. Len(TradesOf(s)) - entry[s].pausedTradeCount >= CooldownTrades
    BY <2>5 DEF CooledDown
  <2>7. entry[s].pausedTradeCount = Len(OfStrategy(s, SubSeq(trades, 1, anchorLen[s])))
    BY DEF StateInv, CooldownInv
  <2> QED BY <2>6, <2>7 DEF ClosedSince
<1> QED BY <1>1, InitState, StepState, PTL DEF Spec, ResumesAfterCooldown

-----------------------------------------------------------------------------
(* The reviews of the journal.                                             *)

LEMMA ReviewsAssumed ==
  /\ ReviewsMinNew \in Nat \ {0} /\ ReviewsInterval \in Nat \ {0} /\ ReviewsDigest \in Nat
  /\ None \notin Nat /\ None \notin {"text", "arrow"}
BY BundleAssumption DEF Reviews!ReviewersAssumption

\* A line the evaluator has scanned and reviews.
ToReview(n) == n \in 1 .. reviewsScanned /\ reviewsJournal[n].type \in {"entry", "exit"}

\* A line that comes before all that is still to be reviewed.
Precedes(n) ==
  /\ reviewsProcessing # None => n < reviewsProcessing
  /\ \A i \in 1 .. Len(reviewsQueue) : n < reviewsQueue[i]

\* What the order of the reviews rests on: what was reviewed, what is asked about and
\* what waits are lines of the journal in its order.
EvaluatorTypes ==
  /\ reviewsJournal \in Seq(Reviews!Line)
  /\ reviewsScanned \in 0 .. Len(reviewsJournal)
  /\ reviewsQueue \in Seq(Nat)
  /\ reviewsRecent \in [Strategies -> Nat \union {None}]
  /\ reviewsLog \in Seq([line : Nat, of : Nat \union {None}])

WaitingInv ==
  /\ \A i \in 1 .. Len(reviewsQueue) : ToReview(reviewsQueue[i])
  /\ \A i, j \in 1 .. Len(reviewsQueue) : i < j => reviewsQueue[i] < reviewsQueue[j]
  /\ reviewsProcessing # None =>
       /\ ToReview(reviewsProcessing)
       /\ \A i \in 1 .. Len(reviewsQueue) : reviewsProcessing < reviewsQueue[i]

EntryOf(s, n) ==
  n \in 1 .. reviewsScanned /\ reviewsJournal[n].type = "entry" /\ reviewsJournal[n].strategy = s

RecentInv ==
  \A s \in Strategies : reviewsRecent[s] # None =>
    EntryOf(s, reviewsRecent[s]) /\ Precedes(reviewsRecent[s])

LoggedInv ==
  /\ \A i \in 1 .. Len(reviewsLog) : ToReview(reviewsLog[i].line) /\ Precedes(reviewsLog[i].line)
  /\ \A i \in 1 .. Len(reviewsLog) :
       reviewsLog[i].of # None =>
         /\ EntryOf(reviewsJournal[reviewsLog[i].line].strategy, reviewsLog[i].of)
         /\ reviewsLog[i].of < reviewsLog[i].line
         /\ reviewsJournal[reviewsLog[i].line].type = "exit"
  /\ \A i, j \in 1 .. Len(reviewsLog) : i < j => reviewsLog[i].line < reviewsLog[j].line

EvaluatorInv == EvaluatorTypes /\ WaitingInv /\ RecentInv /\ LoggedInv

\* The queue after each of the lines that are scanned.
Joined(grown, lines) ==
  /\ grown \in [0 .. Len(lines) -> Seq(Nat)] /\ grown[0] = reviewsQueue
  /\ \A i \in 1 .. Len(lines) :
       grown[i] = IF reviewsJournal[lines[i]].type \in {"entry", "exit"}
                  THEN Append(grown[i - 1], lines[i]) ELSE grown[i - 1]

LEMMA QueuedUnrolls ==
  ASSUME reviewsQueue \in Seq(Nat), NEW lines \in Seq(Nat)
  PROVE  \E grown : Joined(grown, lines) /\ Reviews!Queued(lines) = grown[Len(lines)]
<1> DEFINE n == Len(lines)
           S == Seq(Nat)
           next(was, x) == IF reviewsJournal[x].type \in {"entry", "exit"}
                           THEN Append(was, x) ELSE was
           IsFold(g) == g = [d \in SUBSET (1 .. n) |->
                               IF d = {} THEN reviewsQueue
                               ELSE next(g[d \ {Max(d)}], lines[Max(d)])]
           iter == CHOOSE g : IsFold(g)
           step == [a \in (1 .. n) \X S |-> next(a[2], lines[a[1]])]
           grown == [i \in 0 .. n |-> iter[1 .. i]]
<1>1. Reviews!Queued(lines) = iter[1 .. n]
  <2>1. DOMAIN lines = 1 .. n OBVIOUS
  <2> HIDE DEF step, S
  <2> QED BY <2>1
          DEF Reviews!Queued, Reviews!Reviewed, Reviews!FoldLeft, Reviews!MapThenFoldSet,
              Reviews!Max, Max
<1>2. n \in Nat /\ reviewsQueue \in S /\ \A i \in 1 .. n : lines[i] \in Nat
  OBVIOUS
<1>3. \A was \in S, x \in Nat : next(was, x) \in S
  OBVIOUS
<1>4. step = [a \in (1 .. n) \X S |-> next(a[2], lines[a[1]])]
  OBVIOUS
<1> HIDE DEF n, S, next, step, iter, IsFold
<1>5. step \in [(1 .. n) \X S -> S]
  <2>1. \A a \in (1 .. n) \X S : next(a[2], lines[a[1]]) \in S
    BY <1>2, <1>3
  <2> QED BY <1>4, <2>1
<1>6. PICK f \in [SUBSET (1 .. n) -> S] : FoldsTo(f, n, reviewsQueue, step)
  BY <1>2, <1>5, FoldExists
<1>7. IsFold(f)
  <2>1. ASSUME NEW d \in SUBSET (1 .. n)
        PROVE  f[d] = IF d = {} THEN reviewsQueue ELSE next(f[d \ {Max(d)}], lines[Max(d)])
    <3>1. d # {} => Max(d) \in 1 .. n /\ f[d \ {Max(d)}] \in S
      BY <1>2, MaxUpTo
    <3> QED BY <1>4, <1>6, <3>1 DEF FoldsTo
  <2> QED BY <2>1 DEF IsFold
<1>8. IsFold(iter)
  BY <1>7 DEF iter
<1>9. iter[{}] = reviewsQueue
  <2>1. {} \in SUBSET (1 .. n) OBVIOUS
  <2> QED BY <1>8, <2>1 DEF IsFold
<1>10. \A i \in 1 .. n : iter[1 .. i] = next(iter[1 .. i - 1], lines[i])
  <2> TAKE i \in 1 .. n
  <2>1. /\ 1 .. i \in SUBSET (1 .. n) /\ 1 .. i # {}
        /\ Max(1 .. i) = i /\ (1 .. i) \ {i} = 1 .. i - 1
    BY <1>2, IntervalStep
  <2>2. iter[1 .. i] = next(iter[(1 .. i) \ {Max(1 .. i)}], lines[Max(1 .. i)])
    BY <1>8, <2>1 DEF IsFold
  <2> QED BY <2>1, <2>2
<1>11. \A i \in 0 .. n : iter[1 .. i] \in S
  <2>1. \A i \in 1 .. n : iter[1 .. i - 1] \in S => iter[1 .. i] \in S
    BY <1>2, <1>3, <1>10
  <2> QED BY <1>2, <1>9, <2>1, FoldReaches
<1>12. grown \in [0 .. n -> S] /\ grown[0] = reviewsQueue /\ grown[n] = iter[1 .. n]
  <2>1. 0 \in 0 .. n /\ n \in 0 .. n /\ 1 .. 0 = {}
    BY <1>2
  <2> QED BY <1>9, <1>11, <2>1
<1>13. \A i \in 1 .. n : grown[i] = next(grown[i - 1], lines[i])
  <2>1. \A i \in 1 .. n : i \in 0 .. n /\ i - 1 \in 0 .. n
    BY <1>2
  <2> QED BY <1>10, <2>1
<1> HIDE DEF grown
<1>14. Joined(grown, lines)
  BY <1>12, <1>13 DEF Joined, n, S, next
<1> QED BY <1>1, <1>12, <1>14 DEF n

\* What a scan leaves in the queue: lines to review, in order, each a line that waited
\* before or one that was scanned now.
GrownTo(q, upTo) ==
  /\ q \in Seq(Nat)
  /\ \A i \in 1 .. Len(q) :
       /\ q[i] \in 1 .. upTo /\ reviewsJournal[q[i]].type \in {"entry", "exit"}
       /\ q[i] > reviewsScanned \/ \E j \in 1 .. Len(reviewsQueue) : q[i] = reviewsQueue[j]
  /\ \A i, j \in 1 .. Len(q) : i < j => q[i] < q[j]

LEMMA ScanQueues ==
  ASSUME EvaluatorInv, reviewsScanned < Len(reviewsJournal)
  PROVE  GrownTo(Reviews!Queued([n \in 1 .. Len(reviewsJournal) - reviewsScanned |-> reviewsScanned + n]),
                 Len(reviewsJournal))
<1> DEFINE m == Len(reviewsJournal) - reviewsScanned
           lines == [n \in 1 .. m |-> reviewsScanned + n]
<1>1. /\ m \in Nat /\ reviewsScanned \in Nat /\ lines \in Seq(Nat) /\ Len(lines) = m
      /\ Len(reviewsJournal) = reviewsScanned + m
      /\ \A i \in 1 .. m : lines[i] = reviewsScanned + i
  BY DEF EvaluatorInv, EvaluatorTypes
<1>2. reviewsQueue \in Seq(Nat)
  BY DEF EvaluatorInv, EvaluatorTypes
<1> HIDE DEF m, lines
<1>3. PICK grown : Joined(grown, lines) /\ Reviews!Queued(lines) = grown[Len(lines)]
  BY <1>1, <1>2, QueuedUnrolls
<1> DEFINE Good == {i \in 0 .. m : GrownTo(grown[i], reviewsScanned + i)}
<1>4. 0 \in Good
  <2>1. grown[0] = reviewsQueue
    BY <1>3 DEF Joined
  <2>2. GrownTo(reviewsQueue, reviewsScanned)
    BY <1>2 DEF GrownTo, EvaluatorInv, WaitingInv, ToReview
  <2> QED BY <1>1, <2>1, <2>2
<1>5. ASSUME NEW i \in 1 .. m, i - 1 \in Good PROVE i \in Good
  <2> DEFINE was == grown[i - 1]
             x == reviewsScanned + i
  <2>1. GrownTo(was, x - 1) /\ x \in Nat /\ x > reviewsScanned /\ i \in 0 .. m
    BY <1>1, <1>5
  <2>2. grown[i] = IF reviewsJournal[x].type \in {"entry", "exit"} THEN Append(was, x) ELSE was
    BY <1>1, <1>3 DEF Joined
  <2> HIDE DEF was, x
  <2>3. GrownTo(was, x)
    BY <2>1 DEF GrownTo
  <2>4. ASSUME reviewsJournal[x].type \in {"entry", "exit"}
        PROVE  GrownTo(Append(was, x), x)
    <3> DEFINE q == Append(was, x)
    <3>1. /\ was \in Seq(Nat) /\ q \in Seq(Nat) /\ Len(q) = Len(was) + 1 /\ q[Len(q)] = x
          /\ (\A k \in 1 .. Len(was) : q[k] = was[k]) /\ Len(was) \in Nat
      BY <2>1 DEF GrownTo
    <3> HIDE DEF q
    <3>2. \A k \in 1 .. Len(q) : k = Len(q) \/ k \in 1 .. Len(was)
      BY <3>1
    <3>3. \A k \in 1 .. Len(was) : was[k] \in 1 .. x - 1
      BY <2>1 DEF GrownTo
    <3>4. ASSUME NEW k \in 1 .. Len(q), NEW l \in 1 .. Len(q), k < l PROVE q[k] < q[l]
      <4>1. k \in 1 .. Len(was) /\ q[k] = was[k]
        BY <3>1, <3>4
      <4>2. CASE l = Len(q)
        BY <2>1, <3>1, <3>3, <4>1, <4>2
      <4>3. CASE l \in 1 .. Len(was)
        BY <2>1, <3>1, <3>4, <4>1, <4>3 DEF GrownTo
      <4> QED BY <3>2, <4>2, <4>3
    <3>5. ASSUME NEW k \in 1 .. Len(q)
          PROVE  /\ q[k] \in 1 .. x /\ reviewsJournal[q[k]].type \in {"entry", "exit"}
                 /\ q[k] > reviewsScanned \/ \E j \in 1 .. Len(reviewsQueue) : q[k] = reviewsQueue[j]
      <4>1. CASE k = Len(q)
        BY <1>1, <2>1, <2>4, <3>1, <4>1
      <4>2. CASE k \in 1 .. Len(was)
        BY <2>1, <2>3, <3>1, <4>2 DEF GrownTo
      <4> QED BY <3>2, <4>1, <4>2
    <3>6. GrownTo(q, x)
      BY <3>1, <3>4, <3>5 DEF GrownTo
    <3> QED BY <3>6 DEF q
  <2>5. GrownTo(grown[i], x)
    BY <2>2, <2>3, <2>4
  <2> QED BY <2>1, <2>5 DEF x
<1>6. \A i \in 0 .. m : i \in Good
  <2> HIDE DEF Good
  <2> QED BY <1>1, <1>4, <1>5, InductionTo
<1>7. GrownTo(grown[m], Len(reviewsJournal))
  BY <1>1, <1>6
<1> QED BY <1>1, <1>3, <1>7 DEF lines, m

\* The journal only grows: what is known of its lines stays known.
LEMMA LinesStay ==
  ASSUME EvaluatorInv, reviewsJournal' \in Seq(Reviews!Line), reviewsScanned' \in Nat,
         reviewsScanned <= reviewsScanned',
         \A n \in 1 .. reviewsScanned : reviewsJournal'[n] = reviewsJournal[n]
  PROVE  /\ \A n : ToReview(n) => ToReview(n)'
         /\ \A s, n : EntryOf(s, n) => EntryOf(s, n)'
<1>1. reviewsScanned \in Nat
  BY DEF EvaluatorInv, EvaluatorTypes
<1>2. ASSUME NEW n, ToReview(n) PROVE ToReview(n)'
  BY <1>1, <1>2 DEF ToReview
<1>3. ASSUME NEW s, NEW n, EntryOf(s, n) PROVE EntryOf(s, n)'
  BY <1>1, <1>3 DEF EntryOf
<1> QED BY <1>2, <1>3

\* A step that leaves the queue, the line in hand and the reviews alone.
LEMMA EvaluatorStays ==
  ASSUME EvaluatorInv, EvaluatorTypes', reviewsScanned' = reviewsScanned,
         \A n \in 1 .. reviewsScanned : reviewsJournal'[n] = reviewsJournal[n],
         UNCHANGED <<reviewsQueue, reviewsProcessing, reviewsRecent, reviewsLog>>
  PROVE  EvaluatorInv'
<1>1. /\ \A n : ToReview(n) => ToReview(n)'
      /\ \A s, n : EntryOf(s, n) => EntryOf(s, n)'
  BY LinesStay DEF EvaluatorInv, EvaluatorTypes
<1>2. \A n : Precedes(n) => Precedes(n)'
  BY DEF Precedes
<1>3. WaitingInv'
  BY <1>1 DEF EvaluatorInv, WaitingInv
<1>4. RecentInv'
  BY <1>1, <1>2 DEF EvaluatorInv, RecentInv
<1>5. LoggedInv'
  <2>1. \A i \in 1 .. Len(reviewsLog) :
          /\ ToReview(reviewsLog[i].line)
          /\ reviewsJournal'[reviewsLog[i].line] = reviewsJournal[reviewsLog[i].line]
    BY DEF EvaluatorInv, LoggedInv, ToReview
  <2> QED BY <1>1, <1>2, <2>1 DEF EvaluatorInv, LoggedInv
<1> QED BY <1>3, <1>4, <1>5 DEF EvaluatorInv

LEMMA FillKeepsReviews ==
  ASSUME EvaluatorInv, NEW s \in Strategies, NEW closes \in BOOLEAN, Reviews!Fill(s, closes)
  PROVE  EvaluatorInv'
<1> DEFINE l == [type |-> "position_fill", strategy |-> s, closes |-> closes]
<1>1. /\ reviewsJournal' = Append(reviewsJournal, l)
      /\ UNCHANGED <<reviewsScanned, reviewsQueue, reviewsProcessing, reviewsRecent, reviewsLog>>
  BY DEF Reviews!Fill, Reviews!evaluator
<1>2. l \in Reviews!Line
  BY DEF Reviews!Line
<1> HIDE DEF l
<1>3. /\ reviewsJournal' \in Seq(Reviews!Line) /\ reviewsScanned \in 0 .. Len(reviewsJournal')
      /\ \A n \in 1 .. reviewsScanned : reviewsJournal'[n] = reviewsJournal[n]
  BY <1>1, <1>2 DEF EvaluatorInv, EvaluatorTypes
<1>4. EvaluatorTypes'
  BY <1>1, <1>3 DEF EvaluatorInv, EvaluatorTypes
<1> QED BY <1>1, <1>3, <1>4, EvaluatorStays

LEMMA ScanKeepsReviews ==
  ASSUME EvaluatorInv, Reviews!Scan
  PROVE  EvaluatorInv'
<1>1. /\ reviewsScanned < Len(reviewsJournal) /\ reviewsScanned' = Len(reviewsJournal)
      /\ UNCHANGED <<reviewsJournal, reviewsProcessing, reviewsRecent, reviewsLog>>
  BY DEF Reviews!Scan, EvaluatorInv, EvaluatorTypes
<1>2. GrownTo(reviewsQueue', reviewsScanned')
  BY <1>1, ScanQueues DEF Reviews!Scan
<1>3. /\ \A n : ToReview(n) => ToReview(n)'
      /\ \A s, n : EntryOf(s, n) => EntryOf(s, n)'
  BY <1>1, LinesStay DEF EvaluatorInv, EvaluatorTypes
<1>4. ASSUME NEW n \in 1 .. reviewsScanned, Precedes(n) PROVE Precedes(n)'
  <2>1. ASSUME NEW i \in 1 .. Len(reviewsQueue') PROVE n < reviewsQueue'[i]
    <3>1. /\ reviewsQueue'[i] \in Nat /\ reviewsScanned \in Nat
          /\ \/ reviewsQueue'[i] > reviewsScanned
             \/ \E j \in 1 .. Len(reviewsQueue) : reviewsQueue'[i] = reviewsQueue[j]
      BY <1>2 DEF GrownTo, EvaluatorInv, EvaluatorTypes
    <3> QED BY <1>4, <3>1 DEF Precedes
  <2> QED BY <1>1, <1>4, <2>1 DEF Precedes
<1>5. EvaluatorTypes'
  BY <1>1, <1>2 DEF EvaluatorInv, EvaluatorTypes, GrownTo
<1>6. WaitingInv'
  <2>1. /\ \A i \in 1 .. Len(reviewsQueue') : ToReview(reviewsQueue[i])'
        /\ \A i, j \in 1 .. Len(reviewsQueue') : i < j => reviewsQueue'[i] < reviewsQueue'[j]
    BY <1>1, <1>2 DEF GrownTo, ToReview
  <2>2. ASSUME reviewsProcessing # None
        PROVE  /\ ToReview(reviewsProcessing)'
               /\ \A i \in 1 .. Len(reviewsQueue') : reviewsProcessing < reviewsQueue'[i]
    <3>1. ToReview(reviewsProcessing) /\ reviewsProcessing \in 1 .. reviewsScanned
      BY <2>2 DEF EvaluatorInv, WaitingInv, ToReview
    <3>2. ASSUME NEW i \in 1 .. Len(reviewsQueue') PROVE reviewsProcessing < reviewsQueue'[i]
      <4>1. /\ reviewsQueue'[i] \in Nat /\ reviewsScanned \in Nat
            /\ \/ reviewsQueue'[i] > reviewsScanned
               \/ \E j \in 1 .. Len(reviewsQueue) : reviewsQueue'[i] = reviewsQueue[j]
        BY <1>2 DEF GrownTo, EvaluatorInv, EvaluatorTypes
      <4> QED BY <2>2, <3>1, <4>1 DEF EvaluatorInv, WaitingInv
    <3> QED BY <1>1, <1>3, <3>1, <3>2
  <2> QED BY <1>1, <2>1, <2>2 DEF WaitingInv
<1>7. RecentInv'
  <2>1. \A s, n : EntryOf(s, n) => n \in 1 .. reviewsScanned
    BY DEF EntryOf
  <2> QED BY <1>1, <1>3, <1>4, <2>1 DEF EvaluatorInv, RecentInv
<1>8. LoggedInv'
  <2>1. \A n : ToReview(n) => n \in 1 .. reviewsScanned
    BY DEF ToReview
  <2> QED BY <1>1, <1>3, <1>4, <2>1 DEF EvaluatorInv, LoggedInv
<1> QED BY <1>5, <1>6, <1>7, <1>8 DEF EvaluatorInv

LEMMA TakeKeepsReviews ==
  ASSUME EvaluatorInv, Reviews!Take
  PROVE  EvaluatorInv'
<1>1. /\ reviewsProcessing = None /\ reviewsQueue # <<>>
      /\ reviewsProcessing' = Head(reviewsQueue) /\ reviewsQueue' = Tail(reviewsQueue)
      /\ UNCHANGED <<reviewsJournal, reviewsScanned, reviewsRecent, reviewsLog>>
  BY DEF Reviews!Take
<1>2. /\ reviewsQueue' \in Seq(Nat) /\ Len(reviewsQueue') = Len(reviewsQueue) - 1
      /\ 1 \in 1 .. Len(reviewsQueue) /\ Len(reviewsQueue) \in Nat
      /\ reviewsProcessing' = reviewsQueue[1]
      /\ \A i \in 1 .. Len(reviewsQueue') : reviewsQueue'[i] = reviewsQueue[i + 1]
  BY <1>1 DEF EvaluatorInv, EvaluatorTypes
<1>3. /\ \A n : ToReview(n) => ToReview(n)'
      /\ \A s, n : EntryOf(s, n) => EntryOf(s, n)'
  BY <1>1 DEF ToReview, EntryOf
<1>4. \A n : Precedes(n) => Precedes(n)'
  BY <1>2 DEF Precedes
<1>5. EvaluatorTypes'
  BY <1>1, <1>2 DEF EvaluatorInv, EvaluatorTypes
<1>6. WaitingInv'
  <2>1. \A i \in 1 .. Len(reviewsQueue') :
          i + 1 \in 1 .. Len(reviewsQueue) /\ ToReview(reviewsQueue[i + 1])
    BY <1>2 DEF EvaluatorInv, WaitingInv
  <2>0. \A i, j \in 1 .. Len(reviewsQueue) : i < j => reviewsQueue[i] < reviewsQueue[j]
    BY DEF EvaluatorInv, WaitingInv
  <2>2. ASSUME NEW i \in 1 .. Len(reviewsQueue') PROVE reviewsQueue[1] < reviewsQueue'[i]
    <3>1. i + 1 \in 1 .. Len(reviewsQueue) /\ 1 < i + 1
      BY <2>1
    <3>2. reviewsQueue[1] < reviewsQueue[i + 1]
      BY <1>2, <2>0, <3>1
    <3> QED BY <1>2, <3>2
  <2>3. ASSUME NEW i \in 1 .. Len(reviewsQueue'), NEW j \in 1 .. Len(reviewsQueue'), i < j
        PROVE  reviewsQueue'[i] < reviewsQueue'[j]
    <3>1. /\ i + 1 \in 1 .. Len(reviewsQueue) /\ j + 1 \in 1 .. Len(reviewsQueue)
          /\ i + 1 < j + 1
      BY <2>1, <2>3
    <3>2. reviewsQueue[i + 1] < reviewsQueue[j + 1]
      BY <2>0, <3>1
    <3> QED BY <1>2, <3>2
  <2>4. ToReview(reviewsQueue[1])
    BY <1>2 DEF EvaluatorInv, WaitingInv
  <2> QED BY <1>2, <1>3, <2>1, <2>2, <2>3, <2>4 DEF WaitingInv
<1>7. RecentInv'
  BY <1>1, <1>3, <1>4 DEF EvaluatorInv, RecentInv
<1>8. LoggedInv'
  BY <1>1, <1>3, <1>4 DEF EvaluatorInv, LoggedInv
<1> QED BY <1>5, <1>6, <1>7, <1>8 DEF EvaluatorInv

\* A review is logged: the line in hand, which is after all that were reviewed, with no
\* entry or the one on record of its strategy.
LEMMA ReviewIsLogged ==
  ASSUME EvaluatorInv, reviewsProcessing # None, reviewsProcessing' = None,
         NEW of \in Nat \union {None},
         of # None =>
           /\ EntryOf(reviewsJournal[reviewsProcessing].strategy, of) /\ of < reviewsProcessing
           /\ reviewsJournal[reviewsProcessing].type = "exit",
         reviewsLog' = Append(reviewsLog, [line |-> reviewsProcessing, of |-> of]),
         UNCHANGED <<reviewsJournal, reviewsScanned, reviewsQueue>>
  PROVE  /\ reviewsLog' \in Seq([line : Nat, of : Nat \union {None}])
         /\ LoggedInv' /\ WaitingInv'
         /\ \A n : Precedes(n) => Precedes(n)'
         /\ \A n : n = reviewsProcessing => Precedes(n)'
<1> DEFINE x == [line |-> reviewsProcessing, of |-> of]
<1>1. /\ ToReview(reviewsProcessing) /\ reviewsProcessing \in Nat
      /\ \A i \in 1 .. Len(reviewsQueue) : reviewsProcessing < reviewsQueue[i]
  BY DEF EvaluatorInv, WaitingInv, ToReview
<1>2. x \in [line : Nat, of : Nat \union {None}] /\ x.line = reviewsProcessing /\ x.of = of
  BY <1>1
<1> HIDE DEF x
<1>3. /\ reviewsLog' \in Seq([line : Nat, of : Nat \union {None}])
      /\ Len(reviewsLog') = Len(reviewsLog) + 1 /\ Len(reviewsLog) \in Nat
      /\ reviewsLog'[Len(reviewsLog')] = x
      /\ \A i \in 1 .. Len(reviewsLog) : reviewsLog'[i] = reviewsLog[i]
  BY <1>2 DEF EvaluatorInv, EvaluatorTypes, x
<1>4. \A i \in 1 .. Len(reviewsLog') : i = Len(reviewsLog') \/ i \in 1 .. Len(reviewsLog)
  BY <1>3
<1>5. /\ \A n : ToReview(n) => ToReview(n)'
      /\ \A s, n : EntryOf(s, n) => EntryOf(s, n)'
      /\ \A n : Precedes(n) => Precedes(n)'
  BY DEF ToReview, EntryOf, Precedes
<1>6. \A n : n = reviewsProcessing => Precedes(n)'
  BY <1>1 DEF Precedes
<1>7. \A i \in 1 .. Len(reviewsLog) : reviewsLog[i].line < reviewsProcessing
  BY DEF EvaluatorInv, LoggedInv, Precedes
<1>8. LoggedInv'
  <2>1. ASSUME NEW i \in 1 .. Len(reviewsLog')
        PROVE  ToReview(reviewsLog[i].line)' /\ Precedes(reviewsLog[i].line)'
    <3>1. CASE i = Len(reviewsLog')
      BY <1>1, <1>2, <1>3, <1>5, <1>6, <3>1 DEF ToReview, Precedes
    <3>2. CASE i \in 1 .. Len(reviewsLog)
      BY <1>3, <1>5, <3>2 DEF EvaluatorInv, LoggedInv
    <3> QED BY <1>4, <3>1, <3>2
  <2>2. ASSUME NEW i \in 1 .. Len(reviewsLog'), reviewsLog'[i].of # None
        PROVE  /\ EntryOf(reviewsJournal[reviewsLog[i].line].strategy, reviewsLog[i].of)'
               /\ reviewsLog'[i].of < reviewsLog'[i].line
               /\ reviewsJournal'[reviewsLog'[i].line].type = "exit"
    <3>1. CASE i = Len(reviewsLog')
      BY <1>2, <1>3, <1>5, <2>2, <3>1 DEF EntryOf
    <3>2. CASE i \in 1 .. Len(reviewsLog)
      BY <1>3, <1>5, <2>2, <3>2 DEF EvaluatorInv, LoggedInv
    <3> QED BY <1>4, <3>1, <3>2
  <2>3. ASSUME NEW i \in 1 .. Len(reviewsLog'), NEW j \in 1 .. Len(reviewsLog'), i < j
        PROVE  reviewsLog'[i].line < reviewsLog'[j].line
    <3>1. i \in 1 .. Len(reviewsLog)
      BY <1>3, <2>3
    <3>2. CASE j = Len(reviewsLog')
      BY <1>2, <1>3, <1>7, <3>1, <3>2
    <3>3. CASE j \in 1 .. Len(reviewsLog)
      BY <1>3, <2>3, <3>1, <3>3 DEF EvaluatorInv, LoggedInv
    <3> QED BY <1>4, <3>2, <3>3
  <2> QED BY <2>1, <2>2, <2>3 DEF LoggedInv
<1>9. WaitingInv'
  BY <1>5 DEF EvaluatorInv, WaitingInv
<1> QED BY <1>3, <1>5, <1>6, <1>8, <1>9

LEMMA EvaluatedKeepsReviews ==
  ASSUME EvaluatorInv, Reviews!Evaluated
  PROVE  EvaluatorInv'
<1> DEFINE line == reviewsJournal[reviewsProcessing]
           of == IF line.type = "entry" THEN None ELSE reviewsRecent[line.strategy]
           new == IF line.type = "entry" THEN reviewsProcessing ELSE None
<1>1. /\ reviewsProcessing # None /\ reviewsProcessing' = None
      /\ reviewsLog' = Append(reviewsLog, [line |-> reviewsProcessing, of |-> of])
      /\ reviewsRecent' = [reviewsRecent EXCEPT ![line.strategy] = new]
      /\ UNCHANGED <<reviewsJournal, reviewsScanned, reviewsQueue>>
  BY DEF Reviews!Evaluated, Reviews!EntryShown
<1>2. ToReview(reviewsProcessing)
  BY <1>1 DEF EvaluatorInv, WaitingInv
<1>3. line \in Reviews!Line /\ reviewsProcessing \in Nat
  BY <1>2 DEF EvaluatorInv, EvaluatorTypes, ToReview
<1>4. line.strategy \in Strategies /\ line.type \in {"entry", "exit"}
  BY <1>2, <1>3 DEF ToReview, Reviews!Line
<1>5. of \in Nat \union {None} /\ new \in Nat \union {None}
  BY <1>3, <1>4 DEF EvaluatorInv, EvaluatorTypes
<1>6. of # None =>
        EntryOf(line.strategy, of) /\ of < reviewsProcessing /\ line.type = "exit"
  BY <1>1, <1>4 DEF EvaluatorInv, RecentInv, Precedes
<1>7. /\ reviewsLog' \in Seq([line : Nat, of : Nat \union {None}])
      /\ LoggedInv' /\ WaitingInv'
      /\ \A n : Precedes(n) => Precedes(n)'
      /\ \A n : n = reviewsProcessing => Precedes(n)'
  <2> HIDE DEF of, new
  <2> QED BY <1>1, <1>5, <1>6, ReviewIsLogged
<1>8. new # None =>
        /\ new = reviewsProcessing /\ new \in 1 .. reviewsScanned
        /\ reviewsJournal[new].type = "entry" /\ reviewsJournal[new].strategy = line.strategy
  BY <1>1, <1>2 DEF ToReview
<1> HIDE DEF line, of, new
<1>9. reviewsRecent' \in [Strategies -> Nat \union {None}]
  BY <1>1, <1>5 DEF EvaluatorInv, EvaluatorTypes
<1>10. EvaluatorTypes'
  BY <1>1, <1>7, <1>9 DEF EvaluatorInv, EvaluatorTypes
<1>11. RecentInv'
  <2> SUFFICES ASSUME NEW s \in Strategies, reviewsRecent'[s] # None
               PROVE  EntryOf(s, reviewsRecent[s])' /\ Precedes(reviewsRecent[s])'
    BY DEF RecentInv
  <2>0. reviewsRecent \in [Strategies -> Nat \union {None}]
    BY DEF EvaluatorInv, EvaluatorTypes
  <2>1. CASE s = line.strategy
    <3>1. reviewsRecent'[s] = new
      BY <1>1, <2>0, <2>1
    <3>2. EntryOf(s, reviewsRecent[s])'
      BY <1>1, <1>8, <2>1, <3>1 DEF EntryOf
    <3>3. reviewsRecent'[s] = reviewsProcessing
      BY <1>8, <3>1
    <3>4. \A n : n = reviewsRecent'[s] => Precedes(n)'
      BY <1>7, <3>3
    <3> QED BY <3>2, <3>4
  <2>2. CASE s # line.strategy
    <3>1. reviewsRecent'[s] = reviewsRecent[s]
      BY <1>1, <2>0, <2>2
    <3>2. EntryOf(s, reviewsRecent[s]) /\ Precedes(reviewsRecent[s])
      BY <3>1 DEF EvaluatorInv, RecentInv
    <3>3. \A n : n = reviewsRecent'[s] => Precedes(n)'
      BY <1>7, <3>1, <3>2
    <3> QED BY <1>1, <3>1, <3>2, <3>3 DEF EntryOf
  <2> QED BY <2>1, <2>2
<1> QED BY <1>7, <1>10, <1>11 DEF EvaluatorInv

LEMMA FailureKeepsReviews ==
  ASSUME EvaluatorInv, Reviews!EvaluationFails
  PROVE  EvaluatorInv'
<1>1. /\ reviewsProcessing # None /\ reviewsProcessing' = None
      /\ reviewsLog' = Append(reviewsLog, [line |-> reviewsProcessing, of |-> None])
      /\ UNCHANGED <<reviewsJournal, reviewsScanned, reviewsQueue, reviewsRecent>>
  BY DEF Reviews!EvaluationFails
<1>2. /\ reviewsLog' \in Seq([line : Nat, of : Nat \union {None}])
      /\ LoggedInv' /\ WaitingInv'
      /\ \A n : Precedes(n) => Precedes(n)'
  BY <1>1, ReviewIsLogged
<1>3. EvaluatorTypes'
  BY <1>1, <1>2 DEF EvaluatorInv, EvaluatorTypes
<1>4. RecentInv'
  BY <1>1, <1>2 DEF EvaluatorInv, RecentInv, EntryOf
<1> QED BY <1>2, <1>3, <1>4 DEF EvaluatorInv

LEMMA CrashKeepsReviews ==
  ASSUME EvaluatorInv, Reviews!Restart
  PROVE  EvaluatorInv'
<1>1. /\ reviewsQueue' = <<>> /\ reviewsProcessing' = None
      /\ reviewsRecent' = [s \in Strategies |-> None]
      /\ UNCHANGED <<reviewsJournal, reviewsScanned, reviewsLog>>
  BY DEF Reviews!Restart
<1>2. reviewsQueue' \in Seq(Nat) /\ \A i \in 1 .. Len(reviewsQueue') : FALSE
  BY <1>1
<1>3. EvaluatorTypes'
  BY <1>1, <1>2 DEF EvaluatorInv, EvaluatorTypes
<1>4. WaitingInv' /\ RecentInv'
  BY <1>1, <1>2 DEF WaitingInv, RecentInv
<1>5. LoggedInv'
  <2>1. \A n : Precedes(n)'
    BY <1>1, <1>2 DEF Precedes
  <2> QED BY <1>1, <2>1 DEF EvaluatorInv, LoggedInv, ToReview, EntryOf, Precedes
<1> QED BY <1>3, <1>4, <1>5 DEF EvaluatorInv

LEMMA EvaluatorInit == Reviews!Init => EvaluatorInv
<1> SUFFICES ASSUME Reviews!Init PROVE EvaluatorInv
  OBVIOUS
<1>1. /\ reviewsScanned = 0 /\ reviewsQueue = <<>> /\ reviewsProcessing = None
      /\ reviewsRecent = [s \in Strategies |-> None] /\ reviewsLog = <<>>
  BY DEF Reviews!Init
<1>2. reviewsJournal \in Seq(Reviews!Line)
  <2>1. PICK n \in 0 .. ReviewsLines - 1 :
          reviewsJournal \in [1 .. n -> {l \in Reviews!Line : l.type # "position_fill" /\ ~l.closes}]
    BY DEF Reviews!Init
  <2>2. n \in Nat
    BY <2>1, BundleAssumption DEF Reviews!ReviewersAssumption
  <2>3. reviewsJournal \in [1 .. n -> Reviews!Line]
    BY <2>1
  <2> QED BY <2>2, <2>3
<1>3. EvaluatorTypes
  BY <1>1, <1>2 DEF EvaluatorTypes
<1> QED BY <1>1, <1>3 DEF EvaluatorInv, WaitingInv, RecentInv, LoggedInv

\* What the summaries rest on: the counts saved are those of the last analysis, and a
\* request is begun an interval after it, on enough trades it has not counted.
LearnedEntry ==
  [nr : Nat, from : Nat, to : Nat, begun : Nat, at : Nat,
   of : UNION {[s -> Nat] : s \in SUBSET Strategies}, summary : {"text", "arrow", None},
   kept : {"state", "log", "digest"}]

AnalystTypes ==
  /\ reviewsTime \in Nat \ {0}
  /\ reviewsAnalysed \in [count : Nat, at : Nat]
  /\ reviewsAnalyses \in Seq(LearnedEntry)
  /\ reviewsDigest \in Seq(LearnedEntry)

AskingInv ==
  reviewsAsking # None =>
    /\ reviewsAsking \in [count : Nat, begun : Nat,
                          of : UNION {[s -> Nat] : s \in SUBSET Strategies}]
    /\ reviewsAsking.begun - reviewsAnalysed.at >= ReviewsInterval
    /\ reviewsAnalysed.at = 0 \/ reviewsAsking.count - reviewsAnalysed.count >= ReviewsMinNew

SavedInv ==
  /\ reviewsAnalyses = <<>> => reviewsAnalysed = [count |-> 0, at |-> 0]
  /\ reviewsAnalyses # <<>> =>
       /\ reviewsAnalysed.at > 0
       /\ reviewsAnalysed.at = reviewsAnalyses[Len(reviewsAnalyses)].at
       /\ reviewsAnalysed.count = reviewsAnalyses[Len(reviewsAnalyses)].to

ChainInv ==
  \A i \in 1 .. Len(reviewsAnalyses) - 1 :
    /\ reviewsAnalyses[i].to = reviewsAnalyses[i + 1].from
    /\ reviewsAnalyses[i + 1].to - reviewsAnalyses[i + 1].from >= ReviewsMinNew
    /\ reviewsAnalyses[i + 1].begun - reviewsAnalyses[i].at >= ReviewsInterval

CutOff == {i \in 1 .. Len(reviewsAnalyses) : reviewsAnalyses[i].kept # "digest"}

CutOffInv ==
  /\ reviewsCrashes \in Nat /\ IsFiniteSet(CutOff) /\ Cardinality(CutOff) <= reviewsCrashes

\* What the digest rests on: it is what reached it last, newest first, and an arrow is the
\* newest of it.
Digested == {i \in 1 .. Len(reviewsAnalyses) : reviewsAnalyses[i].kept = "digest"}
Shown == {reviewsDigest[i].nr : i \in 1 .. Len(reviewsDigest)}
IsArrow(i) == reviewsAnalyses[i].summary = "arrow"

DigestIs(digest, analyses, digested, shown) ==
  /\ Len(digest) <= ReviewsDigest
  /\ \A i \in 1 .. Len(digest) : digest[i].nr \in digested /\ digest[i] = analyses[digest[i].nr]
  /\ \A i, j \in 1 .. Len(digest) : i < j => digest[i].nr > digest[j].nr
  /\ \A i \in digested, j \in shown : i > j => i \in shown
  /\ \/ \E i \in digested : analyses[i].summary = "arrow"
     \/ digested \subseteq shown
     \/ Len(digest) = ReviewsDigest
  /\ \A i, j \in digested : analyses[i].summary = "arrow" /\ i < j => \A k \in shown : i < k

DigestInv ==
  /\ DigestIs(reviewsDigest, reviewsAnalyses, Digested, Shown)
  /\ \A i \in 1 .. Len(reviewsAnalyses) : reviewsAnalyses[i].nr = i

AnalystInv ==
  AnalystTypes /\ AskingInv /\ SavedInv /\ ChainInv /\ CutOffInv /\ DigestInv

\* The digest after an entry: the entry, then what there was, as far as there is room.
LEMMA PutFirst ==
  ASSUME NEW S, NEW e \in S, NEW s \in Seq(S), NEW m \in Nat,
         NEW d, d = SubSeq(<<e>> \o s, 1, IF Len(<<e>> \o s) > m THEN m ELSE Len(<<e>> \o s))
  PROVE  /\ d \in Seq(S)
         /\ Len(d) <= Len(s) + 1 /\ Len(d) <= m
         /\ Len(d) = Len(s) + 1 \/ Len(d) = m
         /\ \A i \in 1 .. Len(d) : d[i] = IF i = 1 THEN e ELSE s[i - 1]
<1> DEFINE all == <<e>> \o s
           n == IF Len(all) > m THEN m ELSE Len(all)
<1>1. /\ all \in Seq(S) /\ Len(all) = Len(s) + 1 /\ Len(s) \in Nat
      /\ \A i \in 1 .. Len(all) : all[i] = IF i = 1 THEN e ELSE s[i - 1]
  OBVIOUS
<1>2. d = SubSeq(all, 1, n)
  OBVIOUS
<1> HIDE DEF all
<1>3. /\ n \in Nat /\ n <= Len(all) /\ n <= m
      /\ n = Len(all) \/ n = m
  BY <1>1
<1> HIDE DEF n
<1>4. d \in Seq(S) /\ Len(d) = n /\ \A i \in 1 .. n : d[i] = all[i]
  BY <1>1, <1>2, <1>3
<1> QED BY <1>1, <1>3, <1>4

\* An analysis is one more, wherever its writes were cut off.
LEMMA AnalysisIsAdded ==
  ASSUME AnalystInv, reviewsAsking # None, NEW summary \in {"text", "arrow", None},
         NEW kept \in {"state", "log", "digest"}, NEW x, x = Reviews!Analysis(summary, kept),
         reviewsAnalysed' = [count |-> reviewsAsking.count, at |-> reviewsTime],
         reviewsAnalyses' = Append(reviewsAnalyses, x),
         reviewsAsking' = None, reviewsTime' = reviewsTime, reviewsDigest' \in Seq(LearnedEntry)
  PROVE  /\ AnalystTypes' /\ AskingInv' /\ SavedInv' /\ ChainInv'
         /\ x \in LearnedEntry /\ x.nr = Len(reviewsAnalyses) + 1 /\ x.kept = kept
         /\ x.summary = summary
         /\ Len(reviewsAnalyses') = Len(reviewsAnalyses) + 1 /\ Len(reviewsAnalyses) \in Nat
         /\ reviewsAnalyses'[Len(reviewsAnalyses) + 1] = x
         /\ \A i \in 1 .. Len(reviewsAnalyses) : reviewsAnalyses'[i] = reviewsAnalyses[i]
<1> DEFINE n == Len(reviewsAnalyses)
<1>1. n \in Nat /\ reviewsAnalyses \in Seq(LearnedEntry)
  BY DEF AnalystInv, AnalystTypes
<1>2. /\ x \in LearnedEntry /\ x.from = reviewsAnalysed.count /\ x.to = reviewsAsking.count
      /\ x.begun = reviewsAsking.begun /\ x.at = reviewsTime /\ x.nr = n + 1 /\ x.kept = kept
      /\ x.summary = summary
      /\ reviewsAnalysed'.count = x.to /\ reviewsAnalysed'.at = x.at
      /\ reviewsAnalysed' \in [count : Nat, at : Nat]
  <2>1. /\ reviewsAnalysed.count \in Nat /\ reviewsTime \in Nat
        /\ reviewsAsking \in [count : Nat, begun : Nat,
                              of : UNION {[s -> Nat] : s \in SUBSET Strategies}]
    BY DEF AnalystInv, AnalystTypes, AskingInv
  <2>2. x = [nr |-> n + 1, from |-> reviewsAnalysed.count, to |-> reviewsAsking.count,
             begun |-> reviewsAsking.begun, at |-> reviewsTime, of |-> reviewsAsking.of,
             summary |-> summary, kept |-> kept]
    BY DEF Reviews!Analysis
  <2> QED BY <1>1, <2>1, <2>2 DEF LearnedEntry
<1>3. /\ reviewsAnalyses' \in Seq(LearnedEntry) /\ Len(reviewsAnalyses') = n + 1
      /\ reviewsAnalyses'[n + 1] = x
      /\ \A i \in 1 .. n : reviewsAnalyses'[i] = reviewsAnalyses[i]
  BY <1>1, <1>2
<1>4. AnalystTypes'
  BY <1>2, <1>3 DEF AnalystInv, AnalystTypes
<1>5. AskingInv'
  BY DEF AskingInv
<1>6. SavedInv'
  BY <1>1, <1>2, <1>3 DEF SavedInv, AnalystInv, AnalystTypes
<1>7. ChainInv'
  <2> SUFFICES ASSUME NEW i \in 1 .. n
               PROVE  /\ reviewsAnalyses'[i].to = reviewsAnalyses'[i + 1].from
                      /\ reviewsAnalyses'[i + 1].to - reviewsAnalyses'[i + 1].from >= ReviewsMinNew
                      /\ reviewsAnalyses'[i + 1].begun - reviewsAnalyses'[i].at >= ReviewsInterval
    <3>1. \A i : i \in 1 .. Len(reviewsAnalyses') - 1 <=> i \in 1 .. n
      BY <1>1, <1>3
    <3> HIDE DEF n
    <3> QED BY <3>1 DEF ChainInv
  <2>1. CASE i = n
    <3>1. reviewsAnalyses # <<>> /\ reviewsAnalyses'[i] = reviewsAnalyses[n]
      BY <1>3, <2>1
    <3>2. /\ reviewsAnalysed.at > 0
          /\ reviewsAnalysed.at = reviewsAnalyses[n].at
          /\ reviewsAnalysed.count = reviewsAnalyses[n].to
          /\ reviewsAnalysed.at \in Nat
      BY <3>1 DEF AnalystInv, AnalystTypes, SavedInv
    <3>3. /\ reviewsAsking.begun - reviewsAnalysed.at >= ReviewsInterval
          /\ reviewsAsking.count - reviewsAnalysed.count >= ReviewsMinNew
      BY <3>2 DEF AnalystInv, AskingInv
    <3> QED BY <1>2, <1>3, <2>1, <3>1, <3>2, <3>3
  <2>2. CASE i # n
    <3>1. i \in 1 .. n - 1 /\ i + 1 \in 1 .. n
      BY <1>1, <2>2
    <3> QED BY <1>3, <3>1 DEF AnalystInv, ChainInv
  <2> QED BY <2>1, <2>2
<1> QED BY <1>1, <1>2, <1>3, <1>4, <1>5, <1>6, <1>7

\* One more analysis that reached the digest: it comes first, then the rest of what there
\* was, nothing after an arrow.
Grows(was, now, all, more, n, digested, shown, shown2, x, rest, m) ==
  /\ was \in Seq(LearnedEntry) /\ n \in Nat /\ digested \in SUBSET (1 .. n)
  /\ m \in Nat /\ m = ReviewsDigest
  /\ shown = {was[i].nr : i \in 1 .. Len(was)} /\ shown2 = {now[i].nr : i \in 1 .. Len(now)}
  /\ DigestIs(was, all, digested, shown)
  /\ x.nr = n + 1 /\ more[n + 1] = x /\ \A i \in 1 .. n : more[i] = all[i]
  /\ rest \in Seq(LearnedEntry)
  /\ IF \E i \in 1 .. Len(was) : was[i].summary = "arrow" THEN rest = <<>> ELSE rest = was
  /\ Len(now) \in Nat /\ Len(now) <= m /\ Len(now) <= Len(rest) + 1
  /\ Len(now) = Len(rest) + 1 \/ Len(now) = m
  /\ \A i \in 1 .. Len(now) : now[i] = IF i = 1 THEN x ELSE rest[i - 1]

LEMMA DigestGrows ==
  ASSUME NEW was, NEW now, NEW all, NEW more, NEW n, NEW digested, NEW shown, NEW shown2,
         NEW x, NEW rest, NEW m,
         Grows(was, now, all, more, n, digested, shown, shown2, x, rest, m)
  PROVE  DigestIs(now, more, digested \union {n + 1}, shown2)
<1> USE DEF Grows
<1> DEFINE digested2 == digested \union {n + 1}
<1>1. Len(was) \in Nat /\ Len(rest) \in Nat
  OBVIOUS
<1>2. ASSUME NEW i \in 1 .. Len(now), i # 1
      PROVE  /\ i - 1 \in 1 .. Len(was) /\ now[i] = was[i - 1] /\ rest = was
             /\ \A j \in 1 .. Len(was) : was[j].summary # "arrow"
  <2>1. i - 1 \in 1 .. Len(rest) /\ now[i] = rest[i - 1]
    BY <1>1, <1>2
  <2>2. rest = was
    BY <2>1
  <2> QED BY <2>1, <2>2
<1>3. ASSUME NEW i \in 1 .. Len(was)
      PROVE  was[i].nr \in digested /\ was[i] = all[was[i].nr] /\ was[i].nr \in 1 .. n
  BY DEF DigestIs
<1>4. ASSUME NEW i \in 1 .. Len(now) PROVE now[i].nr \in digested2 /\ now[i] = more[now[i].nr]
  <2>1. CASE i = 1 BY <2>1
  <2>2. CASE i # 1
    <3>1. i - 1 \in 1 .. Len(was) /\ now[i] = was[i - 1]
      BY <1>2, <2>2
    <3>2. /\ was[i - 1].nr \in digested /\ was[i - 1].nr \in 1 .. n
          /\ was[i - 1] = all[was[i - 1].nr]
      BY <1>3, <3>1
    <3>3. more[was[i - 1].nr] = all[was[i - 1].nr]
      BY <3>2
    <3> QED BY <3>1, <3>2, <3>3
  <2> QED BY <2>1, <2>2
<1>5. ASSUME NEW i \in 1 .. Len(now), NEW j \in 1 .. Len(now), i < j
      PROVE  now[i].nr > now[j].nr
  <2>1. j # 1 /\ now[j] = was[j - 1] /\ j - 1 \in 1 .. Len(was) /\ was[j - 1].nr \in 1 .. n
    BY <1>2, <1>3, <1>5
  <2>2. CASE i = 1
    <3>1. now[i].nr = n + 1 BY <2>2
    <3> QED BY <2>1, <3>1
  <2>3. CASE i # 1
    <3>1. now[i] = was[i - 1] /\ i - 1 \in 1 .. Len(was) /\ i - 1 < j - 1
      BY <1>2, <1>5, <2>3
    <3> QED BY <2>1, <3>1 DEF DigestIs
  <2> QED BY <2>2, <2>3
<1>11. \A i \in digested, j \in shown : i > j => i \in shown
  BY DEF DigestIs
<1>6. ASSUME NEW i \in digested2, NEW j \in shown2, i > j PROVE i \in shown2
  <2>1. PICK b \in 1 .. Len(now) : j = now[b].nr
    OBVIOUS
  <2>2. 1 \in 1 .. Len(now)
    BY <2>1
  <2>3. CASE i = n + 1
    <3>1. now[1].nr = n + 1 BY <2>2
    <3> QED BY <2>2, <2>3, <3>1
  <2>4. CASE i # n + 1
    <3>1. i \in digested /\ i \in 1 .. n
      BY <2>4
    <3>2. b # 1
      <4> SUFFICES ASSUME b = 1 PROVE FALSE
        OBVIOUS
      <4>1. j = n + 1 BY <2>1
      <4> QED BY <1>6, <3>1, <4>1
    <3>3. j = was[b - 1].nr /\ b - 1 \in 1 .. Len(was) /\ rest = was
      BY <1>2, <2>1, <3>2
    <3>4. i \in shown
      <4>1. j \in shown
        BY <3>3
      <4> QED BY <1>6, <1>11, <3>1, <4>1
    <3>5. PICK a \in 1 .. Len(was) : i = was[a].nr
      BY <3>4
    <3>6. a < b - 1
      <4> SUFFICES ASSUME ~(a < b - 1) PROVE FALSE
        OBVIOUS
      <4>1. a = b - 1 \/ b - 1 < a
        BY <3>3
      <4>2. was[a].nr = was[b - 1].nr \/ was[b - 1].nr > was[a].nr
        BY <3>3, <4>1 DEF DigestIs
      <4>3. was[a].nr \in 1 .. n /\ was[b - 1].nr \in 1 .. n
        BY <1>3, <3>3
      <4> QED BY <1>6, <3>3, <3>5, <4>2, <4>3
    <3>7. a + 1 \in 1 .. Len(now) /\ now[a + 1] = rest[a]
      <4>1. a + 1 \in 1 .. Len(now) /\ a + 1 # 1 /\ (a + 1) - 1 = a
        BY <1>1, <3>3, <3>6
      <4>2. now[a + 1] = rest[(a + 1) - 1]
        BY <4>1
      <4> QED BY <4>1, <4>2
    <3> QED BY <3>3, <3>5, <3>7
  <2> QED BY <2>3, <2>4
<1>7. \/ \E i \in digested2 : more[i].summary = "arrow"
      \/ digested2 \subseteq shown2
      \/ Len(now) = m
  <2> SUFFICES ASSUME \A i \in digested2 : more[i].summary # "arrow", Len(now) # m
               PROVE  digested2 \subseteq shown2
    OBVIOUS
  <2>1. \A i \in digested : all[i].summary # "arrow"
    OBVIOUS
  <2>2. \A i \in 1 .. Len(was) : was[i].summary # "arrow"
    BY <1>3, <2>1
  <2>3. rest = was /\ Len(now) = Len(was) + 1
    BY <2>2
  <2>4. digested \subseteq shown
    BY <1>1, <2>1, <2>3 DEF DigestIs
  <2>5. n + 1 \in shown2
    BY <1>1, <2>3
  <2>6. ASSUME NEW i \in shown PROVE i \in shown2
    <3>1. PICK a \in 1 .. Len(was) : i = was[a].nr
      OBVIOUS
    <3>2. a + 1 \in 1 .. Len(now) /\ now[a + 1] = was[a]
      BY <1>1, <2>3
    <3> QED BY <3>1, <3>2
  <2> QED BY <2>4, <2>5, <2>6
<1>8. ASSUME NEW i \in digested2, NEW j \in digested2, more[i].summary = "arrow", i < j,
             NEW k \in shown2
      PROVE  i < k
  <2>1. i \in digested /\ i \in 1 .. n /\ all[i].summary = "arrow"
    BY <1>8
  <2>2. PICK b \in 1 .. Len(now) : k = now[b].nr
    OBVIOUS
  <2>3. CASE b = 1
    BY <2>1, <2>2, <2>3
  <2>4. CASE b # 1
    <3>1. /\ k = was[b - 1].nr /\ b - 1 \in 1 .. Len(was) /\ rest = was /\ k \in shown
          /\ \A l \in 1 .. Len(was) : was[l].summary # "arrow"
      BY <1>2, <2>2, <2>4
    <3>2. i \notin shown
      <4>1. ASSUME NEW a \in 1 .. Len(was), i = was[a].nr PROVE FALSE
        <5>1. was[a] = all[was[a].nr]
          BY <1>3
        <5>2. was[a].summary # "arrow"
          BY <3>1
        <5>3. was[a] = all[i]
          BY <4>1, <5>1
        <5> QED BY <2>1, <5>2, <5>3
      <4>2. shown = {was[a].nr : a \in 1 .. Len(was)}
        OBVIOUS
      <4> HIDE DEF Grows
      <4> QED BY <4>1, <4>2
    <3>3. i < k \/ i = k \/ i > k
      <4>1. was[b - 1].nr \in 1 .. n
        BY <1>3, <3>1
      <4> QED BY <2>1, <3>1, <4>1
    <3>4. i # k
      BY <3>1, <3>2
    <3>5. ~(i > k)
      BY <1>11, <2>1, <3>1, <3>2
    <3> QED BY <3>3, <3>4, <3>5
  <2> QED BY <2>3, <2>4
<1>10. Len(now) <= ReviewsDigest /\ m = ReviewsDigest
  OBVIOUS
<1> HIDE DEF digested2, Grows
<1>9. DigestIs(now, more, digested2, shown2)
  BY <1>4, <1>5, <1>6, <1>7, <1>8, <1>10 DEF DigestIs
<1> QED BY <1>9 DEF digested2

\* The analysis that reaches the digest.
LEMMA AnswerKeepsLearnings ==
  ASSUME AnalystInv, NEW summary \in {"text", "arrow", None}, Reviews!Summarised(summary)
  PROVE  AnalystInv'
<1>1. PICK x : x = Reviews!Analysis(summary, "digest")
  OBVIOUS
<1> DEFINE n == Len(reviewsAnalyses)
           rest == IF \E i \in 1 .. Len(reviewsDigest) : reviewsDigest[i].summary = "arrow"
                   THEN <<>> ELSE reviewsDigest
<1>2. /\ reviewsAsking # None /\ reviewsAsking' = None
      /\ reviewsAnalysed' = [count |-> reviewsAsking.count, at |-> reviewsTime]
      /\ reviewsAnalyses' = Append(reviewsAnalyses, x)
      /\ reviewsDigest' = Reviews!Recorded(x)
      /\ reviewsTime' = reviewsTime /\ reviewsCrashes' = reviewsCrashes
  BY <1>1 DEF Reviews!Summarised
<1>3. x \in LearnedEntry
  <2>1. /\ reviewsAnalysed.count \in Nat /\ reviewsTime \in Nat /\ n + 1 \in Nat
        /\ reviewsAsking \in [count : Nat, begun : Nat,
                              of : UNION {[s -> Nat] : s \in SUBSET Strategies}]
    BY <1>2 DEF AnalystInv, AnalystTypes, AskingInv
  <2> QED BY <1>1, <2>1 DEF Reviews!Analysis, LearnedEntry
<1>4. /\ rest \in Seq(LearnedEntry) /\ reviewsDigest' \in Seq(LearnedEntry)
      /\ Len(reviewsDigest') <= Len(rest) + 1 /\ Len(reviewsDigest') <= ReviewsDigest
      /\ Len(reviewsDigest') = Len(rest) + 1 \/ Len(reviewsDigest') = ReviewsDigest
      /\ \A i \in 1 .. Len(reviewsDigest') : reviewsDigest'[i] = IF i = 1 THEN x ELSE rest[i - 1]
  <2>1. rest \in Seq(LearnedEntry) /\ DOMAIN reviewsDigest = 1 .. Len(reviewsDigest)
    BY DEF AnalystInv, AnalystTypes
  <2>2. reviewsDigest' = SubSeq(<<x>> \o rest, 1,
          IF Len(<<x>> \o rest) > ReviewsDigest THEN ReviewsDigest ELSE Len(<<x>> \o rest))
    BY <1>2, <2>1 DEF Reviews!Recorded
  <2> HIDE DEF rest
  <2> QED BY <1>3, <2>1, <2>2, ReviewsAssumed, PutFirst
<1>5. /\ AnalystTypes' /\ AskingInv' /\ SavedInv' /\ ChainInv'
      /\ x.nr = n + 1 /\ x.kept = "digest"
      /\ Len(reviewsAnalyses') = n + 1 /\ n \in Nat
      /\ reviewsAnalyses'[n + 1] = x
      /\ \A i \in 1 .. n : reviewsAnalyses'[i] = reviewsAnalyses[i]
  BY <1>1, <1>2, <1>4, AnalysisIsAdded
<1>6. \A i \in 1 .. n + 1 : i = n + 1 \/ i \in 1 .. n
  BY <1>5
<1>7. Digested' = Digested \union {n + 1} /\ CutOff' = CutOff
  BY <1>5, <1>6 DEF Digested, CutOff
<1>8. IF \E i \in 1 .. Len(reviewsDigest) : reviewsDigest[i].summary = "arrow"
      THEN rest = <<>> ELSE rest = reviewsDigest
  OBVIOUS
<1> HIDE DEF rest
<1>9. DigestIs(reviewsDigest', reviewsAnalyses', Digested \union {n + 1}, Shown')
  <2>1. /\ reviewsDigest \in Seq(LearnedEntry) /\ Digested \in SUBSET (1 .. n)
        /\ DigestIs(reviewsDigest, reviewsAnalyses, Digested, Shown)
    BY DEF AnalystInv, AnalystTypes, DigestInv, Digested
  <2>2. Len(reviewsDigest') \in Nat
    BY <1>4
  <2>3. Shown' = {reviewsDigest'[i].nr : i \in 1 .. Len(reviewsDigest')}
    BY DEF Shown
  <2>4. Grows(reviewsDigest, reviewsDigest', reviewsAnalyses, reviewsAnalyses', n, Digested, Shown,
              Shown', x, rest, ReviewsDigest)
    <3>1. ReviewsDigest \in Nat
      BY ReviewsAssumed
    <3> HIDE DEF n
    <3> QED BY <1>4, <1>5, <1>8, <2>1, <2>2, <2>3, <3>1 DEF Grows, Shown
  <2> HIDE DEF n
  <2> QED BY <2>4, DigestGrows
<1>10. DigestIs(reviewsDigest, reviewsAnalyses, Digested, Shown)'
  BY <1>7, <1>9 DEF DigestIs
<1>11. DigestInv'
  BY <1>5, <1>6, <1>10 DEF AnalystInv, DigestInv
<1>12. CutOffInv'
  BY <1>2, <1>7 DEF AnalystInv, CutOffInv
<1> QED BY <1>5, <1>11, <1>12 DEF AnalystInv

\* The analysis a crash cuts off is counted, and the digest stays.
LEMMA CutOffAnalysis ==
  ASSUME AnalystInv, NEW summary \in {"text", "arrow", None}, NEW kept \in {"state", "log"},
         Reviews!CrashInSummary(summary, kept)
  PROVE  AnalystInv'
<1>1. PICK x : x = Reviews!Analysis(summary, kept)
  OBVIOUS
<1> DEFINE n == Len(reviewsAnalyses)
<1>2. /\ reviewsAsking # None /\ reviewsAsking' = None
      /\ reviewsAnalysed' = [count |-> reviewsAsking.count, at |-> reviewsTime]
      /\ reviewsAnalyses' = Append(reviewsAnalyses, x)
      /\ reviewsDigest' = reviewsDigest
      /\ reviewsTime' = reviewsTime /\ reviewsCrashes' = reviewsCrashes + 1
  BY <1>1 DEF Reviews!CrashInSummary, Reviews!Restart
<1>3. /\ AnalystTypes' /\ AskingInv' /\ SavedInv' /\ ChainInv'
      /\ x.nr = n + 1 /\ x.kept = kept
      /\ Len(reviewsAnalyses') = n + 1 /\ n \in Nat
      /\ reviewsAnalyses'[n + 1] = x
      /\ \A i \in 1 .. n : reviewsAnalyses'[i] = reviewsAnalyses[i]
  <2>1. reviewsDigest' \in Seq(LearnedEntry) /\ kept \in {"state", "log", "digest"}
    BY <1>2 DEF AnalystInv, AnalystTypes
  <2> QED BY <1>1, <1>2, <2>1, AnalysisIsAdded
<1>4. \A i \in 1 .. n + 1 : i = n + 1 \/ i \in 1 .. n
  BY <1>3
<1>5. Digested' = Digested /\ CutOff' = CutOff \union {n + 1} /\ Shown' = Shown
  BY <1>2, <1>3, <1>4 DEF Digested, CutOff, Shown
<1>6. \A i \in Digested : reviewsAnalyses'[i] = reviewsAnalyses[i]
  BY <1>3 DEF Digested
<1>7. DigestIs(reviewsDigest, reviewsAnalyses', Digested, Shown)
  BY <1>6 DEF AnalystInv, DigestInv, DigestIs
<1>8. DigestIs(reviewsDigest, reviewsAnalyses, Digested, Shown)'
  BY <1>2, <1>5, <1>7 DEF DigestIs
<1>9. DigestInv'
  BY <1>3, <1>4, <1>8 DEF AnalystInv, DigestInv
<1>10. CutOffInv'
  <2>1. reviewsCrashes \in Nat /\ IsFiniteSet(CutOff) /\ Cardinality(CutOff) <= reviewsCrashes
    BY DEF AnalystInv, CutOffInv
  <2>2. n + 1 \notin CutOff
    BY <1>3 DEF CutOff
  <2>3. /\ Cardinality(CutOff) \in Nat /\ IsFiniteSet(CutOff \union {n + 1})
        /\ Cardinality(CutOff \union {n + 1}) = Cardinality(CutOff) + 1
    BY <2>1, <2>2, FS_AddElement, FS_CardinalityType
  <2> QED BY <1>2, <1>5, <2>1, <2>3 DEF CutOffInv
<1> QED BY <1>3, <1>9, <1>10 DEF AnalystInv

LEMMA ReviewsCount == ASSUME NEW S PROVE Reviews!Cardinality(S) = Cardinality(S)
BY DEF Reviews!Cardinality, Cardinality

\* What a request counts are numbers.
LEMMA TradesAreCounted ==
  ASSUME reviewsJournal \in Seq(Reviews!Line)
  PROVE  /\ Reviews!Closed \in Nat
         /\ Reviews!ByStrategy \in UNION {[s -> Nat] : s \in SUBSET Strategies}
<1> DEFINE D == DOMAIN reviewsJournal
<1>1. D = 1 .. Len(reviewsJournal) /\ Len(reviewsJournal) \in Nat
  OBVIOUS
<1>2. IsFiniteSet(D)
  BY <1>1, FS_Interval
<1> HIDE DEF D
<1>3. ASSUME NEW S \in SUBSET D PROVE Cardinality(S) \in Nat
  BY <1>2, FS_Subset, FS_CardinalityType
<1>4. Reviews!ClosedTrades \in SUBSET D
  BY DEF Reviews!ClosedTrades, D
<1>5. Reviews!Closed \in Nat
  BY <1>3, <1>4, ReviewsCount DEF Reviews!Closed
<1> DEFINE T == {reviewsJournal[i].strategy : i \in Reviews!ClosedTrades}
           count(s) == Reviews!Cardinality({i \in Reviews!ClosedTrades : reviewsJournal[i].strategy = s})
<1>6. T \in SUBSET Strategies
  <2>1. \A i \in D : reviewsJournal[i] \in Reviews!Line
    BY <1>1
  <2>2. \A l \in Reviews!Line : l.strategy \in Strategies
    BY DEF Reviews!Line
  <2> QED BY <1>4, <2>1, <2>2
<1>7. ASSUME NEW s \in T PROVE count(s) \in Nat
  <2>1. {i \in Reviews!ClosedTrades : reviewsJournal[i].strategy = s} \in SUBSET D
    BY <1>4
  <2> QED BY <1>3, <2>1, ReviewsCount
<1>8. Reviews!ByStrategy = [s \in T |-> count(s)]
  BY DEF Reviews!ByStrategy
<1> HIDE DEF T, count
<1>9. Reviews!ByStrategy \in [T -> Nat]
  BY <1>7, <1>8
<1> QED BY <1>5, <1>6, <1>9

\* The digest depends on the two files only.
LEMMA DigestStays ==
  ASSUME AnalystInv, UNCHANGED <<reviewsAnalyses, reviewsDigest>>
  PROVE  DigestInv' /\ CutOff' = CutOff /\ (reviewsCrashes' = reviewsCrashes => CutOffInv')
<1>1. Digested' = Digested /\ Shown' = Shown /\ CutOff' = CutOff
  BY DEF Digested, Shown, CutOff
<1>2. DigestIs(reviewsDigest, reviewsAnalyses, Digested, Shown)'
  BY <1>1 DEF AnalystInv, DigestInv, DigestIs
<1> QED BY <1>1, <1>2 DEF AnalystInv, DigestInv, CutOffInv

LEMMA AskKeepsLearnings ==
  ASSUME AnalystInv, EvaluatorInv, Reviews!Analyse
  PROVE  AnalystInv'
<1> DEFINE x == [count |-> Reviews!Closed, begun |-> reviewsTime, of |-> Reviews!ByStrategy]
<1>1. /\ reviewsTime - reviewsAnalysed.at >= ReviewsInterval
      /\ reviewsAnalysed.at = 0 \/ Reviews!Closed - reviewsAnalysed.count >= ReviewsMinNew
      /\ reviewsAsking' = x
      /\ UNCHANGED <<reviewsTime, reviewsAnalysed, reviewsAnalyses, reviewsDigest, reviewsCrashes>>
  BY DEF Reviews!Analyse
<1>2. /\ x \in [count : Nat, begun : Nat, of : UNION {[s -> Nat] : s \in SUBSET Strategies}]
      /\ x.begun = reviewsTime /\ x.count = Reviews!Closed
  <2>1. /\ Reviews!Closed \in Nat
        /\ Reviews!ByStrategy \in UNION {[s -> Nat] : s \in SUBSET Strategies}
    BY TradesAreCounted DEF EvaluatorInv, EvaluatorTypes
  <2>2. reviewsTime \in Nat
    BY DEF AnalystInv, AnalystTypes
  <2> QED BY <2>1, <2>2
<1> HIDE DEF x
<1>3. AskingInv'
  BY <1>1, <1>2 DEF AskingInv
<1> QED
  BY <1>1, <1>3, DigestStays DEF AnalystInv, AnalystTypes, SavedInv, ChainInv

\* The answers logged, the digest and what is asked stay, or the request is dropped.
LEMMA AnalystStays ==
  ASSUME AnalystInv, UNCHANGED <<reviewsAnalysed, reviewsAnalyses, reviewsDigest>>,
         reviewsCrashes' \in {reviewsCrashes, reviewsCrashes + 1},
         reviewsTime' \in {reviewsTime, reviewsTime + 1}, reviewsAsking' \in {reviewsAsking, None}
  PROVE  AnalystInv'
<1>1. AnalystTypes' /\ AskingInv'
  BY DEF AnalystInv, AnalystTypes, AskingInv
<1>2. CutOffInv'
  <2>1. CutOff' = CutOff
    BY DigestStays
  <2>2. reviewsCrashes \in Nat /\ IsFiniteSet(CutOff) /\ Cardinality(CutOff) <= reviewsCrashes
    BY DEF AnalystInv, CutOffInv
  <2>3. Cardinality(CutOff) \in Nat
    BY <2>2, FS_CardinalityType
  <2>4. reviewsCrashes' \in Nat /\ Cardinality(CutOff) <= reviewsCrashes'
    BY <2>2, <2>3
  <2> QED BY <2>1, <2>2, <2>4 DEF CutOffInv
<1> QED BY <1>1, <1>2, DigestStays DEF AnalystInv, SavedInv, ChainInv

LEMMA AnalystInit == Reviews!Init => AnalystInv
<1> SUFFICES ASSUME Reviews!Init PROVE AnalystInv
  OBVIOUS
<1>1. /\ reviewsTime = 1 /\ reviewsAnalysed = [count |-> 0, at |-> 0] /\ reviewsAsking = None
      /\ reviewsAnalyses = <<>> /\ reviewsDigest = <<>> /\ reviewsCrashes = 0
  BY DEF Reviews!Init
<1>2. AnalystTypes
  BY <1>1 DEF AnalystTypes
<1>3. Digested = {} /\ Shown = {} /\ CutOff = {}
  BY <1>1 DEF Digested, Shown, CutOff
<1>4. DigestInv
  BY <1>1, <1>3, ReviewsAssumed DEF DigestInv, DigestIs
<1>5. CutOffInv
  BY <1>1, <1>3, FS_EmptySet DEF CutOffInv
<1> QED BY <1>1, <1>2, <1>4, <1>5 DEF AnalystInv, AskingInv, SavedInv, ChainInv

ReviewsInv == EvaluatorInv /\ AnalystInv

LEMMA ReviewsStep == ReviewsInv /\ [Reviews!Next]_reviewsVars => ReviewsInv'
<1> SUFFICES ASSUME ReviewsInv, [Reviews!Next]_reviewsVars PROVE ReviewsInv'
  OBVIOUS
<1> USE DEF ReviewsInv
<1>1. ASSUME NEW s \in Strategies, NEW closes \in BOOLEAN, Reviews!Fill(s, closes)
      PROVE  ReviewsInv'
  <2>1. AnalystInv'
    BY <1>1, AnalystStays DEF Reviews!Fill, Reviews!analyst
  <2> QED BY <1>1, <2>1, FillKeepsReviews
<1>2. CASE Reviews!Tick
  <2>1. AnalystInv'
    BY <1>2, AnalystStays DEF Reviews!Tick, Reviews!analyst
  <2>2. EvaluatorTypes'
    BY <1>2 DEF Reviews!Tick, Reviews!evaluator, EvaluatorInv, EvaluatorTypes
  <2> QED BY <1>2, <2>1, <2>2, EvaluatorStays DEF Reviews!Tick, Reviews!evaluator
<1>3. CASE Reviews!Scan
  <2>1. AnalystInv'
    BY <1>3, AnalystStays DEF Reviews!Scan, Reviews!analyst
  <2> QED BY <1>3, <2>1, ScanKeepsReviews
<1>4. CASE Reviews!Take
  <2>1. AnalystInv'
    BY <1>4, AnalystStays DEF Reviews!Take, Reviews!analyst
  <2> QED BY <1>4, <2>1, TakeKeepsReviews
<1>5. CASE Reviews!Evaluated
  <2>1. AnalystInv'
    BY <1>5, AnalystStays DEF Reviews!Evaluated, Reviews!analyst
  <2> QED BY <1>5, <2>1, EvaluatedKeepsReviews
<1>6. CASE Reviews!EvaluationFails
  <2>1. AnalystInv'
    BY <1>6, AnalystStays DEF Reviews!EvaluationFails, Reviews!analyst
  <2> QED BY <1>6, <2>1, FailureKeepsReviews
<1>7. CASE Reviews!Analyse
  <2>1. EvaluatorTypes'
    BY <1>7 DEF Reviews!Analyse, Reviews!evaluator, EvaluatorInv, EvaluatorTypes
  <2>2. EvaluatorInv'
    BY <1>7, <2>1, EvaluatorStays DEF Reviews!Analyse, Reviews!evaluator
  <2> QED BY <1>7, <2>2, AskKeepsLearnings
<1>8. ASSUME NEW summary \in {"text", "arrow", None}, Reviews!Summarised(summary)
      PROVE  ReviewsInv'
  <2>1. EvaluatorTypes'
    BY <1>8 DEF Reviews!Summarised, Reviews!evaluator, EvaluatorInv, EvaluatorTypes
  <2>2. EvaluatorInv'
    BY <1>8, <2>1, EvaluatorStays DEF Reviews!Summarised, Reviews!evaluator
  <2> QED BY <1>8, <2>2, AnswerKeepsLearnings
<1>9. CASE Reviews!Crash
  <2>1. AnalystInv'
    BY <1>9, AnalystStays DEF Reviews!Crash, Reviews!Restart
  <2> QED BY <1>9, <2>1, CrashKeepsReviews DEF Reviews!Crash
<1>11. ASSUME NEW summary \in {"text", "arrow", None}, NEW kept \in {"state", "log"},
              Reviews!CrashInSummary(summary, kept)
       PROVE  ReviewsInv'
  BY <1>11, CutOffAnalysis, CrashKeepsReviews DEF Reviews!CrashInSummary
<1>10. CASE UNCHANGED reviewsVars
  <2>1. AnalystInv'
    BY <1>10, AnalystStays DEF reviewsVars
  <2>2. EvaluatorTypes'
    BY <1>10 DEF reviewsVars, EvaluatorInv, EvaluatorTypes
  <2> QED BY <1>10, <2>1, <2>2, EvaluatorStays DEF reviewsVars
<1> QED
  BY <1>1, <1>2, <1>3, <1>4, <1>5, <1>6, <1>7, <1>8, <1>9, <1>10, <1>11
  DEF Reviews!Next

\* The summary shown is that of the last analysis answered and logged: it is in the
\* digest, was cut off before it, or is older than all of it.
LEMMA LatestIsKept ==
  ASSUME AnalystInv, Reviews!LatestSummary # None
  PROVE  \/ Reviews!LatestSummary.kept = "log" \/ Reviews!LatestSummary.nr \in Shown
         \/ \A i \in 1 .. Len(reviewsDigest) : reviewsDigest[i].summary = None
<1> DEFINE n == Len(reviewsAnalyses)
           answered == {i \in DOMAIN reviewsAnalyses :
                          reviewsAnalyses[i].summary # None /\ reviewsAnalyses[i].kept # "state"}
           m == CHOOSE i \in answered : \A j \in answered : j <= i
<1>1. n \in Nat /\ DOMAIN reviewsAnalyses = 1 .. n
  BY DEF AnalystInv, AnalystTypes
<1>2. answered # {} /\ Reviews!LatestSummary = reviewsAnalyses[m]
  BY DEF Reviews!LatestSummary
<1>3. answered \in SUBSET (1 .. n)
  BY <1>1
<1>4. \A i \in 1 .. n :
        i \in answered <=> reviewsAnalyses[i].summary # None /\ reviewsAnalyses[i].kept # "state"
  BY <1>1
<1> HIDE DEF n, answered
<1>5. m \in answered /\ \A j \in answered : j <= m
  BY <1>1, <1>2, <1>3, MaxUpTo
<1> HIDE DEF m
<1>6. reviewsAnalyses[m].kept \in {"log", "digest"} /\ reviewsAnalyses[m].nr = m
  <2>1. m \in 1 .. n /\ reviewsAnalyses[m].kept # "state"
    BY <1>3, <1>4, <1>5
  <2>2. reviewsAnalyses[m] \in LearnedEntry
    BY <1>1, <2>1 DEF AnalystInv, AnalystTypes, n
  <2> QED BY <2>1, <2>2 DEF AnalystInv, DigestInv, LearnedEntry, n
<1>7. CASE reviewsAnalyses[m].kept = "log"
  BY <1>2, <1>7
<1>8. CASE reviewsAnalyses[m].kept = "digest" /\ m \notin Shown
  <2> SUFFICES ASSUME NEW i \in 1 .. Len(reviewsDigest) PROVE reviewsDigest[i].summary = None
    OBVIOUS
  <2>1. m \in Digested /\ m \in 1 .. n
    BY <1>3, <1>5, <1>8 DEF Digested, n
  <2>2. /\ reviewsDigest[i].nr \in Digested /\ reviewsDigest[i] = reviewsAnalyses[reviewsDigest[i].nr]
        /\ reviewsDigest[i].nr \in Shown /\ reviewsDigest[i].nr \in 1 .. n
    BY DEF AnalystInv, DigestInv, DigestIs, Shown, Digested, n
  <2>3. reviewsDigest[i].nr > m
    <3>1. ~(m > reviewsDigest[i].nr)
      BY <1>8, <2>1, <2>2 DEF AnalystInv, DigestInv, DigestIs
    <3> QED BY <1>8, <2>1, <2>2, <3>1
  <2>4. reviewsDigest[i].nr \notin answered
    BY <1>1, <1>3, <1>5, <2>1, <2>2, <2>3
  <2> QED BY <1>4, <2>2, <2>4 DEF Digested
<1>9. CASE reviewsAnalyses[m].kept = "digest" /\ m \in Shown
  BY <1>2, <1>6, <1>9
<1> QED BY <1>6, <1>7, <1>8, <1>9

LEMMA ReviewsFollow == ReviewsInv => ReviewsAreSound
<1> SUFFICES ASSUME ReviewsInv PROVE Reviews!ReviewsAreSound
  BY DEF ReviewsAreSound
<1> USE DEF ReviewsInv
<1>1. Reviews!ReviewsFollowTheJournal
  <2>1. \A i \in 1 .. Len(reviewsLog) : reviewsLog[i].of # None =>
          /\ reviewsJournal[reviewsLog[i].of].type = "entry"
          /\ reviewsJournal[reviewsLog[i].of].strategy
               = reviewsJournal[reviewsLog[i].line].strategy
          /\ reviewsLog[i].of < reviewsLog[i].line
          /\ reviewsJournal[reviewsLog[i].line].type = "exit"
    BY DEF EvaluatorInv, LoggedInv, EntryOf
  <2>2. \A i, j \in 1 .. Len(reviewsLog) : i < j => reviewsLog[i].line < reviewsLog[j].line
    BY DEF EvaluatorInv, LoggedInv
  <2> QED BY <2>1, <2>2 DEF Reviews!ReviewsFollowTheJournal
<1>2. Reviews!NoTradeIsOverlooked
  <2>1. reviewsAnalysed.count = IF reviewsAnalyses = <<>> THEN 0
                                ELSE reviewsAnalyses[Len(reviewsAnalyses)].to
    BY DEF AnalystInv, SavedInv
  <2>2. Reviews!Cardinality({i \in 1 .. Len(reviewsAnalyses) : reviewsAnalyses[i].kept # "digest"})
          <= reviewsCrashes
    BY ReviewsCount DEF AnalystInv, CutOffInv, CutOff
  <2> QED BY <2>1, <2>2 DEF Reviews!NoTradeIsOverlooked, Reviews!Last, AnalystInv, ChainInv
<1>3. Reviews!DigestIsTheLatest
  <2> DEFINE digested == {i \in 1 .. Len(reviewsAnalyses) : reviewsAnalyses[i].kept = "digest"}
             arrows == {i \in digested : reviewsAnalyses[i].summary = "arrow"}
             shown == {reviewsDigest[i].nr : i \in 1 .. Len(reviewsDigest)}
  <2>1. digested = Digested /\ shown = Shown
    BY DEF Digested, Shown
  <2>2. DigestIs(reviewsDigest, reviewsAnalyses, digested, shown)
    BY <2>1 DEF AnalystInv, DigestInv
  <2>3. Reviews!LatestSummary # None =>
          \/ Reviews!LatestSummary.kept = "log" \/ Reviews!LatestSummary.nr \in shown
          \/ \A i \in 1 .. Len(reviewsDigest) : reviewsDigest[i].summary = None
    BY <2>1, LatestIsKept
  <2>4. arrows = {} => digested \subseteq shown \/ Len(reviewsDigest) = ReviewsDigest
    BY <2>2 DEF DigestIs
  <2>5. \A i \in arrows, j \in digested : i < j => \A k \in shown : i < k
    BY <2>2 DEF DigestIs
  <2> HIDE DEF digested, shown, arrows
  <2>6. /\ Len(reviewsDigest) <= ReviewsDigest
        /\ \A i \in 1 .. Len(reviewsDigest) :
             reviewsDigest[i].nr \in digested /\ reviewsDigest[i] = reviewsAnalyses[reviewsDigest[i].nr]
        /\ \A i, j \in 1 .. Len(reviewsDigest) : i < j => reviewsDigest[i].nr > reviewsDigest[j].nr
        /\ \A i \in digested, j \in shown : i > j => i \in shown
    BY <2>2 DEF DigestIs
  <2> QED BY <2>3, <2>4, <2>5, <2>6 DEF Reviews!DigestIsTheLatest, digested, shown, arrows
<1> QED BY <1>1, <1>2, <1>3 DEF Reviews!ReviewsAreSound

\* Lines are reviewed in the order of the journal, each at most once and with an entry of
\* its own strategy; no closed trade falls between two analyses; and the digest is the
\* latest of those a crash did not cut off: for any journal, any time between requests,
\* any answers and any number of restarts, within a summary's writes too (trade-evaluator.ts scanForNewEvents and processOne, trade-analyst.ts
\* maybeAnalyze and updateSummaryMarkdown).
THEOREM ReviewsAreAlwaysSound == BundleSpec => []ReviewsAreSound
<1>1. BundleInit => ReviewsInv
  BY EvaluatorInit, AnalystInit DEF BundleInit, ReviewsInv
<1>2. [BundleNext]_bundle => [Reviews!Next]_reviewsVars
  BY DEF BundleNext, bundle
<1>3. ReviewsInv /\ [BundleNext]_bundle => ReviewsInv'
  BY <1>2, ReviewsStep
<1> QED BY <1>1, <1>3, ReviewsFollow, PTL DEF BundleSpec

-----------------------------------------------------------------------------
(* The notifiers.                                                          *)

LEMMA NotesCount == ASSUME NEW S PROVE Notes!Cardinality(S) = Cardinality(S)
BY DEF Notes!Cardinality, Cardinality

LEMMA NotesAssumed ==
  /\ IsFiniteSet(Strategies) /\ "portfolio" \notin Strategies
<1>1. Notes!IsFiniteSet(Strategies) => IsFiniteSet(Strategies)
  BY DEF Notes!IsFiniteSet, IsFiniteSet
<1> QED BY <1>1, BundleAssumption DEF Notes!NotifiersAssumption

NotesSubjects == Strategies \union {"portfolio"}
NotesThings == Nat \union NotesSubjects

NotesTypes ==
  /\ notesMonitor \in {"fills", "readiness"}
  /\ notesJournal \in Seq([strategy : Strategies, won : BOOLEAN])
  /\ notesCalls \in Seq(Seq(NotesThings))
  /\ notesMemory \in [lines : Nat, known : SUBSET NotesThings]
  /\ notesFile \in [lines : Nat, known : SUBSET NotesThings]
  /\ notesSaid \in Seq([what : NotesThings, at : Nat])

\* The call i has a thing still to say.
Waits(i, thing) ==
  /\ i \in 1 .. Len(notesCalls)
  /\ \E k \in 1 .. Len(notesCalls[i]) : notesCalls[i][k] = thing

NoRepeats ==
  \A i \in 1 .. Len(notesCalls) : \A k, l \in 1 .. Len(notesCalls[i]) :
    k # l => notesCalls[i][k] # notesCalls[i][l]

\* What a notification once rests on: a line is claimed by one call, and said by none
\* that has it still to say.
FillsInv ==
  /\ notesFile = notesMemory
  /\ \A i, thing : Waits(i, thing) => thing \in 1 .. notesMemory.lines
  /\ \A i, j, thing : Waits(i, thing) /\ Waits(j, thing) => i = j
  /\ \A n \in 1 .. Len(notesSaid) :
       notesSaid[n].what \in 1 .. notesMemory.lines /\ \A i : ~Waits(i, notesSaid[n].what)
  /\ \A m, n \in 1 .. Len(notesSaid) : m # n => notesSaid[m].what # notesSaid[n].what

\* What an announcement once rests on: one call has the thing still to say, while
\* nobody knows it, and what nobody knows was not said.
NotesSaid(id) == {n \in 1 .. Len(notesSaid) : notesSaid[n].what = id}

ToldAtMostOnce(id) ==
  /\ \A i, j : Waits(i, id) /\ Waits(j, id) => i = j
  /\ \A i : Waits(i, id) => id \notin notesMemory.known
  /\ id \notin notesMemory.known => NotesSaid(id) = {}
  /\ \A m, n \in NotesSaid(id) : m = n

AnnouncedInv == \A id \in NotesSubjects : id \notin notesExcused => ToldAtMostOnce(id)

NotesInv ==
  /\ NotesTypes /\ NoRepeats
  /\ notesMonitor = "fills" => FillsInv
  /\ notesMonitor = "readiness" => AnnouncedInv

LEMMA CountTo == ASSUME NEW n \in Nat PROVE IsFiniteSet(1 .. n) /\ Cardinality(1 .. n) = n
BY FS_Interval, 1 \in Int, n \in Int

\* A call begins with what it has to say.
LEMMA CallBegins ==
  ASSUME NotesTypes, NoRepeats, NEW todo \in Seq(NotesThings),
         \A k, l \in 1 .. Len(todo) : k # l => todo[k] # todo[l],
         notesCalls' = Append(notesCalls, todo)
  PROVE  /\ notesCalls' \in Seq(Seq(NotesThings)) /\ Len(notesCalls') = Len(notesCalls) + 1
         /\ NoRepeats'
         /\ \A i, thing : Waits(i, thing)' <=>
              \/ Waits(i, thing)
              \/ i = Len(notesCalls) + 1 /\ \E k \in 1 .. Len(todo) : todo[k] = thing
<1>1. /\ notesCalls' \in Seq(Seq(NotesThings)) /\ Len(notesCalls') = Len(notesCalls) + 1
      /\ Len(notesCalls) \in Nat
      /\ notesCalls'[Len(notesCalls) + 1] = todo
      /\ \A i \in 1 .. Len(notesCalls) : notesCalls'[i] = notesCalls[i]
  BY DEF NotesTypes
<1>2. \A i \in 1 .. Len(notesCalls') : i = Len(notesCalls) + 1 \/ i \in 1 .. Len(notesCalls)
  BY <1>1
<1>3. NoRepeats'
  BY <1>1, <1>2 DEF NoRepeats
<1>4. ASSUME NEW i, NEW thing
      PROVE  Waits(i, thing)' <=>
               \/ Waits(i, thing)
               \/ i = Len(notesCalls) + 1 /\ \E k \in 1 .. Len(todo) : todo[k] = thing
  <2>1. CASE i \in 1 .. Len(notesCalls)
    <3>1. i # Len(notesCalls) + 1 /\ i \in 1 .. Len(notesCalls') /\ notesCalls'[i] = notesCalls[i]
      BY <1>1, <2>1
    <3> QED BY <2>1, <3>1 DEF Waits
  <2>2. CASE i = Len(notesCalls) + 1
    BY <1>1, <2>2 DEF Waits
  <2>3. CASE i \notin 1 .. Len(notesCalls) /\ i # Len(notesCalls) + 1
    BY <1>1, <1>2, <2>3 DEF Waits
  <2> QED BY <2>1, <2>2, <2>3
<1> QED BY <1>1, <1>3, <1>4

\* A call has said the first of what it had to say.
LEMMA CallGoesOn ==
  ASSUME NotesTypes, NoRepeats, NEW i \in 1 .. Len(notesCalls), notesCalls[i] # <<>>,
         notesCalls' = [notesCalls EXCEPT ![i] = Tail(notesCalls[i])],
         NEW said, said = Head(notesCalls[i])
  PROVE  /\ notesCalls' \in Seq(Seq(NotesThings)) /\ Len(notesCalls') = Len(notesCalls)
         /\ NoRepeats' /\ said \in NotesThings /\ Waits(i, said)
         /\ \A j, thing : Waits(j, thing)' <=> Waits(j, thing) /\ ~(j = i /\ thing = said)
<1> DEFINE call == notesCalls[i]
           rest == Tail(call)
<1>1. /\ call \in Seq(NotesThings) /\ Len(call) \in Nat \ {0} /\ said = call[1]
      /\ rest \in Seq(NotesThings) /\ Len(rest) = Len(call) - 1
      /\ \A k \in 1 .. Len(call) - 1 : rest[k] = call[k + 1]
  BY DEF NotesTypes
<1>2. /\ notesCalls' \in Seq(Seq(NotesThings)) /\ Len(notesCalls') = Len(notesCalls)
      /\ notesCalls'[i] = rest
      /\ \A j \in 1 .. Len(notesCalls) : j # i => notesCalls'[j] = notesCalls[j]
  BY <1>1 DEF NotesTypes
<1>3. \A k, l \in 1 .. Len(call) : k # l => call[k] # call[l]
  BY DEF NoRepeats
<1> HIDE DEF call, rest
<1>4. ASSUME NEW k \in 1 .. Len(call) - 1, NEW l \in 1 .. Len(call) - 1, k # l
      PROVE  rest[k] # rest[l]
  <2>1. k + 1 \in 1 .. Len(call) /\ l + 1 \in 1 .. Len(call) /\ k + 1 # l + 1
    BY <1>1, <1>4
  <2>2. call[k + 1] # call[l + 1]
    BY <1>3, <2>1
  <2>3. rest[k] = call[k + 1] /\ rest[l] = call[l + 1]
    BY <1>1
  <2> QED BY <2>2, <2>3
<1>5. NoRepeats'
  <2> SUFFICES ASSUME NEW j \in 1 .. Len(notesCalls)
               PROVE  \A k, l \in 1 .. Len(notesCalls'[j]) :
                        k # l => notesCalls'[j][k] # notesCalls'[j][l]
    BY <1>2 DEF NoRepeats
  <2>1. CASE j = i
    <3>1. notesCalls'[j] = rest /\ Len(notesCalls'[j]) = Len(call) - 1
      BY <1>1, <1>2, <2>1
    <3>2. ASSUME NEW k \in 1 .. Len(notesCalls'[j]), NEW l \in 1 .. Len(notesCalls'[j]), k # l
          PROVE  notesCalls'[j][k] # notesCalls'[j][l]
      <4>1. k \in 1 .. Len(call) - 1 /\ l \in 1 .. Len(call) - 1
        BY <3>1
      <4>2. rest[k] # rest[l]
        BY <1>4, <3>2, <4>1
      <4> QED BY <3>1, <4>2
    <3> QED BY <3>2
  <2>2. CASE j # i
    BY <1>2, <2>2 DEF NoRepeats
  <2> QED BY <2>1, <2>2
<1>6. Waits(i, said) /\ said \in NotesThings
  BY <1>1 DEF Waits, call
<1>7. \A thing : (\E k \in 1 .. Len(call) - 1 : rest[k] = thing)
                  <=> (\E k \in 1 .. Len(call) : call[k] = thing) /\ thing # said
  <2> TAKE thing
  <2>1. ASSUME NEW k \in 1 .. Len(call) - 1, rest[k] = thing
        PROVE  (\E l \in 1 .. Len(call) : call[l] = thing) /\ thing # said
    <3>1. k + 1 \in 1 .. Len(call) /\ 1 \in 1 .. Len(call) /\ k + 1 # 1 /\ call[k + 1] = thing
      BY <1>1, <2>1
    <3>2. call[k + 1] # call[1]
      BY <1>3, <3>1
    <3> QED BY <1>1, <3>1, <3>2
  <2>2. ASSUME NEW k \in 1 .. Len(call), call[k] = thing, thing # said
        PROVE  \E l \in 1 .. Len(call) - 1 : rest[l] = thing
    <3>1. k - 1 \in 1 .. Len(call) - 1 /\ (k - 1) + 1 = k
      BY <1>1, <2>2
    <3>2. rest[k - 1] = thing
      BY <1>1, <2>2, <3>1
    <3> QED BY <3>1, <3>2
  <2> QED BY <2>1, <2>2
<1>8. ASSUME NEW j, NEW thing
      PROVE  Waits(j, thing)' <=> Waits(j, thing) /\ ~(j = i /\ thing = said)
  <2>1. CASE j = i
    <3>1. Waits(j, thing)' <=> \E k \in 1 .. Len(call) - 1 : rest[k] = thing
      BY <1>1, <1>2, <2>1 DEF Waits
    <3>2. Waits(j, thing) <=> \E k \in 1 .. Len(call) : call[k] = thing
      BY <2>1 DEF Waits, call
    <3> QED BY <1>7, <2>1, <3>1, <3>2
  <2>2. CASE j # i
    BY <1>2, <2>2 DEF Waits
  <2> QED BY <2>1, <2>2
<1> QED BY <1>2, <1>5, <1>6, <1>8

\* A call returns: those after it move up.
LEMMA CallReturns ==
  ASSUME NotesTypes, NoRepeats, NEW i \in 1 .. Len(notesCalls), notesCalls[i] = <<>>,
         notesCalls' = Notes!RemoveAt(notesCalls, i)
  PROVE  /\ notesCalls' \in Seq(Seq(NotesThings)) /\ Len(notesCalls') = Len(notesCalls) - 1
         /\ NoRepeats'
         /\ \A j, thing : Waits(j, thing)' => Waits(IF j < i THEN j ELSE j + 1, thing)
<1> DEFINE n == Len(notesCalls)
           T == Seq(NotesThings)
           place(j) == IF j < i THEN j ELSE j + 1
           before == SubSeq(notesCalls, 1, i - 1)
           after == SubSeq(notesCalls, i + 1, n)
<1>1. n \in Nat /\ i \in 1 .. n /\ notesCalls \in Seq(T)
  BY DEF NotesTypes
<1> HIDE DEF T
<1>2. /\ before \in Seq(T) /\ Len(before) = i - 1
      /\ \A j \in 1 .. i - 1 : before[j] = notesCalls[j]
  BY <1>1
<1>3. /\ after \in Seq(T) /\ Len(after) = n - i
      /\ \A j \in 1 .. n - i : after[j] = notesCalls[i + j]
  BY <1>1
<1>4. notesCalls' = before \o after
  BY DEF Notes!RemoveAt
<1> HIDE DEF before, after, n
<1>5. /\ notesCalls' \in Seq(T) /\ Len(notesCalls') = n - 1
      /\ \A j \in 1 .. i - 1 : notesCalls'[j] = notesCalls[j]
      /\ \A j \in 1 .. n - i : notesCalls'[i - 1 + j] = notesCalls[i + j]
  <2>1. /\ notesCalls' \in Seq(T) /\ Len(notesCalls') = Len(before) + Len(after)
        /\ \A j \in 1 .. Len(before) : notesCalls'[j] = before[j]
        /\ \A j \in 1 .. Len(after) : notesCalls'[Len(before) + j] = after[j]
    <3>1. before \in Seq(T) /\ after \in Seq(T)
      BY <1>2, <1>3
    <3>2. /\ before \o after \in Seq(T) /\ Len(before \o after) = Len(before) + Len(after)
          /\ \A j \in 1 .. Len(before) : (before \o after)[j] = before[j]
          /\ \A j \in 1 .. Len(after) : (before \o after)[Len(before) + j] = after[j]
      BY <3>1, OneAfterOther
    <3> QED BY <1>4, <3>2
  <2>2. Len(before) = i - 1 /\ Len(after) = n - i /\ i - 1 + (n - i) = n - 1
    BY <1>1, <1>2, <1>3
  <2>3. ASSUME NEW j \in 1 .. i - 1 PROVE notesCalls'[j] = notesCalls[j]
    BY <1>2, <2>1, <2>2
  <2>4. ASSUME NEW j \in 1 .. n - i PROVE notesCalls'[i - 1 + j] = notesCalls[i + j]
    BY <1>3, <2>1, <2>2
  <2> QED BY <2>1, <2>2, <2>3, <2>4
<1>6. ASSUME NEW j \in 1 .. n - 1
      PROVE  place(j) \in 1 .. n /\ notesCalls'[j] = notesCalls[place(j)]
  <2>1. CASE j < i
    BY <1>1, <1>5, <2>1
  <2>2. CASE ~(j < i)
    <3>1. j - (i - 1) \in 1 .. n - i /\ i - 1 + (j - (i - 1)) = j /\ i + (j - (i - 1)) = j + 1
      BY <1>1, <2>2
    <3>2. notesCalls'[i - 1 + (j - (i - 1))] = notesCalls[i + (j - (i - 1))]
      BY <1>5, <3>1
    <3>3. place(j) = j + 1 /\ j + 1 \in 1 .. n
      BY <1>1, <2>2
    <3> QED BY <3>1, <3>2, <3>3
  <2> QED BY <2>1, <2>2
<1> HIDE DEF place
<1>7. NoRepeats'
  <2>1. ASSUME NEW j \in 1 .. n - 1
        PROVE  \A k, l \in 1 .. Len(notesCalls'[j]) :
                 k # l => notesCalls'[j][k] # notesCalls'[j][l]
    <3>1. \A k, l \in 1 .. Len(notesCalls[place(j)]) :
            k # l => notesCalls[place(j)][k] # notesCalls[place(j)][l]
      BY <1>6 DEF NoRepeats, n
    <3> QED BY <1>6, <3>1
  <2> QED BY <1>5, <2>1 DEF NoRepeats
<1>8. \A j, thing : Waits(j, thing)' => Waits(place(j), thing)
  BY <1>5, <1>6 DEF Waits, n
<1> QED BY <1>5, <1>7, <1>8 DEF n, T, place


\* A finite set in some order.
LEMMA NotesInSomeOrder ==
  ASSUME NEW S, IsFiniteSet(S)
  PROVE  /\ Notes!SetToSeq(S) \in Seq(S)
         /\ \A k, l \in 1 .. Len(Notes!SetToSeq(S)) :
              k # l => Notes!SetToSeq(S)[k] # Notes!SetToSeq(S)[l]
<1> DEFINE n == Cardinality(S)
           Ordered(f) == f \in [1 .. n -> S] /\ \A a, b \in 1 .. n : f[a] = f[b] => a = b
<1>1. n \in Nat /\ ExistsBijection(1 .. n, S)
  BY FS_CardinalityType
<1>2. \E f : Ordered(f)
  BY <1>1 DEF ExistsBijection, Bijection, Injection, IsInjective
<1>3. Notes!SetToSeq(S) = CHOOSE f : Ordered(f)
  <2>1. \A f : f \in [1 .. n -> S] => (Notes!IsInjective(f) <=> \A a, b \in 1 .. n : f[a] = f[b] => a = b)
    BY DEF Notes!IsInjective
  <2>2. \A f : f \in [1 .. n -> S] /\ Notes!IsInjective(f) <=> Ordered(f)
    BY <2>1
  <2>3. Notes!SetToSeq(S) = CHOOSE f : f \in [1 .. n -> S] /\ Notes!IsInjective(f)
    BY NotesCount DEF Notes!SetToSeq
  <2> HIDE DEF n, Ordered
  <2> QED BY <2>2, <2>3
<1> HIDE DEF Ordered
<1>4. Ordered(Notes!SetToSeq(S))
  BY <1>2, <1>3
<1> HIDE DEF n
<1> QED BY <1>1, <1>4 DEF Ordered

LEMMA NotesInOrder ==
  ASSUME NEW S \in SUBSET NotesSubjects, NEW todo, todo = Notes!InOrder(S)
  PROVE  /\ todo \in Seq(NotesThings)
         /\ \A k \in 1 .. Len(todo) : todo[k] \in S
         /\ \A k, l \in 1 .. Len(todo) : k # l => todo[k] # todo[l]
<1> DEFINE A == S \cap Strategies
           B == S \cap {"portfolio"}
           p == Notes!SetToSeq(A)
           q == Notes!SetToSeq(B)
<1>1. IsFiniteSet(A) /\ IsFiniteSet(B)
  <2>1. IsFiniteSet({"portfolio"})
    BY FS_Singleton
  <2>2. A \in SUBSET Strategies /\ B \in SUBSET {"portfolio"}
    OBVIOUS
  <2> HIDE DEF A, B
  <2> QED BY <2>1, <2>2, NotesAssumed, FS_Subset
<1>2. A \in SUBSET S /\ B \in SUBSET S /\ A \cap B = {}
  BY NotesAssumed
<1>3. todo = p \o q
  BY DEF Notes!InOrder
<1> HIDE DEF A, B
<1>4. p \in Seq(A) /\ \A k, l \in 1 .. Len(p) : k # l => p[k] # p[l]
  BY <1>1, NotesInSomeOrder
<1>5. q \in Seq(B) /\ \A k, l \in 1 .. Len(q) : k # l => q[k] # q[l]
  BY <1>1, NotesInSomeOrder
<1> HIDE DEF p, q
<1>6. p \in Seq(S) /\ q \in Seq(S)
  BY <1>2, <1>4, <1>5
<1>7. /\ todo \in Seq(S) /\ Len(todo) = Len(p) + Len(q) /\ Len(p) \in Nat /\ Len(q) \in Nat
      /\ \A j \in 1 .. Len(p) : todo[j] = p[j]
      /\ \A j \in 1 .. Len(q) : todo[Len(p) + j] = q[j]
  <2>1. /\ p \o q \in Seq(S) /\ Len(p \o q) = Len(p) + Len(q)
        /\ \A j \in 1 .. Len(p) : (p \o q)[j] = p[j]
        /\ \A j \in 1 .. Len(q) : (p \o q)[Len(p) + j] = q[j]
    BY <1>6, OneAfterOther
  <2> QED BY <1>3, <1>6, <2>1
<1>8. \A k \in 1 .. Len(todo) :
        \/ k \in 1 .. Len(p) /\ todo[k] = p[k] /\ todo[k] \in A
        \/ k - Len(p) \in 1 .. Len(q) /\ todo[k] = q[k - Len(p)] /\ todo[k] \in B
  <2> TAKE k \in 1 .. Len(todo)
  <2>1. CASE k <= Len(p)
    BY <1>4, <1>7, <2>1
  <2>2. CASE ~(k <= Len(p))
    <3>1. k - Len(p) \in 1 .. Len(q) /\ Len(p) + (k - Len(p)) = k
      BY <1>7, <2>2
    <3>2. todo[Len(p) + (k - Len(p))] = q[k - Len(p)] /\ q[k - Len(p)] \in B
      BY <1>5, <1>7, <3>1
    <3> QED BY <3>1, <3>2
  <2> QED BY <2>1, <2>2
<1>9. ASSUME NEW k \in 1 .. Len(todo), NEW l \in 1 .. Len(todo), k # l PROVE todo[k] # todo[l]
  <2>1. CASE k \in 1 .. Len(p) /\ l \in 1 .. Len(p) /\ todo[k] = p[k] /\ todo[l] = p[l]
    BY <1>4, <1>9, <2>1
  <2>2. CASE /\ k - Len(p) \in 1 .. Len(q) /\ l - Len(p) \in 1 .. Len(q)
             /\ todo[k] = q[k - Len(p)] /\ todo[l] = q[l - Len(p)]
    <3>1. k - Len(p) # l - Len(p)
      BY <1>7, <1>9
    <3> QED BY <1>5, <2>2, <3>1
  <2>3. CASE (todo[k] \in A /\ todo[l] \in B) \/ (todo[k] \in B /\ todo[l] \in A)
    BY <1>2, <2>3
  <2> QED BY <1>8, <2>1, <2>2, <2>3
<1>10. S \in SUBSET NotesThings
  BY DEF NotesThings
<1> QED BY <1>7, <1>9, <1>10


LEMMA NotesMessage ==
  ASSUME NotesTypes, NEW thing \in NotesThings, notesSaid' = Append(notesSaid, Notes!Message(thing))
  PROVE  /\ notesSaid' \in Seq([what : NotesThings, at : Nat])
         /\ Len(notesSaid') = Len(notesSaid) + 1 /\ Len(notesSaid) \in Nat
         /\ notesSaid'[Len(notesSaid) + 1].what = thing
         /\ \A n \in 1 .. Len(notesSaid) : notesSaid'[n] = notesSaid[n]
<1>1. Notes!Message(thing) \in [what : NotesThings, at : Nat] /\ Notes!Message(thing).what = thing
  BY DEF NotesTypes, Notes!Message
<1> QED BY <1>1 DEF NotesTypes

LEMMA ClaimKeeps ==
  ASSUME NotesInv, Notes!CheckAndNotify
  PROVE  NotesInv'
<1> DEFINE m == Len(notesJournal) - notesMemory.lines
           todo == [n \in 1 .. m |-> notesMemory.lines + n]
<1>1. /\ notesMonitor = "fills" /\ Len(notesJournal) > notesMemory.lines
      /\ notesCalls' = Append(notesCalls, todo)
      /\ notesMemory' = [notesMemory EXCEPT !.lines = Len(notesJournal)]
      /\ notesFile' = notesMemory'
      /\ UNCHANGED <<notesMonitor, notesJournal, notesSaid, notesExcused>>
  BY DEF Notes!CheckAndNotify, Notes!Begin
<1>2. /\ notesMemory.lines \in Nat /\ Len(notesJournal) \in Nat
      /\ notesMemory' \in [lines : Nat, known : SUBSET NotesThings]
      /\ notesMemory'.lines = Len(notesJournal)
  <2>1. /\ notesMemory \in [lines : Nat, known : SUBSET NotesThings]
        /\ Len(notesJournal) \in Nat
    BY DEF NotesInv, NotesTypes
  <2> QED BY <1>1, <2>1
<1>3. /\ m \in Nat /\ todo \in Seq(NotesThings) /\ Len(todo) = m
      /\ \A k \in 1 .. m : todo[k] = notesMemory.lines + k
  <2>1. m \in Nat /\ \A k \in 1 .. m : todo[k] = notesMemory.lines + k
    BY <1>1, <1>2
  <2>2. todo \in [1 .. m -> NotesThings]
    BY <1>2, <2>1 DEF NotesThings
  <2> HIDE DEF todo
  <2> QED BY <2>1, <2>2
<1>4. \A k \in 1 .. Len(todo) :
        todo[k] \in 1 .. Len(notesJournal) /\ todo[k] > notesMemory.lines
  BY <1>2, <1>3
<1>5. \A k, l \in 1 .. Len(todo) : k # l => todo[k] # todo[l]
  BY <1>2, <1>3
<1> HIDE DEF m, todo
<1>6. /\ notesCalls' \in Seq(Seq(NotesThings)) /\ Len(notesCalls') = Len(notesCalls) + 1
      /\ NoRepeats'
      /\ \A i, thing : Waits(i, thing)' <=>
           \/ Waits(i, thing)
           \/ i = Len(notesCalls) + 1 /\ \E k \in 1 .. Len(todo) : todo[k] = thing
  BY <1>1, <1>3, <1>5, CallBegins DEF NotesInv
<1>7. NotesTypes'
  BY <1>1, <1>2, <1>6 DEF NotesInv, NotesTypes
<1>8. FillsInv
  BY <1>1 DEF NotesInv
<1>9. \A thing : (\E k \in 1 .. Len(todo) : todo[k] = thing) =>
        thing \in 1 .. Len(notesJournal) /\ thing \notin 1 .. notesMemory.lines
  BY <1>2, <1>4
<1>10. \A thing : thing \in 1 .. notesMemory.lines => thing \in 1 .. Len(notesJournal)
  BY <1>1, <1>2
<1>11. FillsInv'
  <2>1. ASSUME NEW i, NEW thing, Waits(i, thing)' PROVE thing \in 1 .. notesMemory'.lines
    BY <1>2, <1>6, <1>8, <1>9, <1>10, <2>1 DEF FillsInv
  <2>2. ASSUME NEW i, NEW j, NEW thing, Waits(i, thing)', Waits(j, thing)' PROVE i = j
    <3>1. Waits(i, thing) \/ Waits(j, thing) => thing \in 1 .. notesMemory.lines
      BY <1>8 DEF FillsInv
    <3> QED BY <1>6, <1>8, <1>9, <2>2, <3>1 DEF FillsInv
  <2>3. ASSUME NEW n \in 1 .. Len(notesSaid)
        PROVE  /\ notesSaid[n].what \in 1 .. notesMemory'.lines
               /\ \A thing : thing = notesSaid[n].what => \A i : ~Waits(i, thing)'
    <3>1. notesSaid[n].what \in 1 .. notesMemory.lines /\ \A i : ~Waits(i, notesSaid[n].what)
      BY <1>8 DEF FillsInv
    <3> QED BY <1>2, <1>6, <1>9, <1>10, <3>1
  <2>4. \A i, n \in 1 .. Len(notesSaid) : i # n => notesSaid[i].what # notesSaid[n].what
    BY <1>8 DEF FillsInv
  <2>5. \A n \in 1 .. Len(notesSaid') :
          notesSaid'[n].what \in 1 .. notesMemory'.lines /\ \A i : ~Waits(i, notesSaid[n].what)'
    BY <1>1, <2>3
  <2> QED BY <1>1, <2>1, <2>2, <2>4, <2>5 DEF FillsInv
<1> QED BY <1>1, <1>6, <1>7, <1>11 DEF NotesInv

LEMMA SendKeeps ==
  ASSUME NotesInv, NEW i \in 1 .. Len(notesCalls), Notes!SendFill(i)
  PROVE  NotesInv'
<1> DEFINE thing == Head(notesCalls[i])
<1>1. /\ notesMonitor = "fills" /\ notesCalls[i] # <<>>
      /\ notesSaid' = notesSaid \/ notesSaid' = Append(notesSaid, Notes!Message(thing))
      /\ notesCalls' = [notesCalls EXCEPT ![i] = Tail(notesCalls[i])]
      /\ UNCHANGED <<notesMonitor, notesJournal, notesMemory, notesFile, notesExcused>>
  BY DEF Notes!SendFill
<1>2. NotesTypes /\ NoRepeats /\ FillsInv
  BY <1>1 DEF NotesInv
<1>3. PICK sent : sent = thing
  OBVIOUS
<1> HIDE DEF thing
<1>4. /\ notesCalls' \in Seq(Seq(NotesThings)) /\ Len(notesCalls') = Len(notesCalls)
      /\ NoRepeats' /\ sent \in NotesThings /\ Waits(i, sent)
      /\ \A j, x : Waits(j, x)' <=> Waits(j, x) /\ ~(j = i /\ x = sent)
  BY <1>1, <1>2, <1>3, CallGoesOn DEF thing
<1>5. \A j : ~Waits(j, sent)'
  BY <1>2, <1>4 DEF FillsInv
<1>6. CASE notesSaid' = notesSaid
  <2>1. NotesTypes'
    BY <1>1, <1>2, <1>4, <1>6 DEF NotesTypes
  <2>2. FillsInv'
    <3>0. \A n \in 1 .. Len(notesSaid) : \A j : ~Waits(j, notesSaid[n].what)
      BY <1>2 DEF FillsInv
    <3>1. \A n \in 1 .. Len(notesSaid) : \A x : x = notesSaid[n].what => \A j : ~Waits(j, x)'
      BY <1>4, <3>0
    <3>2. \A n \in 1 .. Len(notesSaid') : \A j : ~Waits(j, notesSaid[n].what)'
      BY <1>6, <3>1
    <3> QED BY <1>1, <1>2, <1>4, <1>6, <3>2, Zenon DEF FillsInv
  <2> QED BY <1>1, <1>4, <2>1, <2>2 DEF NotesInv
<1>7. CASE notesSaid' = Append(notesSaid, Notes!Message(sent))
  <2>1. /\ notesSaid' \in Seq([what : NotesThings, at : Nat])
        /\ Len(notesSaid') = Len(notesSaid) + 1 /\ Len(notesSaid) \in Nat
        /\ notesSaid'[Len(notesSaid) + 1].what = sent
        /\ \A n \in 1 .. Len(notesSaid) : notesSaid'[n] = notesSaid[n]
    BY <1>2, <1>4, <1>7, NotesMessage
  <2>2. NotesTypes'
    BY <1>1, <1>2, <1>4, <2>1 DEF NotesTypes
  <2>3. sent \in 1 .. notesMemory.lines
    BY <1>2, <1>4 DEF FillsInv
  <2>4. \A n \in 1 .. Len(notesSaid) : notesSaid[n].what # sent
    <3>1. \A n \in 1 .. Len(notesSaid) : \A j : ~Waits(j, notesSaid[n].what)
      BY <1>2 DEF FillsInv
    <3> QED BY <1>4, <3>1
  <2>5. \A n \in 1 .. Len(notesSaid') : n = Len(notesSaid) + 1 \/ n \in 1 .. Len(notesSaid)
    BY <2>1
  <2>6. FillsInv'
    <3>1. ASSUME NEW n \in 1 .. Len(notesSaid')
          PROVE  /\ notesSaid'[n].what \in 1 .. notesMemory'.lines
                 /\ \A j : ~Waits(j, notesSaid[n].what)'
      <4>1. CASE n = Len(notesSaid) + 1
        BY <1>1, <1>5, <2>1, <2>3, <4>1
      <4>2. CASE n \in 1 .. Len(notesSaid)
        <5>0. notesSaid[n].what \in 1 .. notesMemory.lines /\ \A j : ~Waits(j, notesSaid[n].what)
          BY <1>2, <4>2 DEF FillsInv
        <5>1. \A x : x = notesSaid[n].what =>
                x \in 1 .. notesMemory.lines /\ \A j : ~Waits(j, x)'
          BY <1>4, <5>0
        <5> QED BY <1>1, <2>1, <4>2, <5>1
      <4> QED BY <2>5, <4>1, <4>2
    <3>2. ASSUME NEW l \in 1 .. Len(notesSaid'), NEW n \in 1 .. Len(notesSaid'), l # n
          PROVE  notesSaid'[l].what # notesSaid'[n].what
      <4>1. CASE l \in 1 .. Len(notesSaid) /\ n \in 1 .. Len(notesSaid)
        BY <1>2, <2>1, <3>2, <4>1 DEF FillsInv
      <4>2. CASE l = Len(notesSaid) + 1 \/ n = Len(notesSaid) + 1
        BY <2>1, <2>4, <2>5, <3>2, <4>2
      <4> QED BY <2>5, <4>1, <4>2
    <3> QED BY <1>1, <1>2, <1>4, <3>1, <3>2 DEF FillsInv
  <2> QED BY <1>1, <1>4, <2>2, <2>6 DEF NotesInv
<1> QED BY <1>1, <1>3, <1>6, <1>7


LEMMA CheckKeeps ==
  ASSUME NotesInv, Notes!CheckReadiness
  PROVE  NotesInv'
<1>1. PICK S : S = Notes!Ready(notesJournal) \ notesMemory.known
  OBVIOUS
<1>2. PICK todo : todo = Notes!InOrder(S)
  OBVIOUS
<1>3. /\ notesMonitor = "readiness"
      /\ notesCalls' = Append(notesCalls, todo)
      /\ notesExcused' = notesExcused \union {id \in S : Notes!TakenOn(id)}
      /\ UNCHANGED <<notesMonitor, notesJournal, notesMemory, notesFile, notesSaid>>
  BY <1>1, <1>2 DEF Notes!CheckReadiness, Notes!Begin, Notes!NewlyReady
<1>4. S \in SUBSET NotesSubjects /\ \A id \in S : id \notin notesMemory.known
  BY <1>1 DEF NotesSubjects, Notes!Ready, Notes!ReadyOnes, Notes!Evaluable
<1>5. /\ todo \in Seq(NotesThings)
      /\ \A k \in 1 .. Len(todo) : todo[k] \in S
      /\ \A k, l \in 1 .. Len(todo) : k # l => todo[k] # todo[l]
  BY <1>2, <1>4, NotesInOrder
<1>6. NotesTypes /\ NoRepeats /\ AnnouncedInv
  BY <1>3 DEF NotesInv
<1>7. /\ notesCalls' \in Seq(Seq(NotesThings)) /\ Len(notesCalls') = Len(notesCalls) + 1
      /\ NoRepeats'
      /\ \A i, thing : Waits(i, thing)' <=>
           \/ Waits(i, thing)
           \/ i = Len(notesCalls) + 1 /\ \E k \in 1 .. Len(todo) : todo[k] = thing
  BY <1>3, <1>5, <1>6, CallBegins
<1>8. Len(notesCalls) \in Nat
  BY <1>6 DEF NotesTypes
<1>9. NotesTypes'
  BY <1>3, <1>6, <1>7 DEF NotesTypes
<1>10. ASSUME NEW id \in NotesSubjects, id \notin notesExcused'
       PROVE  ToldAtMostOnce(id)'
  <2>1. ToldAtMostOnce(id)
    BY <1>3, <1>6, <1>10 DEF AnnouncedInv
  <2>2. NotesSaid(id)' = NotesSaid(id) /\ notesMemory' = notesMemory
    BY <1>3 DEF NotesSaid
  <2>3. CASE id \notin S
    <3>1. \A i : Waits(i, id)' <=> Waits(i, id)
      BY <1>5, <1>7, <2>3
    <3> QED BY <2>1, <2>2, <3>1 DEF ToldAtMostOnce
  <2>4. CASE id \in S
    <3>1. \A i : ~Waits(i, id)
      <4>1. ~Notes!TakenOn(id)
        BY <1>3, <1>10, <2>4
      <4>2. \A i : Waits(i, id) => Notes!TakenOn(id)
        BY <1>6 DEF Waits, Notes!TakenOn, NotesTypes
      <4> QED BY <4>1, <4>2
    <3>2. \A i : Waits(i, id)' => i = Len(notesCalls) + 1
      BY <1>7, <3>1
    <3> QED BY <1>4, <2>1, <2>2, <2>4, <3>2 DEF ToldAtMostOnce
  <2> QED BY <2>3, <2>4
<1>11. AnnouncedInv'
  BY <1>10 DEF AnnouncedInv
<1> QED BY <1>3, <1>7, <1>9, <1>11 DEF NotesInv

LEMMA AnnounceKeeps ==
  ASSUME NotesInv, NEW i \in 1 .. Len(notesCalls), Notes!Announce(i)
  PROVE  NotesInv'
<1> DEFINE thing == Head(notesCalls[i])
<1>1. /\ notesMonitor = "readiness" /\ notesCalls[i] # <<>>
      /\ notesSaid' = Append(notesSaid, Notes!Message(thing))
      /\ notesCalls' = [notesCalls EXCEPT ![i] = Tail(notesCalls[i])]
      /\ notesMemory' = [notesMemory EXCEPT !.known = notesMemory.known \union {thing}]
      /\ UNCHANGED <<notesMonitor, notesJournal, notesFile, notesExcused>>
  BY DEF Notes!Announce, Notes!Mark
<1>2. NotesTypes /\ NoRepeats /\ AnnouncedInv
  BY <1>1 DEF NotesInv
<1>3. PICK sent : sent = thing
  OBVIOUS
<1> HIDE DEF thing
<1>4. /\ notesCalls' \in Seq(Seq(NotesThings)) /\ Len(notesCalls') = Len(notesCalls)
      /\ NoRepeats' /\ sent \in NotesThings /\ Waits(i, sent)
      /\ \A j, x : Waits(j, x)' <=> Waits(j, x) /\ ~(j = i /\ x = sent)
  BY <1>1, <1>2, <1>3, CallGoesOn DEF thing
<1>5. /\ notesSaid' \in Seq([what : NotesThings, at : Nat])
      /\ Len(notesSaid') = Len(notesSaid) + 1 /\ Len(notesSaid) \in Nat
      /\ notesSaid'[Len(notesSaid) + 1].what = sent
      /\ \A n \in 1 .. Len(notesSaid) : notesSaid'[n] = notesSaid[n]
  BY <1>1, <1>2, <1>3, <1>4, NotesMessage
<1>6. /\ notesMemory' \in [lines : Nat, known : SUBSET NotesThings]
      /\ notesMemory'.known = notesMemory.known \union {sent}
  <2>1. notesMemory \in [lines : Nat, known : SUBSET NotesThings]
    BY <1>2 DEF NotesTypes
  <2> QED BY <1>1, <1>3, <1>4, <2>1
<1>7. NotesTypes'
  BY <1>1, <1>2, <1>4, <1>5, <1>6 DEF NotesTypes
<1>8. ASSUME NEW id \in NotesSubjects, id \notin notesExcused'
      PROVE  ToldAtMostOnce(id)'
  <2>1. ToldAtMostOnce(id)
    BY <1>1, <1>2, <1>8 DEF AnnouncedInv
  <2>2. CASE id # sent
    <3>1. \A j : Waits(j, id)' <=> Waits(j, id)
      BY <1>4, <2>2
    <3>2. NotesSaid(id)' = NotesSaid(id)
      <4>1. ASSUME NEW n PROVE n \in NotesSaid(id)' <=> n \in NotesSaid(id)
        <5>1. CASE n \in 1 .. Len(notesSaid)
          BY <1>5, <5>1 DEF NotesSaid
        <5>2. CASE n = Len(notesSaid) + 1
          BY <1>5, <2>2, <5>2 DEF NotesSaid
        <5>3. CASE n \notin 1 .. Len(notesSaid) /\ n # Len(notesSaid) + 1
          <6>1. n \notin 1 .. Len(notesSaid')
            BY <1>5, <5>3
          <6> QED BY <5>3, <6>1 DEF NotesSaid
        <5> QED BY <5>1, <5>2, <5>3
      <4> QED BY <4>1
    <3>3. id \in notesMemory'.known <=> id \in notesMemory.known
      BY <1>6, <2>2
    <3> QED BY <2>1, <3>1, <3>2, <3>3 DEF ToldAtMostOnce
  <2>3. CASE id = sent
    <3>1. \A j : ~Waits(j, id)'
      BY <1>4, <2>1, <2>3 DEF ToldAtMostOnce
    <3>2. NotesSaid(id) = {} /\ id \in notesMemory'.known
      BY <1>4, <1>6, <2>1, <2>3 DEF ToldAtMostOnce
    <3>3. \A n \in NotesSaid(id)' : n = Len(notesSaid) + 1
      <4>1. ASSUME NEW n \in 1 .. Len(notesSaid'), n # Len(notesSaid) + 1
            PROVE  notesSaid'[n].what # id
        <5>1. n \in 1 .. Len(notesSaid) /\ notesSaid'[n] = notesSaid[n]
          BY <1>5, <4>1
        <5> QED BY <3>2, <5>1 DEF NotesSaid
      <4> QED BY <4>1 DEF NotesSaid
    <3> QED BY <3>1, <3>2, <3>3 DEF ToldAtMostOnce
  <2> QED BY <2>2, <2>3
<1>9. AnnouncedInv'
  BY <1>8 DEF AnnouncedInv
<1> QED BY <1>1, <1>4, <1>7, <1>9 DEF NotesInv

\* Fewer calls wait for a thing when one has returned.
LEMMA ReturnKeeps ==
  ASSUME NotesInv, NEW i \in 1 .. Len(notesCalls), Notes!Returns(i)
  PROVE  NotesInv'
<1>1. /\ notesCalls[i] = <<>>
      /\ notesCalls' = Notes!RemoveAt(notesCalls, i)
      /\ notesFile' = IF notesMonitor = "readiness" THEN notesMemory ELSE notesFile
      /\ UNCHANGED <<notesMonitor, notesJournal, notesMemory, notesSaid, notesExcused>>
  BY DEF Notes!Returns
<1>2. NotesTypes /\ NoRepeats
  BY DEF NotesInv
<1>3. /\ notesCalls' \in Seq(Seq(NotesThings)) /\ Len(notesCalls') = Len(notesCalls) - 1
      /\ NoRepeats'
      /\ \A j, thing : Waits(j, thing)' => Waits(IF j < i THEN j ELSE j + 1, thing)
  BY <1>1, <1>2, CallReturns
<1>4. NotesTypes'
  BY <1>1, <1>2, <1>3 DEF NotesTypes
<1>5. \A j, thing : Waits(j, thing)' => j \in 1 .. Len(notesCalls) - 1
  BY <1>3 DEF Waits
<1>6. Len(notesCalls) \in Nat
  BY <1>2 DEF NotesTypes
<1>7. ASSUME notesMonitor = "fills" PROVE FillsInv'
  <2>1. FillsInv
    BY <1>7 DEF NotesInv
  <2>2. \A j, thing : Waits(j, thing)' => thing \in 1 .. notesMemory.lines
    BY <1>3, <2>1 DEF FillsInv
  <2>3. ASSUME NEW j, NEW k, NEW thing, Waits(j, thing)', Waits(k, thing)' PROVE j = k
    <3>1. (IF j < i THEN j ELSE j + 1) = (IF k < i THEN k ELSE k + 1)
      BY <1>3, <2>1, <2>3 DEF FillsInv
    <3>2. j \in 1 .. Len(notesCalls) - 1 /\ k \in 1 .. Len(notesCalls) - 1
      BY <1>5, <2>3
    <3> QED BY <1>6, <3>1, <3>2
  <2>4. \A n \in 1 .. Len(notesSaid) : \A j : ~Waits(j, notesSaid[n].what)
    BY <2>1 DEF FillsInv
  <2>5. \A n \in 1 .. Len(notesSaid) : \A x : x = notesSaid[n].what => \A j : ~Waits(j, x)'
    BY <1>3, <2>4
  <2>6. \A n \in 1 .. Len(notesSaid') : \A j : ~Waits(j, notesSaid[n].what)'
    BY <1>1, <2>5
  <2> QED BY <1>1, <1>7, <2>1, <2>2, <2>3, <2>6 DEF FillsInv
<1>8. ASSUME notesMonitor = "readiness" PROVE AnnouncedInv'
  <2>1. ASSUME NEW id \in NotesSubjects, id \notin notesExcused' PROVE ToldAtMostOnce(id)'
    <3>1. ToldAtMostOnce(id)
      BY <1>1, <1>8, <2>1 DEF NotesInv, AnnouncedInv
    <3>2. NotesSaid(id)' = NotesSaid(id) /\ notesMemory' = notesMemory
      BY <1>1 DEF NotesSaid
    <3>3. ASSUME NEW j, NEW k, Waits(j, id)', Waits(k, id)' PROVE j = k
      <4>1. (IF j < i THEN j ELSE j + 1) = (IF k < i THEN k ELSE k + 1)
        BY <1>3, <3>1, <3>3 DEF ToldAtMostOnce
      <4>2. j \in 1 .. Len(notesCalls) - 1 /\ k \in 1 .. Len(notesCalls) - 1
        BY <1>5, <3>3
      <4> QED BY <1>6, <4>1, <4>2
    <3>4. \A j : Waits(j, id)' => id \notin notesMemory.known
      BY <1>3, <3>1 DEF ToldAtMostOnce
    <3> QED BY <3>1, <3>2, <3>3, <3>4 DEF ToldAtMostOnce
  <2> QED BY <2>1 DEF AnnouncedInv
<1> QED BY <1>1, <1>3, <1>4, <1>7, <1>8 DEF NotesInv

\* A call that was cut off may repeat what it said since the last save.
LEMMA CutOffKeeps ==
  ASSUME NotesInv, Notes!Crash
  PROVE  NotesInv'
<1>1. /\ notesCalls' = <<>> /\ notesMemory' = notesFile
      /\ notesExcused' = notesExcused \union (notesMemory.known \ notesFile.known)
      /\ UNCHANGED <<notesMonitor, notesJournal, notesFile, notesSaid>>
  BY DEF Notes!Crash
<1>2. NotesTypes /\ NoRepeats
  BY DEF NotesInv
<1>3. \A j, thing : ~Waits(j, thing)'
  BY <1>1 DEF Waits
<1>4. NotesTypes' /\ NoRepeats'
  <2>1. notesCalls' \in Seq(Seq(NotesThings)) /\ Len(notesCalls') = 0
    BY <1>1
  <2> QED BY <1>1, <1>2, <2>1 DEF NotesTypes, NoRepeats
<1>5. ASSUME notesMonitor = "fills" PROVE FillsInv'
  <2>1. FillsInv
    BY <1>5 DEF NotesInv
  <2> QED BY <1>1, <1>3, <2>1 DEF FillsInv
<1>6. ASSUME notesMonitor = "readiness" PROVE AnnouncedInv'
  <2>1. ASSUME NEW id \in NotesSubjects, id \notin notesExcused' PROVE ToldAtMostOnce(id)'
    <3>1. ToldAtMostOnce(id)
      BY <1>1, <1>6, <2>1 DEF NotesInv, AnnouncedInv
    <3>2. NotesSaid(id)' = NotesSaid(id)
      BY <1>1 DEF NotesSaid
    <3>3. id \notin notesMemory'.known => id \notin notesMemory.known
      BY <1>1, <2>1
    <3> QED BY <1>3, <3>1, <3>2, <3>3 DEF ToldAtMostOnce
  <2> QED BY <2>1 DEF AnnouncedInv
<1> QED BY <1>1, <1>4, <1>5, <1>6 DEF NotesInv

\* A trade that closes, a callback with nothing to say.
LEMMA NotesStay ==
  ASSUME NotesInv, notesJournal' \in Seq([strategy : Strategies, won : BOOLEAN]),
         UNCHANGED <<notesMonitor, notesCalls, notesMemory, notesFile, notesSaid, notesExcused>>
  PROVE  NotesInv'
<1>1. \A i, thing : Waits(i, thing)' <=> Waits(i, thing)
  BY DEF Waits
<1>2. \A id : NotesSaid(id)' = NotesSaid(id)
  BY DEF NotesSaid
<1>3. NotesTypes' /\ NoRepeats'
  <2>1. NotesTypes'
    BY DEF NotesInv, NotesTypes
  <2>2. NoRepeats'
    BY DEF NotesInv, NoRepeats
  <2> QED BY <2>1, <2>2
<1>4. FillsInv => FillsInv'
  BY DEF FillsInv, Waits
<1>5. AnnouncedInv => AnnouncedInv'
  <2>1. ASSUME NEW id, ToldAtMostOnce(id) PROVE ToldAtMostOnce(id)'
    BY <1>1, <1>2, <2>1 DEF ToldAtMostOnce
  <2> QED BY <2>1 DEF AnnouncedInv
<1> QED BY <1>3, <1>4, <1>5 DEF NotesInv

LEMMA NotesStep == NotesInv /\ [Notes!Next]_notesVars => NotesInv'
<1> SUFFICES ASSUME NotesInv, [Notes!Next]_notesVars PROVE NotesInv'
  OBVIOUS
<1>1. notesJournal \in Seq([strategy : Strategies, won : BOOLEAN]) /\ DOMAIN notesCalls = 1 .. Len(notesCalls)
  BY DEF NotesInv, NotesTypes
<1>2. CASE Notes!NothingNew
  BY <1>1, <1>2, NotesStay DEF Notes!NothingNew
<1>3. ASSUME NEW s \in Strategies, NEW won \in BOOLEAN, NEW inTick \in BOOLEAN,
             Notes!Fill(s, won, inTick)
      PROVE  NotesInv'
  <2>1. [strategy |-> s, won |-> won] \in [strategy : Strategies, won : BOOLEAN]
    OBVIOUS
  <2>2. notesJournal' \in Seq([strategy : Strategies, won : BOOLEAN])
    BY <1>1, <1>3, <2>1 DEF Notes!Fill
  <2> QED BY <1>3, <2>2, NotesStay DEF Notes!Fill
<1>4. CASE UNCHANGED notesVars
  BY <1>1, <1>4, NotesStay DEF notesVars
<1>5. CASE Notes!CheckAndNotify BY <1>5, ClaimKeeps
<1>6. CASE Notes!CheckReadiness BY <1>6, CheckKeeps
<1>7. CASE Notes!Crash BY <1>7, CutOffKeeps
<1>8. ASSUME NEW i \in 1 .. Len(notesCalls),
             Notes!SendFill(i) \/ Notes!Announce(i) \/ Notes!Returns(i)
      PROVE  NotesInv'
  BY <1>8, SendKeeps, AnnounceKeeps, ReturnKeeps
<1> QED BY <1>1, <1>2, <1>3, <1>4, <1>5, <1>6, <1>7, <1>8 DEF Notes!Next

LEMMA NotesInit == Notes!Init => NotesInv
<1> SUFFICES ASSUME Notes!Init PROVE NotesInv
  OBVIOUS
<1>1. /\ notesMonitor \in {"fills", "readiness"} /\ notesJournal = <<>> /\ notesCalls = <<>>
      /\ notesMemory = [lines |-> 0, known |-> {}] /\ notesFile = notesMemory
      /\ notesSaid = <<>> /\ notesExcused = {}
  BY DEF Notes!Init, Notes!Nothing
<1>2. NotesTypes /\ NoRepeats
  BY <1>1 DEF NotesTypes, NoRepeats
<1>3. FillsInv
  BY <1>1 DEF FillsInv, Waits
<1>4. AnnouncedInv
  BY <1>1 DEF AnnouncedInv, ToldAtMostOnce, NotesSaid, Waits
<1> QED BY <1>2, <1>3, <1>4 DEF NotesInv

LEMMA NotesTold ==
  ASSUME NotesInv
  PROVE  Notes!NotifiedAtMostOnce /\ Notes!RestartsDoNotRefire
<1>1. NotesTypes /\ DOMAIN notesSaid = 1 .. Len(notesSaid)
  BY DEF NotesInv, NotesTypes
<1>2. \A thing : Notes!Times(thing) = Cardinality(NotesSaid(thing))
  BY <1>1, NotesCount DEF Notes!Times, NotesSaid
<1>3. ASSUME NEW thing, \A m, n \in NotesSaid(thing) : m = n PROVE Notes!Times(thing) <= 1
  <2>1. CASE NotesSaid(thing) = {}
    BY <1>2, <2>1, FS_EmptySet
  <2>2. CASE NotesSaid(thing) # {}
    <3>1. PICK n : NotesSaid(thing) = {n}
      BY <1>3, <2>2
    <3>2. Cardinality({n}) = 1
      BY FS_Singleton
    <3> QED BY <1>2, <3>1, <3>2
  <2> QED BY <2>1, <2>2
<1>4. ASSUME notesMonitor = "fills", NEW line PROVE Notes!Times(line) <= 1
  <2>1. \A m, n \in NotesSaid(line) : m = n
    BY <1>4 DEF NotesInv, FillsInv, NotesSaid
  <2> QED BY <1>3, <2>1
<1>5. ASSUME notesMonitor = "readiness", NEW id \in NotesSubjects \ notesExcused
      PROVE  Notes!Times(id) <= 1
  <2>1. \A m, n \in NotesSaid(id) : m = n
    BY <1>5 DEF NotesInv, AnnouncedInv, ToldAtMostOnce
  <2> QED BY <1>3, <2>1
<1> QED BY <1>4, <1>5 DEF Notes!NotifiedAtMostOnce, Notes!RestartsDoNotRefire, NotesSubjects

-----------------------------------------------------------------------------
(* The drift monitor.                                                      *)

LEMMA DriftCount == ASSUME NEW S PROVE Drift!Cardinality(S) = Cardinality(S)
BY DEF Drift!Cardinality, Cardinality

DriftWatched == Strategies \union {"basis"}
DriftVerdict == [of : DriftWatched, bad : BOOLEAN, alert : BOOLEAN]

DriftTypes ==
  /\ driftJournal \in Seq([strategy : Strategies, won : BOOLEAN])
  /\ driftAt \in {"idle", "basis", "strategies"}
  /\ driftTrades \in 0 .. Len(driftJournal)
  /\ driftState \in [last : 0 .. Len(driftJournal), flagged : SUBSET DriftWatched]
  /\ driftFile \in [last : 0 .. Len(driftJournal), flagged : SUBSET DriftWatched]
  /\ driftLog \in Seq(DriftVerdict)
  /\ driftCrashes \in Nat

\* What the flags rest on: those in memory and those saved say of every strategy what
\* the trades counted as compared say, and a comparison under way has set those of the
\* strategies it is done with.
AreRight(flagged, n, compared) ==
  \A s \in Drift!Evaluable(n) : s \in compared => (s \in flagged <=> Drift!Drifting(s, n))

ComparedInv ==
  /\ AreRight(driftFile.flagged, driftFile.last, Strategies)
  /\ driftAt # "strategies" => AreRight(driftState.flagged, driftState.last, Strategies)
  /\ driftAt = "strategies" => AreRight(driftState.flagged, driftTrades, Strategies \ driftTodo)

\* What one alert of a drift rests on: beyond one for each time it was over, and for each
\* crash, there is one more only while the flag is up on a bad comparison.
Alerts(w) == {n \in 1 .. Len(driftLog) : driftLog[n].of = w /\ driftLog[n].alert}
Recovered(w) ==
  {n \in 1 .. Len(driftLog) : driftLog[n].of = w /\ ~driftLog[n].bad /\ Drift!LastWasBad(w, n)}

AlertsInv ==
  \A w \in DriftWatched :
    Cardinality(Alerts(w)) <=
      Cardinality(Recovered(w)) + driftCrashes
        + (IF w \in driftState.flagged /\ Drift!LastWasBad(w, Len(driftLog) + 1) THEN 1 ELSE 0)

DriftInv == DriftTypes /\ ComparedInv /\ AlertsInv

\* What is known of the first trades stays known when there are more.
LEMMA DriftHistory ==
  ASSUME \A i \in 1 .. Len(driftJournal) : driftJournal'[i] = driftJournal[i],
         NEW n \in 0 .. Len(driftJournal), Len(driftJournal) \in Nat
  PROVE  /\ Drift!Evaluable(n)' = Drift!Evaluable(n)
         /\ \A s : Drift!Drifting(s, n)' <=> Drift!Drifting(s, n)
<1>1. \A i \in 1 .. n : driftJournal'[i] = driftJournal[i]
  OBVIOUS
<1>2. ASSUME NEW s PROVE Drift!TradesOf(s, n)' = Drift!TradesOf(s, n)
  BY <1>1 DEF Drift!TradesOf
<1>3. ASSUME NEW s PROVE Drift!Wins(s, n)' = Drift!Wins(s, n)
  <2>1. \A i \in Drift!TradesOf(s, n) : driftJournal'[i] = driftJournal[i]
    BY <1>1 DEF Drift!TradesOf
  <2> QED BY <1>2, <2>1 DEF Drift!Wins
<1>4. Drift!Evaluable(n)' = Drift!Evaluable(n)
  BY <1>2 DEF Drift!Evaluable
<1>5. ASSUME NEW s PROVE Drift!Drifting(s, n)' <=> Drift!Drifting(s, n)
  BY <1>2, <1>3 DEF Drift!Drifting
<1> QED BY <1>4, <1>5

LEMMA RightStays ==
  ASSUME \A i \in 1 .. Len(driftJournal) : driftJournal'[i] = driftJournal[i],
         NEW n \in 0 .. Len(driftJournal), Len(driftJournal) \in Nat,
         NEW flagged, NEW compared, AreRight(flagged, n, compared)
  PROVE  AreRight(flagged, n, compared)'
<1>1. /\ Drift!Evaluable(n)' = Drift!Evaluable(n)
      /\ \A s : Drift!Drifting(s, n)' <=> Drift!Drifting(s, n)
  BY DriftHistory
<1> QED BY <1>1 DEF AreRight

LEMMA AlertsCounted ==
  ASSUME DriftTypes, NEW w
  PROVE  /\ IsFiniteSet(Alerts(w)) /\ Cardinality(Alerts(w)) \in Nat
         /\ IsFiniteSet(Recovered(w)) /\ Cardinality(Recovered(w)) \in Nat
<1>1. IsFiniteSet(1 .. Len(driftLog))
  <2>1. Len(driftLog) \in Nat
    BY DEF DriftTypes
  <2> QED BY <2>1, CountTo
<1>2. Alerts(w) \in SUBSET (1 .. Len(driftLog)) /\ Recovered(w) \in SUBSET (1 .. Len(driftLog))
  BY DEF Alerts, Recovered
<1> QED BY <1>1, <1>2, FS_Subset, FS_CardinalityType

\* A comparison is logged; the thing compared is flagged if it is bad, and only then.
LEMMA JudgeKeeps ==
  ASSUME DriftInv, NEW w \in DriftWatched, NEW bad \in BOOLEAN, Drift!Judge(w, bad),
         UNCHANGED driftCrashes
  PROVE  /\ driftLog' \in Seq(DriftVerdict) /\ AlertsInv'
         /\ driftState' = [last |-> driftState.last,
                           flagged |-> IF bad THEN driftState.flagged \union {w}
                                       ELSE driftState.flagged \ {w}]
<1> DEFINE v == [of |-> w, bad |-> bad, alert |-> bad /\ w \notin driftState.flagged]
<1>0. PICK n \in Nat : n = Len(driftLog)
  BY DEF DriftInv, DriftTypes
<1>1. /\ driftLog' = Append(driftLog, v)
      /\ driftState' = [driftState EXCEPT !.flagged = IF bad THEN driftState.flagged \union {w}
                                                      ELSE driftState.flagged \ {w}]
  BY DEF Drift!Judge
<1>2. /\ v \in DriftVerdict /\ v.of = w /\ v.bad = bad
      /\ v.alert <=> bad /\ w \notin driftState.flagged
  BY DEF DriftVerdict
<1> HIDE DEF v
<1>3. /\ driftLog' \in Seq(DriftVerdict) /\ Len(driftLog') = n + 1 /\ n \in Nat
      /\ driftLog'[n + 1] = v /\ \A i \in 1 .. n : driftLog'[i] = driftLog[i]
  BY <1>0, <1>1, <1>2 DEF DriftInv, DriftTypes
<1>4. driftState' = [last |-> driftState.last,
                     flagged |-> IF bad THEN driftState.flagged \union {w}
                                 ELSE driftState.flagged \ {w}]
  BY <1>1 DEF DriftInv, DriftTypes
<1>5. driftState'.flagged = IF bad THEN driftState.flagged \union {w} ELSE driftState.flagged \ {w}
  BY <1>4
<1>6. ASSUME NEW x, NEW k \in 1 .. n + 1
      PROVE  Drift!LastWasBad(x, k)' <=> Drift!LastWasBad(x, k)
  <2>1. \A m \in 1 .. k - 1 : driftLog'[m] = driftLog[m]
    BY <1>3
  <2>2. \A m \in 1 .. k - 1 : \A j \in m + 1 .. k - 1 : driftLog'[j] = driftLog[j]
    BY <2>1
  <2> QED BY <2>1, <2>2 DEF Drift!LastWasBad
<1>7. \A k : k \in 1 .. n + 1 <=> k \in 1 .. n \/ k = n + 1
  BY <1>3
<1>8. n + 1 \notin 1 .. n /\ n + 1 \in 1 .. n + 1 /\ \A k \in 1 .. n : k \in 1 .. n + 1
  BY <1>3
<1>9. ASSUME NEW x
      PROVE  /\ Alerts(x)' = Alerts(x) \union (IF w = x /\ v.alert THEN {n + 1} ELSE {})
             /\ n + 1 \notin Alerts(x)
  <2>1. \A k : k \in Alerts(x)' <=> k \in Alerts(x) \/ (k = n + 1 /\ w = x /\ v.alert)
    BY <1>0, <1>2, <1>3, <1>7, <1>8 DEF Alerts
  <2>2. n + 1 \notin Alerts(x)
    BY <1>0, <1>8 DEF Alerts
  <2> QED BY <2>1, <2>2
<1>10. ASSUME NEW x
       PROVE  /\ Recovered(x)' = Recovered(x)
                    \union (IF w = x /\ ~bad /\ Drift!LastWasBad(x, n + 1) THEN {n + 1} ELSE {})
              /\ n + 1 \notin Recovered(x)
  <2>1. ASSUME NEW k
        PROVE  k \in Recovered(x)' <=>
                 k \in Recovered(x) \/ (k = n + 1 /\ w = x /\ ~bad /\ Drift!LastWasBad(x, n + 1))
    <3>1. CASE k \in 1 .. n
      <4>1. Drift!LastWasBad(x, k)' <=> Drift!LastWasBad(x, k)
        BY <1>6, <1>8, <3>1
      <4>2. k # n + 1 /\ k \in 1 .. n + 1 /\ driftLog'[k] = driftLog[k]
        BY <1>0, <1>3, <1>8, <3>1
      <4> QED BY <1>0, <1>3, <3>1, <4>1, <4>2 DEF Recovered
    <3>2. CASE k = n + 1
      <4>1. Drift!LastWasBad(x, n + 1)' <=> Drift!LastWasBad(x, n + 1)
        <5>1. \A j \in 1 .. n + 1 : Drift!LastWasBad(x, j)' <=> Drift!LastWasBad(x, j)
          BY <1>6
        <5> QED BY <1>8, <5>1
      <4>2. k \in 1 .. n + 1 /\ k \notin 1 .. n
        BY <1>8, <3>2
      <4> QED BY <1>0, <1>2, <1>3, <3>2, <4>1, <4>2 DEF Recovered
    <3>3. CASE k \notin 1 .. n + 1
      BY <1>0, <1>3, <1>7, <3>3 DEF Recovered
    <3> QED BY <1>7, <3>1, <3>2, <3>3
  <2>2. n + 1 \notin Recovered(x)
    BY <1>0, <1>8 DEF Recovered
  <2> QED BY <2>1, <2>2
<1>11. ASSUME NEW x
       PROVE  Drift!LastWasBad(x, n + 2)' <=> IF x = w THEN bad ELSE Drift!LastWasBad(x, n + 1)
  <2>0. /\ n + 2 - 1 = n + 1 /\ n + 1 - 1 = n
        /\ \A m \in 1 .. n + 1 : m \in 1 .. n \/ m = n + 1
        /\ \A m \in 1 .. n : \A k \in m + 1 .. n + 1 : k \in 1 .. n \/ k = n + 1
        /\ \A m \in 1 .. n : n + 1 \in m + 1 .. n + 1
        /\ \A m \in 1 .. n : \A k \in m + 1 .. n : k \in m + 1 .. n + 1 /\ k \in 1 .. n
        /\ \A k \in n + 1 + 1 .. n + 1 : FALSE
    OBVIOUS
  <2>1. Drift!LastWasBad(x, n + 2)' <=>
          \E m \in 1 .. n + 1 : /\ driftLog'[m].of = x /\ driftLog'[m].bad
                               /\ \A k \in m + 1 .. n + 1 : driftLog'[k].of # x
    BY <2>0 DEF Drift!LastWasBad
  <2>2. Drift!LastWasBad(x, n + 1) <=>
          \E m \in 1 .. n : /\ driftLog[m].of = x /\ driftLog[m].bad
                           /\ \A k \in m + 1 .. n : driftLog[k].of # x
    BY <2>0 DEF Drift!LastWasBad
  <2>3. CASE x = w
    <3>1. ASSUME NEW m \in 1 .. n PROVE ~(\A k \in m + 1 .. n + 1 : driftLog'[k].of # x)
      BY <1>2, <1>3, <2>0, <2>3
    <3>2. /\ n + 1 \in 1 .. n + 1 /\ driftLog'[n + 1].of = x /\ (driftLog'[n + 1].bad <=> bad)
          /\ \A k \in n + 1 + 1 .. n + 1 : driftLog'[k].of # x
      BY <1>2, <1>3, <2>0, <2>3
    <3>3. Drift!LastWasBad(x, n + 2)' <=> bad
      BY <2>0, <2>1, <3>1, <3>2
    <3> QED BY <2>3, <3>3
  <2>4. CASE x # w
    <3>1. driftLog'[n + 1].of # x
      BY <1>2, <1>3, <2>4
    <3>2. ASSUME NEW m \in 1 .. n
          PROVE  (\A k \in m + 1 .. n + 1 : driftLog'[k].of # x)
                   <=> (\A k \in m + 1 .. n : driftLog[k].of # x)
      BY <1>3, <2>0, <3>1
    <3>3. \A m \in 1 .. n : m \in 1 .. n + 1 /\ driftLog'[m] = driftLog[m]
      BY <1>3
    <3>4. Drift!LastWasBad(x, n + 2)' <=> Drift!LastWasBad(x, n + 1)
      BY <2>0, <2>1, <2>2, <3>1, <3>2, <3>3
    <3> QED BY <2>4, <3>4
  <2> QED BY <2>3, <2>4
<1>12. ASSUME NEW x \in DriftWatched
       PROVE  Cardinality(Alerts(x)') <=
                Cardinality(Recovered(x)') + driftCrashes
                  + (IF x \in driftState'.flagged /\ Drift!LastWasBad(x, n + 2)' THEN 1 ELSE 0)
  <2>1. /\ IsFiniteSet(Alerts(x)) /\ Cardinality(Alerts(x)) \in Nat
        /\ IsFiniteSet(Recovered(x)) /\ Cardinality(Recovered(x)) \in Nat
        /\ driftCrashes \in Nat
    BY AlertsCounted DEF DriftInv, DriftTypes
  <2>2. Cardinality(Alerts(x)) <=
          Cardinality(Recovered(x)) + driftCrashes
            + (IF x \in driftState.flagged /\ Drift!LastWasBad(x, n + 1) THEN 1 ELSE 0)
    BY <1>0 DEF DriftInv, AlertsInv
  <2>3. Cardinality(Alerts(x)') = Cardinality(Alerts(x)) + (IF w = x /\ v.alert THEN 1 ELSE 0)
    <3>1. CASE w = x /\ v.alert
      <4>1. Alerts(x)' = Alerts(x) \union {n + 1} /\ n + 1 \notin Alerts(x)
        BY <1>9, <3>1
      <4> QED BY <2>1, <3>1, <4>1, FS_AddElement
    <3>2. CASE ~(w = x /\ v.alert)
      <4>1. Alerts(x)' = Alerts(x)
        BY <1>9, <3>2
      <4> QED BY <2>1, <3>2, <4>1
    <3> QED BY <3>1, <3>2
  <2>4. Cardinality(Recovered(x)')
          = Cardinality(Recovered(x))
              + (IF w = x /\ ~bad /\ Drift!LastWasBad(x, n + 1) THEN 1 ELSE 0)
    <3>1. CASE w = x /\ ~bad /\ Drift!LastWasBad(x, n + 1)
      <4>1. Recovered(x)' = Recovered(x) \union {n + 1} /\ n + 1 \notin Recovered(x)
        BY <1>10, <3>1
      <4> QED BY <2>1, <3>1, <4>1, FS_AddElement
    <3>2. CASE ~(w = x /\ ~bad /\ Drift!LastWasBad(x, n + 1))
      <4>1. Recovered(x)' = Recovered(x)
        BY <1>10, <3>2
      <4> QED BY <2>1, <3>2, <4>1
    <3> QED BY <3>1, <3>2
  <2>5. CASE x # w
    <3>1. Drift!LastWasBad(x, n + 2)' <=> Drift!LastWasBad(x, n + 1)
      BY <1>11, <2>5
    <3>2. x \in driftState'.flagged <=> x \in driftState.flagged
      BY <1>5, <2>5
    <3> QED BY <2>1, <2>2, <2>3, <2>4, <2>5, <3>1, <3>2
  <2>6. CASE x = w /\ bad
    <3>1. Drift!LastWasBad(x, n + 2)' /\ x \in driftState'.flagged
      BY <1>5, <1>11, <2>6
    <3>2. v.alert <=> x \notin driftState.flagged
      BY <1>2, <2>6
    <3> QED BY <2>1, <2>2, <2>3, <2>4, <2>6, <3>1, <3>2
  <2>7. CASE x = w /\ ~bad
    <3>1. ~v.alert
      BY <1>2, <2>7
    <3> QED BY <2>1, <2>2, <2>3, <2>4, <2>7, <3>1
  <2> QED BY <2>5, <2>6, <2>7
<1>13. AlertsInv'
  <2>1. \A x, k : k = Len(driftLog') + 1 => (Drift!LastWasBad(x, k)' <=> Drift!LastWasBad(x, n + 2)')
    <3>1. Len(driftLog') + 1 = n + 2
      BY <1>3
    <3> QED BY <3>1
  <2> QED BY <1>12, <2>1 DEF AlertsInv
<1> QED BY <1>3, <1>4, <1>13


LEMMA BasisApart == "basis" \notin Strategies
BY BundleAssumption DEF Drift!DriftAssumption

\* No alert is sent by a step that compares nothing.
LEMMA AlertsStay ==
  ASSUME DriftInv, UNCHANGED driftLog,
         \/ UNCHANGED driftCrashes /\ driftState'.flagged = driftState.flagged
         \/ driftCrashes' = driftCrashes + 1
  PROVE  AlertsInv'
<1>1. /\ \A w : Alerts(w)' = Alerts(w) /\ Recovered(w)' = Recovered(w)
      /\ \A w, n : Drift!LastWasBad(w, n)' <=> Drift!LastWasBad(w, n)
  BY DEF Alerts, Recovered, Drift!LastWasBad
<1>2. PICK n : n = Len(driftLog) + 1
  OBVIOUS
<1>3. ASSUME NEW w \in DriftWatched
      PROVE  Cardinality(Alerts(w)') <=
               Cardinality(Recovered(w)') + driftCrashes'
                 + (IF w \in driftState'.flagged /\ Drift!LastWasBad(w, n)' THEN 1 ELSE 0)
  <2>1. /\ Cardinality(Alerts(w)) \in Nat /\ Cardinality(Recovered(w)) \in Nat
        /\ driftCrashes \in Nat
    BY AlertsCounted DEF DriftInv, DriftTypes
  <2>2. Cardinality(Alerts(w)) <=
          Cardinality(Recovered(w)) + driftCrashes
            + (IF w \in driftState.flagged /\ Drift!LastWasBad(w, n) THEN 1 ELSE 0)
    BY <1>2 DEF DriftInv, AlertsInv
  <2> QED BY <1>1, <2>1, <2>2
<1>4. \A w, k : k = Len(driftLog') + 1 => (Drift!LastWasBad(w, k)' <=> Drift!LastWasBad(w, n)')
  BY <1>2
<1> QED BY <1>3, <1>4 DEF AlertsInv

\* The journal grows at its end only.
LEMMA TradesStay ==
  ASSUME DriftTypes, NEW s \in Strategies, NEW won \in BOOLEAN,
         \/ UNCHANGED driftJournal
         \/ driftJournal' = Append(driftJournal, [strategy |-> s, won |-> won])
  PROVE  /\ driftJournal' \in Seq([strategy : Strategies, won : BOOLEAN])
         /\ Len(driftJournal) \in Nat /\ Len(driftJournal') \in Nat
         /\ Len(driftJournal) <= Len(driftJournal')
         /\ \A i \in 1 .. Len(driftJournal) : driftJournal'[i] = driftJournal[i]
<1>1. [strategy |-> s, won |-> won] \in [strategy : Strategies, won : BOOLEAN]
  OBVIOUS
<1>2. driftJournal \in Seq([strategy : Strategies, won : BOOLEAN])
  BY DEF DriftTypes
<1>3. CASE UNCHANGED driftJournal
  BY <1>2, <1>3
<1>4. CASE driftJournal' = Append(driftJournal, [strategy |-> s, won |-> won])
  <2> DEFINE T == [strategy : Strategies, won : BOOLEAN]
             e == [strategy |-> s, won |-> won]
  <2>1. driftJournal \in Seq(T) /\ e \in T /\ driftJournal' = Append(driftJournal, e)
    BY <1>1, <1>2, <1>4
  <2> HIDE DEF T, e
  <2>2. /\ driftJournal' \in Seq(T)
        /\ Len(driftJournal) \in Nat /\ Len(driftJournal') = Len(driftJournal) + 1
        /\ \A i \in 1 .. Len(driftJournal) : driftJournal'[i] = driftJournal[i]
    BY <2>1
  <2> QED BY <2>2 DEF T
<1> QED BY <1>3, <1>4

LEMMA CloseKeeps ==
  ASSUME DriftInv, NEW s \in Strategies, NEW won \in BOOLEAN, Drift!Close(s, won)
  PROVE  DriftInv'
<1>1. /\ driftJournal' = Append(driftJournal, [strategy |-> s, won |-> won])
      /\ UNCHANGED <<driftAt, driftTrades, driftTodo, driftState, driftFile, driftLog, driftCrashes>>
  BY DEF Drift!Close
<1>2. DriftTypes /\ ComparedInv
  BY DEF DriftInv
<1>3. /\ driftJournal' \in Seq([strategy : Strategies, won : BOOLEAN])
      /\ Len(driftJournal) \in Nat /\ Len(driftJournal') \in Nat
      /\ Len(driftJournal) <= Len(driftJournal')
      /\ \A i \in 1 .. Len(driftJournal) : driftJournal'[i] = driftJournal[i]
  BY <1>1, <1>2, TradesStay
<1>4. DriftTypes'
  <2>1. \A n \in 0 .. Len(driftJournal) : n \in 0 .. Len(driftJournal')
    BY <1>3
  <2> QED BY <1>1, <1>2, <1>3, <2>1 DEF DriftTypes
<1>5. ASSUME NEW flagged, NEW n \in 0 .. Len(driftJournal), NEW compared,
             AreRight(flagged, n, compared)
      PROVE  AreRight(flagged, n, compared)'
  BY <1>3, <1>5, RightStays
<1>6. PICK f, g, k, l, c, t :
        /\ f = driftFile.flagged /\ g = driftState.flagged /\ c = Strategies \ driftTodo
        /\ k = driftFile.last /\ l = driftState.last /\ t = driftTrades
  OBVIOUS
<1>7. k \in 0 .. Len(driftJournal) /\ l \in 0 .. Len(driftJournal) /\ t \in 0 .. Len(driftJournal)
  BY <1>2, <1>6 DEF DriftTypes
<1>8. AreRight(f, k, Strategies)'
  BY <1>2, <1>5, <1>6, <1>7 DEF ComparedInv
<1>9. driftAt # "strategies" => AreRight(g, l, Strategies)'
  BY <1>2, <1>5, <1>6, <1>7 DEF ComparedInv
<1>10. driftAt = "strategies" => AreRight(g, t, c)'
  BY <1>2, <1>5, <1>6, <1>7 DEF ComparedInv
<1>11. ComparedInv'
  <2>1. /\ f = driftFile'.flagged /\ g = driftState'.flagged /\ c = Strategies \ driftTodo'
        /\ k = driftFile'.last /\ l = driftState'.last /\ t = driftTrades' /\ driftAt' = driftAt
    BY <1>1, <1>6
  <2> QED BY <1>8, <1>9, <1>10, <2>1 DEF ComparedInv, AreRight
<1>12. AlertsInv'
  BY <1>1, AlertsStay
<1> QED BY <1>4, <1>11, <1>12 DEF DriftInv

\* In a step that closes no trade, what is right by the trades stays so.
LEMMA StaysRight ==
  ASSUME DriftTypes, UNCHANGED driftJournal, NEW n \in 0 .. Len(driftJournal)
  PROVE  /\ Drift!Evaluable(n)' = Drift!Evaluable(n)
         /\ \A s : Drift!Drifting(s, n)' <=> Drift!Drifting(s, n)
<1>1. Len(driftJournal) \in Nat /\ \A i \in 1 .. Len(driftJournal) : driftJournal'[i] = driftJournal[i]
  BY DEF DriftTypes
<1> QED BY <1>1, DriftHistory

LEMMA StartKeeps ==
  ASSUME DriftInv, Drift!StartCheck
  PROVE  DriftInv'
<1>1. /\ driftAt = "idle" /\ driftAt' = "basis" /\ driftTrades' = Len(driftJournal)
      /\ UNCHANGED <<driftJournal, driftTodo, driftState, driftFile, driftLog, driftCrashes>>
  BY DEF Drift!StartCheck
<1>2. DriftTypes /\ ComparedInv
  BY DEF DriftInv
<1>3. DriftTypes'
  BY <1>1, <1>2 DEF DriftTypes
<1>4. PICK f, g, k, l :
        /\ f = driftFile.flagged /\ g = driftState.flagged
        /\ k = driftFile.last /\ l = driftState.last
  OBVIOUS
<1>5. k \in 0 .. Len(driftJournal) /\ l \in 0 .. Len(driftJournal)
  BY <1>2, <1>4 DEF DriftTypes
<1>6. AreRight(f, k, Strategies) /\ AreRight(g, l, Strategies)
  BY <1>1, <1>2, <1>4 DEF ComparedInv
<1>7. AreRight(f, k, Strategies)' /\ AreRight(g, l, Strategies)'
  <2>1. /\ Drift!Evaluable(k)' = Drift!Evaluable(k) /\ Drift!Evaluable(l)' = Drift!Evaluable(l)
        /\ \A s : Drift!Drifting(s, k)' <=> Drift!Drifting(s, k)
        /\ \A s : Drift!Drifting(s, l)' <=> Drift!Drifting(s, l)
    BY <1>1, <1>2, <1>5, StaysRight
  <2> QED BY <1>6, <2>1 DEF AreRight
<1>8. ComparedInv'
  <2>1. /\ f = driftFile'.flagged /\ g = driftState'.flagged
        /\ k = driftFile'.last /\ l = driftState'.last
    BY <1>1, <1>4
  <2> QED BY <1>1, <1>7, <2>1 DEF ComparedInv, AreRight
<1> QED BY <1>1, <1>3, <1>8, AlertsStay DEF DriftInv

\* The basis has a flag of its own: what those of the strategies rest on is as before.
LEMMA BasisKeeps ==
  ASSUME DriftInv, Drift!CheckBasis
  PROVE  DriftInv'
<1>1. /\ driftAt = "basis" /\ UNCHANGED <<driftJournal, driftTrades, driftCrashes>>
      /\ \/ driftAt' = "strategies" /\ driftTodo' = Drift!Evaluable(driftTrades) /\ driftFile' = driftFile
         \/ driftAt' = "idle" /\ driftFile' = driftState'
  BY DEF Drift!CheckBasis
<1>2. DriftTypes /\ ComparedInv
  BY DEF DriftInv
<1>3. /\ driftLog' \in Seq(DriftVerdict) /\ AlertsInv'
      /\ driftState' \in [last : 0 .. Len(driftJournal), flagged : SUBSET DriftWatched]
      /\ driftState'.last = driftState.last
      /\ \A s \in Strategies : s \in driftState'.flagged <=> s \in driftState.flagged
  <2>1. ASSUME NEW bad \in BOOLEAN, Drift!Judge("basis", bad) PROVE <1>3!:
    <3>1. "basis" \in DriftWatched
      BY DEF DriftWatched
    <3>2. /\ driftLog' \in Seq(DriftVerdict) /\ AlertsInv'
          /\ driftState' = [last |-> driftState.last,
                            flagged |-> IF bad THEN driftState.flagged \union {"basis"}
                                        ELSE driftState.flagged \ {"basis"}]
      BY <1>1, <2>1, <3>1, JudgeKeeps
    <3>3. driftState.last \in 0 .. Len(driftJournal) /\ driftState.flagged \in SUBSET DriftWatched
      BY <1>2 DEF DriftTypes
    <3>4. (IF bad THEN driftState.flagged \union {"basis"} ELSE driftState.flagged \ {"basis"})
            \in SUBSET DriftWatched
      BY <3>1, <3>3
    <3> QED BY <3>2, <3>3, <3>4, BasisApart
  <2>2. CASE UNCHANGED <<driftState, driftLog>>
    <3>1. AlertsInv'
      BY <1>1, <2>2, AlertsStay
    <3> QED BY <1>2, <2>2, <3>1 DEF DriftTypes
  <2> QED BY <2>1, <2>2 DEF Drift!CheckBasis
<1>4. DriftTypes'
  BY <1>1, <1>2, <1>3 DEF DriftTypes
<1>5. PICK f, g, k, l, t :
        /\ f = driftFile.flagged /\ g = driftState'.flagged
        /\ k = driftFile.last /\ l = driftState.last /\ t = driftTrades
  OBVIOUS
<1>6. /\ k \in 0 .. Len(driftJournal) /\ l \in 0 .. Len(driftJournal)
      /\ t \in 0 .. Len(driftJournal)
  BY <1>2, <1>5 DEF DriftTypes
<1>7. /\ Drift!Evaluable(k)' = Drift!Evaluable(k) /\ Drift!Evaluable(l)' = Drift!Evaluable(l)
      /\ Drift!Evaluable(t)' = Drift!Evaluable(t)
      /\ \A s : Drift!Drifting(s, k)' <=> Drift!Drifting(s, k)
      /\ \A s : Drift!Drifting(s, l)' <=> Drift!Drifting(s, l)
  BY <1>1, <1>2, <1>6, StaysRight
<1>8. AreRight(f, k, Strategies)' /\ AreRight(g, l, Strategies)'
  <2>1. AreRight(f, k, Strategies) /\ AreRight(driftState.flagged, l, Strategies)
    BY <1>1, <1>2, <1>5 DEF ComparedInv
  <2>2. \A s \in Strategies : s \in g <=> s \in driftState.flagged
    BY <1>3, <1>5
  <2> QED BY <1>7, <2>1, <2>2 DEF AreRight
<1>9. ComparedInv'
  <2>1. g = driftState'.flagged /\ l = driftState'.last /\ t = driftTrades'
    BY <1>1, <1>3, <1>5
  <2>2. CASE driftAt' = "idle" /\ driftFile' = driftState'
    BY <1>8, <2>1, <2>2 DEF ComparedInv, AreRight
  <2>3. CASE /\ driftAt' = "strategies" /\ driftTodo' = Drift!Evaluable(driftTrades)
             /\ driftFile' = driftFile
    <3>1. AreRight(driftState.flagged, driftTrades, Strategies \ driftTodo)'
      <4>1. driftTodo' = Drift!Evaluable(t)'
        BY <1>5, <1>7, <2>3
      <4>2. \A s \in Drift!Evaluable(t)' : s \notin Strategies \ driftTodo'
        BY <4>1
      <4> QED BY <2>1, <4>2 DEF AreRight
    <3>2. f = driftFile'.flagged /\ k = driftFile'.last
      BY <1>5, <2>3
    <3> QED BY <1>8, <2>3, <3>1, <3>2 DEF ComparedInv, AreRight
  <2> QED BY <1>1, <2>2, <2>3
<1> QED BY <1>3, <1>4, <1>9 DEF DriftInv

\* A strategy compared is done with, and its flag says what its trades say.
LEMMA CompareKeeps ==
  ASSUME DriftInv, NEW s \in Strategies, Drift!Compare(s)
  PROVE  DriftInv'
<1>1. /\ driftAt = "strategies" /\ driftTodo' = driftTodo \ {s}
      /\ UNCHANGED <<driftJournal, driftAt, driftTrades, driftFile, driftCrashes>>
      /\ Drift!Judge(s, Drift!Drifting(s, driftTrades))
  BY DEF Drift!Compare
<1>2. DriftTypes /\ ComparedInv
  BY DEF DriftInv
<1>3. PICK bad \in BOOLEAN : bad <=> Drift!Drifting(s, driftTrades)
  OBVIOUS
<1>4. /\ driftLog' \in Seq(DriftVerdict) /\ AlertsInv'
      /\ driftState' = [last |-> driftState.last,
                        flagged |-> IF bad THEN driftState.flagged \union {s}
                                    ELSE driftState.flagged \ {s}]
  <2>1. s \in DriftWatched
    BY DEF DriftWatched
  <2>2. Drift!Judge(s, bad)
    <3>1. Drift!Drifting(s, driftTrades) \in BOOLEAN
      BY DEF Drift!Drifting
    <3>2. bad = Drift!Drifting(s, driftTrades)
      BY <1>3, <3>1
    <3> QED BY <1>1, <3>2
  <2> QED BY <1>1, <2>1, <2>2, JudgeKeeps
<1>5. DriftTypes'
  <2>1. driftState.last \in 0 .. Len(driftJournal) /\ driftState.flagged \in SUBSET DriftWatched
    BY <1>2 DEF DriftTypes
  <2>2. (IF bad THEN driftState.flagged \union {s} ELSE driftState.flagged \ {s})
          \in SUBSET DriftWatched
    BY <2>1 DEF DriftWatched
  <2> QED BY <1>1, <1>2, <1>4, <2>1, <2>2 DEF DriftTypes
<1>6. PICK f, g, k, t, c :
        /\ f = driftFile.flagged /\ g = driftState'.flagged
        /\ k = driftFile.last /\ t = driftTrades /\ c = Strategies \ driftTodo'
  OBVIOUS
<1>7. k \in 0 .. Len(driftJournal) /\ t \in 0 .. Len(driftJournal)
  BY <1>2, <1>6 DEF DriftTypes
<1>8. /\ Drift!Evaluable(k)' = Drift!Evaluable(k) /\ Drift!Evaluable(t)' = Drift!Evaluable(t)
      /\ \A x : Drift!Drifting(x, k)' <=> Drift!Drifting(x, k)
      /\ \A x : Drift!Drifting(x, t)' <=> Drift!Drifting(x, t)
  BY <1>1, <1>2, <1>7, StaysRight
<1>9. AreRight(f, k, Strategies)'
  <2>1. AreRight(f, k, Strategies)
    BY <1>2, <1>6 DEF ComparedInv
  <2> QED BY <1>8, <2>1 DEF AreRight
<1>10. AreRight(g, t, c)'
  <2>1. AreRight(driftState.flagged, t, Strategies \ driftTodo)
    BY <1>1, <1>2, <1>6 DEF ComparedInv
  <2>2. ASSUME NEW x \in Drift!Evaluable(t), x \in c
        PROVE  x \in g <=> Drift!Drifting(x, t)
    <3>1. CASE x = s
      BY <1>3, <1>4, <1>6, <3>1
    <3>2. CASE x # s
      <4>1. x \in Strategies \ driftTodo
        BY <1>1, <1>6, <2>2, <3>2
      <4>2. x \in driftState.flagged <=> Drift!Drifting(x, t)
        BY <2>1, <2>2, <4>1 DEF AreRight
      <4> QED BY <1>4, <1>6, <3>2, <4>2
    <3> QED BY <3>1, <3>2
  <2> QED BY <1>8, <2>2 DEF AreRight
<1>11. ComparedInv'
  <2>1. /\ f = driftFile'.flagged /\ g = driftState'.flagged /\ k = driftFile'.last
        /\ t = driftTrades' /\ c = Strategies \ driftTodo' /\ driftAt' = "strategies"
    BY <1>1, <1>6
  <2> QED BY <1>9, <1>10, <2>1 DEF ComparedInv, AreRight
<1> QED BY <1>4, <1>5, <1>11 DEF DriftInv

LEMMA EndKeeps ==
  ASSUME DriftInv, Drift!EndCheck
  PROVE  DriftInv'
<1>1. /\ driftAt = "strategies" /\ driftTodo = {} /\ driftAt' = "idle"
      /\ driftState' = [driftState EXCEPT !.last = driftTrades] /\ driftFile' = driftState'
      /\ UNCHANGED <<driftJournal, driftTrades, driftTodo, driftLog, driftCrashes>>
  BY DEF Drift!EndCheck, Drift!Ends
<1>2. DriftTypes /\ ComparedInv
  BY DEF DriftInv
<1>3. /\ driftState'.last = driftTrades /\ driftState'.flagged = driftState.flagged
      /\ driftState' \in [last : 0 .. Len(driftJournal), flagged : SUBSET DriftWatched]
  BY <1>1, <1>2 DEF DriftTypes
<1>4. DriftTypes'
  BY <1>1, <1>2, <1>3 DEF DriftTypes
<1>5. PICK g, t : g = driftState.flagged /\ t = driftTrades
  OBVIOUS
<1>6. AreRight(g, t, Strategies)
  <2>1. Strategies \ driftTodo = Strategies
    BY <1>1
  <2> QED BY <1>1, <1>2, <1>5, <2>1 DEF ComparedInv
<1>7. AreRight(g, t, Strategies)'
  <2>1. t \in 0 .. Len(driftJournal)
    BY <1>2, <1>5 DEF DriftTypes
  <2>2. /\ Drift!Evaluable(t)' = Drift!Evaluable(t)
        /\ \A x : Drift!Drifting(x, t)' <=> Drift!Drifting(x, t)
    BY <1>1, <1>2, <2>1, StaysRight
  <2> QED BY <1>6, <2>2 DEF AreRight
<1>8. ComparedInv'
  <2>1. /\ g = driftState'.flagged /\ t = driftState'.last
        /\ g = driftFile'.flagged /\ t = driftFile'.last
    BY <1>1, <1>3, <1>5
  <2> QED BY <1>1, <1>7, <2>1 DEF ComparedInv, AreRight
<1> QED BY <1>1, <1>3, <1>4, <1>8, AlertsStay DEF DriftInv

\* A crash brings back the flags last saved, which may be alerted of once more.
LEMMA RestartKeeps ==
  ASSUME DriftInv, Drift!Crash
  PROVE  DriftInv'
<1>1. /\ driftCrashes' = driftCrashes + 1 /\ driftAt' = "idle" /\ driftState' = driftFile
      /\ UNCHANGED <<driftJournal, driftTrades, driftFile, driftLog>>
  BY DEF Drift!Crash
<1>2. DriftTypes /\ ComparedInv
  BY DEF DriftInv
<1>3. DriftTypes'
  BY <1>1, <1>2 DEF DriftTypes
<1>4. PICK f, k : f = driftFile.flagged /\ k = driftFile.last
  OBVIOUS
<1>5. AreRight(f, k, Strategies)'
  <2>1. k \in 0 .. Len(driftJournal) /\ AreRight(f, k, Strategies)
    BY <1>2, <1>4 DEF DriftTypes, ComparedInv
  <2>2. /\ Drift!Evaluable(k)' = Drift!Evaluable(k)
        /\ \A x : Drift!Drifting(x, k)' <=> Drift!Drifting(x, k)
    BY <1>1, <1>2, <2>1, StaysRight
  <2> QED BY <2>1, <2>2 DEF AreRight
<1>6. ComparedInv'
  <2>1. /\ f = driftState'.flagged /\ k = driftState'.last
        /\ f = driftFile'.flagged /\ k = driftFile'.last
    BY <1>1, <1>4
  <2> QED BY <1>1, <1>5, <2>1 DEF ComparedInv, AreRight
<1> QED BY <1>1, <1>3, <1>6, AlertsStay DEF DriftInv

LEMMA DriftStep == DriftInv /\ [Drift!Next]_driftVars => DriftInv'
<1> SUFFICES ASSUME DriftInv, [Drift!Next]_driftVars PROVE DriftInv'
  OBVIOUS
<1>1. CASE Drift!StartCheck BY <1>1, StartKeeps
<1>2. CASE Drift!CheckBasis BY <1>2, BasisKeeps
<1>3. CASE Drift!EndCheck BY <1>3, EndKeeps
<1>4. CASE Drift!Crash BY <1>4, RestartKeeps
<1>5. ASSUME NEW s \in Strategies, Drift!Compare(s) PROVE DriftInv'
  BY <1>5, CompareKeeps
<1>6. ASSUME NEW s \in Strategies, NEW won \in BOOLEAN, Drift!Close(s, won) PROVE DriftInv'
  BY <1>6, CloseKeeps
<1>7. CASE UNCHANGED driftVars
  <2>1. DriftTypes'
    BY <1>7 DEF driftVars, DriftInv, DriftTypes
  <2>2. AlertsInv'
    BY <1>7, AlertsStay DEF driftVars
  <2>3. ComparedInv'
    BY <1>7 DEF driftVars, DriftInv, ComparedInv, AreRight, Drift!Evaluable, Drift!Drifting,
       Drift!TradesOf, Drift!Wins
  <2> QED BY <2>1, <2>2, <2>3 DEF DriftInv
<1> QED BY <1>1, <1>2, <1>3, <1>4, <1>5, <1>6, <1>7 DEF Drift!Next

LEMMA DriftInit == Drift!Init => DriftInv
<1> SUFFICES ASSUME Drift!Init PROVE DriftInv
  OBVIOUS
<1>1. /\ driftJournal = <<>> /\ driftAt = "idle" /\ driftTrades = 0
      /\ driftState = [last |-> 0, flagged |-> {}] /\ driftFile = [last |-> 0, flagged |-> {}]
      /\ driftLog = <<>> /\ driftCrashes = 0
  BY DEF Drift!Init
<1>2. DriftTypes
  BY <1>1 DEF DriftTypes
<1>3. AreRight({}, 0, Strategies)
  <2>1. ASSUME NEW s PROVE Drift!TradesOf(s, 0) = {} /\ Drift!Wins(s, 0) = {}
    <3>1. Drift!TradesOf(s, 0) = {}
      BY DEF Drift!TradesOf
    <3> QED BY <3>1 DEF Drift!Wins
  <2>2. \A s : ~Drift!Drifting(s, 0)
    BY <2>1, DriftCount, FS_EmptySet DEF Drift!Drifting
  <2> QED BY <2>2 DEF AreRight
<1>4. ComparedInv
  BY <1>1, <1>3 DEF ComparedInv
<1>5. AlertsInv
  <2>1. \A w : Alerts(w) = {} /\ Recovered(w) = {}
    BY <1>1 DEF Alerts, Recovered
  <2>2. \A w : Cardinality(Alerts(w)) = 0 /\ Cardinality(Recovered(w)) = 0
    BY <2>1, FS_EmptySet
  <2> QED BY <1>1, <2>2 DEF AlertsInv
<1> QED BY <1>2, <1>4, <1>5 DEF DriftInv

LEMMA DriftTold ==
  ASSUME DriftInv
  PROVE  Drift!OneAlertPerDrift /\ Drift!FlagsAreOfTheComparedTrades
<1>1. ASSUME NEW w \in DriftWatched
      PROVE  Drift!AlertsOf(w) <= 1 + Drift!Recoveries(w) + driftCrashes
  <2>1. Drift!AlertsOf(w) = Cardinality(Alerts(w)) /\ Drift!Recoveries(w) = Cardinality(Recovered(w))
    BY DriftCount DEF Drift!AlertsOf, Drift!Recoveries, Alerts, Recovered
  <2>2. /\ Cardinality(Alerts(w)) \in Nat /\ Cardinality(Recovered(w)) \in Nat
        /\ driftCrashes \in Nat
    BY AlertsCounted DEF DriftInv, DriftTypes
  <2>3. Cardinality(Alerts(w)) <=
          Cardinality(Recovered(w)) + driftCrashes
            + (IF w \in driftState.flagged /\ Drift!LastWasBad(w, Len(driftLog) + 1) THEN 1 ELSE 0)
    BY DEF DriftInv, AlertsInv
  <2> QED BY <2>1, <2>2, <2>3
<1>2. Drift!OneAlertPerDrift
  BY <1>1 DEF Drift!OneAlertPerDrift, Drift!Watched, DriftWatched
<1>3. Drift!FlagsAreOfTheComparedTrades
  <2>1. \A s \in Drift!Evaluable(driftState.last) : s \in Strategies
    BY DEF Drift!Evaluable
  <2> QED BY <2>1 DEF DriftInv, ComparedInv, AreRight, Drift!FlagsAreOfTheComparedTrades
<1> QED BY <1>2, <1>3

-----------------------------------------------------------------------------
LEMMA ToldInit == BundleInit => NotesInv /\ DriftInv
BY NotesInit, DriftInit DEF BundleInit

LEMMA ToldStep ==
  /\ [BundleNext]_bundle => [Notes!Next]_notesVars
  /\ [BundleNext]_bundle => [Drift!Next]_driftVars
BY DEF BundleNext, bundle

\* A fill, and a strategy that becomes ready, is announced at most once over overlapping
\* calls and restarts, for as many calls and restarts as there are; a drift is alerted
\* once until it is over, and its flag is of the trades that were compared
\* (fill-notifier.ts, readiness-monitor.ts, drift-monitor.ts).
THEOREM EachIsToldOnce == BundleSpec => []ToldOnce
<1>1. BundleInit => NotesInv /\ DriftInv
  BY ToldInit
<1>2. NotesInv /\ DriftInv /\ [BundleNext]_bundle => (NotesInv /\ DriftInv)'
  BY ToldStep, NotesStep, DriftStep
<1>3. NotesInv /\ DriftInv => ToldOnce
  BY NotesTold, DriftTold DEF ToldOnce
<1> QED BY <1>1, <1>2, <1>3, PTL DEF BundleSpec


-----------------------------------------------------------------------------
(* The providers.                                                          *)

Name == STRING \union {"chosen"}
ProviderModel == [name : Name, tier : {"local", "cloud"}, caps : SUBSET (ProviderCapabilities \union {"tools"})]

LEMMA ProviderAssumed ==
  /\ ProviderRequests \subseteq Nat /\ IsFiniteSet(ProviderRequests) /\ ProviderKeys \in Nat \ {0}
  /\ None \notin {"local", "cloud", "primary"} /\ None \notin ProviderCapabilities
  /\ \A tier \in {"local", "cloud"} :
       ProviderListed[tier] \in Seq(ProviderModel) /\ \A i \in 1 .. Len(ProviderListed[tier]) : ProviderListed[tier][i].tier = tier
<1>1. Provider!IsFiniteSet(ProviderRequests) => IsFiniteSet(ProviderRequests)
  BY DEF Provider!IsFiniteSet, IsFiniteSet
<1>2. ASSUME NEW tier \in {"local", "cloud"}
      PROVE  /\ ProviderListed[tier] \in Seq(ProviderModel)
             /\ \A i \in 1 .. Len(ProviderListed[tier]) : ProviderListed[tier][i].tier = tier
  <2>1. ProviderListed[tier] \in Seq(Provider!Model(tier))
    BY BundleAssumption DEF Provider!PoolAssumption
  <2>2. \A m \in Provider!Model(tier) : m \in ProviderModel /\ m.tier = tier
    BY DEF Provider!Model, ProviderModel, Name
  <2> QED BY <2>1, <2>2
<1> QED BY <1>1, <1>2, BundleAssumption DEF Provider!PoolAssumption

\* No model of the cloud comes before a local one.
LocalFirst(models) ==
  \A i, j \in 1 .. Len(models) : i < j /\ models[j].tier = "local" => models[i].tier = "local"

\* The able among the first models, one after the other.
Picked(acc, what, models) ==
  /\ acc \in [0 .. Len(models) -> Seq(ProviderModel)] /\ acc[0] = <<>>
  /\ \A i \in 1 .. Len(models) :
       acc[i] = IF what \in models[i].caps THEN Append(acc[i - 1], models[i]) ELSE acc[i - 1]

LEMMA AbleUnrolls ==
  ASSUME NEW what, NEW models \in Seq(ProviderModel)
  PROVE  \E acc : Picked(acc, what, models) /\ Provider!AbleTo(what, models) = acc[Len(models)]
<1> DEFINE n == Len(models)
           S == Seq(ProviderModel)
           next(was, x) == IF what \in x.caps THEN Append(was, x) ELSE was
           IsFold(g) == g = [d \in SUBSET (1 .. n) |->
                               IF d = {} THEN <<>> ELSE next(g[d \ {Max(d)}], models[Max(d)])]
           iter == CHOOSE g : IsFold(g)
           step == [a \in (1 .. n) \X S |-> next(a[2], models[a[1]])]
           acc == [i \in 0 .. n |-> iter[1 .. i]]
<1>1. Provider!AbleTo(what, models) = iter[1 .. n]
  <2>1. DOMAIN models = 1 .. n OBVIOUS
  <2> HIDE DEF step, S
  <2> QED BY <2>1
          DEF Provider!AbleTo, Provider!FoldLeft, Provider!MapThenFoldSet, Provider!Max, Max
<1>2. n \in Nat /\ <<>> \in S /\ \A i \in 1 .. n : models[i] \in ProviderModel
  OBVIOUS
<1>3. \A was \in S, x \in ProviderModel : next(was, x) \in S
  OBVIOUS
<1>4. step = [a \in (1 .. n) \X S |-> next(a[2], models[a[1]])]
  OBVIOUS
<1> HIDE DEF n, S, next, step, iter, IsFold
<1>5. step \in [(1 .. n) \X S -> S]
  <2>1. \A a \in (1 .. n) \X S : next(a[2], models[a[1]]) \in S
    BY <1>2, <1>3
  <2> QED BY <1>4, <2>1
<1>6. PICK f \in [SUBSET (1 .. n) -> S] : FoldsTo(f, n, <<>>, step)
  BY <1>2, <1>5, FoldExists
<1>7. IsFold(f)
  <2>1. ASSUME NEW d \in SUBSET (1 .. n)
        PROVE  f[d] = IF d = {} THEN <<>> ELSE next(f[d \ {Max(d)}], models[Max(d)])
    <3>1. d # {} => Max(d) \in 1 .. n /\ f[d \ {Max(d)}] \in S
      BY <1>2, MaxUpTo
    <3> QED BY <1>4, <1>6, <3>1 DEF FoldsTo
  <2> QED BY <2>1 DEF IsFold
<1>8. IsFold(iter)
  BY <1>7 DEF iter
<1>9. iter[{}] = <<>>
  <2>1. {} \in SUBSET (1 .. n) OBVIOUS
  <2> QED BY <1>8, <2>1 DEF IsFold
<1>10. \A i \in 1 .. n : iter[1 .. i] = next(iter[1 .. i - 1], models[i])
  <2> TAKE i \in 1 .. n
  <2>1. /\ 1 .. i \in SUBSET (1 .. n) /\ 1 .. i # {}
        /\ Max(1 .. i) = i /\ (1 .. i) \ {i} = 1 .. i - 1
    BY <1>2, IntervalStep
  <2>2. iter[1 .. i] = next(iter[(1 .. i) \ {Max(1 .. i)}], models[Max(1 .. i)])
    BY <1>8, <2>1 DEF IsFold
  <2> QED BY <2>1, <2>2
<1>11. \A i \in 0 .. n : iter[1 .. i] \in S
  <2>1. \A i \in 1 .. n : iter[1 .. i - 1] \in S => iter[1 .. i] \in S
    BY <1>2, <1>3, <1>10
  <2> QED BY <1>2, <1>9, <2>1, FoldReaches
<1>12. acc \in [0 .. n -> S] /\ acc[0] = <<>> /\ acc[n] = iter[1 .. n]
  <2>1. 0 \in 0 .. n /\ n \in 0 .. n /\ 1 .. 0 = {}
    BY <1>2
  <2> QED BY <1>9, <1>11, <2>1
<1>13. \A i \in 1 .. n : acc[i] = next(acc[i - 1], models[i])
  <2>1. \A i \in 1 .. n : i \in 0 .. n /\ i - 1 \in 0 .. n
    BY <1>2
  <2> QED BY <1>10, <2>1
<1> HIDE DEF acc
<1>14. Picked(acc, what, models)
  BY <1>12, <1>13 DEF Picked, n, S, next
<1> QED BY <1>1, <1>12, <1>14 DEF n

\* Picking models keeps their order: the local ones stay first.
LEMMA AbleKeepsOrder ==
  ASSUME NEW what, NEW models \in Seq(ProviderModel), LocalFirst(models)
  PROVE  Provider!AbleTo(what, models) \in Seq(ProviderModel) /\ LocalFirst(Provider!AbleTo(what, models))
<1> DEFINE n == Len(models)
<1>1. PICK acc : Picked(acc, what, models) /\ Provider!AbleTo(what, models) = acc[n]
  BY AbleUnrolls
<1>2. n \in Nat /\ acc \in [0 .. n -> Seq(ProviderModel)] /\ acc[0] = <<>>
  BY <1>1 DEF Picked
<1> DEFINE Good ==
      {i \in 0 .. n : /\ LocalFirst(acc[i])
                      /\ \A k \in 1 .. Len(acc[i]) : \E j \in 1 .. i : acc[i][k] = models[j]}
<1>3. 0 \in Good
  BY <1>2 DEF LocalFirst
<1>4. ASSUME NEW i \in 1 .. n, i - 1 \in Good PROVE i \in Good
  <2>1. /\ acc[i - 1] \in Seq(ProviderModel) /\ models[i] \in ProviderModel
        /\ acc[i] = acc[i - 1] \/ acc[i] = Append(acc[i - 1], models[i])
    <3>1. i - 1 \in 0 .. n /\ i \in 1 .. Len(models)
      BY <1>2
    <3>2. acc[i] = IF what \in models[i].caps THEN Append(acc[i - 1], models[i]) ELSE acc[i - 1]
      BY <1>1, <3>1 DEF Picked
    <3>3. acc[i - 1] \in Seq(ProviderModel) /\ models[i] \in ProviderModel
      BY <1>2, <3>1
    <3> QED BY <3>2, <3>3
  <2> DEFINE was == acc[i - 1]
  <2>2. /\ LocalFirst(was)
        /\ \A k \in 1 .. Len(was) : \E j \in 1 .. i - 1 : was[k] = models[j]
    BY <1>4
  <2>3. CASE acc[i] = was
    BY <2>2, <2>3, <1>2
  <2>4. CASE acc[i] = Append(was, models[i])
    <3> DEFINE now == acc[i]
    <3>1. /\ Len(now) = Len(was) + 1 /\ now[Len(was) + 1] = models[i]
          /\ \A k \in 1 .. Len(was) : now[k] = was[k]
      BY <2>1, <2>4
    <3>2. ASSUME NEW k \in 1 .. Len(now) PROVE \E j \in 1 .. i : now[k] = models[j]
      <4>1. CASE k \in 1 .. Len(was)
        BY <4>1, <3>1, <2>2
      <4>2. CASE k = Len(was) + 1
        BY <4>2, <3>1
      <4> QED BY <4>1, <4>2, <3>1, <2>1
    <3>3. ASSUME NEW k \in 1 .. Len(now), NEW l \in 1 .. Len(now), k < l, now[l].tier = "local"
          PROVE  now[k].tier = "local"
      <4>1. k \in 1 .. Len(was) /\ now[k] = was[k]
        BY <3>1, <3>3, <2>1
      <4>2. CASE l \in 1 .. Len(was)
        BY <4>1, <4>2, <3>1, <3>3, <2>2 DEF LocalFirst
      <4>3. CASE l = Len(was) + 1
        <5>1. PICK j \in 1 .. i - 1 : was[k] = models[j]
          BY <4>1, <2>2
        <5>2. models[i].tier = "local" /\ j < i /\ j \in 1 .. n
          BY <4>3, <3>1, <3>3
        <5>3. models[j].tier = "local"
          BY <5>2 DEF LocalFirst
        <5> QED BY <5>1, <5>3, <4>1
      <4> QED BY <4>2, <4>3, <3>1, <2>1
    <3>4. LocalFirst(now)
      BY <3>3 DEF LocalFirst
    <3> QED BY <3>2, <3>4, i \in 0 .. n
  <2> QED BY <2>1, <2>3, <2>4
<1>5. \A i \in 0 .. n : i \in Good
  <2> HIDE DEF Good, n
  <2> QED BY <1>2, <1>3, <1>4, InductionTo
<1> QED BY <1>1, <1>2, <1>5


LEMMA CatalogListsLocalFirst ==
  ASSUME NEW up
  PROVE  LET listed == (IF "local" \in up THEN ProviderListed["local"] ELSE <<>>)
                        \o (IF "cloud" \in up THEN ProviderListed["cloud"] ELSE <<>>)
         IN  listed \in Seq(ProviderModel) /\ LocalFirst(listed)
<1> DEFINE a == IF "local" \in up THEN ProviderListed["local"] ELSE <<>>
           b == IF "cloud" \in up THEN ProviderListed["cloud"] ELSE <<>>
           c == a \o b
<1>1. /\ a \in Seq(ProviderModel) /\ \A i \in 1 .. Len(a) : a[i].tier = "local"
      /\ b \in Seq(ProviderModel) /\ \A i \in 1 .. Len(b) : b[i].tier = "cloud"
  BY ProviderAssumed
<1> HIDE DEF a, b
<1>2. /\ c \in Seq(ProviderModel) /\ Len(c) = Len(a) + Len(b)
      /\ \A j \in 1 .. Len(a) : c[j] = a[j]
      /\ \A j \in 1 .. Len(b) : c[Len(a) + j] = b[j]
  BY <1>1, OneAfterOther
<1> HIDE DEF c
<1>3. ASSUME NEW i \in 1 .. Len(c), c[i].tier = "local" PROVE i <= Len(a)
  <2> SUFFICES ASSUME i > Len(a) PROVE FALSE
    BY <1>1
  <2>1. i - Len(a) \in 1 .. Len(b) /\ Len(a) + (i - Len(a)) = i
    BY <1>1, <1>2
  <2>2. c[i].tier = "cloud"
    BY <1>1, <1>2, <2>1
  <2> QED BY <1>3, <2>2
<1>4. ASSUME NEW i \in 1 .. Len(c), NEW j \in 1 .. Len(c), i < j, c[j].tier = "local"
      PROVE  c[i].tier = "local"
  <2>1. i \in 1 .. Len(a)
    BY <1>1, <1>3, <1>4
  <2> QED BY <2>1, <1>1, <1>2
<1>5. LocalFirst(c)
  BY <1>4 DEF LocalFirst
<1> QED BY <1>2, <1>5 DEF a, b, c

LEMMA CandidatesInOrder ==
  ASSUME providerCatalog \in Seq(ProviderModel), LocalFirst(providerCatalog), NEW cap, NEW tools \in BOOLEAN
  PROVE  /\ Provider!Candidates(cap, tools) \in Seq(ProviderModel)
         /\ LocalFirst(Provider!Candidates(cap, tools))
<1>1. \A what : /\ Provider!ModelsFor(what) \in Seq(ProviderModel)
                /\ LocalFirst(Provider!ModelsFor(what))
  BY AbleKeepsOrder DEF Provider!ModelsFor
<1> DEFINE able == Provider!AbleTo("tools", Provider!ModelsFor(cap))
<1>2. able \in Seq(ProviderModel) /\ LocalFirst(able)
  BY <1>1, AbleKeepsOrder
<1> QED BY <1>1, <1>2 DEF Provider!Candidates

Asked(q) == {q.refused[i][1] : i \in 1 .. Len(q.refused)}
LastError(q) == q.refused[Len(q.refused)][2]

ChatError == {"rate limited", "timed out", "unreachable", "no tools", "http error", "empty"}
ProviderRequest ==
  [at : {"new", "cataloguing", "waiting", "answered", "failed"}, cap : ProviderCapabilities \union {None},
   tools : BOOLEAN, left : Seq(ProviderModel), provider : {"local", "cloud", "primary", None},
   model : Name \union {None}, attempt : Nat, key : Nat, limited : SUBSET Nat,
   refused : Seq((Name \union {None}) \X ChatError), shown : Seq(Name \union {None})]

\* A routed request stands at a candidate: those before it refused, in their order,
\* and those after it are left.
StandsAt(q, n, cs) ==
  /\ n \in 1 .. Len(cs)
  /\ q.provider = cs[n].tier /\ q.model = cs[n].name
  /\ Len(q.left) = Len(cs) - n /\ \A i \in 1 .. Len(q.left) : q.left[i] = cs[n + i]
  /\ q.at # "failed" => Asked(q) = {cs[i].name : i \in 1 .. n - 1}
  /\ q.at = "failed" =>
       /\ q.refused # <<>> /\ Asked(q) = {cs[i].name : i \in 1 .. n}
       /\ LastError(q) \in Provider!Recoverable => n = Len(cs)

\* The keys a chat has tried go from the one it began with round to the one it has.
TriedFrom(q, first) ==
  /\ q.key = IF first + q.attempt < ProviderKeys THEN first + q.attempt
             ELSE first + q.attempt - ProviderKeys
  /\ \A x \in Nat :
       x \in q.limited \union {q.key} <=>
         /\ x < ProviderKeys
         /\ (first <= x /\ x <= first + q.attempt) \/ x <= first + q.attempt - ProviderKeys
KeysTried(q) ==
  /\ q.attempt \in 0 .. ProviderKeys - 1 /\ q.key \in 0 .. ProviderKeys - 1
  /\ \E first \in 0 .. ProviderKeys - 1 : TriedFrom(q, first)

\* What holds of one request, while the catalog has the candidates cs for it and its
\* provider stands at a key.
RequestIsSound(q, cs, keys) ==
  /\ q.at \in {"new", "cataloguing"} => q.provider = None /\ q.refused = <<>>
  /\ q.at = "waiting" => q.provider # None
  /\ q.provider = "primary" => q.left = <<>>
  /\ q.at = "waiting" /\ q.provider # "local" => KeysTried(q) /\ q.key = keys[q.provider]
  /\ q.provider \in {"local", "cloud"} => \E n \in 1 .. Len(cs) : StandsAt(q, n, cs)

UnderWay(r) == r \in ProviderRequests /\ providerReq[r].at \in {"cataloguing", "waiting"}

ProviderInv ==
  /\ providerKeyIndex \in [{"primary", "cloud"} -> 0 .. ProviderKeys - 1]
  /\ providerRefresh \in {"none", "running", "done"}
  /\ providerCatalog \in Seq(ProviderModel) /\ LocalFirst(providerCatalog)
  /\ providerReq \in [ProviderRequests -> ProviderRequest]
  /\ \A p, r \in ProviderRequests : UnderWay(p) /\ UnderWay(r) => p = r
  /\ \A r \in ProviderRequests : providerReq[r].provider \in {"local", "cloud"} => providerRefresh = "done"
  /\ \A r \in ProviderRequests :
       RequestIsSound(providerReq[r], Provider!Candidates(providerReq[r].cap, providerReq[r].tools),
                      providerKeyIndex)

LEMMA ProviderInit == Provider!Init => ProviderInv
<1> SUFFICES ASSUME Provider!Init PROVE ProviderInv
  OBVIOUS
<1>1. Provider!NewRequest \in ProviderRequest
  BY ProviderAssumed DEF Provider!NewRequest, ProviderRequest
<1>2. \A r \in ProviderRequests : providerReq[r] = Provider!NewRequest
  BY DEF Provider!Init
<1>3. \A cs, keys : RequestIsSound(Provider!NewRequest, cs, keys)
  BY ProviderAssumed DEF Provider!NewRequest, RequestIsSound
<1>4. /\ Provider!NewRequest.at = "new" /\ Provider!NewRequest.provider = None
  BY DEF Provider!NewRequest
<1>5. \A r \in ProviderRequests : ~UnderWay(r)
  BY <1>2, <1>4 DEF UnderWay
<1>6. /\ providerKeyIndex \in [{"primary", "cloud"} -> 0 .. ProviderKeys - 1]
      /\ providerRefresh = "none" /\ providerCatalog = <<>>
      /\ providerReq \in [ProviderRequests -> ProviderRequest]
  BY <1>1, ProviderAssumed DEF Provider!Init
<1>7. \A r \in ProviderRequests : providerReq[r].provider \notin {"local", "cloud"}
  BY <1>2, <1>4, ProviderAssumed
<1> QED BY <1>2, <1>3, <1>5, <1>6, <1>7 DEF ProviderInv, LocalFirst

\* A chat begins with the key its provider stands at.
BeginsChat(p, q, provider, model, left) ==
  /\ p \in ProviderRequest
  /\ p.at = "waiting" /\ p.provider = provider /\ p.model = model /\ p.left = left
  /\ p.cap = q.cap /\ p.tools = q.tools /\ p.refused = q.refused
  /\ provider # "local" => KeysTried(p) /\ p.key = providerKeyIndex[provider]

LEMMA ChatBegins ==
  ASSUME NEW q \in ProviderRequest, NEW provider \in {"local", "cloud", "primary"},
         NEW model \in Name, NEW left \in Seq(ProviderModel),
         providerKeyIndex \in [{"primary", "cloud"} -> 0 .. ProviderKeys - 1]
  PROVE  BeginsChat(Provider!Chat(q, provider, model, left), q, provider, model, left)
<1> DEFINE k == IF provider = "local" THEN 0 ELSE providerKeyIndex[provider]
           p == Provider!Chat(q, provider, model, left)
<1>1. k \in 0 .. ProviderKeys - 1 /\ ProviderKeys \in Nat /\ k \in Nat
  BY ProviderAssumed
<1>2. /\ p \in ProviderRequest /\ p.at = "waiting" /\ p.provider = provider /\ p.model = model
      /\ p.left = left /\ p.cap = q.cap /\ p.tools = q.tools /\ p.refused = q.refused
      /\ p.attempt = 0 /\ p.limited = {} /\ p.key = k
  <2> HIDE DEF k
  <2>1. p = [q EXCEPT !.at = "waiting", !.provider = provider, !.model = model, !.left = left,
                      !.attempt = 0, !.limited = {}, !.key = k]
    BY DEF Provider!Chat, k
  <2> HIDE DEF p
  <2> QED BY <1>1, <2>1 DEF ProviderRequest
<1> HIDE DEF p
<1>3. TriedFrom(p, k)
  <2>1. p.limited \union {p.key} = {k}
    BY <1>2
  <2>2. p.key = IF k + p.attempt < ProviderKeys THEN k + p.attempt ELSE k + p.attempt - ProviderKeys
    BY <1>1, <1>2
  <2>3. ASSUME NEW x \in Nat
        PROVE  x \in p.limited \union {p.key} <=>
                 /\ x < ProviderKeys
                 /\ (k <= x /\ x <= k + p.attempt) \/ x <= k + p.attempt - ProviderKeys
    <3> HIDE DEF k
    <3>1. x \in p.limited \union {p.key} <=> x = k
      BY <2>1
    <3> QED BY <1>1, <1>2, <3>1
  <2> QED BY <2>2, <2>3 DEF TriedFrom
<1>4. KeysTried(p)
  BY <1>1, <1>2, <1>3 DEF KeysTried
<1> QED BY <1>2, <1>4 DEF p, BeginsChat


LEMMA RefusedGrows ==
  ASSUME NEW q \in ProviderRequest, NEW why \in ChatError, NEW p,
         p.refused = Append(q.refused, <<q.model, why>>)
  PROVE  /\ p.refused \in Seq((Name \union {None}) \X ChatError) /\ p.refused # <<>>
         /\ Asked(p) = Asked(q) \union {q.model} /\ LastError(p) = why
         /\ Len(p.refused) = Len(q.refused) + 1
<1>1. /\ q.refused \in Seq((Name \union {None}) \X ChatError)
      /\ q.model \in Name \union {None}
  BY DEF ProviderRequest
<1>2. /\ p.refused \in Seq((Name \union {None}) \X ChatError)
      /\ Len(p.refused) = Len(q.refused) + 1 /\ Len(q.refused) \in Nat
      /\ p.refused[Len(q.refused) + 1] = <<q.model, why>>
      /\ \A i \in 1 .. Len(q.refused) : p.refused[i] = q.refused[i]
  BY <1>1
<1>3. Asked(p) \subseteq Asked(q) \union {q.model}
  <2> SUFFICES ASSUME NEW i \in 1 .. Len(p.refused) PROVE p.refused[i][1] \in Asked(q) \union {q.model}
    BY DEF Asked
  <2>1. CASE i \in 1 .. Len(q.refused)
    BY <2>1, <1>2 DEF Asked
  <2>2. CASE i = Len(q.refused) + 1
    BY <2>2, <1>2
  <2> QED BY <2>1, <2>2, <1>2
<1>4. Asked(q) \union {q.model} \subseteq Asked(p)
  <2>1. ASSUME NEW i \in 1 .. Len(q.refused) PROVE q.refused[i][1] \in Asked(p)
    BY <1>2 DEF Asked
  <2>2. q.model \in Asked(p)
    <3>1. Len(q.refused) + 1 \in 1 .. Len(p.refused) /\ p.refused[Len(q.refused) + 1][1] = q.model
      BY <1>2
    <3> QED BY <3>1 DEF Asked
  <2> QED BY <2>1, <2>2 DEF Asked
<1>5. LastError(p) = why
  BY <1>2 DEF LastError
<1> QED BY <1>2, <1>3, <1>4, <1>5

\* A request that waits for an answer.
IsAsking(q, cs) ==
  /\ q.at = "waiting" /\ q.provider # None
  /\ q.provider = "primary" => q.left = <<>>
  /\ q.provider \in {"local", "cloud"} => \E n \in 1 .. Len(cs) : StandsAt(q, n, cs)

\* A chat that failed: the next candidate is asked, and the request fails after the last
\* one or an error that no other would mend.
LEMMA FailedGoesOn ==
  ASSUME NEW q \in ProviderRequest, NEW why \in ChatError, NEW cs \in Seq(ProviderModel), IsAsking(q, cs),
         providerKeyIndex \in [{"primary", "cloud"} -> 0 .. ProviderKeys - 1]
  PROVE  LET p == Provider!Failed(q, why)
         IN  /\ p \in ProviderRequest /\ p.at \in {"waiting", "failed"}
             /\ p.cap = q.cap /\ p.tools = q.tools
             /\ p.provider \in {"local", "cloud"} <=> q.provider \in {"local", "cloud"}
             /\ RequestIsSound(p, cs, providerKeyIndex)
             /\ p.refused = Append(q.refused, <<q.model, why>>)
<1> DEFINE t == [q EXCEPT !.refused = Append(@, <<q.model, why>>)]
           p == Provider!Failed(q, why)
<1>1. t.refused = Append(q.refused, <<q.model, why>>)
  BY DEF ProviderRequest
<1>2. /\ t.refused \in Seq((Name \union {None}) \X ChatError) /\ t.refused # <<>>
      /\ Asked(t) = Asked(q) \union {q.model} /\ LastError(t) = why
  <2> HIDE DEF t
  <2> QED BY <1>1, RefusedGrows
<1>3. /\ t \in ProviderRequest /\ t.at = "waiting" /\ t.cap = q.cap /\ t.tools = q.tools
      /\ t.left = q.left /\ t.provider = q.provider /\ t.model = q.model
  BY <1>1, <1>2 DEF ProviderRequest, IsAsking
<1> HIDE DEF t
<1>4. CASE why \in Provider!Recoverable /\ q.left # <<>>
  <2> DEFINE m == Head(q.left)
             rest == Tail(q.left)
  <2>1. /\ q.left \in Seq(ProviderModel) /\ Len(q.left) > 0 /\ q.provider # "primary"
    BY <1>4 DEF ProviderRequest, IsAsking
  <2>2. /\ m \in ProviderModel /\ rest \in Seq(ProviderModel) /\ m = q.left[1]
        /\ Len(rest) = Len(q.left) - 1 /\ \A i \in 1 .. Len(rest) : rest[i] = q.left[i + 1]
    BY <2>1
  <2>3. m.tier \in {"local", "cloud"} /\ m.name \in Name
    BY <2>2 DEF ProviderModel
  <2>4. p = Provider!Chat(t, m.tier, m.name, rest)
    BY <1>4 DEF Provider!Failed, t
  <2> HIDE DEF m, rest, p
  <2>5. /\ p \in ProviderRequest /\ p.at = "waiting" /\ p.provider = m.tier /\ p.model = m.name
        /\ p.left = rest /\ p.cap = t.cap /\ p.tools = t.tools /\ p.refused = t.refused
        /\ m.tier # "local" => KeysTried(p) /\ p.key = providerKeyIndex[m.tier]
    <3>1. m.tier \in {"local", "cloud", "primary"}
      BY <2>3
    <3>2. BeginsChat(p, t, m.tier, m.name, rest)
      BY <1>3, <2>2, <2>3, <2>4, <3>1, ChatBegins
    <3> QED BY <3>2 DEF BeginsChat
  <2>6. q.provider \in {"local", "cloud"}
    BY <2>1 DEF ProviderRequest, IsAsking
  <2>7. PICK n \in 1 .. Len(cs) : StandsAt(q, n, cs)
    BY <2>6 DEF IsAsking
  <2>8. StandsAt(p, n + 1, cs)
    <3>1. /\ Len(q.left) = Len(cs) - n /\ \A i \in 1 .. Len(q.left) : q.left[i] = cs[n + i]
          /\ Asked(q) = {cs[i].name : i \in 1 .. n - 1} /\ q.model = cs[n].name
      BY <2>7 DEF StandsAt, IsAsking
    <3>2. n + 1 \in 1 .. Len(cs) /\ m = cs[n + 1]
      BY <2>1, <2>2, <3>1
    <3>3. Len(rest) = Len(cs) - (n + 1) /\ \A i \in 1 .. Len(rest) : rest[i] = cs[n + 1 + i]
      <4>1. Len(rest) = Len(cs) - (n + 1)
        BY <2>2, <3>1
      <4>2. ASSUME NEW i \in 1 .. Len(rest) PROVE rest[i] = cs[n + 1 + i]
        <5>1. i + 1 \in 1 .. Len(q.left)
          BY <2>1, <2>2
        <5>2. q.left[i + 1] = cs[n + (i + 1)]
          BY <3>1, <5>1
        <5>3. n + (i + 1) = n + 1 + i
          OBVIOUS
        <5> QED BY <2>2, <5>2, <5>3
      <4> QED BY <4>1, <4>2
    <3>4. Asked(p) = {cs[i].name : i \in 1 .. n}
      <4>1. Asked(p) = Asked(t)
        BY <2>5 DEF Asked
      <4>2. \A i : i \in 1 .. n <=> i \in 1 .. n - 1 \/ i = n
        OBVIOUS
      <4> QED BY <4>1, <4>2, <1>2, <3>1
    <3>5. n + 1 - 1 = n
      OBVIOUS
    <3> QED BY <2>5, <3>2, <3>3, <3>4, <3>5 DEF StandsAt
  <2>9. RequestIsSound(p, cs, providerKeyIndex)
    <3>1. n + 1 \in 1 .. Len(cs)
      BY <2>8 DEF StandsAt
    <3>2. m.tier # None /\ m.tier # "primary"
      BY <2>3, ProviderAssumed
    <3> QED BY <2>5, <2>8, <3>1, <3>2 DEF RequestIsSound
  <2> QED BY <1>1, <1>3, <2>3, <2>5, <2>6, <2>9 DEF p
<1>5. CASE ~(why \in Provider!Recoverable /\ q.left # <<>>)
  <2>1. p = [t EXCEPT !.at = "failed"]
    BY <1>5 DEF Provider!Failed, t
  <2> HIDE DEF p
  <2>2. /\ p \in ProviderRequest /\ p.at = "failed" /\ p.cap = q.cap /\ p.tools = q.tools
        /\ p.provider = q.provider /\ p.model = q.model /\ p.left = q.left /\ p.refused = t.refused
    BY <1>3, <2>1 DEF ProviderRequest
  <2>3. ASSUME q.provider \in {"local", "cloud"} PROVE \E n \in 1 .. Len(cs) : StandsAt(p, n, cs)
    <3>1. PICK n \in 1 .. Len(cs) : StandsAt(q, n, cs)
      BY <2>3 DEF IsAsking
    <3>2. /\ Len(q.left) = Len(cs) - n /\ \A i \in 1 .. Len(q.left) : q.left[i] = cs[n + i]
          /\ Asked(q) = {cs[i].name : i \in 1 .. n - 1} /\ q.model = cs[n].name
          /\ q.provider = cs[n].tier
      BY <3>1 DEF StandsAt, IsAsking
    <3>3. Asked(p) = {cs[i].name : i \in 1 .. n}
      <4>1. Asked(p) = Asked(t)
        BY <2>2 DEF Asked
      <4>2. \A i : i \in 1 .. n <=> i \in 1 .. n - 1 \/ i = n
        OBVIOUS
      <4> QED BY <4>1, <4>2, <1>2, <3>2
    <3>4. LastError(p) = why
      BY <1>2, <2>2 DEF LastError
    <3>5. why \in Provider!Recoverable => n = Len(cs)
      <4>1. q.left \in Seq(ProviderModel)
        BY DEF ProviderRequest
      <4> QED BY <1>5, <3>2, <4>1
    <3> QED BY <1>2, <2>2, <3>2, <3>3, <3>4, <3>5 DEF StandsAt
  <2>4. RequestIsSound(p, cs, providerKeyIndex)
    BY <2>2, <2>3 DEF RequestIsSound, IsAsking
  <2> QED BY <1>1, <2>2, <2>4 DEF p
<1> QED BY <1>4, <1>5


\* A step that moves one request keeps the others sound: none of them waits while a
\* provider turns to another key.
LEMMA OneRequestMoves ==
  ASSUME ProviderInv, NEW r \in ProviderRequests, NEW q \in ProviderRequest,
         providerReq' = [providerReq EXCEPT ![r] = q], UNCHANGED providerCatalog,
         providerKeyIndex' \in [{"primary", "cloud"} -> 0 .. ProviderKeys - 1],
         providerKeyIndex' = providerKeyIndex \/ UnderWay(r),
         providerRefresh' \in {"none", "running", "done"}, providerRefresh = "done" => providerRefresh' = "done",
         q.at \in {"cataloguing", "waiting"} => \A p : UnderWay(p) => p = r,
         q.provider \in {"local", "cloud"} => providerRefresh' = "done",
         RequestIsSound(q, Provider!Candidates(q.cap, q.tools), providerKeyIndex')
  PROVE  ProviderInv'
<1>1. /\ providerReq' \in [ProviderRequests -> ProviderRequest] /\ providerReq'[r] = q
      /\ \A p \in ProviderRequests : p # r => providerReq'[p] = providerReq[p]
  BY DEF ProviderInv
<1>2. \A cap, tools : Provider!Candidates(cap, tools)' = Provider!Candidates(cap, tools)
  BY DEF Provider!Candidates, Provider!ModelsFor
<1>3. ASSUME NEW p \in ProviderRequests
      PROVE  RequestIsSound(providerReq'[p], Provider!Candidates(providerReq'[p].cap, providerReq'[p].tools),
                            providerKeyIndex')
  <2>1. CASE p = r
    BY <2>1, <1>1
  <2>2. CASE p # r
    <3>1. providerReq'[p] = providerReq[p]
      BY <2>2, <1>1
    <3>2. RequestIsSound(providerReq[p], Provider!Candidates(providerReq[p].cap, providerReq[p].tools), providerKeyIndex)
      BY DEF ProviderInv
    <3>3. providerReq[p].at = "waiting" => providerKeyIndex' = providerKeyIndex
      BY <2>2 DEF ProviderInv, UnderWay
    <3>4. RequestIsSound(providerReq[p], Provider!Candidates(providerReq[p].cap, providerReq[p].tools), providerKeyIndex')
      BY <3>2, <3>3 DEF RequestIsSound
    <3> QED BY <3>1, <3>4
  <2> QED BY <2>1, <2>2
<1>4. \A p \in ProviderRequests :
        RequestIsSound(providerReq[p], Provider!Candidates(providerReq[p].cap, providerReq[p].tools),
                       providerKeyIndex)'
  <2> TAKE p \in ProviderRequests
  <2>1. Provider!Candidates(providerReq[p].cap, providerReq[p].tools)' = Provider!Candidates(providerReq'[p].cap, providerReq'[p].tools)
    BY DEF Provider!Candidates, Provider!ModelsFor
  <2> QED BY <1>3, <2>1
<1>5. ASSUME NEW p \in ProviderRequests, NEW s \in ProviderRequests,
             providerReq'[p].at \in {"cataloguing", "waiting"}, providerReq'[s].at \in {"cataloguing", "waiting"}
      PROVE  p = s
  <2>1. \A x \in ProviderRequests : x # r /\ providerReq'[x].at \in {"cataloguing", "waiting"} => UnderWay(x)
    BY <1>1 DEF UnderWay
  <2>2. CASE p = r /\ s # r
    BY <2>1, <2>2, <1>1, <1>5
  <2>3. CASE p # r /\ s = r
    BY <2>1, <2>3, <1>1, <1>5
  <2>4. CASE p # r /\ s # r
    BY <2>1, <2>4, <1>5 DEF ProviderInv
  <2> QED BY <2>2, <2>3, <2>4
<1>6. \A p, s \in ProviderRequests : (UnderWay(p) /\ UnderWay(s) => p = s)'
  BY <1>5 DEF UnderWay
<1>7. \A p \in ProviderRequests : providerReq'[p].provider \in {"local", "cloud"} => providerRefresh' = "done"
  BY <1>1 DEF ProviderInv
<1>8. providerCatalog' \in Seq(ProviderModel) /\ LocalFirst(providerCatalog)'
  BY DEF ProviderInv, LocalFirst
<1> QED BY <1>1, <1>4, <1>6, <1>7, <1>8 DEF ProviderInv

LEMMA ProviderCount == ASSUME NEW S PROVE Provider!Cardinality(S) = Cardinality(S)
BY DEF Provider!Cardinality, Cardinality

LEMMA NobodyAsks ==
  ASSUME Provider!Cardinality(Provider!Pending) < 1
  PROVE  \A p : ~UnderWay(p)
<1>1. Provider!Pending \in SUBSET ProviderRequests
  BY DEF Provider!Pending
<1>2. IsFiniteSet(Provider!Pending)
  BY <1>1, ProviderAssumed, FS_Subset
<1>3. Cardinality(Provider!Pending) \in Nat
  BY <1>2, FS_CardinalityType
<1>4. Cardinality(Provider!Pending) = 0
  BY <1>3, ProviderCount
<1>5. Provider!Pending = {}
  BY <1>2, <1>4, FS_EmptySet
<1> QED BY <1>5 DEF Provider!Pending, UnderWay

LEMMA ChosenIsAName == "chosen" \in Name
BY DEF Name

LEMMA RequestIsMade ==
  ASSUME ProviderInv, NEW r \in ProviderRequests, NEW cap \in ProviderCapabilities \union {None},
         NEW tools \in BOOLEAN, Provider!Ask(r, cap, tools)
  PROVE  ProviderInv'
<1> DEFINE q == [providerReq[r] EXCEPT !.cap = cap, !.tools = tools]
           chat == Provider!Chat(q, "primary", "chosen", <<>>)
           asks == [q EXCEPT !.at = "cataloguing"]
<1>1. /\ providerReq[r].at = "new" /\ Provider!Cardinality(Provider!Pending) < 1
      /\ providerReq' = [providerReq EXCEPT ![r] = IF cap = None THEN chat ELSE asks]
      /\ providerRefresh' = IF cap # None /\ providerRefresh = "none" THEN "running" ELSE providerRefresh
      /\ UNCHANGED <<providerKeyIndex, providerCatalog>>
  BY DEF Provider!Ask
<1>2. \A p : ~UnderWay(p)
  BY <1>1, NobodyAsks
<1>3. /\ providerReq[r] \in ProviderRequest
      /\ RequestIsSound(providerReq[r], Provider!Candidates(providerReq[r].cap, providerReq[r].tools), providerKeyIndex)
      /\ providerKeyIndex \in [{"primary", "cloud"} -> 0 .. ProviderKeys - 1]
      /\ providerRefresh \in {"none", "running", "done"}
  BY DEF ProviderInv
<1>4. providerReq[r].provider = None /\ providerReq[r].refused = <<>>
  BY <1>1, <1>3 DEF RequestIsSound
<1>5. /\ q \in ProviderRequest /\ q.at = "new" /\ q.provider = None /\ q.refused = <<>>
  BY <1>1, <1>3, <1>4, Zenon DEF ProviderRequest
<1> HIDE DEF q
<1>6. CASE cap = None
  <2>1. BeginsChat(chat, q, "primary", "chosen", <<>>)
    <3>1. <<>> \in Seq(ProviderModel) /\ "primary" \in {"local", "cloud", "primary"}
      OBVIOUS
    <3> QED BY <1>3, <1>5, <3>1, ChosenIsAName, ChatBegins
  <2> HIDE DEF chat
  <2>2. RequestIsSound(chat, Provider!Candidates(chat.cap, chat.tools), providerKeyIndex)
    BY <2>1, ProviderAssumed DEF BeginsChat, RequestIsSound
  <2>3. chat \in ProviderRequest /\ chat.provider = "primary"
    BY <2>1 DEF BeginsChat
  <2>4. providerReq' = [providerReq EXCEPT ![r] = chat]
    BY <1>1, <1>6
  <2> QED BY <1>1, <1>2, <1>3, <2>2, <2>3, <2>4, OneRequestMoves
<1>7. CASE cap # None
  <2>1. asks \in ProviderRequest /\ asks.at = "cataloguing" /\ asks.provider = None /\ asks.refused = <<>>
    BY <1>5 DEF ProviderRequest
  <2>2. providerReq' = [providerReq EXCEPT ![r] = asks]
    BY <1>1, <1>7
  <2> HIDE DEF asks
  <2>3. RequestIsSound(asks, Provider!Candidates(asks.cap, asks.tools), providerKeyIndex)
    BY <2>1, ProviderAssumed DEF RequestIsSound
  <2>4. /\ providerRefresh' \in {"none", "running", "done"}
        /\ providerRefresh = "done" => providerRefresh' = "done"
    BY <1>1, <1>3
  <2>5. /\ asks.provider \in {"local", "cloud"} => providerRefresh' = "done"
        /\ UNCHANGED providerCatalog /\ providerKeyIndex' = providerKeyIndex
    BY <1>1, <2>1, ProviderAssumed
  <2> QED BY <1>2, <1>3, <2>1, <2>2, <2>3, <2>4, <2>5, OneRequestMoves
<1> QED BY <1>6, <1>7

LEMMA CatalogIsRefreshed ==
  ASSUME ProviderInv, NEW up, Provider!Refreshed(up)
  PROVE  ProviderInv'
<1>1. /\ providerRefresh = "running" /\ providerRefresh' = "done"
      /\ providerCatalog' = (IF "local" \in up THEN ProviderListed["local"] ELSE <<>>)
                            \o (IF "cloud" \in up THEN ProviderListed["cloud"] ELSE <<>>)
      /\ providerKeyIndex' = providerKeyIndex /\ providerReq' = providerReq
  BY DEF Provider!Refreshed
<1>2. providerCatalog' \in Seq(ProviderModel) /\ LocalFirst(providerCatalog')
  BY <1>1, CatalogListsLocalFirst
<1>3. \A r \in ProviderRequests : providerReq[r].provider \notin {"local", "cloud"}
  BY <1>1 DEF ProviderInv
<1>4. ASSUME NEW r \in ProviderRequests, NEW cs PROVE RequestIsSound(providerReq[r], cs, providerKeyIndex)
  BY <1>3 DEF ProviderInv, RequestIsSound
<1>5. \A r \in ProviderRequests :
        RequestIsSound(providerReq[r], Provider!Candidates(providerReq[r].cap, providerReq[r].tools),
                       providerKeyIndex)'
  BY <1>1, <1>4
<1>6. \A p, r \in ProviderRequests : (UnderWay(p) /\ UnderWay(r) => p = r)'
  BY <1>1 DEF ProviderInv, UnderWay
<1>7. LocalFirst(providerCatalog)'
  BY <1>2
<1> QED BY <1>1, <1>2, <1>5, <1>6, <1>7 DEF ProviderInv

LEMMA RequestIsRouted ==
  ASSUME ProviderInv, NEW r \in ProviderRequests, Provider!Route(r)
  PROVE  ProviderInv'
<1> DEFINE q == providerReq[r]
           cs == Provider!Candidates(q.cap, q.tools)
           chosen == Provider!Chat(q, "primary", "chosen", <<>>)
           none == [q EXCEPT !.at = "failed"]
           first == Provider!Chat(q, cs[1].tier, cs[1].name, Tail(cs))
<1>1. /\ q.at = "cataloguing" /\ providerRefresh = "done"
      /\ providerReq' = [providerReq EXCEPT ![r] =
           IF Provider!ModelsFor(q.cap) = <<>> THEN chosen ELSE IF cs = <<>> THEN none ELSE first]
      /\ UNCHANGED <<providerKeyIndex, providerRefresh, providerCatalog>>
  BY DEF Provider!Route
<1>2. /\ q \in ProviderRequest /\ RequestIsSound(q, cs, providerKeyIndex)
      /\ providerKeyIndex \in [{"primary", "cloud"} -> 0 .. ProviderKeys - 1]
      /\ providerCatalog \in Seq(ProviderModel) /\ LocalFirst(providerCatalog)
  BY DEF ProviderInv
<1>3. q.provider = None /\ q.refused = <<>>
  BY <1>1, <1>2 DEF RequestIsSound
<1>4. cs \in Seq(ProviderModel)
  BY <1>2, CandidatesInOrder DEF ProviderRequest
<1>5. UnderWay(r) /\ \A p : UnderWay(p) => p = r
  BY <1>1 DEF ProviderInv, UnderWay
<1> HIDE DEF cs, q
<1>6. CASE Provider!ModelsFor(q.cap) = <<>>
  <2>1. BeginsChat(chosen, q, "primary", "chosen", <<>>)
    <3>1. <<>> \in Seq(ProviderModel) /\ "primary" \in {"local", "cloud", "primary"}
      OBVIOUS
    <3> QED BY <1>2, <3>1, ChosenIsAName, ChatBegins
  <2>2. providerReq' = [providerReq EXCEPT ![r] = chosen]
    BY <1>1, <1>6
  <2> HIDE DEF chosen
  <2>3. RequestIsSound(chosen, Provider!Candidates(chosen.cap, chosen.tools), providerKeyIndex)
    BY <2>1, ProviderAssumed DEF BeginsChat, RequestIsSound
  <2>4. chosen \in ProviderRequest /\ chosen.provider = "primary"
    BY <2>1 DEF BeginsChat
  <2> QED BY <1>1, <1>2, <1>5, <2>2, <2>3, <2>4, OneRequestMoves
<1>7. CASE Provider!ModelsFor(q.cap) # <<>> /\ cs = <<>>
  <2>1. none \in ProviderRequest /\ none.at = "failed" /\ none.provider = None
    BY <1>2, <1>3 DEF ProviderRequest
  <2>2. providerReq' = [providerReq EXCEPT ![r] = none]
    BY <1>1, <1>7
  <2> HIDE DEF none
  <2>3. RequestIsSound(none, Provider!Candidates(none.cap, none.tools), providerKeyIndex)
    BY <2>1, ProviderAssumed DEF RequestIsSound
  <2> QED BY <1>1, <1>2, <1>5, <2>1, <2>2, <2>3, ProviderAssumed, OneRequestMoves
<1>8. CASE Provider!ModelsFor(q.cap) # <<>> /\ cs # <<>>
  <2> DEFINE m == cs[1]
             rest == Tail(cs)
  <2>1. /\ m \in ProviderModel /\ rest \in Seq(ProviderModel) /\ 1 \in 1 .. Len(cs)
        /\ Len(rest) = Len(cs) - 1 /\ \A i \in 1 .. Len(rest) : rest[i] = cs[1 + i]
    BY <1>4, <1>8
  <2>2. m.tier \in {"local", "cloud", "primary"} /\ m.tier \in {"local", "cloud"} /\ m.name \in Name
    BY <2>1 DEF ProviderModel
  <2>3. first = Provider!Chat(q, m.tier, m.name, rest)
    OBVIOUS
  <2>4. providerReq' = [providerReq EXCEPT ![r] = first]
    BY <1>1, <1>8
  <2> HIDE DEF m, rest, first
  <2>5. BeginsChat(first, q, m.tier, m.name, rest)
    BY <1>2, <2>1, <2>2, <2>3, ChatBegins
  <2>6. first \in ProviderRequest /\ first.at = "waiting" /\ first.provider = m.tier
        /\ Provider!Candidates(first.cap, first.tools) = cs /\ first.refused = <<>>
    BY <2>5, <1>3 DEF BeginsChat, cs
  <2>7. Asked(first) = {cs[i].name : i \in 1 .. 1 - 1}
    BY <2>6 DEF Asked
  <2>8. StandsAt(first, 1, cs)
    BY <2>1, <2>5, <2>6, <2>7 DEF StandsAt, BeginsChat, m
  <2>9. RequestIsSound(first, cs, providerKeyIndex)
    BY <2>1, <2>2, <2>5, <2>8, ProviderAssumed DEF RequestIsSound, BeginsChat
  <2> QED BY <1>1, <1>2, <1>5, <2>4, <2>6, <2>9, OneRequestMoves
<1> QED BY <1>6, <1>7, <1>8


LEMMA WaitingIsAsking ==
  ASSUME ProviderInv, NEW r \in ProviderRequests, providerReq[r].at = "waiting"
  PROVE  LET q  == providerReq[r]
             cs == Provider!Candidates(q.cap, q.tools)
         IN  /\ q \in ProviderRequest /\ cs \in Seq(ProviderModel) /\ LocalFirst(cs)
             /\ IsAsking(q, cs) /\ RequestIsSound(q, cs, providerKeyIndex)
             /\ q.provider \in {"local", "cloud"} => providerRefresh = "done"
             /\ UnderWay(r) /\ \A p : UnderWay(p) => p = r
<1> DEFINE q == providerReq[r]
           cs == Provider!Candidates(q.cap, q.tools)
<1>1. q \in ProviderRequest /\ RequestIsSound(q, cs, providerKeyIndex)
  BY DEF ProviderInv
<1>2. cs \in Seq(ProviderModel) /\ LocalFirst(cs)
  BY <1>1, CandidatesInOrder DEF ProviderRequest, ProviderInv
<1>3. IsAsking(q, cs)
  <2> HIDE DEF cs
  <2> QED BY <1>1 DEF RequestIsSound, IsAsking
<1>4. UnderWay(r) /\ \A p : UnderWay(p) => p = r
  BY DEF ProviderInv, UnderWay
<1> QED BY <1>1, <1>2, <1>3, <1>4 DEF ProviderInv

\* What a failed chat leaves, of a request q that differs from the one that waited in the
\* keys it tried or in what it showed.
LEMMA FailureKeepsProviders ==
  ASSUME ProviderInv, NEW r \in ProviderRequests, providerReq[r].at = "waiting",
         NEW q \in ProviderRequest, NEW why \in ChatError,
         q.at = "waiting", q.cap = providerReq[r].cap, q.tools = providerReq[r].tools,
         q.provider = providerReq[r].provider, q.model = providerReq[r].model,
         q.left = providerReq[r].left, q.refused = providerReq[r].refused,
         providerReq' = [providerReq EXCEPT ![r] = Provider!Failed(q, why)],
         UNCHANGED <<providerKeyIndex, providerRefresh, providerCatalog>>
  PROVE  ProviderInv'
<1> DEFINE cs == Provider!Candidates(q.cap, q.tools)
           p == Provider!Failed(q, why)
<1>1. /\ cs \in Seq(ProviderModel) /\ IsAsking(providerReq[r], cs)
      /\ q.provider \in {"local", "cloud"} => providerRefresh = "done"
      /\ UnderWay(r) /\ \A s : UnderWay(s) => s = r
  BY WaitingIsAsking
<1> HIDE DEF cs
<1>2. IsAsking(q, cs)
  <2>1. \A n : StandsAt(providerReq[r], n, cs) => StandsAt(q, n, cs)
    <3>1. Asked(q) = Asked(providerReq[r])
      BY DEF Asked
    <3> QED BY <3>1 DEF StandsAt
  <2> QED BY <1>1, <2>1 DEF IsAsking
<1>3. /\ providerKeyIndex \in [{"primary", "cloud"} -> 0 .. ProviderKeys - 1]
      /\ providerRefresh \in {"none", "running", "done"}
  BY DEF ProviderInv
<1>4. /\ p \in ProviderRequest /\ p.cap = q.cap /\ p.tools = q.tools
      /\ p.provider \in {"local", "cloud"} <=> q.provider \in {"local", "cloud"}
      /\ RequestIsSound(p, cs, providerKeyIndex)
  BY <1>1, <1>2, <1>3, FailedGoesOn
<1>5. providerReq' = [providerReq EXCEPT ![r] = p]
  OBVIOUS
<1> HIDE DEF p
<1>6. RequestIsSound(p, Provider!Candidates(p.cap, p.tools), providerKeyIndex')
  BY <1>4 DEF cs
<1> QED BY <1>1, <1>3, <1>4, <1>5, <1>6, OneRequestMoves

LEMMA ChatFailure ==
  ASSUME ProviderInv, NEW r \in ProviderRequests,
         NEW why \in (Provider!Recoverable \union {"http error"}) \ {"rate limited"},
         Provider!Fails(r, why)
  PROVE  ProviderInv'
<1>1. why \in ChatError
  BY Zenon DEF Provider!Recoverable, ChatError
<1>2. /\ providerReq[r].at = "waiting" /\ providerReq' = [providerReq EXCEPT ![r] = Provider!Failed(providerReq[r], why)]
      /\ UNCHANGED <<providerKeyIndex, providerRefresh, providerCatalog>>
  BY Zenon DEF Provider!Fails, ProviderInv
<1>3. providerReq[r] \in ProviderRequest
  BY Zenon DEF ProviderInv
<1> QED BY <1>1, <1>2, <1>3, FailureKeepsProviders, Zenon

LEMMA ModelAnswers ==
  ASSUME ProviderInv, NEW r \in ProviderRequests, NEW text \in BOOLEAN, NEW done \in BOOLEAN,
         NEW cut \in BOOLEAN, Provider!Replies(r, text, done, cut)
  PROVE  ProviderInv'
<1> DEFINE was == providerReq[r]
           q == IF text THEN [was EXCEPT !.shown = Append(@, was.model)] ELSE was
           answered == [q EXCEPT !.at = "answered"]
           cs == Provider!Candidates(was.cap, was.tools)
<1>1. /\ was.at = "waiting"
      /\ providerReq' = [providerReq EXCEPT ![r] = Provider!Streamed(was, text, done, cut)]
      /\ UNCHANGED <<providerKeyIndex, providerRefresh, providerCatalog>>
  BY DEF Provider!Replies, ProviderInv
<1>2. /\ was \in ProviderRequest /\ RequestIsSound(was, cs, providerKeyIndex)
      /\ was.provider \in {"local", "cloud"} => providerRefresh = "done"
      /\ UnderWay(r) /\ \A s : UnderWay(s) => s = r
  BY <1>1, WaitingIsAsking
<1>3. Provider!Streamed(was, text, done, cut) =
        IF cut THEN Provider!Failed(q, "unreachable")
        ELSE IF text \/ done THEN answered ELSE Provider!Failed(q, "empty")
  BY DEF Provider!Streamed
<1> HIDE DEF was, cs
<1>4. /\ q \in ProviderRequest /\ q.at = was.at /\ q.cap = was.cap /\ q.tools = was.tools
      /\ q.provider = was.provider /\ q.model = was.model /\ q.left = was.left /\ q.refused = was.refused
  <2>1. CASE text
    <3>1. was.shown \in Seq(Name \union {None}) /\ was.model \in Name \union {None}
      BY <1>2 DEF ProviderRequest
    <3>2. Append(was.shown, was.model) \in Seq(Name \union {None})
      BY <3>1
    <3> QED BY <1>2, <2>1, <3>2 DEF ProviderRequest
  <2>2. CASE ~text
    BY <1>2, <2>2
  <2> QED BY <2>1, <2>2
<1> HIDE DEF q
<1>5. CASE cut \/ ~(text \/ done)
  <2>1. PICK why \in ChatError : Provider!Streamed(was, text, done, cut) = Provider!Failed(q, why)
    <3>1. "unreachable" \in ChatError /\ "empty" \in ChatError
      BY DEF ChatError
    <3> QED BY <1>3, <1>5, <3>1
  <2> QED BY <1>1, <1>4, <2>1, FailureKeepsProviders DEF was
<1>6. CASE ~cut /\ (text \/ done)
  <2>1. /\ answered \in ProviderRequest /\ answered.at = "answered" /\ answered.cap = was.cap
        /\ answered.tools = was.tools /\ answered.provider = was.provider /\ answered.model = was.model
        /\ answered.left = was.left /\ answered.refused = was.refused
    BY <1>4 DEF ProviderRequest
  <2>2. providerReq' = [providerReq EXCEPT ![r] = answered]
    BY <1>1, <1>3, <1>6
  <2> HIDE DEF answered
  <2>3. \A n : StandsAt(was, n, cs) => StandsAt(answered, n, cs)
    <3>1. Asked(answered) = Asked(was)
      BY <2>1 DEF Asked
    <3> QED BY <1>1, <2>1, <3>1 DEF StandsAt
  <2>4. RequestIsSound(answered, cs, providerKeyIndex)
    BY <1>1, <1>2, <2>1, <2>3 DEF RequestIsSound
  <2>5. RequestIsSound(answered, Provider!Candidates(answered.cap, answered.tools), providerKeyIndex')
    BY <1>1, <2>1, <2>4 DEF cs
  <2>6. /\ providerKeyIndex' \in [{"primary", "cloud"} -> 0 .. ProviderKeys - 1]
        /\ providerRefresh' \in {"none", "running", "done"} /\ providerRefresh = providerRefresh'
        /\ providerKeyIndex' = providerKeyIndex /\ UNCHANGED providerCatalog
    BY <1>1 DEF ProviderInv
  <2> QED BY <1>2, <2>1, <2>2, <2>5, <2>6, OneRequestMoves
<1> QED BY <1>5, <1>6

\* One key after the other.
LEMMA KeyAfter ==
  ASSUME NEW k \in 0 .. ProviderKeys - 1
  PROVE  (k + 1) % ProviderKeys = IF k + 1 < ProviderKeys THEN k + 1 ELSE 0
<1>1. ProviderKeys \in Nat \ {0}
  BY ProviderAssumed
<1> QED BY <1>1

\* A 429: the keys tried are one more, or all of them.
LEMMA NextKeyIsTried ==
  ASSUME NEW q \in ProviderRequest, KeysTried(q), NEW p \in ProviderRequest,
         p.limited = q.limited \union {q.key}, p.attempt = q.attempt + 1,
         p.key = (q.key + 1) % ProviderKeys, q.attempt < ProviderKeys - 1
  PROVE  KeysTried(p)
<1>1. ProviderKeys \in Nat \ {0} /\ q.attempt \in Nat /\ q.key \in 0 .. ProviderKeys - 1
  BY ProviderAssumed DEF KeysTried
<1>2. PICK first \in 0 .. ProviderKeys - 1 : TriedFrom(q, first)
  BY DEF KeysTried
<1>3. p.key = IF q.key + 1 < ProviderKeys THEN q.key + 1 ELSE 0
  BY <1>1, KeyAfter
<1> DEFINE n == q.attempt
           k == q.key
           K == ProviderKeys
<1>4. k = IF first + n < K THEN first + n ELSE first + n - K
  BY <1>2 DEF TriedFrom
<1>5. n \in Nat /\ k \in 0 .. K - 1 /\ K \in Nat \ {0} /\ first \in 0 .. K - 1 /\ n + 1 < K
  BY <1>1
<1>6. /\ p.attempt = n + 1 /\ p.key = IF k + 1 < K THEN k + 1 ELSE 0
  BY <1>3
<1>7. ASSUME NEW x \in Nat
      PROVE  x \in p.limited \union {p.key} <=>
               /\ x < K
               /\ (first <= x /\ x <= first + (n + 1)) \/ x <= first + (n + 1) - K
  <2>1. x \in q.limited \union {q.key} <=>
          /\ x < K
          /\ (first <= x /\ x <= first + n) \/ x <= first + n - K
    BY <1>2 DEF TriedFrom
  <2>2. x \in p.limited \union {p.key} <=> x \in q.limited \union {q.key} \/ x = p.key
    OBVIOUS
  <2> HIDE DEF n, k, K
  <2> QED BY <1>4, <1>5, <1>6, <2>1, <2>2
<1>8. p.key = IF first + p.attempt < K THEN first + p.attempt ELSE first + p.attempt - K
  <2> HIDE DEF n, k, K
  <2> QED BY <1>4, <1>5, <1>6
<1>9. TriedFrom(p, first)
  BY <1>6, <1>7, <1>8 DEF TriedFrom
<1>10. p.attempt \in 0 .. ProviderKeys - 1 /\ p.key \in 0 .. ProviderKeys - 1
  <2> HIDE DEF n, k
  <2> QED BY <1>5, <1>6
<1> QED BY <1>9, <1>10 DEF KeysTried

LEMMA EveryKeyTried ==
  ASSUME NEW q \in ProviderRequest, KeysTried(q), ~(q.attempt < ProviderKeys - 1)
  PROVE  q.limited \union {q.key} = 0 .. ProviderKeys - 1
<1>1. ProviderKeys \in Nat \ {0} /\ q.attempt = ProviderKeys - 1
  BY ProviderAssumed DEF KeysTried
<1>2. PICK first \in 0 .. ProviderKeys - 1 : TriedFrom(q, first)
  BY DEF KeysTried
<1>3. q.limited \subseteq Nat /\ q.key \in Nat
  BY DEF ProviderRequest
<1>4. ASSUME NEW x \in Nat PROVE x \in q.limited \union {q.key} <=> x < ProviderKeys
  <2>1. x \in q.limited \union {q.key} <=>
          /\ x < ProviderKeys
          /\ (first <= x /\ x <= first + q.attempt) \/ x <= first + q.attempt - ProviderKeys
    BY <1>2 DEF TriedFrom
  <2> QED BY <1>1, <2>1
<1> QED BY <1>1, <1>3, <1>4

LEMMA KeyIsLimited ==
  ASSUME ProviderInv, NEW r \in ProviderRequests, Provider!RateLimited(r)
  PROVE  ProviderInv'
<1> DEFINE was == providerReq[r]
           q == [was EXCEPT !.limited = @ \union {was.key}]
           k == (providerKeyIndex[was.provider] + 1) % ProviderKeys
           next == [q EXCEPT !.attempt = @ + 1, !.key = k]
           cs == Provider!Candidates(was.cap, was.tools)
<1>1. was.at = "waiting"
  BY Zenon DEF Provider!RateLimited
<1>2. /\ was \in ProviderRequest /\ RequestIsSound(was, cs, providerKeyIndex) /\ was.provider # None
      /\ was.provider \in {"local", "cloud"} => providerRefresh = "done"
      /\ UnderWay(r) /\ \A s : UnderWay(s) => s = r
  BY <1>1, WaitingIsAsking DEF IsAsking
<1>3. /\ providerKeyIndex \in [{"primary", "cloud"} -> 0 .. ProviderKeys - 1]
      /\ providerRefresh \in {"none", "running", "done"}
  BY DEF ProviderInv
<1>4. /\ q.provider = was.provider /\ q.attempt = was.attempt
  BY <1>2 DEF ProviderRequest
<1>5. /\ UNCHANGED <<providerRefresh, providerCatalog>>
      /\ IF Provider!HasAttempts(q)
         THEN /\ providerKeyIndex' = [providerKeyIndex EXCEPT ![was.provider] = k]
              /\ providerReq' = [providerReq EXCEPT ![r] = next]
         ELSE /\ providerReq' = [providerReq EXCEPT ![r] = Provider!Failed(q, "rate limited")]
              /\ providerKeyIndex' = providerKeyIndex
  BY <1>4, Zenon DEF Provider!RateLimited, Provider!NextKey
<1>6. Provider!HasAttempts(q) <=> was.attempt < (IF was.provider = "local" THEN 1 ELSE ProviderKeys) - 1
  BY <1>4 DEF Provider!HasAttempts, Provider!MaxAttempts
<1> HIDE DEF was, cs
<1>7. /\ q \in ProviderRequest /\ q.at = was.at /\ q.cap = was.cap /\ q.tools = was.tools
      /\ q.provider = was.provider /\ q.model = was.model /\ q.left = was.left /\ q.refused = was.refused
      /\ q.limited = was.limited \union {was.key} /\ q.attempt = was.attempt
  BY <1>2 DEF ProviderRequest
<1> HIDE DEF q
<1>8. CASE Provider!HasAttempts(q)
  <2>1. was.provider \in {"primary", "cloud"} /\ was.attempt < ProviderKeys - 1
    <3>1. was.attempt \in Nat /\ was.provider \in {"local", "cloud", "primary", None}
      BY <1>2 DEF ProviderRequest
    <3> QED BY <1>2, <1>6, <1>8, <3>1
  <2>2. KeysTried(was) /\ was.key = providerKeyIndex[was.provider]
    BY <1>1, <1>2, <2>1 DEF RequestIsSound
  <2>3. k = (was.key + 1) % ProviderKeys /\ was.key \in 0 .. ProviderKeys - 1
    BY <2>2 DEF KeysTried
  <2>4. k \in 0 .. ProviderKeys - 1
    BY <2>3, KeyAfter, ProviderAssumed
  <2> HIDE DEF k
  <2>5. /\ next \in ProviderRequest /\ next.at = was.at /\ next.cap = was.cap /\ next.tools = was.tools
        /\ next.provider = was.provider /\ next.model = was.model /\ next.left = was.left
        /\ next.refused = was.refused /\ next.limited = was.limited \union {was.key}
        /\ next.attempt = was.attempt + 1 /\ next.key = k
    <3>1. k \in Nat /\ q.attempt \in Nat /\ q.attempt + 1 \in Nat
      BY <1>7, <2>4 DEF ProviderRequest
    <3>2. next = [q EXCEPT !.attempt = q.attempt + 1, !.key = k]
      BY <1>7 DEF ProviderRequest
    <3>3. next \in ProviderRequest /\ next.attempt = q.attempt + 1 /\ next.key = k
      BY <1>7, <3>1, <3>2 DEF ProviderRequest
    <3>4. /\ next.at = q.at /\ next.cap = q.cap /\ next.tools = q.tools
          /\ next.provider = q.provider /\ next.model = q.model /\ next.left = q.left
          /\ next.refused = q.refused /\ next.limited = q.limited
      BY <1>7, <3>2 DEF ProviderRequest
    <3> QED BY <1>7, <3>3, <3>4
  <2>6. providerReq' = [providerReq EXCEPT ![r] = next]
    BY <1>5, <1>8
  <2> HIDE DEF next
  <2>7. KeysTried(next)
    BY <1>2, <2>1, <2>2, <2>3, <2>5, NextKeyIsTried
  <2>8. /\ providerKeyIndex' \in [{"primary", "cloud"} -> 0 .. ProviderKeys - 1]
        /\ next.key = providerKeyIndex'[next.provider]
    BY <1>3, <1>5, <1>8, <2>1, <2>4, <2>5
  <2>9. \A n : StandsAt(was, n, cs) => StandsAt(next, n, cs)
    <3>1. Asked(next) = Asked(was)
      BY <2>5 DEF Asked
    <3> QED BY <1>1, <2>5, <3>1 DEF StandsAt
  <2>10. RequestIsSound(next, cs, providerKeyIndex')
    BY <1>1, <1>2, <2>5, <2>7, <2>8, <2>9 DEF RequestIsSound
  <2>11. RequestIsSound(next, Provider!Candidates(next.cap, next.tools), providerKeyIndex')
    BY <2>5, <2>10 DEF cs
  <2> QED BY <1>2, <1>3, <1>5, <2>5, <2>6, <2>8, <2>11, OneRequestMoves, Zenon
<1>9. CASE ~Provider!HasAttempts(q)
  <2>1. "rate limited" \in ChatError
    BY DEF ChatError
  <2> QED BY <1>1, <1>5, <1>7, <1>9, <2>1, FailureKeepsProviders, Zenon DEF was
<1> QED BY <1>8, <1>9


LEMMA ProviderStep == ProviderInv /\ [Provider!Next]_providerVars => ProviderInv'
<1> SUFFICES ASSUME ProviderInv, [Provider!Next]_providerVars PROVE ProviderInv'
  OBVIOUS
<1>1. ASSUME NEW r \in ProviderRequests, NEW cap \in ProviderCapabilities \union {None},
             NEW tools \in BOOLEAN, Provider!Ask(r, cap, tools)
      PROVE  ProviderInv'
  BY <1>1, RequestIsMade
<1>2. ASSUME NEW up, Provider!Refreshed(up) PROVE ProviderInv'
  BY <1>2, CatalogIsRefreshed
<1>3. ASSUME NEW r \in ProviderRequests, Provider!Route(r) \/ Provider!RateLimited(r)
      PROVE  ProviderInv'
  BY <1>3, RequestIsRouted, KeyIsLimited
<1>4. ASSUME NEW r \in ProviderRequests,
             NEW why \in (Provider!Recoverable \union {"http error"}) \ {"rate limited"},
             Provider!Fails(r, why)
      PROVE  ProviderInv'
  BY <1>4, ChatFailure, Zenon
<1>5. ASSUME NEW r \in ProviderRequests, NEW text \in BOOLEAN, NEW done \in BOOLEAN,
             NEW cut \in BOOLEAN, Provider!Replies(r, text, done, cut)
      PROVE  ProviderInv'
  BY <1>5, ModelAnswers
<1>6. CASE UNCHANGED providerVars
  <2>1. Provider!Candidates(None, FALSE)' = Provider!Candidates(None, FALSE)
    BY <1>6 DEF providerVars, Provider!Candidates, Provider!ModelsFor
  <2>2. \A r \in ProviderRequests :
          RequestIsSound(providerReq[r], Provider!Candidates(providerReq[r].cap, providerReq[r].tools),
                         providerKeyIndex)'
    BY <1>6 DEF ProviderInv, providerVars, Provider!Candidates, Provider!ModelsFor
  <2>3. \A p, r \in ProviderRequests : (UnderWay(p) /\ UnderWay(r) => p = r)'
    BY <1>6 DEF ProviderInv, providerVars, UnderWay
  <2>4. LocalFirst(providerCatalog)'
    BY <1>6 DEF ProviderInv, providerVars
  <2> QED BY <1>6, <2>2, <2>3, <2>4 DEF ProviderInv, providerVars
<1> QED BY <1>1, <1>2, <1>3, <1>4, <1>5, <1>6, Zenon DEF Provider!Next

\* A routed request that failed has been through all candidates, or met an error that no
\* other would mend; and one of the cloud has been through the local ones.
LEMMA GivenUpLast == ProviderInv => Provider!GivesUpLast
<1> SUFFICES ASSUME ProviderInv, NEW r \in ProviderRequests, providerReq[r].provider \in {"local", "cloud"}
             PROVE  LET q  == providerReq[r]
                        cs == Provider!Candidates(q.cap, q.tools)
                    IN  /\ q.at = "failed" =>
                             \/ q.refused[Len(q.refused)][2] \notin Provider!Recoverable
                             \/ Asked(q) = {m.name : m \in {cs[i] : i \in DOMAIN cs}}
                        /\ q.provider = "cloud" =>
                             {m.name : m \in {c \in {cs[i] : i \in DOMAIN cs} : c.tier = "local"}} \subseteq Asked(q)
  <2>1. \A q : {q.refused[i][1] : i \in DOMAIN q.refused} = {q.refused[i][1] : i \in DOMAIN q.refused}
    OBVIOUS
  <2>2. \A s \in ProviderRequests : DOMAIN providerReq[s].refused = 1 .. Len(providerReq[s].refused)
    BY DEF ProviderInv, ProviderRequest
  <2> QED BY <2>2 DEF Provider!GivesUpLast, Provider!IsRouted, Provider!AskedOf, Provider!RoutedTo,
                      Provider!Range, Provider!Last, Asked
<1> DEFINE q == providerReq[r]
           cs == Provider!Candidates(q.cap, q.tools)
<1>1. q \in ProviderRequest /\ RequestIsSound(q, cs, providerKeyIndex)
  BY DEF ProviderInv
<1>2. cs \in Seq(ProviderModel) /\ LocalFirst(cs)
  BY <1>1, CandidatesInOrder DEF ProviderInv, ProviderRequest
<1> HIDE DEF cs
<1>3. PICK n \in 1 .. Len(cs) : StandsAt(q, n, cs)
  BY <1>1 DEF RequestIsSound
<1>4. DOMAIN cs = 1 .. Len(cs) /\ Len(cs) \in Nat
  BY <1>2
<1>5. ASSUME q.at = "failed", LastError(q) \in Provider!Recoverable
      PROVE  Asked(q) = {m.name : m \in {cs[i] : i \in DOMAIN cs}}
  <2>1. Asked(q) = {cs[i].name : i \in 1 .. Len(cs)}
    BY <1>3, <1>5 DEF StandsAt
  <2> QED BY <1>4, <2>1
<1>6. ASSUME q.provider = "cloud", NEW i \in 1 .. Len(cs), cs[i].tier = "local"
      PROVE  cs[i].name \in Asked(q)
  <2>1. cs[n].tier = "cloud"
    BY <1>3, <1>6 DEF StandsAt
  <2>2. i # n /\ ~(n < i)
    BY <1>2, <1>6, <2>1 DEF LocalFirst
  <2>3. i \in 1 .. n - 1 /\ i \in 1 .. n
    BY <2>2, <1>4
  <2>4. Asked(q) = {cs[j].name : j \in 1 .. n - 1} \/ Asked(q) = {cs[j].name : j \in 1 .. n}
    BY <1>3 DEF StandsAt
  <2> QED BY <2>3, <2>4
<1>7. {m.name : m \in {c \in {cs[i] : i \in DOMAIN cs} : c.tier = "local"}} \subseteq {cs[i].name : i \in {j \in 1 .. Len(cs) : cs[j].tier = "local"}}
  BY <1>4
<1>8. q.provider = "cloud" => {cs[i].name : i \in {j \in 1 .. Len(cs) : cs[j].tier = "local"}} \subseteq Asked(q)
  BY <1>6
<1> QED BY <1>5, <1>7, <1>8 DEF cs, LastError

\* Two facts of sequences, stated apart from what they are of.
LEMMA LenIsItself == \A T : \A s \in Seq(T) : ~(Len(s) > Len(s))
  OBVIOUS
LEMMA AppendStays == \A T : \A s \in Seq(T), e \in T : Append(s, e) \in Seq(T)
  OBVIOUS

\* The keys of a chat that is given up as rate limited.
GivesUp(was, now) ==
  Len(now.refused) > Len(was.refused) /\ LastError(now) = "rate limited"
LEMMA GivenUpWithEveryKey ==
  ASSUME ProviderInv, Provider!Next, NEW r \in ProviderRequests,
         GivesUp(providerReq[r], providerReq'[r]), providerReq[r].provider # "local"
  PROVE  providerReq[r].limited \union {providerReq[r].key} = 0 .. ProviderKeys - 1
<1> DEFINE was == providerReq[r]
           now == providerReq'[r]
<1>1. was \in ProviderRequest
  BY DEF ProviderInv
<1>2. now.refused # was.refused
  <2>1. was.refused \in Seq((Name \union {None}) \X ChatError)
    BY <1>1 DEF ProviderRequest
  <2>2. Len(now.refused) > Len(was.refused)
    BY Zenon DEF GivesUp
  <2> QED BY <2>1, <2>2, LenIsItself
<1>3. ASSUME NEW s \in ProviderRequests, NEW cap, NEW tools, Provider!Ask(s, cap, tools) PROVE FALSE
  <2> DEFINE q == [providerReq[s] EXCEPT !.cap = cap, !.tools = tools]
             p == IF cap = None THEN Provider!Chat(q, "primary", "chosen", <<>>) ELSE [q EXCEPT !.at = "cataloguing"]
  <2>1. providerReq' = [providerReq EXCEPT ![s] = p]
    BY <1>3 DEF Provider!Ask
  <2>2. p.refused = providerReq[s].refused
    BY DEF Provider!Chat, ProviderInv, ProviderRequest
  <2> HIDE DEF p
  <2>3. now.refused = was.refused
    BY <2>1, <2>2 DEF ProviderInv
  <2> QED BY <1>2, <2>3
<1>4. ASSUME NEW up, Provider!Refreshed(up) PROVE FALSE
  BY <1>2, <1>4 DEF Provider!Refreshed
<1>5. ASSUME NEW s \in ProviderRequests, Provider!Route(s) PROVE FALSE
  <2> DEFINE q == providerReq[s]
             cs == Provider!Candidates(q.cap, q.tools)
             p == IF Provider!ModelsFor(q.cap) = <<>> THEN Provider!Chat(q, "primary", "chosen", <<>>)
                  ELSE IF cs = <<>> THEN [q EXCEPT !.at = "failed"]
                  ELSE Provider!Chat(q, cs[1].tier, cs[1].name, Tail(cs))
  <2>1. providerReq' = [providerReq EXCEPT ![s] = p]
    BY <1>5 DEF Provider!Route
  <2>2. p.refused = providerReq[s].refused
    <3> HIDE DEF cs
    <3> QED BY DEF Provider!Chat, ProviderInv, ProviderRequest
  <2> HIDE DEF p
  <2>3. now.refused = was.refused
    BY <2>1, <2>2 DEF ProviderInv
  <2> QED BY <1>2, <2>3
<1>6. ASSUME NEW s \in ProviderRequests, NEW q \in ProviderRequest, NEW why \in ChatError, why # "rate limited",
             q.refused = providerReq[s].refused, providerReq' = [providerReq EXCEPT ![s] = Provider!Failed(q, why)]
      PROVE  FALSE
  <2> DEFINE p == Provider!Failed(q, why)
  <2>1. p.refused = Append(q.refused, <<q.model, why>>)
    BY DEF Provider!Failed, Provider!Chat, ProviderRequest
  <2>2. LastError(p) = why
    <3> HIDE DEF p
    <3> QED BY <2>1, RefusedGrows
  <2> HIDE DEF p
  <2>3. CASE s = r
    <3>1. now = p
      BY <1>6, <2>3, Zenon DEF ProviderInv, p
    <3> QED BY <1>6, <2>2, <3>1, Zenon DEF GivesUp
  <2>4. CASE s # r
    <3>1. now = was
      BY <1>6, <2>4, Zenon DEF ProviderInv
    <3> QED BY <1>2, <3>1
  <2> QED BY <2>3, <2>4
<1>7. ASSUME NEW s \in ProviderRequests,
             NEW why \in (Provider!Recoverable \union {"http error"}) \ {"rate limited"},
             Provider!Fails(s, why)
      PROVE  FALSE
  <2>1. why \in ChatError /\ why # "rate limited"
    BY Zenon DEF Provider!Recoverable, ChatError
  <2>2. providerReq[s] \in ProviderRequest
        /\ providerReq' = [providerReq EXCEPT ![s] = Provider!Failed(providerReq[s], why)]
    BY <1>7, Zenon DEF Provider!Fails, ProviderInv
  <2> QED BY <1>6, <2>1, <2>2, Zenon
<1>8. ASSUME NEW s \in ProviderRequests, NEW text \in BOOLEAN, NEW done \in BOOLEAN,
             NEW cut \in BOOLEAN, Provider!Replies(s, text, done, cut)
      PROVE  FALSE
  <2> DEFINE x == providerReq[s]
             q == IF text THEN [x EXCEPT !.shown = Append(@, x.model)] ELSE x
             p == [q EXCEPT !.at = "answered"]
  <2>1. /\ x \in ProviderRequest
        /\ providerReq' = [providerReq EXCEPT ![s] = Provider!Streamed(x, text, done, cut)]
    BY <1>8 DEF Provider!Replies, ProviderInv
  <2>2. Provider!Streamed(x, text, done, cut) =
          IF cut THEN Provider!Failed(q, "unreachable")
          ELSE IF text \/ done THEN p ELSE Provider!Failed(q, "empty")
    BY DEF Provider!Streamed
  <2> HIDE DEF x
  <2>3. q \in ProviderRequest /\ q.refused = x.refused
    <3>1. CASE text
      <4>1. x.shown \in Seq(Name \union {None}) /\ x.model \in Name \union {None}
        BY <2>1 DEF ProviderRequest
      <4>2. Append(x.shown, x.model) \in Seq(Name \union {None})
        BY <4>1, AppendStays
      <4> QED BY <2>1, <3>1, <4>2 DEF ProviderRequest
    <3>2. CASE ~text
      BY <2>1, <3>2
    <3> QED BY <3>1, <3>2
  <2> HIDE DEF q
  <2>4. "unreachable" \in ChatError /\ "empty" \in ChatError
    BY DEF ChatError
  <2>5. CASE ~cut /\ (text \/ done)
    <3>1. p.refused = x.refused /\ providerReq' = [providerReq EXCEPT ![s] = p]
      BY <2>1, <2>2, <2>3, <2>5 DEF ProviderRequest
    <3> HIDE DEF p
    <3>2. now.refused = was.refused
      BY <3>1 DEF ProviderInv, x
    <3> QED BY <1>2, <3>2
  <2>6. CASE cut \/ ~(text \/ done)
    <3>1. \/ providerReq' = [providerReq EXCEPT ![s] = Provider!Failed(q, "unreachable")]
          \/ providerReq' = [providerReq EXCEPT ![s] = Provider!Failed(q, "empty")]
      BY <2>1, <2>2, <2>6
    <3> QED BY <1>6, <2>3, <2>4, <3>1, Zenon DEF x
  <2> QED BY <2>5, <2>6
<1>9. PICK s \in ProviderRequests : Provider!RateLimited(s)
  BY <1>3, <1>4, <1>5, <1>7, <1>8, Zenon DEF Provider!Next
<1> DEFINE x == providerReq[s]
           q == [x EXCEPT !.limited = @ \union {x.key}]
<1>10. x \in ProviderRequest
  BY DEF ProviderInv
<1>11. q \in ProviderRequest /\ q.refused = x.refused /\ q.attempt = x.attempt /\ q.provider = x.provider
  BY <1>10 DEF ProviderRequest
<1>12. CASE Provider!HasAttempts(q)
  <2> DEFINE k == (providerKeyIndex[q.provider] + 1) % ProviderKeys
             p == [q EXCEPT !.attempt = @ + 1, !.key = k]
  <2>1. providerReq' = [providerReq EXCEPT ![s] = p]
    BY <1>9, <1>12 DEF Provider!RateLimited, Provider!NextKey
  <2>2. p.refused = x.refused
    <3> HIDE DEF k, q
    <3> QED BY <1>11 DEF ProviderRequest
  <2> HIDE DEF p
  <2>3. now.refused = was.refused
    BY <2>1, <2>2 DEF ProviderInv
  <2> QED BY <1>2, <2>3
<1>13. CASE ~Provider!HasAttempts(q)
  <2>1. providerReq' = [providerReq EXCEPT ![s] = Provider!Failed(q, "rate limited")] /\ x.at = "waiting"
    BY <1>9, <1>13, Zenon DEF Provider!RateLimited
  <2>2. s = r
    <3> SUFFICES ASSUME s # r PROVE FALSE
      OBVIOUS
    <3>1. now = was
      BY <2>1, Zenon DEF ProviderInv
    <3> QED BY <1>2, <3>1
  <2>3. was.provider # None /\ KeysTried(was)
    <3>1. RequestIsSound(was, Provider!Candidates(was.cap, was.tools), providerKeyIndex)
      BY DEF ProviderInv
    <3> QED BY <2>1, <2>2, <3>1, Zenon DEF RequestIsSound
  <2>4. ~(was.attempt < ProviderKeys - 1)
    BY <1>11, <1>13, <2>2 DEF Provider!HasAttempts, Provider!MaxAttempts
  <2> QED BY <1>1, <2>3, <2>4, EveryKeyTried
<1> QED BY <1>12, <1>13

\* A request is given up last: one that is rate limited after every key, and a routed one
\* after every candidate or an error no other would mend, the cloud after what is local.
\* For any number of requests, one at a time, of keys and of models, any answers and any
\* outcome of the listing (provider.ts chat, router.ts route, catalog.ts modelsFor).
THEOREM RequestsAreAlwaysCarriedThrough == BundleSpec => RequestsAreCarriedThrough
<1>1. [BundleNext]_bundle => [Provider!Next]_providerVars
  BY DEF BundleNext, bundle
<1>2. BundleInit => ProviderInv
  BY ProviderInit DEF BundleInit
<1>3. ProviderInv /\ [BundleNext]_bundle => ProviderInv'
  BY <1>1, ProviderStep
<1>4. ASSUME ProviderInv, Provider!Next
      PROVE  \A r \in ProviderRequests :
               Len(providerReq'[r].refused) > Len(providerReq[r].refused)
               /\ Provider!Last(providerReq'[r].refused)[2] = "rate limited"
               /\ providerReq[r].provider # "local"
               => providerReq[r].limited \union {providerReq[r].key} = 0 .. ProviderKeys - 1
  BY <1>4, GivenUpWithEveryKey, Zenon DEF Provider!Last, GivesUp, LastError
<1>5. ProviderInv /\ [BundleNext]_bundle =>
        [\A r \in ProviderRequests :
           Len(providerReq'[r].refused) > Len(providerReq[r].refused)
           /\ Provider!Last(providerReq'[r].refused)[2] = "rate limited"
           /\ providerReq[r].provider # "local"
           => providerReq[r].limited \union {providerReq[r].key} = 0 .. ProviderKeys - 1]_(Provider!vars)
  <2>1. providerVars' = providerVars => Provider!vars' = Provider!vars
    BY DEF providerVars, Provider!vars
  <2> QED BY <1>1, <1>4, <2>1, Zenon
<1>6. ProviderInv => Provider!GivesUpLast
  BY GivenUpLast
<1>7. BundleSpec => []ProviderInv
  BY <1>2, <1>3, PTL DEF BundleSpec
<1>8. BundleSpec => Provider!EveryKeyIsTried
  BY <1>5, <1>7, PTL DEF BundleSpec, Provider!EveryKeyIsTried
<1> QED BY <1>6, <1>7, <1>8, PTL DEF RequestsAreCarriedThrough
=============================================================================
