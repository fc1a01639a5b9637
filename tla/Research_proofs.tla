-------------------------- MODULE Research_proofs --------------------------
(***************************************************************************)
(* The strategy pool, and the parts beside it that keep paper positions.   *)
(* The pool file stays within maxPoolSize for every set of signals, every  *)
(* history of trades and whatever the two writers overwrite of each other. *)
(* Where no writer reads the file while the other awaits Telegram, each    *)
(* new trade moves a size at most once, the runner's size is one the file  *)
(* had, and a strategy the adaptor pruned is not brought back. A closed    *)
(* paper position of the chat keeps its record, the cash of the futures    *)
(* agent is what its positions left of the capital, and the trackers'      *)
(* files, journals and funding agree.                                      *)
(***************************************************************************)
EXTENDS MCResearch, FoldTheorems, FiniteSetTheorems, SequenceTheorems, TLAPS

LooseEntry == [id : Ids, size : Int, enabled : BOOLEAN]
Pool == Seq(LooseEntry)
WithinCap(f) == f \in Pool /\ Len(f) <= MaxPoolSize

AdaptorShape(a) ==
  a = [pc |-> a.pc, pool |-> a.pool, seen |-> a.seen, next |-> a.next, changed |-> a.changed]
ResearchShape(r) ==
  r = [pc |-> r.pc, pool |-> r.pool, fresh |-> r.fresh, promoted |-> r.promoted]

\* The adaptor's copy, and its place in it.
AdaptorFits(a) == AdaptorShape(a) /\ WithinCap(a.pool) /\ a.next \in Nat \ {0}

\* The file, and the two copies of it that may still be written back, are all
\* within the cap: an overlap can lose entries but never adds two copies up.
CapInv ==
  /\ WithinCap(file)
  /\ cycles \in 0 .. MaxCycles
  /\ AdaptorFits(adaptor)
  /\ ResearchShape(research) /\ WithinCap(research.pool) /\ research.fresh \subseteq Signals

-----------------------------------------------------------------------------

\* decideSizeMultiplier returns a number, whatever the trades.
LEMMA NewSizeIsInt ==
  ASSUME NEW t, NEW size \in Int
  PROVE  NewSize(t, size) \in Int
BY PoolAssumption DEF NewSize, Clamp

\* An entry that was decided on is an entry.
LEMMA DecidedIsEntry ==
  ASSUME NEW e \in LooseEntry, NEW t
  PROVE  Decided(e, t) \in LooseEntry
<1>1. e.size \in Int
  BY DEF LooseEntry
<1>2. NewSize(t, e.size) \in Int
  BY <1>1, NewSizeIsInt
<1> QED BY <1>2 DEF Decided, LooseEntry

\* A pool with one entry replaced is a pool of the same length.
LEMMA EditKeepsCap ==
  ASSUME NEW f, WithinCap(f), NEW i \in 1 .. Len(f), NEW e \in LooseEntry
  PROVE  WithinCap([f EXCEPT ![i] = e])
BY DEF WithinCap, Pool

\* A record with the adaptor's fields and a copy within the cap fits.
LEMMA FittingRecord ==
  ASSUME NEW a, NEW pc, NEW pool, NEW seen, NEW next \in Nat \ {0}, NEW changed,
         WithinCap(pool),
         a = [pc |-> pc, pool |-> pool, seen |-> seen, next |-> next, changed |-> changed]
  PROVE  AdaptorFits(a)
BY DEF AdaptorFits, AdaptorShape

\* Changing one field of the adaptor's progress, its copy still within the cap.
LEMMA PcFits ==
  ASSUME NEW a, AdaptorFits(a), NEW pc
  PROVE  AdaptorFits([a EXCEPT !.pc = pc])
<1>1. a = [pc |-> a.pc, pool |-> a.pool, seen |-> a.seen, next |-> a.next, changed |-> a.changed]
  BY DEF AdaptorFits, AdaptorShape
<1>2. [a EXCEPT !.pc = pc]
        = [pc |-> pc, pool |-> a.pool, seen |-> a.seen, next |-> a.next, changed |-> a.changed]
  BY <1>1
<1>3. WithinCap(a.pool) /\ a.next \in Nat \ {0}
  BY DEF AdaptorFits
<1> QED BY <1>2, <1>3, FittingRecord

\* The same for its place in the copy,
LEMMA NextFits ==
  ASSUME NEW a, AdaptorFits(a), NEW next \in Nat \ {0}
  PROVE  AdaptorFits([a EXCEPT !.next = next])
<1>1. a = [pc |-> a.pc, pool |-> a.pool, seen |-> a.seen, next |-> a.next, changed |-> a.changed]
  BY DEF AdaptorFits, AdaptorShape
<1>2. [a EXCEPT !.next = next]
        = [pc |-> a.pc, pool |-> a.pool, seen |-> a.seen, next |-> next, changed |-> a.changed]
  BY <1>1
<1>3. WithinCap(a.pool) /\ a.next \in Nat \ {0}
  BY DEF AdaptorFits
<1> QED BY <1>2, <1>3, FittingRecord

\* for the copy itself,
LEMMA PoolFits ==
  ASSUME NEW a, AdaptorFits(a), NEW pool, WithinCap(pool)
  PROVE  AdaptorFits([a EXCEPT !.pool = pool])
<1>1. a = [pc |-> a.pc, pool |-> a.pool, seen |-> a.seen, next |-> a.next, changed |-> a.changed]
  BY DEF AdaptorFits, AdaptorShape
<1>2. [a EXCEPT !.pool = pool]
        = [pc |-> a.pc, pool |-> pool, seen |-> a.seen, next |-> a.next, changed |-> a.changed]
  BY <1>1
<1>3. WithinCap(a.pool) /\ a.next \in Nat \ {0}
  BY DEF AdaptorFits
<1> QED BY <1>2, <1>3, FittingRecord

\* and for the flag that asks for a write.
LEMMA ChangedFits ==
  ASSUME NEW a, AdaptorFits(a), NEW changed
  PROVE  AdaptorFits([a EXCEPT !.changed = changed])
<1>1. a = [pc |-> a.pc, pool |-> a.pool, seen |-> a.seen, next |-> a.next, changed |-> a.changed]
  BY DEF AdaptorFits, AdaptorShape
<1>2. [a EXCEPT !.changed = changed]
        = [pc |-> a.pc, pool |-> a.pool, seen |-> a.seen, next |-> a.next, changed |-> changed]
  BY <1>1
<1>3. WithinCap(a.pool) /\ a.next \in Nat \ {0}
  BY DEF AdaptorFits
<1> QED BY <1>2, <1>3, FittingRecord

\* Every way the adaptor has of moving on keeps its copy within the cap.
LEMMA MovesFit ==
  ASSUME NEW a, AdaptorFits(a), NEW f, WithinCap(f), NEW changed, NEW pc
  PROVE  /\ AdaptorFits([a EXCEPT !.pc = pc])
         /\ AdaptorFits([a EXCEPT !.pc = pc, !.next = @ + 1])
         /\ AdaptorFits([a EXCEPT !.pool = f, !.changed = changed])
<1> DEFINE b == [a EXCEPT !.pc = pc]
           c == [a EXCEPT !.pool = f]
           next == a.next + 1
<1>1. AdaptorFits(b) /\ AdaptorFits(c)
  BY PcFits, PoolFits
<1>2. next \in Nat \ {0}
  BY DEF AdaptorFits
<1>3. [b EXCEPT !.next = next] = [a EXCEPT !.pc = pc, !.next = @ + 1]
  OBVIOUS
<1>4. [c EXCEPT !.changed = changed] = [a EXCEPT !.pool = f, !.changed = changed]
  OBVIOUS
<1>5. AdaptorFits([b EXCEPT !.next = next]) /\ AdaptorFits([c EXCEPT !.changed = changed])
  <2> HIDE DEF b, c, next
  <2> QED BY <1>1, <1>2, NextFits, ChangedFits
<1> QED BY <1>1, <1>3, <1>4, <1>5

\* The empty copy is within the cap, whatever the cap.
LEMMA EmptyWithinCap == WithinCap(<<>>)
<1>1. <<>> \in Pool /\ Len(<<>>) = 0
  BY DEF Pool
<1>2. MaxPoolSize \in Nat
  BY PoolAssumption
<1> QED BY <1>1, <1>2 DEF WithinCap

\* The records a writer is reset to hold an empty copy.
LEMMA IdleWithinCap ==
  /\ AdaptorFits(AdaptorIdle)
  /\ ResearchShape(ResearchIdle) /\ WithinCap(ResearchIdle.pool) /\ ResearchIdle.fresh = {}
<1>1. AdaptorFits(AdaptorIdle)
  BY EmptyWithinCap, FittingRecord DEF AdaptorIdle
<1>2. ResearchIdle.pool = <<>> /\ ResearchIdle.fresh = {} /\ ResearchShape(ResearchIdle)
  BY DEF ResearchIdle, ResearchShape
<1> QED BY <1>1, <1>2, EmptyWithinCap

\* The file the system starts with is within the cap, and no copy exists.
LEMMA InitCap == Init => CapInv
<1> SUFFICES ASSUME Init PROVE CapInv OBVIOUS
<1>1. \A i \in DOMAIN InitialSignals : Entry(InitialSignals[i], 0) \in LooseEntry
  BY PoolAssumption DEF Entry, LooseEntry, Ids
<1>2. file \in Pool /\ Len(file) = Len(InitialSignals)
  BY <1>1, PoolAssumption DEF Init, Pool
<1>3. WithinCap(file)
  BY <1>2, PoolAssumption DEF WithinCap
<1>4. cycles \in 0 .. MaxCycles
  BY PoolAssumption DEF Init
<1> QED BY <1>3, <1>4, IdleWithinCap DEF Init, CapInv

-----------------------------------------------------------------------------
(* One lemma per action that touches a copy of the file.                   *)
\* The adaptor's copy starts as the file.
LEMMA AdaptorReadKeepsCap ==
  ASSUME CapInv, AdaptorRead
  PROVE  CapInv'
<1>1. adaptor' = [pc |-> "check", pool |-> file, seen |-> trades, next |-> 1, changed |-> FALSE]
  BY DEF AdaptorRead, AdaptorIdle
<1>2. AdaptorFits(adaptor')
  BY <1>1, FittingRecord DEF CapInv
<1> QED BY <1>2 DEF AdaptorRead, CapInv

\* A resize or a prune replaces an entry and adds none.
LEMMA AdaptorDecideKeepsCap ==
  ASSUME CapInv, AdaptorDecide
  PROVE  CapInv'
<1> DEFINE entry == Decided(Current, Seen)
           pool == [adaptor.pool EXCEPT ![adaptor.next] = entry]
           edited == [adaptor EXCEPT !.pool = [@ EXCEPT ![adaptor.next] = entry],
                                     !.changed = @ \/ entry # Current]
<1>1. adaptor.next \in 1 .. Len(adaptor.pool) /\ AdaptorFits(adaptor)
  BY DEF CapInv, WithinCap, AdaptorDecide, Pool, AdaptorFits
<1>2. Current \in LooseEntry
  BY <1>1 DEF Current, Pool, AdaptorFits, WithinCap
<1>3. WithinCap(pool)
  <2>1. entry \in LooseEntry
    BY <1>2, DecidedIsEntry
  <2> HIDE DEF entry
  <2> QED BY <1>1, <2>1, EditKeepsCap DEF AdaptorFits
<1>4. AdaptorFits(edited)
  <2> DEFINE changed == adaptor.changed \/ entry # Current
  <2>1. edited = [adaptor EXCEPT !.pool = pool, !.changed = changed]
    OBVIOUS
  <2> HIDE DEF pool, changed, edited
  <2> QED BY <1>1, <1>3, <2>1, MovesFit
<1>5. AdaptorFits(adaptor')
  <2> HIDE DEF entry, edited
  <2>1. CASE Advance(adaptor, FALSE)
    BY <1>1, <1>3, <2>1, MovesFit DEF Advance
  <2>2. CASE Advance(edited, TRUE)
    BY <1>4, <1>3, <2>2, MovesFit DEF Advance
  <2>3. CASE adaptor' = [edited EXCEPT !.pc = "notify"]
    BY <1>4, <1>3, <2>3, MovesFit
  <2> QED BY <2>1, <2>2, <2>3 DEF AdaptorDecide, entry, edited
<1> QED BY <1>5 DEF CapInv, AdaptorDecide

\* Telegram's answer changes no copy.
LEMMA AdaptorNotifiedKeepsCap ==
  ASSUME CapInv, AdaptorNotified
  PROVE  CapInv'
<1>1. AdaptorFits(adaptor')
  BY MovesFit DEF CapInv, AdaptorNotified, Advance
<1> QED BY <1>1 DEF CapInv, AdaptorNotified

\* Saving the adaptor's own state changes no copy.
LEMMA AdaptorSaveKeepsCap ==
  ASSUME CapInv, AdaptorSave
  PROVE  CapInv'
<1>1. AdaptorFits([adaptor EXCEPT !.pc = "write"])
  BY PcFits DEF CapInv
<1>2. AdaptorFits(adaptor')
  BY <1>1, IdleWithinCap DEF AdaptorSave
<1> QED BY <1>2 DEF CapInv, AdaptorSave

\* The adaptor's copy becomes the file.
LEMMA AdaptorWriteKeepsCap ==
  ASSUME CapInv, AdaptorWrite
  PROVE  CapInv'
BY IdleWithinCap DEF CapInv, AdaptorWrite, AdaptorFits

\* The research pipeline's copy grows only while there is room.
ResearchFits(r) == ResearchShape(r) /\ WithinCap(r.pool) /\ r.fresh \subseteq Signals

\* The record of the pipeline's progress, its copy within the cap.
LEMMA ResearchRecord ==
  ASSUME NEW r, NEW pc, NEW pool, NEW fresh \in SUBSET Signals, NEW promoted, WithinCap(pool),
         r = [pc |-> pc, pool |-> pool, fresh |-> fresh, promoted |-> promoted]
  PROVE  ResearchFits(r)
BY DEF ResearchFits, ResearchShape

\* The pipeline's copy starts as the file.
LEMMA ResearchReadKeepsCap ==
  ASSUME CapInv, NEW found \in SUBSET Signals, ResearchRead(found)
  PROVE  CapInv'
<1>1. research' = [pc |-> "promote", pool |-> file, fresh |-> found \ ExistingSignals(file),
                   promoted |-> 0]
  BY DEF ResearchRead, ResearchIdle
<1>2. ResearchFits(research')
  BY <1>1, ResearchRecord DEF CapInv
<1>3. cycles' \in 0 .. MaxCycles
  BY PoolAssumption, SMTT(40) DEF ResearchRead, CapInv
<1> QED BY <1>2, <1>3 DEF ResearchRead, CapInv, ResearchFits

\* A promotion appends to a copy that has room.
LEMMA PromoteKeepsCap ==
  ASSUME CapInv, NEW signal \in Signals, Promote(signal)
  PROVE  CapInv'
<1> DEFINE pool == Append(research.pool, Entry(signal, cycles))
           pc == IF Telegram THEN "notify" ELSE research.pc
<1>1. research' = [pc |-> pc, pool |-> pool, fresh |-> research.fresh \ {signal},
                   promoted |-> research.promoted + 1]
  <2>1. ResearchShape(research)
    BY DEF CapInv
  <2> QED BY <2>1 DEF Promote, ResearchShape
<1>2. Entry(signal, cycles) \in LooseEntry
  BY PoolAssumption DEF CapInv, Entry, LooseEntry, Ids
<1>3. WithinCap(pool)
  <2>1. research.pool \in Pool /\ Len(research.pool) < MaxPoolSize
    BY DEF Promote, MayPromote, Room, CapInv, WithinCap
  <2>2. MaxPoolSize \in Nat
    BY PoolAssumption
  <2> QED BY <1>2, <2>1, <2>2 DEF WithinCap, Pool
<1>4. ResearchFits(research')
  <2> HIDE DEF pool, pc
  <2> QED BY <1>1, <1>3, ResearchRecord DEF CapInv
<1> QED BY <1>4 DEF Promote, CapInv, ResearchFits

\* Telegram's answer changes no copy.
LEMMA ResearchNotifiedKeepsCap ==
  ASSUME CapInv, ResearchNotified
  PROVE  CapInv'
<1>1. research' = [pc |-> "promote", pool |-> research.pool, fresh |-> research.fresh,
                   promoted |-> research.promoted]
  BY DEF CapInv, ResearchShape, ResearchNotified
<1>2. ResearchFits(research')
  BY <1>1, ResearchRecord DEF CapInv
<1> QED BY <1>2 DEF ResearchNotified, CapInv, ResearchFits

\* The pipeline's copy becomes the file.
LEMMA ResearchWriteKeepsCap ==
  ASSUME CapInv, ResearchWrite
  PROVE  CapInv'
BY IdleWithinCap DEF CapInv, ResearchWrite

-----------------------------------------------------------------------------

\* Every step keeps the file and both copies within the cap.
LEMMA StepCap == CapInv /\ [Next]_vars => CapInv'
<1> SUFFICES ASSUME CapInv, [Next]_vars PROVE CapInv' OBVIOUS
<1>1. ASSUME NEW id \in Ids, NEW pnl \in Pnls, TradeCloses(id, pnl) PROVE CapInv'
  BY <1>1 DEF TradeCloses, CapInv
<1>2. CASE Crash
  BY <1>2, IdleWithinCap DEF Crash, CapInv
<1>3. CASE UNCHANGED vars
  BY <1>3 DEF vars, CapInv
<1> QED
  BY <1>1, <1>2, <1>3, AdaptorReadKeepsCap, AdaptorDecideKeepsCap, AdaptorNotifiedKeepsCap,
     AdaptorSaveKeepsCap, AdaptorWriteKeepsCap, ResearchReadKeepsCap, PromoteKeepsCap,
     ResearchNotifiedKeepsCap, ResearchWriteKeepsCap DEF Next

\* strategies.json never holds more than maxPoolSize strategies, for all values
\* of the constants and whether or not the two writers overlap (runCycle's
\* poolSize check against a file that may have changed since it was read).
THEOREM PoolAlwaysWithinCap == Spec => []PoolWithinCap
<1>1. CapInv => PoolWithinCap
  BY DEF CapInv, WithinCap, PoolWithinCap
<1> QED BY <1>1, InitCap, StepCap, PTL DEF Spec

-----------------------------------------------------------------------------
(* The two writers in turns: what each copy of the file has to do with the  *)
(* file while nobody else writes it.                                        *)

\* No writer reads the file while the other awaits Telegram: they may overlap only
\* where nothing is awaited.
WritersTakeTurns == MayOverlap => ~Telegram

Trade == [pnl : Pnls]
Journals == [Ids -> Seq(Trade)]

\* How far a size may have moved on a sample of n trades.
Budget(n) == IF n < MinSampleSize THEN 0 ELSE (n - MinSampleSize + 1) * SizeStep
InBudget(e, n) == e.size - InitialSize \in -Budget(n) .. Budget(n)

Distinct(f) == \A i, j \in 1 .. Len(f) : f[i].id[1] = f[j].id[1] => i = j
WellFormed(f) == f \in Seq(EntryType) /\ Distinct(f)

\* The adaptor's copy has the entries of the file, some resized or pruned,
SameEntries(p, f) ==
  /\ Len(p) = Len(f)
  /\ \A i \in 1 .. Len(f) : p[i].id = f[i].id /\ (p[i].enabled => f[i].enabled)

\* and that of the pipeline begins with them and goes on with its promotions.
Grown(p, f) ==
  /\ Len(f) <= Len(p)
  /\ \A i \in 1 .. Len(f) : p[i] = f[i]
  /\ \A i \in 1 .. Len(p) : i > Len(f) => p[i].size = InitialSize /\ p[i].enabled

Within(f, counts) == \A i \in 1 .. Len(f) : InBudget(f[i], counts[f[i].id])

\* The counts of trades that sizes were adjusted on never run ahead of the journal.
CountsInv ==
  /\ trades \in Journals /\ adjusted \in [Ids -> Nat] /\ adjustedDisk \in [Ids -> Nat]
  /\ \A id \in Ids : adjustedDisk[id] <= adjusted[id] /\ adjusted[id] <= Len(trades[id])

TurnsInv ==
  /\ adaptor.pc \in {"idle", "check", "notify", "write"}
  /\ research.pc \in {"idle", "promote", "notify"}
  /\ running \in {"adaptor", "research", Nobody}
  /\ running = "adaptor" <=> adaptor.pc \in {"check", "write"}
  /\ running = "research" <=> research.pc = "promote"
  /\ adaptor.pc = "idle" \/ research.pc = "idle"
  /\ ~Telegram => adaptor.pc # "notify" /\ research.pc # "notify"

FileInv == WellFormed(file) /\ active = Loaded(file) /\ Within(file, adjustedDisk)

\* What the adaptor saw is of the journal, and what it has made of the file so far
\* is within the sample it counted; one entry may wait for Telegram to be counted.
AdaptorOn(a) ==
  /\ WellFormed(a.pool) /\ SameEntries(a.pool, file)
  /\ a.seen \in Journals
  /\ \A id \in Ids : adjusted[id] <= Len(a.seen[id]) /\ Len(a.seen[id]) <= Len(trades[id])
  /\ \A i \in 1 .. Len(a.pool) :
       IF a.pc = "notify" /\ i = a.next THEN InBudget(a.pool[i], Len(a.seen[a.pool[i].id]))
       ELSE InBudget(a.pool[i], adjusted[a.pool[i].id])
  /\ a.pc = "notify" => a.next <= Len(a.pool)
  /\ a.pc = "write" => adjustedDisk = adjusted
AdaptorInv ==
  /\ AdaptorShape(adaptor) /\ adaptor.next \in Nat \ {0} /\ adaptor.pool \in Seq(EntryType)
  /\ adaptor.pc # "idle" => AdaptorOn(adaptor)

ResearchOn(r) ==
  /\ WellFormed(r.pool) /\ Grown(r.pool, file)
  /\ r.fresh \subseteq Signals
  /\ \A i \in 1 .. Len(r.pool) : r.pool[i].id[1] \notin r.fresh
ResearchInv ==
  /\ ResearchShape(research) /\ research.pool \in Seq(EntryType)
  /\ research.pc # "idle" => ResearchOn(research)

TurnInv ==
  /\ cycles \in 0 .. MaxCycles
  /\ CountsInv /\ TurnsInv /\ FileInv /\ AdaptorInv /\ ResearchInv

-----------------------------------------------------------------------------
(* Sizes and budgets.                                                       *)

\* A budget is a number, and grows with the sample.
LEMMA BudgetGrows ==
  ASSUME NEW m \in Nat, NEW n \in Nat, m <= n
  PROVE  Budget(m) \in Nat /\ Budget(n) \in Nat /\ Budget(m) <= Budget(n)
<1> DEFINE k == m - MinSampleSize + 1
           l == n - MinSampleSize + 1
<1>1. MinSampleSize \in Nat /\ SizeStep \in Nat
  BY PoolAssumption DEF PoolAssumption
<1>2. CASE n < MinSampleSize
  BY <1>1, <1>2 DEF Budget
<1>3. CASE n >= MinSampleSize
  <2>1. l \in Nat /\ l * SizeStep \in Nat
    BY <1>1, <1>3
  <2>2. Budget(n) = l * SizeStep
    BY <1>1, <1>3 DEF Budget
  <2>3. CASE m < MinSampleSize
    BY <1>1, <2>1, <2>2, <2>3 DEF Budget
  <2>4. CASE m >= MinSampleSize
    <3>1. k \in Nat /\ k * SizeStep \in Nat /\ k <= l /\ l - k \in Nat
      BY <1>1, <2>4, <1>3
    <3>2. Budget(m) = k * SizeStep
      BY <1>1, <2>4 DEF Budget
    <3>3. l * SizeStep = k * SizeStep + (l - k) * SizeStep /\ (l - k) * SizeStep \in Nat
      <4> HIDE DEF k, l
      <4> QED BY <1>1, <2>1, <3>1
    <3> HIDE DEF k, l
    <3> QED BY <2>1, <2>2, <3>1, <3>2, <3>3
  <2> QED BY <1>1, <2>3, <2>4
<1> QED BY <1>1, <1>2, <1>3

\* A step more fits the budget of a larger sample that is large enough.
LEMMA BudgetGrowsAStep ==
  ASSUME NEW m \in Nat, NEW n \in Nat, m < n, n >= MinSampleSize
  PROVE  Budget(m) + SizeStep <= Budget(n)
<1> DEFINE k == m - MinSampleSize + 1
           l == n - MinSampleSize + 1
<1>1. MinSampleSize \in Nat /\ SizeStep \in Nat
  BY PoolAssumption DEF PoolAssumption
<1>2. Budget(n) = l * SizeStep /\ l \in Nat \ {0}
  BY <1>1 DEF Budget
<1>3. CASE m < MinSampleSize
  <2>1. Budget(m) = 0
    BY <1>3 DEF Budget
  <2>2. l * SizeStep = SizeStep + (l - 1) * SizeStep /\ (l - 1) * SizeStep \in Nat
    <3>1. l - 1 \in Nat
      BY <1>2
    <3> HIDE DEF l
    <3> QED BY <1>1, <1>2, <3>1
  <2> HIDE DEF l
  <2> QED BY <1>1, <1>2, <2>1, <2>2
<1>4. CASE m >= MinSampleSize
  <2>1. Budget(m) = k * SizeStep /\ k \in Nat /\ l - k - 1 \in Nat
    BY <1>1, <1>4 DEF Budget
  <2>2. l * SizeStep = k * SizeStep + SizeStep + (l - k - 1) * SizeStep
        /\ (l - k - 1) * SizeStep \in Nat /\ k * SizeStep \in Nat /\ l * SizeStep \in Nat
    <3> HIDE DEF k, l
    <3> QED BY <1>1, <1>2, <2>1
  <2> HIDE DEF k, l
  <2> QED BY <1>1, <1>2, <2>1, <2>2
<1> QED BY <1>1, <1>3, <1>4

\* What is within the budget of a sample is within that of a larger one,
LEMMA InLargerBudget ==
  ASSUME NEW e \in EntryType, NEW m \in Nat, NEW n \in Nat, m <= n, InBudget(e, m)
  PROVE  InBudget(e, n)
<1>1. Budget(m) \in Nat /\ Budget(n) \in Nat /\ Budget(m) <= Budget(n)
  BY BudgetGrows
<1>2. e.size \in Int /\ InitialSize \in Int
  BY PoolAssumption DEF EntryType, PoolAssumption
<1> QED BY <1>1, <1>2 DEF InBudget

\* and the initial size is within any.
LEMMA InitialInBudget ==
  ASSUME NEW e, e.size = InitialSize, NEW n \in Nat
  PROVE  InBudget(e, n)
<1>1. Budget(n) \in Nat /\ InitialSize \in Int
  BY BudgetGrows, PoolAssumption DEF PoolAssumption
<1> HIDE DEF Budget
<1> QED BY <1>1 DEF InBudget

\* A decision moves a size by a step at most, only on a sample that is large enough,
\* and keeps it between the two bounds.
LEMMA SizeMovesAStep ==
  ASSUME NEW t, NEW size \in SizeMin .. SizeMax
  PROVE  /\ NewSize(t, size) \in SizeMin .. SizeMax
         /\ NewSize(t, size) - size \in -SizeStep .. SizeStep
         /\ Len(t) < MinSampleSize => NewSize(t, size) = size
<1>1. SizeMin \in Nat /\ SizeMax \in Nat /\ SizeStep \in Nat /\ SizeMin <= SizeMax
  BY PoolAssumption DEF PoolAssumption
<1> QED BY <1>1 DEF NewSize, Clamp

\* A number that was within a bound and moves by a step is within a bound larger by it.
LEMMA StepStaysWithin ==
  ASSUME NEW x \in Int, NEW y \in Int, NEW z \in Int, NEW b \in Nat, NEW c \in Nat, NEW k \in Nat,
         x - z \in -b .. b, y - x \in -k .. k, b + k <= c
  PROVE  y - z \in -c .. c
OBVIOUS

\* An entry that was decided on, on a sample larger than the one it was last adjusted
\* on, is within the budget of the new one.
LEMMA DecidedInBudget ==
  ASSUME NEW e \in EntryType, NEW t, NEW m \in Nat, Len(t) \in Nat, m < Len(t), InBudget(e, m)
  PROVE  /\ Decided(e, t) \in EntryType
         /\ Decided(e, t).id = e.id /\ (Decided(e, t).enabled => e.enabled)
         /\ InBudget(Decided(e, t), Len(t))
<1> DEFINE size == NewSize(t, e.size)
           d == [e EXCEPT !.size = size, !.enabled = @ /\ ~PruneNow(e, t)]
<1>1. /\ e.size \in SizeMin .. SizeMax /\ e.id \in Ids /\ e.enabled \in BOOLEAN
      /\ e = [id |-> e.id, size |-> e.size, enabled |-> e.enabled]
  BY DEF EntryType
<1>2. /\ size \in SizeMin .. SizeMax /\ size - e.size \in -SizeStep .. SizeStep
      /\ Len(t) < MinSampleSize => size = e.size
  BY <1>1, SizeMovesAStep
<1>3. /\ d \in EntryType /\ d.id = e.id /\ (d.enabled => e.enabled) /\ d.size = size
  <2> HIDE DEF size
  <2> QED BY <1>1, <1>2 DEF EntryType
<1>4. InBudget(e, Len(t))
  BY InLargerBudget
<1>5. InBudget(d, Len(t))
  <2>1. CASE Len(t) < MinSampleSize
    BY <1>2, <1>3, <1>4, <2>1 DEF InBudget
  <2>2. CASE Len(t) >= MinSampleSize
    <3>1. Budget(m) + SizeStep <= Budget(Len(t)) /\ Budget(m) \in Nat /\ Budget(Len(t)) \in Nat
      BY <2>2, BudgetGrowsAStep, BudgetGrows
    <3>2. InitialSize \in Nat /\ SizeStep \in Nat /\ SizeMin \in Nat /\ SizeMax \in Nat
      BY PoolAssumption DEF PoolAssumption
    <3>3. e.size - InitialSize \in -Budget(m) .. Budget(m)
      BY DEF InBudget
    <3>4. d.size - InitialSize \in -Budget(Len(t)) .. Budget(Len(t))
      <4>1. e.size \in Int /\ size \in Int /\ d.size = size
        BY <1>1, <1>2, <1>3, <3>2
      <4>2. size - e.size \in -SizeStep .. SizeStep
        BY <1>2
      <4> HIDE DEF d, size
      <4>3. size - InitialSize \in -Budget(Len(t)) .. Budget(Len(t))
        BY <4>1, <4>2, <3>1, <3>2, <3>3, StepStaysWithin, SMTT(40)
      <4> QED BY <4>1, <4>3
    <3> QED BY <3>4 DEF InBudget
  <2> QED BY <2>1, <2>2, PoolAssumption, SMTT(40) DEF PoolAssumption
<1>6. CASE DryRun
  BY <1>4, <1>6 DEF Decided
<1>7. CASE ~DryRun
  <2>1. Decided(e, t) = d
    BY <1>7 DEF Decided
  <2> HIDE DEF d
  <2> QED BY <1>3, <1>5, <2>1
<1> QED BY <1>6, <1>7

-----------------------------------------------------------------------------
(* The file, and what the runner makes of it.                               *)

\* Ids are as distinct as signals.
LEMMA DistinctIds ==
  ASSUME NEW f, WellFormed(f), NEW i \in 1 .. Len(f), NEW j \in 1 .. Len(f), f[i].id = f[j].id
  PROVE  i = j
BY DEF WellFormed, Distinct

\* The entries of a file, by their places.
LEMMA EntriesByPlace ==
  ASSUME NEW f \in Seq(EntryType)
  PROVE  /\ \A e \in Range(f) : \E i \in 1 .. Len(f) : e = f[i]
         /\ \A i \in 1 .. Len(f) : f[i] \in Range(f) /\ f[i] \in EntryType
         /\ Len(f) \in Nat
BY DEF Range

\* The runner's strategies are the enabled entries, each at its size.
LEMMA LoadedByPlace ==
  ASSUME NEW f, WellFormed(f)
  PROVE  /\ \A id : id \in DOMAIN Loaded(f) <=> \E i \in 1 .. Len(f) : f[i].enabled /\ f[i].id = id
         /\ \A i \in 1 .. Len(f) : f[i].enabled => Loaded(f)[f[i].id] = f[i].size
<1> DEFINE enabled == {e \in Range(f) : e.enabled}
           ids == {e.id : e \in enabled}
<1>1. f \in Seq(EntryType)
  BY DEF WellFormed
<1>2. \A id : id \in ids <=> \E i \in 1 .. Len(f) : f[i].enabled /\ f[i].id = id
  BY <1>1, EntriesByPlace
<1>3. Loaded(f) = [id \in ids |-> (CHOOSE e \in enabled : e.id = id).size]
  BY DEF Loaded
<1>4. DOMAIN Loaded(f) = ids
  <2> HIDE DEF ids, enabled
  <2> QED BY <1>3
<1>5. ASSUME NEW i \in 1 .. Len(f), f[i].enabled PROVE Loaded(f)[f[i].id] = f[i].size
  <2>1. f[i] \in enabled /\ f[i].id \in ids
    BY <1>1, <1>5, EntriesByPlace
  <2>2. \A e \in enabled : e.id = f[i].id => e = f[i]
    BY <1>1, EntriesByPlace, DistinctIds
  <2>3. (CHOOSE e \in enabled : e.id = f[i].id) = f[i]
    <3> HIDE DEF enabled, ids
    <3> QED BY <2>1, <2>2
  <2> HIDE DEF enabled, ids
  <2> QED BY <1>3, <2>1, <2>3
<1> HIDE DEF ids
<1> QED BY <1>2, <1>4, <1>5

\* The sizes the runner trades are sizes of the file.
LEMMA LoadedIsTyped ==
  ASSUME NEW f, WellFormed(f)
  PROVE  DOMAIN Loaded(f) \subseteq Ids /\ Range(Loaded(f)) \subseteq SizeMin .. SizeMax
<1>1. ASSUME NEW id \in DOMAIN Loaded(f)
      PROVE  id \in Ids /\ Loaded(f)[id] \in SizeMin .. SizeMax
  <2>1. PICK i \in 1 .. Len(f) : f[i].enabled /\ f[i].id = id
    BY <1>1, LoadedByPlace
  <2>2. Loaded(f)[f[i].id] = f[i].size
    BY <2>1, LoadedByPlace
  <2>3. f[i] \in EntryType
    BY EntriesByPlace DEF WellFormed
  <2> QED BY <2>1, <2>2, <2>3 DEF EntryType
<1> QED BY <1>1 DEF Range

\* A reload of a file that has every entry the runner trades is a load of it.
LEMMA ReloadIsLoad ==
  ASSUME NEW f, WellFormed(f), NEW p, WellFormed(p), active = Loaded(f),
         \A i \in 1 .. Len(f) : \E j \in 1 .. Len(p) : p[j].id = f[i].id
  PROVE  Reload(p) = Loaded(p)
<1> DEFINE fresh == Loaded(p)
           pruned == {e.id : e \in {x \in Range(p) : ~x.enabled}}
           dom == (DOMAIN active \ pruned) \union DOMAIN fresh
<1>1. Reload(p) = [id \in dom |-> IF id \in DOMAIN fresh THEN fresh[id] ELSE active[id]]
  BY DEF Reload
<1>2. ASSUME NEW id \in DOMAIN active \ pruned PROVE id \in DOMAIN fresh
  <2>1. PICK i \in 1 .. Len(f) : f[i].id = id
    BY <1>2, LoadedByPlace
  <2>2. PICK j \in 1 .. Len(p) : p[j].id = id
    BY <2>1
  <2>3. p[j] \in Range(p) /\ p[j] \in EntryType
    BY EntriesByPlace DEF WellFormed
  <2>4. p[j].enabled
    BY <1>2, <2>2, <2>3
  <2> QED BY <2>2, <2>4, LoadedByPlace
<1>3. dom = DOMAIN fresh
  <2> HIDE DEF fresh, pruned
  <2> QED BY <1>2
<1>4. fresh = [id \in DOMAIN fresh |-> fresh[id]]
  BY DEF Loaded
<1> HIDE DEF dom, fresh
<1>5. Reload(p) = [id \in DOMAIN fresh |-> fresh[id]]
  BY <1>1, <1>3
<1> QED BY <1>4, <1>5 DEF fresh

\* With distinct signals there are as many signals as entries.
LEMMA SignalsAreCounted ==
  ASSUME NEW f, WellFormed(f)
  PROVE  Cardinality(SignalsOf(f)) = Len(f)
<1> DEFINE S == 1 .. Len(f)
           T == SignalsOf(f)
           g == [i \in S |-> f[i].id[1]]
<1>1. f \in Seq(EntryType) /\ Len(f) \in Nat
  BY EntriesByPlace DEF WellFormed
<1>2. \A i \in S : f[i].id[1] \in T
  BY <1>1, EntriesByPlace DEF SignalsOf
<1>3. \A x \in T : \E i \in S : x = f[i].id[1]
  BY <1>1, EntriesByPlace DEF SignalsOf
<1>4. g \in Bijection(S, T)
  <2>1. g \in [S -> T]
    BY <1>2
  <2>2. \A i, j \in S : g[i] = g[j] => i = j
    BY DEF WellFormed, Distinct
  <2>3. \A x \in T : \E i \in S : g[i] = x
    BY <1>3
  <2> HIDE DEF g, S, T
  <2> QED BY <2>1, <2>2, <2>3 DEF Bijection, Injection, Surjection, IsInjective
<1>5. IsFiniteSet(S) /\ Cardinality(S) = Len(f)
  <2> DEFINE n == Len(f)
  <2>1. n \in Nat
    BY <1>1
  <2> HIDE DEF n
  <2>2. IsFiniteSet(1 .. n) /\ Cardinality(1 .. n) = n
    BY <2>1, FS_Interval
  <2> QED BY <2>2 DEF n
<1>6. ExistsBijection(S, T)
  BY <1>4 DEF ExistsBijection
<1> HIDE DEF S, T
<1>7. Cardinality(T) = Cardinality(S)
  BY <1>5, <1>6, FS_Bijection
<1> QED BY <1>5, <1>7 DEF T

\* The invariant says all of PoolIsSound.
LEMMA TurnsAreSound == TurnInv => PoolIsSound
<1> SUFFICES ASSUME TurnInv PROVE PoolIsSound
  OBVIOUS
<1>1. WellFormed(file) /\ active = Loaded(file)
  BY DEF TurnInv, FileInv
<1>2. TypeOK
  <2>1. file \in Seq(EntryType)
    BY <1>1 DEF WellFormed
  <2>2. DOMAIN active \subseteq Ids /\ Range(active) \subseteq SizeMin .. SizeMax
    BY <1>1, LoadedIsTyped
  <2>3. \A id \in Ids : /\ adjusted[id] \in 0 .. Len(trades[id])
                        /\ adjustedDisk[id] \in 0 .. Len(trades[id])
    <3> SUFFICES ASSUME NEW id \in Ids
                 PROVE  /\ adjusted[id] \in 0 .. Len(trades[id])
                        /\ adjustedDisk[id] \in 0 .. Len(trades[id])
      OBVIOUS
    <3>1. /\ adjusted[id] \in Nat /\ adjustedDisk[id] \in Nat /\ Len(trades[id]) \in Nat
          /\ adjustedDisk[id] <= adjusted[id] /\ adjusted[id] <= Len(trades[id])
      BY DEF TurnInv, CountsInv, Journals
    <3> QED BY <3>1
  <2>4. adaptor.pool \in Seq(EntryType) /\ research.pool \in Seq(EntryType)
    BY DEF TurnInv, AdaptorInv, ResearchInv
  <2> QED BY <2>1, <2>2, <2>3, <2>4 DEF TypeOK, TurnInv, TurnsInv
<1>3. OneEntryPerSignal
  BY <1>1, SignalsAreCounted DEF OneEntryPerSignal
<1>4. OneStepPerTrade
  <2> SUFFICES ASSUME NEW e \in Range(file) PROVE InBudget(e, Len(trades[e.id]))
    BY DEF OneStepPerTrade, InBudget, Budget
  <2>1. PICK i \in 1 .. Len(file) : e = file[i]
    BY <1>1, EntriesByPlace DEF WellFormed
  <2>2. e \in EntryType /\ e.id \in Ids
    BY <2>1, <1>1, EntriesByPlace DEF WellFormed, EntryType
  <2>3. InBudget(e, adjustedDisk[e.id])
    BY <2>1 DEF TurnInv, FileInv, Within
  <2>4. /\ adjusted[e.id] \in Nat /\ adjustedDisk[e.id] \in Nat /\ Len(trades[e.id]) \in Nat
        /\ adjustedDisk[e.id] <= adjusted[e.id] /\ adjusted[e.id] <= Len(trades[e.id])
    BY <2>2 DEF TurnInv, CountsInv, Journals
  <2>5. adjustedDisk[e.id] <= Len(trades[e.id])
    BY <2>4
  <2> QED BY <2>2, <2>3, <2>4, <2>5, InLargerBudget
<1> QED BY <1>1, <1>2, <1>3, <1>4 DEF PoolIsSound, RunnerFollowsFile

-----------------------------------------------------------------------------
(* One lemma per action.                                                    *)

\* A larger count keeps what is within it.
LEMMA WithinGrows ==
  ASSUME NEW f, WellFormed(f), NEW c \in [Ids -> Nat], NEW d \in [Ids -> Nat],
         \A id \in Ids : c[id] <= d[id], Within(f, c)
  PROVE  Within(f, d)
<1> SUFFICES ASSUME NEW i \in 1 .. Len(f) PROVE InBudget(f[i], d[f[i].id])
  BY DEF Within
<1>1. f[i] \in EntryType /\ f[i].id \in Ids
  BY EntriesByPlace DEF WellFormed, EntryType
<1>2. InBudget(f[i], c[f[i].id])
  BY DEF Within
<1>3. c[f[i].id] \in Nat /\ d[f[i].id] \in Nat /\ c[f[i].id] <= d[f[i].id]
  BY <1>1
<1> QED BY <1>1, <1>2, <1>3, InLargerBudget

\* The records that the writers are reset to.
LEMMA IdleRecords ==
  /\ AdaptorShape(AdaptorIdle) /\ AdaptorIdle.pc = "idle" /\ AdaptorIdle.next = 1
  /\ AdaptorIdle.pool = <<>>
  /\ ResearchShape(ResearchIdle) /\ ResearchIdle.pc = "idle" /\ ResearchIdle.pool = <<>>
BY DEF AdaptorIdle, ResearchIdle, AdaptorShape, ResearchShape

\* A writer that was reset asks for nothing.
LEMMA AdaptorReset ==
  ASSUME adaptor' = AdaptorIdle
  PROVE  AdaptorInv' /\ adaptor'.pc = "idle"
<1>1. adaptor'.pc = "idle" /\ adaptor'.pool \in Seq(EntryType) /\ adaptor'.next \in Nat \ {0}
  BY IdleRecords
<1>2. AdaptorShape(adaptor')
  BY IdleRecords
<1> QED BY <1>1, <1>2 DEF AdaptorInv, AdaptorShape

LEMMA ResearchReset ==
  ASSUME research' = ResearchIdle
  PROVE  ResearchInv' /\ research'.pc = "idle"
<1>1. research'.pc = "idle" /\ research'.pool \in Seq(EntryType)
  BY IdleRecords
<1>2. ResearchShape(research')
  BY IdleRecords
<1> QED BY <1>1, <1>2 DEF ResearchInv, ResearchShape

\* The pipeline's copy stays what it is as long as it and the file are left alone,
LEMMA ResearchLeftAlone ==
  ASSUME ResearchInv, UNCHANGED <<research, file>>
  PROVE  ResearchInv'
BY DEF ResearchInv, ResearchOn, ResearchShape

\* or while it is idle and the file changes.
LEMMA ResearchStaysIdle ==
  ASSUME ResearchInv, research.pc = "idle", UNCHANGED research
  PROVE  ResearchInv'
BY DEF ResearchInv, ResearchShape

LEMMA AdaptorStaysIdle ==
  ASSUME AdaptorInv, adaptor.pc = "idle", UNCHANGED adaptor
  PROVE  AdaptorInv'
BY DEF AdaptorInv, AdaptorShape

LEMMA AdaptorLeftAlone ==
  ASSUME AdaptorInv, UNCHANGED <<adaptor, file, adjusted, adjustedDisk, trades>>
  PROVE  AdaptorInv'
BY DEF AdaptorInv, AdaptorOn, AdaptorShape

LEMMA FileLeftAlone ==
  ASSUME FileInv, UNCHANGED <<file, active, adjustedDisk>>
  PROVE  FileInv'
BY DEF FileInv

LEMMA CountsLeftAlone ==
  ASSUME CountsInv, UNCHANGED <<trades, adjusted, adjustedDisk>>
  PROVE  CountsInv'
BY DEF CountsInv

\* The state the system starts in.
LEMMA InitTurn == Init => TurnInv
<1> SUFFICES ASSUME Init PROVE TurnInv
  OBVIOUS
<1>1. /\ InitialSignals \in Seq(Signals) /\ InitialSize \in SizeMin .. SizeMax
      /\ MaxCycles \in Nat /\ Nobody \notin {"adaptor", "research"}
      /\ \A i, j \in DOMAIN InitialSignals : InitialSignals[i] = InitialSignals[j] => i = j
  BY PoolAssumption DEF PoolAssumption
<1>2. \A i \in DOMAIN InitialSignals :
        /\ Entry(InitialSignals[i], 0) \in EntryType
        /\ Entry(InitialSignals[i], 0).id[1] = InitialSignals[i]
        /\ Entry(InitialSignals[i], 0).size = InitialSize
  BY <1>1 DEF Entry, EntryType, Ids
<1>3. /\ file \in Seq(EntryType) /\ Len(file) = Len(InitialSignals)
      /\ \A i \in 1 .. Len(file) : file[i] = Entry(InitialSignals[i], 0)
  BY <1>1, <1>2 DEF Init
<1>4. WellFormed(file)
  BY <1>1, <1>2, <1>3 DEF WellFormed, Distinct
<1>5. CountsInv
  <2>1. trades = [id \in Ids |-> <<>>] /\ adjusted = [id \in Ids |-> 0] /\ adjustedDisk = adjusted
    BY DEF Init
  <2>2. <<>> \in Seq(Trade) /\ Len(<<>>) = 0
    OBVIOUS
  <2>3. trades \in Journals
    BY <2>1, <2>2 DEF Journals
  <2> QED BY <2>1, <2>2, <2>3 DEF CountsInv
<1>6. Within(file, adjustedDisk)
  <2> SUFFICES ASSUME NEW i \in 1 .. Len(file) PROVE InBudget(file[i], adjustedDisk[file[i].id])
    BY DEF Within
  <2>1. file[i].id \in Ids /\ file[i].size = InitialSize
    BY <1>1, <1>2, <1>3 DEF EntryType
  <2>2. adjustedDisk[file[i].id] \in Nat
    BY <2>1, <1>5 DEF CountsInv
  <2> QED BY <2>1, <2>2, InitialInBudget
<1>7. FileInv
  BY <1>4, <1>6 DEF Init, FileInv
<1>8. AdaptorInv /\ ResearchInv /\ TurnsInv
  BY <1>1, IdleRecords DEF Init, AdaptorInv, ResearchInv, TurnsInv
<1> QED BY <1>1, <1>5, <1>7, <1>8 DEF Init, TurnInv

\* A trade that closes only lengthens a journal.
LEMMA TradeClosesInTurn ==
  ASSUME TurnInv, NEW r \in Ids, NEW pnl \in Pnls, TradeCloses(r, pnl)
  PROVE  TurnInv'
<1>1. CountsInv /\ TurnsInv /\ FileInv /\ AdaptorInv /\ ResearchInv /\ cycles \in 0 .. MaxCycles
  BY DEF TurnInv
<1>2. UNCHANGED <<file, active, adjusted, adjustedDisk, adaptor, research, running, cycles>>
  BY DEF TradeCloses
<1>3. trades' \in Journals /\ \A id \in Ids : /\ Len(trades[id]) \in Nat /\ Len(trades'[id]) \in Nat
                                             /\ Len(trades[id]) <= Len(trades'[id])
  <2>1. trades' = [trades EXCEPT ![r] = Append(@, [pnl |-> pnl])] /\ trades \in [Ids -> Seq(Trade)]
    BY <1>1 DEF TradeCloses, CountsInv, Journals
  <2>2. [pnl |-> pnl] \in Trade
    BY DEF Trade
  <2> DEFINE longer == Append(trades[r], [pnl |-> pnl])
  <2>3. longer \in Seq(Trade) /\ Len(longer) = Len(trades[r]) + 1 /\ Len(trades[r]) \in Nat
    BY <2>1, <2>2
  <2>4. trades' = [trades EXCEPT ![r] = longer]
    BY <2>1
  <2> HIDE DEF longer
  <2>5. ASSUME NEW id \in Ids
        PROVE  /\ Len(trades[id]) \in Nat /\ Len(trades'[id]) \in Nat
               /\ Len(trades[id]) <= Len(trades'[id]) /\ trades'[id] \in Seq(Trade)
    <3>1. trades[id] \in Seq(Trade) /\ Len(trades[id]) \in Nat
      BY <2>1
    <3>2. CASE id = r
      BY <2>1, <2>3, <2>4, <3>1, <3>2
    <3>3. CASE id # r
      BY <2>1, <2>4, <3>1, <3>3
    <3> QED BY <3>2, <3>3
  <2> QED BY <2>1, <2>4, <2>5 DEF Journals
<1>4. CountsInv'
  <2> SUFFICES ASSUME NEW id \in Ids
               PROVE  adjustedDisk[id] <= adjusted[id] /\ adjusted[id] <= Len(trades'[id])
    BY <1>1, <1>2, <1>3 DEF CountsInv
  <2>1. adjusted[id] \in Nat /\ adjusted[id] <= Len(trades[id]) /\ adjustedDisk[id] <= adjusted[id]
    BY <1>1 DEF CountsInv
  <2> QED BY <2>1, <1>3
<1>5. AdaptorInv'
  <2>1. CASE adaptor.pc = "idle"
    BY <1>1, <1>2, <2>1, AdaptorStaysIdle
  <2>2. CASE adaptor.pc # "idle"
    <3>1. AdaptorOn(adaptor)
      BY <1>1, <2>2 DEF AdaptorInv
    <3>2. ASSUME NEW id \in Ids PROVE Len(adaptor.seen[id]) <= Len(trades'[id])
      <4>1. Len(adaptor.seen[id]) \in Nat /\ Len(adaptor.seen[id]) <= Len(trades[id])
        BY <3>1 DEF AdaptorOn, Journals
      <4> QED BY <4>1, <1>3
    <3>3. AdaptorOn(adaptor)'
      BY <1>2, <3>1, <3>2 DEF AdaptorOn
    <3> QED BY <1>1, <1>2, <3>3 DEF AdaptorInv, AdaptorShape
  <2> QED BY <2>1, <2>2
<1>6. TurnsInv' /\ FileInv' /\ ResearchInv' /\ cycles' \in 0 .. MaxCycles
  BY <1>1, <1>2, FileLeftAlone, ResearchLeftAlone DEF TurnsInv
<1> QED BY <1>4, <1>5, <1>6 DEF TurnInv

\* The adaptor's copy starts as the file, with the journal as it is.
LEMMA AdaptorReadInTurn ==
  ASSUME WritersTakeTurns, TurnInv, AdaptorRead
  PROVE  TurnInv'
<1>1. CountsInv /\ TurnsInv /\ FileInv /\ AdaptorInv /\ ResearchInv /\ cycles \in 0 .. MaxCycles
  BY DEF TurnInv
<1>2. UNCHANGED <<file, active, trades, adjusted, adjustedDisk, research, cycles>>
  BY DEF AdaptorRead
<1>3. adaptor' = [pc |-> "check", pool |-> file, seen |-> trades, next |-> 1, changed |-> FALSE]
  BY DEF AdaptorRead, AdaptorIdle
<1>4. TurnsInv'
  <2>1. running = Nobody /\ adaptor.pc = "idle" /\ (MayOverlap \/ research.pc # "notify")
        /\ running' = "adaptor" /\ adaptor'.pc = "check" /\ research'.pc = research.pc
    BY <1>2, <1>3 DEF AdaptorRead
  <2>2. Nobody \notin {"adaptor", "research"}
    BY PoolAssumption DEF PoolAssumption
  <2>3. research.pc = "idle"
    BY <1>1, <2>1, <2>2 DEF TurnsInv, WritersTakeTurns
  <2> QED BY <1>1, <2>1, <2>2, <2>3 DEF TurnsInv
<1>5. AdaptorInv'
  <2>1. Within(file, adjusted)
    BY <1>1, WithinGrows DEF FileInv, CountsInv
  <2>2. SameEntries(file, file)
    BY DEF SameEntries
  <2>3. \A id \in Ids : Len(trades[id]) \in Nat /\ Len(trades[id]) <= Len(trades[id])
    BY <1>1 DEF CountsInv, Journals
  <2>4. AdaptorOn(adaptor)'
    BY <1>1, <1>2, <1>3, <2>1, <2>2, <2>3 DEF AdaptorOn, FileInv, CountsInv, Within
  <2>5. file \in Seq(EntryType)
    BY <1>1 DEF FileInv, WellFormed
  <2> QED BY <1>3, <2>4, <2>5 DEF AdaptorInv, AdaptorShape
<1> QED BY <1>1, <1>2, <1>4, <1>5, FileLeftAlone, CountsLeftAlone, ResearchLeftAlone DEF TurnInv

\* What the adaptor's check has made of its entry before it is counted.
LEMMA DecidedOn ==
  ASSUME TurnInv, adaptor.pc = "check", adaptor.next <= Len(adaptor.pool), NewData,
         NEW pool, pool = [adaptor.pool EXCEPT ![adaptor.next] = Decided(Current, Seen)]
  PROVE  /\ WellFormed(pool) /\ SameEntries(pool, file)
         /\ Len(pool) = Len(adaptor.pool) /\ adaptor.next \in 1 .. Len(pool)
         /\ pool[adaptor.next].id = Current.id /\ Current.id \in Ids
         /\ Seen = adaptor.seen[Current.id]
         /\ \A i \in 1 .. Len(pool) :
              IF i = adaptor.next THEN InBudget(pool[i], Len(adaptor.seen[pool[i].id]))
              ELSE InBudget(pool[i], adjusted[pool[i].id])
<1> DEFINE n == adaptor.next
           old == adaptor.pool
           e == Current
           d == Decided(Current, Seen)
<1>1. /\ WellFormed(old) /\ SameEntries(old, file) /\ adaptor.seen \in Journals
      /\ \A id \in Ids : adjusted[id] <= Len(adaptor.seen[id])
      /\ \A i \in 1 .. Len(old) : InBudget(old[i], adjusted[old[i].id])
  BY DEF TurnInv, AdaptorInv, AdaptorOn
<1>2. n \in 1 .. Len(old) /\ old \in Seq(EntryType) /\ Len(old) \in Nat
  BY <1>1 DEF TurnInv, AdaptorInv, WellFormed
<1>3. e = old[n] /\ e \in EntryType /\ e.id \in Ids /\ Seen = adaptor.seen[e.id]
  <2>1. e = old[n] /\ Seen = adaptor.seen[e.id]
    BY DEF Current, Seen
  <2>2. old[n] \in EntryType
    <3> HIDE DEF old, n
    <3> QED BY <1>2
  <2> HIDE DEF e, old, n
  <2> QED BY <2>1, <2>2 DEF EntryType
<1>4. /\ adjusted[e.id] \in Nat /\ Len(Seen) \in Nat /\ adjusted[e.id] < Len(Seen)
      /\ InBudget(e, adjusted[e.id])
  <2>1. adjusted[e.id] \in Nat /\ Len(Seen) \in Nat
    BY <1>1, <1>3 DEF TurnInv, CountsInv, Journals
  <2>2. Len(Seen) # adjusted[e.id] /\ adjusted[e.id] <= Len(Seen)
    BY <1>1, <1>3 DEF NewData
  <2> QED BY <2>1, <2>2, <1>1, <1>2, <1>3
<1>5. /\ d \in EntryType /\ d.id = e.id /\ (d.enabled => e.enabled)
      /\ InBudget(d, Len(Seen))
  BY <1>3, <1>4, DecidedInBudget
<1> HIDE DEF d, e, n, old
<1>6. pool = [old EXCEPT ![n] = d]
  BY DEF d, n, old
<1>7. /\ pool \in Seq(EntryType) /\ Len(pool) = Len(old) /\ pool[n] = d
      /\ \A i \in 1 .. Len(pool) : i # n => pool[i] = old[i]
  <2> DEFINE new == [old EXCEPT ![n] = d]
  <2>1. d \in EntryType
    BY <1>5
  <2>2. /\ new \in Seq(EntryType) /\ Len(new) = Len(old)
        /\ \A i \in 1 .. Len(old) : new[i] = IF i = n THEN d ELSE old[i]
    BY <1>2, <2>1, ExceptSeq
  <2>3. pool = new
    BY <1>6
  <2> HIDE DEF new
  <2> QED BY <1>2, <2>2, <2>3
<1>8. \A i \in 1 .. Len(pool) : pool[i].id = old[i].id /\ (pool[i].enabled => old[i].enabled)
  BY <1>3, <1>5, <1>7
<1>9. WellFormed(pool)
  BY <1>1, <1>7, <1>8, SMTT(30) DEF WellFormed, Distinct
<1>10. SameEntries(pool, file)
  BY <1>1, <1>7, <1>8 DEF SameEntries
<1>11. ASSUME NEW i \in 1 .. Len(pool)
       PROVE  IF i = n THEN InBudget(pool[i], Len(adaptor.seen[pool[i].id]))
              ELSE InBudget(pool[i], adjusted[pool[i].id])
  <2>1. CASE i = n
    BY <2>1, <1>3, <1>5, <1>7
  <2>2. CASE i # n
    BY <2>2, <1>1, <1>7
  <2> QED BY <2>1, <2>2
<1> QED BY <1>2, <1>3, <1>5, <1>7, <1>9, <1>10, <1>11 DEF n, old, e

\* Counting an entry: its sample becomes what the adaptor saw of it.
LEMMA CountedOn ==
  ASSUME CountsInv, NEW pool, WellFormed(pool), SameEntries(pool, file), NEW n \in 1 .. Len(pool),
         NEW seen \in Journals, NEW next \in Nat \ {0}, NEW changed,
         \A id \in Ids : adjusted[id] <= Len(seen[id]) /\ Len(seen[id]) <= Len(trades[id]),
         \A i \in 1 .. Len(pool) : IF i = n THEN InBudget(pool[i], Len(seen[pool[i].id]))
                                   ELSE InBudget(pool[i], adjusted[pool[i].id]),
         adjusted' = [adjusted EXCEPT ![pool[n].id] = Len(seen[pool[n].id])],
         UNCHANGED <<trades, adjustedDisk, file>>,
         adaptor' = [pc |-> "check", pool |-> pool, seen |-> seen, next |-> next, changed |-> changed]
  PROVE  CountsInv' /\ AdaptorInv'
<1> DEFINE k == pool[n].id
           count == Len(seen[k])
<1>1. pool \in Seq(EntryType) /\ k \in Ids /\ adjusted \in [Ids -> Nat]
  BY EntriesByPlace DEF WellFormed, EntryType, CountsInv
<1>2. \A id \in Ids : /\ Len(seen[id]) \in Nat /\ adjusted[id] \in Nat /\ adjustedDisk[id] \in Nat
                      /\ Len(trades[id]) \in Nat /\ adjustedDisk[id] <= adjusted[id]
  BY DEF CountsInv, Journals
<1>3. \A id \in Ids : adjusted'[id] = IF id = k THEN count ELSE adjusted[id]
  <2> HIDE DEF count, k
  <2>1. adjusted' = [adjusted EXCEPT ![k] = count]
    BY DEF count, k
  <2> QED BY <1>1, <2>1
<1>4. \A id \in Ids : /\ adjusted'[id] \in Nat /\ adjustedDisk[id] <= adjusted'[id]
                      /\ adjusted'[id] <= Len(seen[id]) /\ Len(seen[id]) <= Len(trades[id])
                      /\ adjusted'[id] <= Len(trades[id])
  <2> SUFFICES ASSUME NEW id \in Ids
               PROVE  /\ adjusted'[id] \in Nat /\ adjustedDisk[id] <= adjusted'[id]
                      /\ adjusted'[id] <= Len(seen[id]) /\ Len(seen[id]) <= Len(trades[id])
                      /\ adjusted'[id] <= Len(trades[id])
    OBVIOUS
  <2>1. adjusted[id] <= Len(seen[id]) /\ Len(seen[id]) <= Len(trades[id])
    OBVIOUS
  <2>2. adjusted'[id] = Len(seen[id]) \/ adjusted'[id] = adjusted[id]
    BY <1>3
  <2> HIDE DEF k, count
  <2> QED BY <1>2, <2>1, <2>2
<1>5. CountsInv'
  <2>1. adjusted' \in [Ids -> Nat]
    <3>1. DOMAIN adjusted' = Ids /\ adjusted' = [id \in Ids |-> adjusted'[id]]
      BY <1>1
    <3> QED BY <3>1, <1>4
  <2> QED BY <2>1, <1>4 DEF CountsInv
<1>6. ASSUME NEW i \in 1 .. Len(pool) PROVE InBudget(pool[i], adjusted'[pool[i].id])
  <2>1. pool[i] \in EntryType /\ pool[i].id \in Ids
    BY <1>1, EntriesByPlace DEF EntryType
  <2>2. CASE i = n
    <3>1. InBudget(pool[i], Len(seen[pool[i].id]))
      BY <2>2
    <3>2. adjusted'[pool[i].id] = Len(seen[pool[i].id])
      BY <2>1, <2>2, <1>3
    <3> QED BY <3>1, <3>2
  <2>3. CASE i # n
    <3>1. pool[i].id # k
      BY <2>3, DistinctIds
    <3>2. InBudget(pool[i], adjusted[pool[i].id])
      BY <2>3
    <3>3. adjusted'[pool[i].id] = adjusted[pool[i].id]
      BY <2>1, <3>1, <1>3
    <3> QED BY <3>2, <3>3
  <2> QED BY <2>2, <2>3
<1>7. AdaptorOn(adaptor)'
  BY <1>4, <1>6 DEF AdaptorOn
<1>8. AdaptorShape(adaptor') /\ adaptor'.next \in Nat \ {0} /\ adaptor'.pool \in Seq(EntryType)
  BY <1>1 DEF AdaptorShape
<1> QED BY <1>5, <1>7, <1>8 DEF AdaptorInv, AdaptorShape

\* The adaptor decides on an entry: one without new trades is passed over, another is
\* counted at once, unless its prune is told first.
LEMMA AdaptorDecideInTurn ==
  ASSUME WritersTakeTurns, TurnInv, AdaptorDecide
  PROVE  TurnInv'
<1> DEFINE n == adaptor.next
           d == Decided(Current, Seen)
           pool == [adaptor.pool EXCEPT ![adaptor.next] = d]
           changed == adaptor.changed \/ d # Current
           edited == [adaptor EXCEPT !.pool = [@ EXCEPT ![adaptor.next] = d],
                                     !.changed = @ \/ d # Current]
           waits == Telegram /\ Current.enabled /\ ~d.enabled
<1>1. CountsInv /\ TurnsInv /\ FileInv /\ AdaptorInv /\ ResearchInv /\ cycles \in 0 .. MaxCycles
  BY DEF TurnInv
<1>2. /\ UNCHANGED <<file, active, trades, adjustedDisk, research, cycles>>
      /\ running = "adaptor" /\ adaptor.pc = "check" /\ n <= Len(adaptor.pool)
  BY DEF AdaptorDecide
<1>3. /\ adaptor = [pc |-> adaptor.pc, pool |-> adaptor.pool, seen |-> adaptor.seen,
                    next |-> n, changed |-> adaptor.changed]
      /\ n \in Nat \ {0} /\ n + 1 \in Nat \ {0} /\ AdaptorOn(adaptor)
  BY <1>1, <1>2 DEF AdaptorInv, AdaptorShape
<1>4. /\ \A id \in Ids : adjusted[id] <= Len(adaptor.seen[id]) /\ Len(adaptor.seen[id]) <= Len(trades[id])
      /\ adaptor.seen \in Journals
  BY <1>3 DEF AdaptorOn
<1>5. Nobody \notin {"adaptor", "research"} /\ research.pc = "idle"
  BY <1>1, <1>2, PoolAssumption DEF TurnsInv, PoolAssumption
<1>6. \/ ~NewData /\ Advance(adaptor, FALSE)
      \/ NewData /\ ~waits /\ Advance(edited, TRUE)
      \/ NewData /\ waits /\ adaptor' = [edited EXCEPT !.pc = "notify"] /\ running' = Nobody
           /\ UNCHANGED adjusted
  BY DEF AdaptorDecide
<1>7. edited = [pc |-> "check", pool |-> pool, seen |-> adaptor.seen, next |-> n, changed |-> changed]
  <2> DEFINE edit == [adaptor EXCEPT !.pool = pool]
  <2>1. edited = [edit EXCEPT !.changed = changed]
    OBVIOUS
  <2> HIDE DEF pool, changed, edited, n
  <2>2. edit = [pc |-> "check", pool |-> pool, seen |-> adaptor.seen, next |-> n,
                changed |-> adaptor.changed]
    BY <1>2, <1>3
  <2> HIDE DEF edit
  <2> QED BY <2>1, <2>2
<1> HIDE DEF edited, changed, waits, n
<1>8. CASE ~NewData /\ Advance(adaptor, FALSE)
  <2>1. /\ adaptor' = [pc |-> "check", pool |-> adaptor.pool, seen |-> adaptor.seen,
                       next |-> n + 1, changed |-> adaptor.changed]
        /\ UNCHANGED adjusted /\ running' = "adaptor"
    <3> DEFINE next == [adaptor EXCEPT !.pc = "check"]
    <3>1. adaptor' = [next EXCEPT !.next = @ + 1] /\ UNCHANGED adjusted /\ running' = "adaptor"
      BY <1>8 DEF Advance
    <3>2. next = [pc |-> "check", pool |-> adaptor.pool, seen |-> adaptor.seen, next |-> n,
                  changed |-> adaptor.changed]
      BY <1>3
    <3> HIDE DEF next
    <3> QED BY <3>1, <3>2
  <2>2. AdaptorOn(adaptor)'
    BY <1>2, <1>3, <2>1 DEF AdaptorOn
  <2>3. adaptor.pool \in Seq(EntryType)
    BY <1>1 DEF AdaptorInv
  <2>4. AdaptorInv'
    BY <1>3, <2>1, <2>2, <2>3 DEF AdaptorInv, AdaptorShape
  <2>5. TurnsInv' /\ CountsInv'
    BY <1>1, <1>2, <1>5, <2>1, CountsLeftAlone DEF TurnsInv
  <2> QED BY <1>1, <1>2, <2>4, <2>5, FileLeftAlone, ResearchLeftAlone DEF TurnInv
<1>9. CASE NewData /\ ~waits /\ Advance(edited, TRUE)
  <2>1. /\ WellFormed(pool) /\ SameEntries(pool, file) /\ n \in 1 .. Len(pool)
        /\ pool[n].id = Current.id /\ Seen = adaptor.seen[Current.id]
        /\ \A i \in 1 .. Len(pool) : IF i = n THEN InBudget(pool[i], Len(adaptor.seen[pool[i].id]))
                                     ELSE InBudget(pool[i], adjusted[pool[i].id])
    BY <1>2, <1>9, DecidedOn DEF n
  <2> HIDE DEF pool
  <2>2. /\ adaptor' = [pc |-> "check", pool |-> pool, seen |-> adaptor.seen,
                       next |-> n + 1, changed |-> changed]
        /\ running' = "adaptor"
    BY <1>7, <1>9 DEF Advance
  <2>3. adjusted' = [adjusted EXCEPT ![pool[n].id] = Len(adaptor.seen[pool[n].id])]
    BY <1>9, <2>1 DEF Advance
  <2>4. CountsInv' /\ AdaptorInv'
    BY <1>1, <1>2, <1>3, <1>4, <2>1, <2>2, <2>3, CountedOn
  <2>5. TurnsInv'
    BY <1>1, <1>2, <1>5, <2>2 DEF TurnsInv
  <2> QED BY <1>1, <1>2, <2>4, <2>5, FileLeftAlone, ResearchLeftAlone DEF TurnInv
<1>10. CASE NewData /\ waits /\ adaptor' = [edited EXCEPT !.pc = "notify"] /\ running' = Nobody
              /\ UNCHANGED adjusted
  <2>1. /\ WellFormed(pool) /\ SameEntries(pool, file) /\ n \in 1 .. Len(pool)
        /\ \A i \in 1 .. Len(pool) : IF i = n THEN InBudget(pool[i], Len(adaptor.seen[pool[i].id]))
                                     ELSE InBudget(pool[i], adjusted[pool[i].id])
    BY <1>2, <1>10, DecidedOn DEF n
  <2> HIDE DEF pool
  <2>2. adaptor' = [pc |-> "notify", pool |-> pool, seen |-> adaptor.seen,
                    next |-> n, changed |-> changed]
    BY <1>7, <1>10
  <2>3. AdaptorOn(adaptor)'
    BY <1>2, <1>4, <1>10, <2>1, <2>2 DEF AdaptorOn
  <2>4. AdaptorInv'
    BY <1>3, <2>1, <2>2, <2>3 DEF AdaptorInv, AdaptorShape, WellFormed
  <2>5. Telegram
    BY <1>10 DEF waits
  <2>6. TurnsInv' /\ CountsInv'
    BY <1>1, <1>2, <1>5, <1>10, <2>2, <2>5, CountsLeftAlone DEF TurnsInv
  <2> QED BY <1>1, <1>2, <2>4, <2>6, FileLeftAlone, ResearchLeftAlone DEF TurnInv
<1> QED BY <1>6, <1>8, <1>9, <1>10

\* Telegram answered: the pruned entry is counted.
LEMMA AdaptorNotifiedInTurn ==
  ASSUME TurnInv, AdaptorNotified
  PROVE  TurnInv'
<1> DEFINE n == adaptor.next
           pool == adaptor.pool
<1>1. CountsInv /\ TurnsInv /\ FileInv /\ AdaptorInv /\ ResearchInv /\ cycles \in 0 .. MaxCycles
  BY DEF TurnInv
<1>2. /\ UNCHANGED <<file, active, trades, adjustedDisk, research, cycles>>
      /\ running = Nobody /\ adaptor.pc = "notify" /\ Advance(adaptor, TRUE)
  BY DEF AdaptorNotified
<1>3. /\ adaptor = [pc |-> adaptor.pc, pool |-> pool, seen |-> adaptor.seen,
                    next |-> n, changed |-> adaptor.changed]
      /\ n \in Nat \ {0} /\ n + 1 \in Nat \ {0} /\ AdaptorOn(adaptor)
  BY <1>1, <1>2 DEF AdaptorInv, AdaptorShape
<1>4. /\ WellFormed(pool) /\ SameEntries(pool, file) /\ adaptor.seen \in Journals
      /\ \A id \in Ids : adjusted[id] <= Len(adaptor.seen[id]) /\ Len(adaptor.seen[id]) <= Len(trades[id])
      /\ \A i \in 1 .. Len(pool) : IF i = n THEN InBudget(pool[i], Len(adaptor.seen[pool[i].id]))
                                   ELSE InBudget(pool[i], adjusted[pool[i].id])
      /\ n <= Len(pool)
  BY <1>2, <1>3 DEF AdaptorOn
<1>5. n \in 1 .. Len(pool)
  BY <1>3, <1>4, EntriesByPlace DEF WellFormed
<1>6. /\ adaptor' = [pc |-> "check", pool |-> pool, seen |-> adaptor.seen,
                     next |-> n + 1, changed |-> adaptor.changed]
      /\ running' = "adaptor"
      /\ adjusted' = [adjusted EXCEPT ![pool[n].id] = Len(adaptor.seen[pool[n].id])]
  BY <1>2, <1>3 DEF Advance, Current, Seen
<1> HIDE DEF n, pool
<1>7. CountsInv' /\ AdaptorInv'
  BY <1>1, <1>2, <1>3, <1>4, <1>5, <1>6, CountedOn
<1>8. TurnsInv'
  BY <1>1, <1>2, <1>6 DEF TurnsInv
<1> QED BY <1>1, <1>2, <1>7, <1>8, FileLeftAlone, ResearchLeftAlone DEF TurnInv

\* The adaptor's state is saved; its copy is written next, if anything changed.
LEMMA AdaptorSaveInTurn ==
  ASSUME TurnInv, AdaptorSave
  PROVE  TurnInv'
<1>1. CountsInv /\ TurnsInv /\ FileInv /\ AdaptorInv /\ ResearchInv /\ cycles \in 0 .. MaxCycles
  BY DEF TurnInv
<1>2. /\ UNCHANGED <<file, active, trades, adjusted, research, cycles>> /\ adjustedDisk' = adjusted
      /\ running = "adaptor" /\ adaptor.pc = "check"
  BY DEF AdaptorSave
<1>3. CountsInv'
  <2>1. \A id \in Ids : adjusted[id] \in Nat /\ adjusted[id] <= adjusted[id]
    BY <1>1 DEF CountsInv
  <2> QED BY <1>1, <1>2, <2>1 DEF CountsInv
<1>4. FileInv'
  <2>1. Within(file, adjusted)
    BY <1>1, WithinGrows DEF FileInv, CountsInv
  <2> QED BY <1>1, <1>2, <2>1 DEF FileInv, Within
<1>5. CASE adaptor.changed /\ adaptor' = [adaptor EXCEPT !.pc = "write"] /\ UNCHANGED running
  <2>1. AdaptorOn(adaptor) /\ AdaptorShape(adaptor)
    BY <1>1, <1>2 DEF AdaptorInv
  <2>2. adaptor' = [pc |-> "write", pool |-> adaptor.pool, seen |-> adaptor.seen,
                    next |-> adaptor.next, changed |-> adaptor.changed]
    BY <1>5, <2>1 DEF AdaptorShape
  <2>3. AdaptorOn(adaptor)'
    BY <1>2, <2>1, <2>2 DEF AdaptorOn
  <2>4. AdaptorInv'
    BY <1>1, <2>2, <2>3 DEF AdaptorInv, AdaptorShape
  <2>5. TurnsInv'
    BY <1>1, <1>2, <1>5, <2>2 DEF TurnsInv
  <2> QED BY <1>1, <1>2, <1>3, <1>4, <2>4, <2>5, ResearchLeftAlone DEF TurnInv
<1>6. CASE adaptor' = AdaptorIdle /\ running' = Nobody
  <2>1. AdaptorInv' /\ adaptor'.pc = "idle"
    BY <1>6, AdaptorReset
  <2>2. Nobody \notin {"adaptor", "research"}
    BY PoolAssumption DEF PoolAssumption
  <2>3. TurnsInv'
    BY <1>1, <1>2, <1>6, <2>1, <2>2 DEF TurnsInv
  <2> QED BY <1>1, <1>2, <1>3, <1>4, <2>1, <2>3, ResearchLeftAlone DEF TurnInv
<1> QED BY <1>5, <1>6 DEF AdaptorSave

\* The adaptor's copy, of the same entries, becomes the file and is loaded.
LEMMA AdaptorWriteInTurn ==
  ASSUME TurnInv, AdaptorWrite
  PROVE  TurnInv'
<1>1. CountsInv /\ TurnsInv /\ FileInv /\ AdaptorInv /\ ResearchInv /\ cycles \in 0 .. MaxCycles
  BY DEF TurnInv
<1>2. /\ UNCHANGED <<trades, adjusted, adjustedDisk, research, cycles>>
      /\ running = "adaptor" /\ adaptor.pc = "write" /\ running' = Nobody
      /\ file' = adaptor.pool /\ active' = Reload(adaptor.pool) /\ adaptor' = AdaptorIdle
  BY DEF AdaptorWrite
<1>3. AdaptorOn(adaptor)
  BY <1>1, <1>2 DEF AdaptorInv
<1>4. AdaptorInv' /\ adaptor'.pc = "idle"
  BY <1>2, AdaptorReset
<1>5. FileInv'
  <2>1. WellFormed(adaptor.pool) /\ SameEntries(adaptor.pool, file)
    BY <1>3 DEF AdaptorOn
  <2>2. Reload(adaptor.pool) = Loaded(adaptor.pool)
    BY <1>1, <2>1, ReloadIsLoad DEF FileInv, SameEntries
  <2>3. Within(adaptor.pool, adjustedDisk)
    BY <1>2, <1>3 DEF AdaptorOn, Within
  <2> QED BY <1>2, <2>1, <2>2, <2>3 DEF FileInv, Within
<1>6. TurnsInv' /\ research.pc = "idle"
  <2>1. Nobody \notin {"adaptor", "research"}
    BY PoolAssumption DEF PoolAssumption
  <2> QED BY <1>1, <1>2, <1>4, <2>1 DEF TurnsInv
<1> QED BY <1>1, <1>2, <1>4, <1>5, <1>6, CountsLeftAlone, ResearchStaysIdle DEF TurnInv

\* The pipeline's copy starts as the file, and its candidates are not in it.
LEMMA ResearchReadInTurn ==
  ASSUME WritersTakeTurns, TurnInv, NEW found \in SUBSET Signals, ResearchRead(found)
  PROVE  TurnInv'
<1>1. CountsInv /\ TurnsInv /\ FileInv /\ AdaptorInv /\ ResearchInv /\ cycles \in 0 .. MaxCycles
  BY DEF TurnInv
<1>2. /\ UNCHANGED <<file, active, trades, adjusted, adjustedDisk, adaptor>>
      /\ running = Nobody /\ research.pc = "idle" /\ (MayOverlap \/ adaptor.pc # "notify")
      /\ running' = "research" /\ cycles < MaxCycles /\ cycles' = cycles + 1
  BY DEF ResearchRead
<1>3. research' = [pc |-> "promote", pool |-> file, fresh |-> found \ SignalsOf(file), promoted |-> 0]
  BY DEF ResearchRead, ResearchIdle, ExistingSignals
<1>4. cycles' \in 0 .. MaxCycles
  BY <1>1, <1>2, PoolAssumption DEF PoolAssumption
<1>5. TurnsInv'
  <2>1. Nobody \notin {"adaptor", "research"}
    BY PoolAssumption DEF PoolAssumption
  <2>2. adaptor.pc = "idle"
    BY <1>1, <1>2, <2>1 DEF TurnsInv, WritersTakeTurns
  <2>3. research'.pc = "promote"
    BY <1>3
  <2> QED BY <1>1, <1>2, <2>1, <2>2, <2>3 DEF TurnsInv
<1>6. ResearchInv'
  <2>1. WellFormed(file) /\ file \in Seq(EntryType)
    BY <1>1 DEF FileInv, WellFormed
  <2>2. Grown(file, file)
    BY <2>1, EntriesByPlace DEF Grown
  <2>3. \A i \in 1 .. Len(file) : file[i].id[1] \in SignalsOf(file)
    BY <2>1, EntriesByPlace DEF SignalsOf
  <2>4. ResearchOn(research)'
    BY <1>2, <1>3, <2>1, <2>2, <2>3 DEF ResearchOn
  <2> QED BY <1>3, <2>1, <2>4 DEF ResearchInv, ResearchShape
<1> QED BY <1>1, <1>2, <1>4, <1>5, <1>6, CountsLeftAlone, FileLeftAlone, AdaptorLeftAlone DEF TurnInv

\* A promotion appends an entry of a signal the copy has not.
LEMMA PromoteInTurn ==
  ASSUME TurnInv, NEW signal \in Signals, Promote(signal)
  PROVE  TurnInv'
<1> DEFINE new == Entry(signal, cycles)
           old == research.pool
           pool == Append(research.pool, Entry(signal, cycles))
           pc == IF Telegram THEN "notify" ELSE "promote"
           fresh == research.fresh \ {signal}
<1>1. CountsInv /\ TurnsInv /\ FileInv /\ AdaptorInv /\ ResearchInv /\ cycles \in 0 .. MaxCycles
  BY DEF TurnInv
<1>2. /\ UNCHANGED <<file, active, trades, adjusted, adjustedDisk, adaptor, cycles>>
      /\ running = "research" /\ research.pc = "promote" /\ signal \in research.fresh
      /\ running' = IF Telegram THEN Nobody ELSE running
  BY DEF Promote
<1>3. /\ ResearchShape(research) /\ old \in Seq(EntryType) /\ WellFormed(old) /\ Grown(old, file)
      /\ research.fresh \subseteq Signals
      /\ \A i \in 1 .. Len(old) : old[i].id[1] \notin research.fresh
  BY <1>1, <1>2 DEF ResearchInv, ResearchOn
<1>4. research' = [pc |-> pc, pool |-> pool, fresh |-> fresh, promoted |-> research.promoted + 1]
  BY <1>2, <1>3 DEF Promote, ResearchShape
<1>5. new \in EntryType /\ new.id[1] = signal /\ new.size = InitialSize /\ new.enabled
  BY <1>1, PoolAssumption DEF PoolAssumption, Entry, EntryType, Ids
<1>6. /\ pool \in Seq(EntryType) /\ Len(pool) = Len(old) + 1 /\ Len(old) \in Nat /\ Len(file) \in Nat
      /\ pool[Len(pool)] = new /\ \A i \in 1 .. Len(old) : pool[i] = old[i]
  <2>1. Len(file) \in Nat
    BY <1>1, EntriesByPlace DEF FileInv, WellFormed
  <2> HIDE DEF new
  <2>2. pool = Append(old, new)
    BY DEF new
  <2> QED BY <1>3, <1>5, <2>1, <2>2
<1> HIDE DEF new, pool, old
<1>7. \A i \in 1 .. Len(pool) : i = Len(pool) \/ i \in 1 .. Len(old)
  BY <1>6
<1>8. WellFormed(pool)
  <2> SUFFICES ASSUME NEW i \in 1 .. Len(pool), NEW j \in 1 .. Len(pool), pool[i].id[1] = pool[j].id[1]
               PROVE  i = j
    BY <1>6 DEF WellFormed, Distinct
  <2>1. \A k \in 1 .. Len(old) : pool[k].id[1] # signal
    BY <1>2, <1>3, <1>6
  <2>2. pool[Len(pool)].id[1] = signal
    BY <1>5, <1>6
  <2>3. CASE i \in 1 .. Len(old) /\ j \in 1 .. Len(old)
    BY <1>3, <1>6, <2>3 DEF WellFormed, Distinct
  <2>4. CASE i = Len(pool) \/ j = Len(pool)
    BY <1>7, <2>1, <2>2, <2>4
  <2> QED BY <1>7, <2>3, <2>4
<1>9. Grown(pool, file)
  <2>1. Len(file) <= Len(old) /\ \A i \in 1 .. Len(file) : old[i] = file[i]
    BY <1>3 DEF Grown
  <2>2. \A i \in 1 .. Len(old) : i > Len(file) => old[i].size = InitialSize /\ old[i].enabled
    BY <1>3 DEF Grown
  <2> QED BY <1>5, <1>6, <1>7, <2>1, <2>2 DEF Grown
<1>10. \A i \in 1 .. Len(pool) : pool[i].id[1] \notin fresh
  BY <1>3, <1>5, <1>6, <1>7
<1>11. ResearchInv'
  <2>1. ResearchOn(research)'
    BY <1>2, <1>3, <1>4, <1>8, <1>9, <1>10 DEF ResearchOn
  <2> QED BY <1>4, <1>6, <2>1 DEF ResearchInv, ResearchShape
<1>12. TurnsInv'
  <2>1. Nobody \notin {"adaptor", "research"}
    BY PoolAssumption DEF PoolAssumption
  <2>2. research'.pc = IF Telegram THEN "notify" ELSE "promote"
    BY <1>4
  <2> QED BY <1>1, <1>2, <2>1, <2>2 DEF TurnsInv
<1> QED BY <1>1, <1>2, <1>11, <1>12, CountsLeftAlone, FileLeftAlone, AdaptorLeftAlone DEF TurnInv

\* Telegram answered: the pipeline goes on with its candidates.
LEMMA ResearchNotifiedInTurn ==
  ASSUME TurnInv, ResearchNotified
  PROVE  TurnInv'
<1>1. CountsInv /\ TurnsInv /\ FileInv /\ AdaptorInv /\ ResearchInv /\ cycles \in 0 .. MaxCycles
  BY DEF TurnInv
<1>2. /\ UNCHANGED <<file, active, trades, adjusted, adjustedDisk, adaptor, cycles>>
      /\ running = Nobody /\ research.pc = "notify" /\ running' = "research"
      /\ research' = [research EXCEPT !.pc = "promote"]
  BY DEF ResearchNotified
<1>3. ResearchShape(research) /\ ResearchOn(research) /\ research.pool \in Seq(EntryType)
  BY <1>1, <1>2 DEF ResearchInv
<1>4. research' = [pc |-> "promote", pool |-> research.pool, fresh |-> research.fresh,
                   promoted |-> research.promoted]
  BY <1>2, <1>3 DEF ResearchShape
<1>5. ResearchInv'
  BY <1>2, <1>3, <1>4 DEF ResearchInv, ResearchShape, ResearchOn
<1>6. TurnsInv'
  BY <1>1, <1>2, <1>4 DEF TurnsInv
<1> QED BY <1>1, <1>2, <1>5, <1>6, CountsLeftAlone, FileLeftAlone, AdaptorLeftAlone DEF TurnInv

\* The pipeline's copy, the file with its promotions, becomes the file and is loaded.
LEMMA ResearchWriteInTurn ==
  ASSUME TurnInv, ResearchWrite
  PROVE  TurnInv'
<1> DEFINE pool == research.pool
<1>1. CountsInv /\ TurnsInv /\ FileInv /\ AdaptorInv /\ ResearchInv /\ cycles \in 0 .. MaxCycles
  BY DEF TurnInv
<1>2. /\ UNCHANGED <<trades, adjusted, adjustedDisk, adaptor, cycles>>
      /\ running = "research" /\ research.pc = "promote" /\ running' = Nobody
      /\ research' = ResearchIdle
      /\ \/ file' = pool /\ active' = Reload(pool)
         \/ UNCHANGED <<file, active>>
  BY DEF ResearchWrite
<1>3. ResearchInv' /\ research'.pc = "idle"
  BY <1>2, ResearchReset
<1>4. TurnsInv' /\ adaptor.pc = "idle"
  <2>1. Nobody \notin {"adaptor", "research"}
    BY PoolAssumption DEF PoolAssumption
  <2> QED BY <1>1, <1>2, <1>3, <2>1 DEF TurnsInv
<1>5. FileInv'
  <2>1. CASE UNCHANGED <<file, active>>
    BY <1>1, <1>2, <2>1, FileLeftAlone
  <2>2. CASE file' = pool /\ active' = Reload(pool)
    <3>1. WellFormed(pool) /\ Grown(pool, file)
      BY <1>1, <1>2 DEF ResearchInv, ResearchOn
    <3>2. /\ Len(file) \in Nat /\ Len(pool) \in Nat /\ Len(file) <= Len(pool)
          /\ \A i \in 1 .. Len(file) : pool[i] = file[i]
          /\ \A i \in 1 .. Len(pool) : i > Len(file) => pool[i].size = InitialSize
      BY <1>1, <3>1, EntriesByPlace DEF FileInv, WellFormed, Grown
    <3>3. \A i \in 1 .. Len(file) : \E j \in 1 .. Len(pool) : pool[j].id = file[i].id
      <4> SUFFICES ASSUME NEW i \in 1 .. Len(file)
                   PROVE  i \in 1 .. Len(pool) /\ pool[i].id = file[i].id
        OBVIOUS
      <4> QED BY <3>2
    <3>4. Reload(pool) = Loaded(pool)
      BY <1>1, <3>1, <3>3, ReloadIsLoad DEF FileInv
    <3>5. ASSUME NEW i \in 1 .. Len(pool) PROVE InBudget(pool[i], adjustedDisk[pool[i].id])
      <4>1. pool[i].id \in Ids
        BY <3>1, EntriesByPlace DEF WellFormed, EntryType
      <4>2. adjustedDisk[pool[i].id] \in Nat
        BY <1>1, <4>1 DEF CountsInv
      <4>3. CASE i <= Len(file)
        <5>1. i \in 1 .. Len(file) /\ pool[i] = file[i]
          BY <3>2, <4>3
        <5> QED BY <1>1, <5>1 DEF FileInv, Within
      <4>4. CASE i > Len(file)
        BY <3>2, <4>2, <4>4, InitialInBudget
      <4> QED BY <3>2, <4>3, <4>4
    <3> QED BY <1>2, <2>2, <3>1, <3>4, <3>5 DEF FileInv, Within
  <2> QED BY <1>2, <2>1, <2>2
<1> QED BY <1>1, <1>2, <1>3, <1>4, <1>5, CountsLeftAlone, AdaptorStaysIdle DEF TurnInv

\* A restart loads the two files; what was under way is gone.
LEMMA CrashInTurn ==
  ASSUME TurnInv, Crash
  PROVE  TurnInv'
<1>1. CountsInv /\ FileInv /\ cycles \in 0 .. MaxCycles
  BY DEF TurnInv
<1>2. /\ UNCHANGED <<file, trades, adjustedDisk, cycles>> /\ active' = Loaded(file)
      /\ adjusted' = adjustedDisk /\ adaptor' = AdaptorIdle /\ research' = ResearchIdle
      /\ running' = Nobody
  BY DEF Crash
<1>3. /\ AdaptorInv' /\ adaptor'.pc = "idle" /\ ResearchInv' /\ research'.pc = "idle"
  BY <1>2, AdaptorReset, ResearchReset
<1>4. CountsInv'
  <2> SUFFICES ASSUME NEW id \in Ids
               PROVE  adjustedDisk[id] <= adjustedDisk[id] /\ adjustedDisk[id] <= Len(trades[id])
    BY <1>1, <1>2 DEF CountsInv
  <2>1. /\ adjustedDisk[id] \in Nat /\ adjusted[id] \in Nat /\ Len(trades[id]) \in Nat
        /\ adjustedDisk[id] <= adjusted[id] /\ adjusted[id] <= Len(trades[id])
    BY <1>1 DEF CountsInv, Journals
  <2> QED BY <2>1
<1>5. TurnsInv'
  BY <1>2, <1>3, PoolAssumption DEF TurnsInv, PoolAssumption
<1>6. FileInv'
  BY <1>1, <1>2 DEF FileInv
<1> QED BY <1>1, <1>2, <1>3, <1>4, <1>5, <1>6 DEF TurnInv

\* Every step of writers that take turns keeps the invariant.
LEMMA StepInTurn == WritersTakeTurns /\ TurnInv /\ [Next]_vars => TurnInv'
<1> SUFFICES ASSUME WritersTakeTurns, TurnInv, [Next]_vars PROVE TurnInv'
  OBVIOUS
<1>1. CASE UNCHANGED vars
  <2>1. CountsInv' /\ TurnsInv' /\ cycles' \in 0 .. MaxCycles
    BY <1>1, CountsLeftAlone DEF vars, TurnInv, TurnsInv
  <2> QED BY <1>1, <2>1, FileLeftAlone, AdaptorLeftAlone, ResearchLeftAlone DEF vars, TurnInv
<1> QED
  BY <1>1, TradeClosesInTurn, AdaptorReadInTurn, AdaptorDecideInTurn, AdaptorNotifiedInTurn,
     AdaptorSaveInTurn, AdaptorWriteInTurn, ResearchReadInTurn, PromoteInTurn,
     ResearchNotifiedInTurn, ResearchWriteInTurn, CrashInTurn DEF Next

\* Where no writer reads the file while the other awaits Telegram, runner and file
\* agree, a signal has one entry, and a size has moved one step at most per trade,
\* for every pool, every history of trades and any number of crashes (reloadPool,
\* existingKeys, lastAdjustedTradeCount).
THEOREM PoolIsAlwaysSound == WritersTakeTurns => (Spec => []PoolIsSound)
<1> SUFFICES ASSUME WritersTakeTurns PROVE Spec => []PoolIsSound
  OBVIOUS
<1>1. TurnInv /\ [Next]_vars => TurnInv'
  BY StepInTurn
<1> QED BY <1>1, InitTurn, TurnsAreSound, PTL DEF Spec

-----------------------------------------------------------------------------
(* Prunes.                                                                  *)

\* The pruned of a file, by their places; none of them is loaded.
LEMMA PrunedByPlace ==
  ASSUME NEW f, WellFormed(f)
  PROVE  /\ \A id : id \in PrunedIn(f) <=> \E i \in 1 .. Len(f) : ~f[i].enabled /\ f[i].id = id
         /\ PrunedIn(f) \intersect DOMAIN Loaded(f) = {}
<1>1. \A id : id \in PrunedIn(f) <=> \E i \in 1 .. Len(f) : ~f[i].enabled /\ f[i].id = id
  BY EntriesByPlace DEF WellFormed, PrunedIn
<1>2. ASSUME NEW id \in PrunedIn(f), id \in DOMAIN Loaded(f) PROVE FALSE
  <2>1. PICK i \in 1 .. Len(f) : ~f[i].enabled /\ f[i].id = id
    BY <1>1, <1>2
  <2>2. PICK j \in 1 .. Len(f) : f[j].enabled /\ f[j].id = id
    BY <1>2, LoadedByPlace
  <2>3. i = j
    BY <2>1, <2>2, DistinctIds
  <2> QED BY <2>1, <2>2, <2>3
<1> QED BY <1>1, <1>2

\* A file that still has every pruned entry, still pruned, and is the one that is
\* loaded, takes none of them back.
LEMMA PrunesAreKept ==
  ASSUME WellFormed(file), WellFormed(file'), active' = Loaded(file'),
         \A i \in 1 .. Len(file) : /\ i \in 1 .. Len(file') /\ file'[i].id = file[i].id
                                   /\ file'[i].enabled => file[i].enabled
  PROVE  PrunedIn(file) \subseteq PrunedIn(file') /\ PrunedIn(file) \intersect DOMAIN active' = {}
<1> DEFINE f == file'
<1>1. PrunedIn(file) \subseteq PrunedIn(f)
  <2> SUFFICES ASSUME NEW id \in PrunedIn(file) PROVE id \in PrunedIn(f)
    OBVIOUS
  <2>1. PICK i \in 1 .. Len(file) : ~file[i].enabled /\ file[i].id = id
    BY PrunedByPlace
  <2>2. i \in 1 .. Len(f) /\ ~f[i].enabled /\ f[i].id = id
    BY <2>1
  <2> HIDE DEF f
  <2>3. WellFormed(f)
    BY DEF f
  <2> QED BY <2>2, <2>3, PrunedByPlace
<1>2. PrunedIn(f) \intersect DOMAIN Loaded(f) = {}
  <2>1. WellFormed(f)
    OBVIOUS
  <2> HIDE DEF f
  <2> QED BY <2>1, PrunedByPlace
<1>3. active' = Loaded(f)
  OBVIOUS
<1> HIDE DEF f
<1>4. PrunedIn(file) \intersect DOMAIN active' = {}
  BY <1>1, <1>2, <1>3
<1> QED BY <1>1, <1>4 DEF f

\* No step takes a prune back.
LEMMA StepKeepsPrunes ==
  ASSUME TurnInv, TurnInv', Next
  PROVE  PrunedIn(file) \subseteq PrunedIn(file') /\ PrunedIn(file) \intersect DOMAIN active' = {}
<1>1. /\ WellFormed(file) /\ WellFormed(file') /\ active' = Loaded(file') /\ active = Loaded(file)
      /\ Len(file) \in Nat
  <2>1. WellFormed(file) /\ active = Loaded(file)
    BY DEF TurnInv, FileInv
  <2>2. WellFormed(file') /\ active' = Loaded(file')
    BY DEF TurnInv, FileInv
  <2> QED BY <2>1, <2>2, EntriesByPlace DEF WellFormed
<1>2. CASE UNCHANGED file
  BY <1>1, <1>2, PrunesAreKept
<1>3. CASE AdaptorWrite
  <2>1. file' = adaptor.pool /\ SameEntries(adaptor.pool, file)
    BY <1>3 DEF AdaptorWrite, TurnInv, AdaptorInv, AdaptorOn
  <2> QED BY <1>1, <2>1, PrunesAreKept DEF SameEntries
<1>4. CASE ResearchWrite /\ file' = research.pool
  <2>1. Grown(research.pool, file) /\ Len(research.pool) \in Nat
    BY <1>4 DEF ResearchWrite, TurnInv, ResearchInv, ResearchOn
  <2>2. Len(file) <= Len(file') /\ Len(file') \in Nat /\ \A i \in 1 .. Len(file) : file'[i] = file[i]
    BY <1>4, <2>1 DEF Grown
  <2> QED BY <1>1, <2>2, PrunesAreKept
<1>5. \/ UNCHANGED file
      \/ AdaptorWrite
      \/ ResearchWrite /\ file' = research.pool
  <2>1. UNCHANGED file \/ AdaptorWrite \/ ResearchWrite
    BY DEF Next, TradeCloses, AdaptorRead, AdaptorDecide, AdaptorNotified, AdaptorSave,
           ResearchRead, Promote, ResearchNotified, Crash
  <2> QED BY <2>1 DEF ResearchWrite
<1> QED BY <1>2, <1>3, <1>4, <1>5

\* Where no writer reads the file while the other awaits Telegram, a prune is
\* permanent in the file and in the runner (pnl-adaptor.ts:18); the overlap that
\* breaks it is one of the runs.
THEOREM PrunesArePermanent == WritersTakeTurns => (Spec => PruneIsPermanent)
<1> SUFFICES ASSUME WritersTakeTurns PROVE Spec => PruneIsPermanent
  OBVIOUS
<1>1. TurnInv /\ [Next]_vars => TurnInv'
  BY StepInTurn
<1>2. TurnInv /\ TurnInv' /\ [Next]_vars
        => [/\ PrunedIn(file) \subseteq PrunedIn(file')
            /\ PrunedIn(file) \intersect DOMAIN active' = {}]_vars
  BY StepKeepsPrunes
<1> QED BY <1>1, <1>2, InitTurn, PTL DEF Spec, PruneIsPermanent
-----------------------------------------------------------------------------
(* The chat's paper positions.                                              *)

PaperRequest == [symbol : PaperSymbols, direction : {"long", "short"}]
PaperPosition ==
  [symbol : PaperSymbols, direction : {"long", "short"}, qty : {1}, entry : PaperPrices,
   stop : Int, target : Int, closed : PaperPrices \union {None},
   reason : {"none", "stop", "target", "manual"}]

\* An open position has no reason yet: the one it is given is that of its close.
PaperInv ==
  /\ paperLatest \in [PaperSymbols -> PaperPrices \union {None}]
  /\ paperOpening \in [PaperCallers -> PaperRequest \union {None}]
  /\ paperPositions \in Seq(PaperPosition)
  /\ \A i \in DOMAIN paperPositions :
       paperPositions[i].closed = None => paperPositions[i].reason = "none"

\* What a step may do to a position.
KeepsResult(p, q) ==
  /\ ~Paper!IsOpen(p) => q = p
  /\ Paper!IsOpen(p) /\ q.reason = "stop" => Paper!HitsStop(p, q.closed)
  /\ Paper!IsOpen(p) /\ q.reason = "target" =>
       Paper!HitsTarget(p, q.closed) /\ ~Paper!HitsStop(p, q.closed)

LEMMA PaperAssumed ==
  PaperPrices \subseteq Nat \ {0} /\ PaperOffset \in Nat /\ None \notin Int
BY BundleAssumption DEF Paper!PaperAssumption

\* A position that a step leaves in the place of another.
Follows(p, q) ==
  q \in PaperPosition /\ KeepsResult(p, q) /\ (q.closed = None => q.reason = "none")

Remarked(p, price) ==
  IF price # None /\ Paper!ExitReason(p, price) # "none"
  THEN Paper!ClosedAt(p, price, Paper!ExitReason(p, price)) ELSE p

LEMMA ClosingFollows ==
  ASSUME NEW p \in PaperPosition, Paper!IsOpen(p), NEW price \in PaperPrices,
         NEW why \in {"stop", "target", "manual"},
         why = "stop" => Paper!HitsStop(p, price),
         why = "target" => Paper!HitsTarget(p, price) /\ ~Paper!HitsStop(p, price)
  PROVE  Follows(p, Paper!ClosedAt(p, price, why))
<1> DEFINE q == [p EXCEPT !.closed = price, !.reason = why]
<1>1. q \in PaperPosition /\ q.closed = price /\ q.reason = why
  BY DEF PaperPosition
<1>2. q = Paper!ClosedAt(p, price, why)
  BY DEF Paper!ClosedAt
<1>3. price # None
  BY PaperAssumed
<1> HIDE DEF q
<1>4. KeepsResult(p, q)
  BY <1>1 DEF KeepsResult
<1> QED BY <1>1, <1>2, <1>3, <1>4 DEF Follows

\* A position is closed as its price decides, and otherwise left alone.
LEMMA RemarkedFollows ==
  ASSUME NEW p \in PaperPosition, p.closed = None => p.reason = "none",
         NEW price \in PaperPrices \union {None}
  PROVE  Follows(p, Remarked(p, price))
<1>1. CASE price = None \/ Paper!ExitReason(p, price) = "none"
  <2>1. Remarked(p, price) = p
    BY <1>1 DEF Remarked
  <2>2. Follows(p, p)
    BY DEF Follows, KeepsResult, Paper!IsOpen
  <2> QED BY <2>1, <2>2
<1>2. CASE price # None /\ Paper!ExitReason(p, price) # "none"
  <2> DEFINE why == Paper!ExitReason(p, price)
  <2>1. /\ Paper!IsOpen(p) /\ price \in PaperPrices
        /\ \/ why = "stop" /\ Paper!HitsStop(p, price)
           \/ why = "target" /\ Paper!HitsTarget(p, price) /\ ~Paper!HitsStop(p, price)
    BY <1>2 DEF Paper!ExitReason
  <2>2. Remarked(p, price) = Paper!ClosedAt(p, price, why)
    BY <1>2 DEF Remarked
  <2> HIDE DEF why
  <2>3. Follows(p, Paper!ClosedAt(p, price, why))
    BY <2>1, ClosingFollows
  <2> QED BY <2>2, <2>3
<1> QED BY <1>1, <1>2

\* A position that is left alone keeps what it is.
LEMMA SameKeepsResult ==
  ASSUME NEW p, p.closed = None => p.reason = "none"
  PROVE  KeepsResult(p, p)
BY DEF KeepsResult, Paper!IsOpen

LEMMA PaperInit == Paper!Init => PaperInv
<1> SUFFICES ASSUME Paper!Init PROVE PaperInv
  OBVIOUS
<1>1. paperPositions = <<>>
  BY DEF Paper!Init
<1> QED BY <1>1 DEF Paper!Init, PaperInv

\* Every position there was keeps its result.
AllKept ==
  \A i \in DOMAIN paperPositions : KeepsResult(paperPositions[i], paperPositions'[i])

LEMMA PaperUntouched == PaperInv /\ UNCHANGED paperPositions => AllKept
BY SameKeepsResult DEF PaperInv, AllKept

\* Positions replaced one for one.
LEMMA PaperReplaced ==
  ASSUME PaperInv, UNCHANGED <<paperLatest, paperOpening>>,
         NEW f \in [DOMAIN paperPositions -> PaperPosition], paperPositions' = f,
         \A i \in DOMAIN paperPositions : Follows(paperPositions[i], f[i])
  PROVE  PaperInv' /\ AllKept
<1>1. f \in Seq(PaperPosition) /\ DOMAIN f = DOMAIN paperPositions
  BY DEF PaperInv
<1> QED BY <1>1 DEF PaperInv, AllKept, Follows

\* The price that was awaited is there: the position joins the others.
LEMMA PaperOpened ==
  ASSUME PaperInv, NEW c \in PaperCallers, Paper!Opened(c)
  PROVE  PaperInv' /\ AllKept
<1>1. /\ paperOpening[c] \in PaperRequest
      /\ paperLatest[paperOpening[c].symbol] \in PaperPrices
  BY DEF PaperInv, Paper!Opened, PaperRequest
<1> DEFINE r == paperOpening[c]
<1>2. PICK expected \in PaperPrices :
        paperPositions' = Append(paperPositions,
          [symbol |-> r.symbol, direction |-> r.direction, qty |-> 1,
           entry |-> paperLatest[r.symbol],
           stop |-> expected - Paper!Sign(r.direction) * PaperOffset,
           target |-> expected + Paper!Sign(r.direction) * PaperOffset,
           closed |-> None, reason |-> "none"])
  BY DEF Paper!Opened
<1> DEFINE stop == expected - Paper!Sign(r.direction) * PaperOffset
           target == expected + Paper!Sign(r.direction) * PaperOffset
           new == [symbol |-> r.symbol, direction |-> r.direction, qty |-> 1,
                   entry |-> paperLatest[r.symbol], stop |-> stop, target |-> target,
                   closed |-> None, reason |-> "none"]
<1>3. stop \in Int /\ target \in Int
  <2>1. Paper!Sign(r.direction) \in {1, -1} /\ expected \in Int /\ PaperOffset \in Int
    BY PaperAssumed DEF Paper!Sign
  <2> QED BY <2>1
<1>4. r.symbol \in PaperSymbols /\ r.direction \in {"long", "short"}
  BY <1>1 DEF PaperRequest
<1>5. new \in PaperPosition
  <2> HIDE DEF stop, target, r
  <2> QED BY <1>1, <1>3, <1>4 DEF PaperPosition, r
<1>6. /\ paperPositions' = Append(paperPositions, new)
      /\ new.closed = None /\ new.reason = "none"
  BY <1>2
<1> HIDE DEF new
<1>7. paperPositions' \in Seq(PaperPosition)
  BY <1>5, <1>6 DEF PaperInv
<1>8. \A i \in DOMAIN paperPositions' :
        \/ i \in DOMAIN paperPositions /\ paperPositions'[i] = paperPositions[i]
        \/ paperPositions'[i] = new
  BY <1>6 DEF PaperInv
<1>9. /\ \A i \in DOMAIN paperPositions' :
           paperPositions'[i].closed = None => paperPositions'[i].reason = "none"
      /\ \A i \in DOMAIN paperPositions : paperPositions'[i] = paperPositions[i]
  BY <1>6, <1>8 DEF PaperInv
<1>10. paperOpening' \in [PaperCallers -> PaperRequest \union {None}] /\ paperLatest' = paperLatest
  BY DEF Paper!Opened, PaperInv
<1> QED BY <1>7, <1>9, <1>10, SameKeepsResult DEF PaperInv, AllKept

LEMMA PaperStep == PaperInv /\ [Paper!Next]_paperVars => PaperInv' /\ AllKept
<1> SUFFICES ASSUME PaperInv, [Paper!Next]_paperVars PROVE PaperInv' /\ AllKept
  OBVIOUS
<1>1. CASE UNCHANGED paperVars
  BY <1>1, PaperUntouched DEF paperVars, PaperInv
<1>2. ASSUME NEW s \in PaperSymbols, NEW p \in PaperPrices \union {None}, Paper!Tick(s, p)
      PROVE  PaperInv' /\ AllKept
  BY <1>2, PaperUntouched DEF Paper!Tick, PaperInv
<1>3. ASSUME NEW c \in PaperCallers, NEW s \in PaperSymbols, NEW d \in {"long", "short"},
             Paper!Open(c, s, d)
      PROVE  PaperInv' /\ AllKept
  <2>1. [symbol |-> s, direction |-> d] \in PaperRequest
    BY DEF PaperRequest
  <2> QED BY <1>3, <2>1, PaperUntouched DEF Paper!Open, PaperInv
<1>4. ASSUME NEW c \in PaperCallers, Paper!OpenFails(c)
      PROVE  PaperInv' /\ AllKept
  BY <1>4, PaperUntouched DEF Paper!OpenFails, PaperInv
<1>5. CASE Paper!List
  <2>1. /\ UNCHANGED <<paperLatest, paperOpening>> /\ paperPositions' = Paper!Marked
        /\ Paper!Marked = [i \in DOMAIN paperPositions |->
             Remarked(paperPositions[i], paperLatest[paperPositions[i].symbol])]
    BY <1>5 DEF Paper!List, Paper!Marked, Remarked
  <2>2. ASSUME NEW i \in DOMAIN paperPositions
        PROVE  Follows(paperPositions[i], Paper!Marked[i])
    <3> DEFINE p == paperPositions[i]
    <3>1. p \in PaperPosition /\ (p.closed = None => p.reason = "none")
      BY DEF PaperInv
    <3>2. paperLatest[p.symbol] \in PaperPrices \union {None}
      BY <3>1 DEF PaperInv, PaperPosition
    <3>3. Paper!Marked[i] = Remarked(p, paperLatest[p.symbol])
      BY <2>1
    <3> HIDE DEF p
    <3>4. Follows(p, Paper!Marked[i])
      BY <3>1, <3>2, <3>3, RemarkedFollows
    <3> QED BY <3>4 DEF p
  <2>3. Paper!Marked \in [DOMAIN paperPositions -> PaperPosition]
    BY <2>1, <2>2 DEF Follows
  <2> QED BY <2>1, <2>2, <2>3, PaperReplaced
<1>6. ASSUME NEW i \in DOMAIN paperPositions, Paper!Close(i)
      PROVE  PaperInv' /\ AllKept
  <2> DEFINE p == paperPositions[i]
             q == Paper!ClosedAt(p, paperLatest[p.symbol], "manual")
             f == [paperPositions EXCEPT ![i] = q]
  <2>1. /\ UNCHANGED <<paperLatest, paperOpening>> /\ paperPositions' = f
        /\ Paper!IsOpen(p) /\ paperLatest[p.symbol] # None
    BY <1>6 DEF Paper!Close, Paper!OpenPosition
  <2>2. p \in PaperPosition
    BY DEF PaperInv
  <2>3. paperLatest[p.symbol] \in PaperPrices
    BY <2>1, <2>2 DEF PaperInv, PaperPosition
  <2>4. Follows(p, q)
    BY <2>1, <2>2, <2>3, ClosingFollows
  <2> HIDE DEF q
  <2>5. f \in [DOMAIN paperPositions -> PaperPosition]
    BY <2>4 DEF PaperInv, Follows
  <2>6. \A j \in DOMAIN paperPositions : f[j] = IF j = i THEN q ELSE paperPositions[j]
    OBVIOUS
  <2> HIDE DEF f
  <2>7. \A j \in DOMAIN paperPositions : Follows(paperPositions[j], f[j])
    BY <2>4, <2>6, SameKeepsResult DEF PaperInv, Follows
  <2> QED BY <2>1, <2>5, <2>7, PaperReplaced
<1> QED
  BY <1>1, <1>2, <1>3, <1>4, <1>5, <1>6, PaperOpened DEF Paper!Next

\* The record of a closed paper position never changes, and what a stop or a target
\* closed lies at or past it, for every symbol, price, caller and order of opens,
\* ticks and lists (exchange/paper-trading.ts markToMarket and close).
THEOREM ResultsAreAlwaysFinal == BundleSpec => ResultsAreFinal
<1>1. BundleInit => PaperInv
  BY PaperInit DEF BundleInit
<1>2. [BundleNext]_bundle => [Paper!Next]_paperVars
  BY DEF BundleNext, bundle
<1>3. PaperInv /\ [BundleNext]_bundle => PaperInv'
  BY <1>2, PaperStep
<1>4. PaperInv /\ [BundleNext]_bundle
        => [\A i \in DOMAIN paperPositions :
              /\ ~Paper!IsOpen(paperPositions[i]) => paperPositions'[i] = paperPositions[i]
              /\ Paper!IsOpen(paperPositions[i]) /\ paperPositions'[i].reason = "stop"
                   => Paper!HitsStop(paperPositions[i], paperPositions'[i].closed)
              /\ Paper!IsOpen(paperPositions[i]) /\ paperPositions'[i].reason = "target"
                   => Paper!HitsTarget(paperPositions[i], paperPositions'[i].closed)
                      /\ ~Paper!HitsStop(paperPositions[i], paperPositions'[i].closed)]_(Paper!vars)
  BY <1>2, PaperStep DEF AllKept, KeepsResult, paperVars, Paper!vars
<1> QED BY <1>1, <1>3, <1>4, PTL DEF BundleSpec, ResultsAreFinal, Paper!ResultsAreFinal

-----------------------------------------------------------------------------
(* The futures agent: its books.                                            *)

AgentOrder ==
  [symbol : AgentSymbols, direction : {"long", "short"}, qty : Nat, entry : AgentPrices,
   stop : Int \union {None}, target : Int \union {None}]
AgentPosition ==
  [symbol : AgentSymbols, direction : {"long", "short"}, qty : Nat, entry : AgentPrices,
   stop : Int \union {None}, target : Int \union {None},
   closed : AgentPrices \union {None}, reason : {"none", "stop", "target", "manual"}]

\* What each position has brought in, and cost.
ResultsOf(ps) == [i \in DOMAIN ps |-> Agent!Result(ps[i])]
FeesOf(ps) == [i \in DOMAIN ps |-> Agent!Commission(ps[i])]
Balanced(ps, gains, money) ==
  gains = SumOf(ResultsOf(ps)) /\ money = AgentCapital + gains - SumOf(FeesOf(ps))

FilledIn(keys) == {k \in DOMAIN keys : keys[k] = "filled"}

BooksInv ==
  /\ agentPositions \in Seq(AgentPosition)
  /\ agentCash \in Int /\ agentRealizedPnl \in Int
  /\ Balanced(agentPositions, agentRealizedPnl, agentCash)
  /\ IsFiniteSet(DOMAIN agentProcessedKeys)
  /\ Cardinality(FilledIn(agentProcessedKeys)) = Len(agentPositions)

LEMMA AgentAssumed ==
  /\ AgentPrices \subseteq Nat \ {0} /\ AgentQuantities \subseteq Nat
  /\ AgentCapital \in Nat \ {0} /\ AgentLeverage \in Nat \ {0} /\ AgentStopPct \in Nat \ {0}
  /\ AgentRiskPct \in 1 .. 100 /\ AgentUtilizationPct \in 1 .. 100 /\ AgentCommissionPct \in Nat
  /\ AgentKeys \intersect Int = {} /\ AgentOffset \in Nat
  /\ None \notin Int
BY BundleAssumption DEF Agent!AgentAssumption

LEMMA PricesArePositive == \A x \in AgentPrices : x \in Nat /\ x # 0 /\ x # None
BY AgentAssumed

LEMMA AgentTotalIsSum == ASSUME NEW m PROVE Agent!Total(m) = SumOf(m)
BY DEF Agent!Total, SumOf, FoldLeft, MapThenFoldSet, Max, Agent!FoldLeft, Agent!MapThenFoldSet,
       Agent!Max

LEMMA PnlIsInt ==
  ASSUME NEW p \in AgentPosition, NEW price \in Int
  PROVE  Agent!Pnl(p, price) \in Int
<1>1. p.entry \in AgentPrices /\ p.qty \in Int /\ Agent!Sign(p.direction) \in Int
  BY DEF AgentPosition, Agent!Sign
<1>2. price - p.entry \in Int
  BY <1>1, PricesArePositive
<1> QED BY <1>1, <1>2 DEF Agent!Pnl

LEMMA CommissionIsInt ==
  ASSUME NEW qty \in Nat, NEW entry \in AgentPrices, NEW o, o.qty = qty, o.entry = entry
  PROVE  Agent!Commission(o) \in Nat /\ Agent!Notional(o) \in Nat
<1>1. qty * entry \in Nat /\ AgentCommissionPct \in Nat
  BY AgentAssumed
<1>2. (qty * entry) * AgentCommissionPct \in Nat
  BY <1>1
<1> DEFINE n == (qty * entry) * AgentCommissionPct
<1> HIDE DEF n
<1>3. n \div 100 \in Nat
  BY <1>2 DEF n
<1> QED BY <1>1, <1>3 DEF Agent!Commission, Agent!Notional, n

\* A position pays what its order pays.
LEMMA SameFee ==
  ASSUME NEW p, NEW q, p.qty = q.qty, p.entry = q.entry
  PROVE  Agent!Commission(p) = Agent!Commission(q)
BY DEF Agent!Commission, Agent!Notional

LEMMA ResultIsInt ==
  ASSUME NEW p \in AgentPosition
  PROVE  Agent!Result(p) \in Int /\ Agent!Commission(p) \in Int
<1>1. Agent!Commission(p) \in Nat
  BY CommissionIsInt DEF AgentPosition
<1>2. CASE p.closed = None
  <2>1. Agent!Result(p) = 0
    BY <1>2 DEF Agent!Result, Agent!IsOpen
  <2> QED BY <1>1, <2>1
<1>3. CASE p.closed # None
  <2>1. p.closed \in AgentPrices
    BY <1>3 DEF AgentPosition
  <2>2. Agent!Result(p) = Agent!Pnl(p, p.closed)
    BY <1>3 DEF Agent!Result, Agent!IsOpen
  <2>3. p.closed \in Int
    BY <2>1, PricesArePositive
  <2> QED BY <1>1, <2>2, <2>3, PnlIsInt
<1> QED BY <1>2, <1>3

LEMMA ListsAreInts ==
  ASSUME NEW ps \in Seq(AgentPosition)
  PROVE  /\ Len(ps) \in Nat /\ DOMAIN ps = 1 .. Len(ps)
         /\ ResultsOf(ps) \in [1 .. Len(ps) -> Int] /\ FeesOf(ps) \in [1 .. Len(ps) -> Int]
<1>1. Len(ps) \in Nat /\ DOMAIN ps = 1 .. Len(ps) /\ \A i \in 1 .. Len(ps) : ps[i] \in AgentPosition
  OBVIOUS
<1>2. \A i \in 1 .. Len(ps) : Agent!Result(ps[i]) \in Int /\ Agent!Commission(ps[i]) \in Int
  BY <1>1, ResultIsInt
<1> QED BY <1>1, <1>2 DEF ResultsOf, FeesOf

\* A new position has brought nothing in yet and has paid its commission.
LEMMA BalancedAppend ==
  ASSUME NEW ps \in Seq(AgentPosition), NEW p \in AgentPosition, p.closed = None,
         NEW gains \in Int, NEW money \in Int, Balanced(ps, gains, money)
  PROVE  Balanced(Append(ps, p), gains, money - Agent!Commission(p))
<1> DEFINE n == Len(ps)
           all == Append(ps, p)
<1>1. /\ n \in Nat /\ all \in Seq(AgentPosition) /\ Len(all) = n + 1 /\ DOMAIN all = 1 .. n + 1
      /\ DOMAIN ps = 1 .. n /\ n + 1 \in 1 .. n + 1
      /\ all[n + 1] = p /\ \A i \in 1 .. n : all[i] = ps[i] /\ i \in 1 .. n + 1
  OBVIOUS
<1> HIDE DEF all
<1>2. /\ ResultsOf(ps) \in [1 .. n -> Int] /\ FeesOf(ps) \in [1 .. n -> Int]
      /\ ResultsOf(all) \in [1 .. n + 1 -> Int] /\ FeesOf(all) \in [1 .. n + 1 -> Int]
  BY <1>1, ListsAreInts
<1>3. /\ \A i \in 1 .. n : ResultsOf(all)[i] = ResultsOf(ps)[i] /\ FeesOf(all)[i] = FeesOf(ps)[i]
      /\ ResultsOf(all)[n + 1] = Agent!Result(p) /\ FeesOf(all)[n + 1] = Agent!Commission(p)
  BY <1>1 DEF ResultsOf, FeesOf
<1>4. Agent!Result(p) = 0
  BY DEF Agent!Result, Agent!IsOpen
<1> HIDE DEF n
<1>5. /\ SumOf(ResultsOf(all)) = SumOf(ResultsOf(ps)) + 0
      /\ SumOf(FeesOf(all)) = SumOf(FeesOf(ps)) + Agent!Commission(p)
  BY <1>1, <1>2, <1>3, <1>4, SumExtends
<1>6. SumOf(ResultsOf(ps)) \in Int /\ SumOf(FeesOf(ps)) \in Int /\ Agent!Commission(p) \in Int
  BY <1>1, <1>2, SumType, ResultIsInt
<1>7. gains = SumOf(ResultsOf(all)) /\ money - Agent!Commission(p) = AgentCapital + gains - SumOf(FeesOf(all))
  BY <1>5, <1>6, AgentAssumed DEF Balanced
<1> QED BY <1>7 DEF Balanced, all

\* Positions that are settled one for one: what each brings in goes to the cash.
LEMMA BalancedSettle ==
  ASSUME NEW ps \in Seq(AgentPosition), NEW qs \in Seq(AgentPosition), Len(qs) = Len(ps),
         NEW more \in [1 .. Len(ps) -> Int],
         \A i \in 1 .. Len(ps) : /\ Agent!Result(qs[i]) = Agent!Result(ps[i]) + more[i]
                                 /\ qs[i].qty = ps[i].qty /\ qs[i].entry = ps[i].entry,
         NEW gains \in Int, NEW money \in Int, Balanced(ps, gains, money)
  PROVE  SumOf(more) \in Int /\ Balanced(qs, gains + SumOf(more), money + SumOf(more))
<1> DEFINE n == Len(ps)
<1>1. /\ n \in Nat /\ DOMAIN ps = 1 .. n /\ DOMAIN qs = 1 .. n
      /\ ResultsOf(ps) \in [1 .. n -> Int] /\ FeesOf(ps) \in [1 .. n -> Int]
      /\ ResultsOf(qs) \in [1 .. n -> Int] /\ FeesOf(qs) \in [1 .. n -> Int]
  BY ListsAreInts
<1>2. \A i \in 1 .. n : ResultsOf(qs)[i] = ResultsOf(ps)[i] + more[i]
  BY <1>1 DEF ResultsOf
<1>3. FeesOf(qs) = FeesOf(ps)
  <2>1. \A i \in 1 .. n : Agent!Commission(qs[i]) = Agent!Commission(ps[i])
    BY SameFee
  <2> QED BY <1>1, <2>1 DEF FeesOf
<1>4. more \in [1 .. n -> Int]
  OBVIOUS
<1> HIDE DEF n
<1>5. SumOf(ResultsOf(qs)) = SumOf(ResultsOf(ps)) + SumOf(more)
  BY <1>1, <1>2, <1>4, SumAdds
<1>6. SumOf(more) \in Int /\ SumOf(ResultsOf(ps)) \in Int /\ SumOf(FeesOf(ps)) \in Int
  BY <1>1, <1>4, SumType
<1> QED BY <1>3, <1>5, <1>6, AgentAssumed DEF Balanced

-----------------------------------------------------------------------------
(* What the brokerage does to the books.                                    *)

LEMMA MarkKeepsBooks ==
  ASSUME BooksInv, NEW s, NEW price \in AgentPrices, Agent!MarkToMarket(s, price)
  PROVE  BooksInv'
<1> DEFINE ps == agentPositions
           qs == agentPositions'
           more == [i \in DOMAIN ps |-> IF i \in Agent!Exiting(s, price)
                                        THEN Agent!Pnl(ps[i], price) ELSE 0]
<1>1. ps \in Seq(AgentPosition) /\ Len(ps) \in Nat /\ DOMAIN ps = 1 .. Len(ps)
      /\ price \in Int /\ price # None
  BY AgentAssumed DEF BooksInv
<1>2. ASSUME NEW i \in 1 .. Len(ps)
      PROVE  /\ qs[i] \in AgentPosition /\ more[i] \in Int
             /\ Agent!Result(qs[i]) = Agent!Result(ps[i]) + more[i]
             /\ qs[i].qty = ps[i].qty /\ qs[i].entry = ps[i].entry
  <2>1. ps[i] \in AgentPosition
    BY <1>1
  <2>2. Agent!Result(ps[i]) \in Int /\ Agent!Pnl(ps[i], price) \in Int
    BY <1>1, <2>1, ResultIsInt, PnlIsInt
  <2>3. CASE i \notin Agent!Exiting(s, price)
    <3>1. qs[i] = ps[i] /\ more[i] = 0
      BY <1>1, <2>3 DEF Agent!MarkToMarket
    <3> QED BY <2>1, <2>2, <3>1
  <2>4. CASE i \in Agent!Exiting(s, price)
    <3> DEFINE why == Agent!ExitReason(ps[i], price)
               q == [ps[i] EXCEPT !.closed = price, !.reason = why]
    <3>1. why # "none"
      BY <2>4 DEF Agent!Exiting
    <3>2. why \in {"stop", "target"} /\ ps[i].closed = None
      BY <3>1 DEF Agent!ExitReason, Agent!IsOpen
    <3>3. qs[i] = q /\ more[i] = Agent!Pnl(ps[i], price)
      BY <1>1, <2>4 DEF Agent!MarkToMarket, Agent!ClosedAt
    <3> HIDE DEF why
    <3>4. /\ q \in AgentPosition /\ q.closed = price /\ q.qty = ps[i].qty
          /\ q.entry = ps[i].entry /\ q.direction = ps[i].direction
      BY <2>1, <3>2 DEF AgentPosition
    <3> HIDE DEF q
    <3>5. Agent!Result(q) = Agent!Pnl(ps[i], price)
      BY <1>1, <3>4 DEF Agent!Result, Agent!IsOpen, Agent!Pnl
    <3>6. Agent!Result(ps[i]) = 0
      BY <3>2 DEF Agent!Result, Agent!IsOpen
    <3> QED BY <2>2, <3>3, <3>4, <3>5, <3>6
  <2> QED BY <2>3, <2>4
<1>3. DOMAIN qs = 1 .. Len(ps) /\ qs \in Seq(AgentPosition) /\ Len(qs) = Len(ps)
  <2>1. qs = [i \in 1 .. Len(ps) |-> qs[i]]
    BY <1>1 DEF Agent!MarkToMarket
  <2>2. \A i \in 1 .. Len(ps) : qs[i] \in AgentPosition
    BY <1>2
  <2> HIDE DEF qs, ps
  <2>3. qs \in [1 .. Len(ps) -> AgentPosition]
    BY <2>1, <2>2
  <2> QED BY <1>1, <2>3
<1>4. more \in [1 .. Len(ps) -> Int]
  BY <1>1, <1>2
<1>5. /\ agentRealizedPnl' = agentRealizedPnl + SumOf(more)
      /\ agentCash' = agentCash + SumOf(more)
      /\ agentProcessedKeys' = agentProcessedKeys
  <2>1. Agent!Gain(s, price) = SumOf(more)
    BY AgentTotalIsSum DEF Agent!Gain
  <2> QED BY <2>1 DEF Agent!MarkToMarket
<1>6. Balanced(ps, agentRealizedPnl, agentCash) /\ agentCash \in Int /\ agentRealizedPnl \in Int
  BY DEF BooksInv
<1> HIDE DEF ps, qs, more
<1>7. SumOf(more) \in Int /\ Balanced(qs, agentRealizedPnl', agentCash')
  BY <1>1, <1>2, <1>3, <1>4, <1>5, <1>6, BalancedSettle
<1> QED BY <1>1, <1>3, <1>5, <1>6, <1>7 DEF BooksInv, ps, qs

\* A position that is cancelled closes at its entry price, for nothing.
LEMMA CancelKeepsBooks ==
  ASSUME BooksInv, NEW i \in DOMAIN agentPositions, Agent!CancelOrder(i)
  PROVE  BooksInv'
<1> DEFINE ps == agentPositions
           q == [ps[i] EXCEPT !.closed = ps[i].entry, !.reason = "manual"]
           qs == [ps EXCEPT ![i] = q]
           more == [j \in 1 .. Len(ps) |-> 0]
<1>1. ps \in Seq(AgentPosition) /\ Len(ps) \in Nat /\ DOMAIN ps = 1 .. Len(ps)
      /\ ps[i] \in AgentPosition
  BY DEF BooksInv
<1>2. /\ agentPositions' = qs /\ ps[i].closed = None
      /\ UNCHANGED <<agentCash, agentRealizedPnl, agentProcessedKeys>>
  BY DEF Agent!CancelOrder, Agent!IsOpen, Agent!ClosedAt
<1>3. /\ q \in AgentPosition /\ q.closed = ps[i].entry /\ q.qty = ps[i].qty
      /\ q.entry = ps[i].entry /\ q.entry \in Int /\ q.entry # None /\ q.qty \in Int
  <2>1. ps[i].entry \in AgentPrices /\ ps[i].qty \in Nat
    BY <1>1 DEF AgentPosition
  <2>2. /\ q \in AgentPosition /\ q.closed = ps[i].entry /\ q.qty = ps[i].qty
        /\ q.entry = ps[i].entry
    BY <1>1, <2>1 DEF AgentPosition
  <2> QED BY <2>1, <2>2, AgentAssumed
<1> HIDE DEF q
<1>4. Agent!Result(q) = 0
  <2>1. Agent!Result(q) = Agent!Sign(q.direction) * (q.entry - q.entry) * q.qty
    BY <1>3 DEF Agent!Result, Agent!IsOpen, Agent!Pnl
  <2>2. Agent!Sign(q.direction) \in Int /\ q.entry - q.entry = 0
    BY <1>3 DEF Agent!Sign
  <2>3. Agent!Sign(q.direction) * 0 = 0 /\ 0 * q.qty = 0
    BY <1>3, <2>2
  <2> QED BY <2>1, <2>2, <2>3
<1>5. Agent!Result(ps[i]) = 0
  BY <1>2 DEF Agent!Result, Agent!IsOpen
<1>6. \A j \in 1 .. Len(ps) : qs[j] = IF j = i THEN q ELSE ps[j]
  BY <1>1
<1>7. \A j \in 1 .. Len(ps) : Agent!Result(ps[j]) \in Int
  BY <1>1, ResultIsInt
<1>8. qs \in Seq(AgentPosition) /\ Len(qs) = Len(ps)
  BY <1>1, <1>3
<1>9. more \in [1 .. Len(ps) -> Int] /\ \A j \in 1 .. Len(ps) : more[j] = 0
  OBVIOUS
<1>10. Balanced(ps, agentRealizedPnl, agentCash) /\ agentCash \in Int /\ agentRealizedPnl \in Int
  BY DEF BooksInv
<1>11. SumOf(more) = 0
  <2> DEFINE n == Len(ps)
  <2> HIDE DEF more, n, ps
  <2> QED BY <1>1, <1>9, SumOfZeros
<1>12. \A j \in 1 .. Len(ps) : /\ Agent!Result(qs[j]) = Agent!Result(ps[j]) + more[j]
                               /\ qs[j].qty = ps[j].qty /\ qs[j].entry = ps[j].entry
  BY <1>3, <1>4, <1>5, <1>6, <1>7, <1>9
<1> HIDE DEF ps, qs, more
<1>13. Balanced(qs, agentRealizedPnl + SumOf(more), agentCash + SumOf(more))
  BY <1>1, <1>8, <1>9, <1>10, <1>12, BalancedSettle
<1>14. Balanced(qs, agentRealizedPnl, agentCash)
  BY <1>10, <1>11, <1>13
<1> QED BY <1>2, <1>8, <1>10, <1>14 DEF BooksInv, ps

\* A key is remembered with the one position its order opened, or with none.
LEMMA OrderKeepsBooks ==
  ASSUME BooksInv, NEW key, NEW o \in AgentOrder, key \notin DOMAIN agentProcessedKeys,
         Agent!PlaceOrder(key, o)
  PROVE  /\ BooksInv'
         /\ DOMAIN agentProcessedKeys' = DOMAIN agentProcessedKeys \union {key}
         /\ agentProcessedKeys'[key] = Agent!Verdict(o)
         /\ \A k \in DOMAIN agentProcessedKeys : agentProcessedKeys'[k] = agentProcessedKeys[k]
<1> DEFINE keys == agentProcessedKeys
           new == agentProcessedKeys'
<1>1. /\ new = [k \in DOMAIN keys \union {key} |-> IF k = key THEN Agent!Verdict(o) ELSE keys[k]]
      /\ agentRealizedPnl' = agentRealizedPnl
  BY DEF Agent!PlaceOrder, Agent!Seen, Agent!Remember
<1>2. /\ DOMAIN new = DOMAIN keys \union {key} /\ new[key] = Agent!Verdict(o)
      /\ \A k \in DOMAIN keys : new[k] = keys[k]
  BY <1>1
<1>3. IsFiniteSet(DOMAIN new)
  BY <1>2, FS_AddElement DEF BooksInv
<1>4. /\ agentPositions \in Seq(AgentPosition) /\ Len(agentPositions) \in Nat
      /\ IsFiniteSet(FilledIn(keys)) /\ Cardinality(FilledIn(keys)) = Len(agentPositions)
      /\ key \notin FilledIn(keys)
      /\ agentCash \in Int /\ agentRealizedPnl \in Int
      /\ Balanced(agentPositions, agentRealizedPnl, agentCash)
  <2>1. FilledIn(keys) \subseteq DOMAIN keys
    BY DEF FilledIn
  <2> QED BY <2>1, FS_Subset DEF BooksInv
<1>5. CASE Agent!Verdict(o) = "filled"
  <2> DEFINE p == Agent!Opened(o)
  <2>1. p \in AgentPosition /\ p.closed = None /\ p.qty = o.qty /\ p.entry = o.entry
    BY DEF AgentOrder, AgentPosition, Agent!Opened
  <2>2. agentPositions' = Append(agentPositions, p) /\ agentCash' = agentCash - Agent!Commission(o)
    BY <1>5 DEF Agent!PlaceOrder, Agent!Seen
  <2> HIDE DEF p
  <2>3. Agent!Commission(o) = Agent!Commission(p) /\ Agent!Commission(p) \in Int
    BY <2>1, SameFee, ResultIsInt
  <2>4. Balanced(agentPositions', agentRealizedPnl, agentCash')
    BY <1>4, <2>1, <2>2, <2>3, BalancedAppend
  <2>5. FilledIn(new) = FilledIn(keys) \union {key}
    BY <1>2, <1>5 DEF FilledIn
  <2>6. Cardinality(FilledIn(new)) = Cardinality(FilledIn(keys)) + 1
    BY <1>4, <2>5, FS_AddElement
  <2>7. Len(agentPositions') = Len(agentPositions) + 1 /\ agentPositions' \in Seq(AgentPosition)
    BY <1>4, <2>1, <2>2
  <2>8. agentCash' \in Int
    BY <1>4, <2>2, <2>3
  <2> QED BY <1>1, <1>2, <1>3, <1>4, <2>4, <2>6, <2>7, <2>8 DEF BooksInv
<1>6. CASE Agent!Verdict(o) # "filled"
  <2>1. UNCHANGED <<agentPositions, agentCash>>
    BY <1>6 DEF Agent!PlaceOrder, Agent!Seen
  <2>2. FilledIn(new) = FilledIn(keys)
    BY <1>2, <1>6 DEF FilledIn
  <2> QED BY <1>1, <1>2, <1>3, <1>4, <2>1, <2>2 DEF BooksInv
<1> QED BY <1>5, <1>6

-----------------------------------------------------------------------------
(* The futures agent: one tick at a time, and orders its cash covers.       *)

\* Of a sized order, the margin at its utilisation and the commission together
\* are within the cash; the defaults of trading-config.ts leave half of it.
MarginCoversFees ==
  100 * AgentUtilizationPct + AgentLeverage * AgentUtilizationPct * AgentCommissionPct <= 10000

States == {"INITIALIZING", "IDLE", "EVALUATING_RULES", "PLACING_TRADE"}

\* The machine's state says where the one call that is under way stands.
TicksInv ==
  /\ agentFsm \in States
  /\ agentTick \in [AgentCalls -> [at : {"idle", "sizing", "placing"},
                                   order : AgentOrder \union {Agent!NoOrder}]]
  /\ \A c \in AgentCalls :
       /\ agentTick[c].at = "sizing" => agentFsm = "EVALUATING_RULES"
       /\ agentTick[c].at = "placing" => agentFsm = "PLACING_TRADE"
       /\ agentTick[c].at # "idle" => agentTick[c].order \in AgentOrder
  /\ agentFsm \in {"EVALUATING_RULES", "PLACING_TRADE"} =>
       \E c \in AgentCalls : agentTick[c].at # "idle"
  /\ \A c, d \in AgentCalls : agentTick[c].at # "idle" /\ agentTick[d].at # "idle" => c = d

\* Every key the agent has used is that of an order which was filled, but for those sized
\* on more than the cash they found.
KeysInv ==
  /\ agentBalance \in [AgentCalls -> Int]
  /\ agentOrderCounter \in Nat
  /\ DOMAIN agentProcessedKeys \subseteq AgentKeys \union (1 .. agentOrderCounter)
  /\ \A k \in 1 .. agentOrderCounter :
       k \in DOMAIN agentProcessedKeys
         /\ (k \notin agentUndercut => agentProcessedKeys[k] = "filled")

AgentInv == BooksInv /\ TicksInv /\ KeysInv

\* A quotient rounded down.
LEMMA QuotientBound ==
  ASSUME NEW a \in Nat, NEW b \in Nat \ {0}
  PROVE  a \div b \in Nat /\ b * (a \div b) <= a
OBVIOUS

LEMMA ProductMonotone ==
  ASSUME NEW a \in Nat, NEW b \in Nat, NEW k \in Nat, a <= b
  PROVE  k * a <= k * b
OBVIOUS

LEMMA ProductCancels ==
  ASSUME NEW a \in Nat, NEW b \in Nat, NEW k \in Nat \ {0}, k * a <= k * b
  PROVE  a <= b
OBVIOUS

\* A position worth n at most, of which margin and fee are paid.
LEMMA CashCovers ==
  ASSUME NEW cash \in Nat, NEW lev \in Nat \ {0}, NEW u \in Nat, NEW fee \in Nat, NEW n \in Nat,
         100 * n <= cash * (lev * u), 100 * u + lev * u * fee <= 10000
  PROVE  n \div lev + (n * fee) \div 100 <= cash
<1> DEFINE x == n \div lev
           y == (n * fee) \div 100
           k == 100 + lev * fee
           m == 10000 * lev
<1>1. n * fee \in Nat /\ k \in Nat /\ m \in Nat \ {0} /\ cash * (lev * u) \in Nat
      /\ 100 * n \in Nat /\ cash * lev \in Nat /\ 100 * u + lev * u * fee \in Nat
      /\ 100 * lev \in Nat
  OBVIOUS
<1>2. x \in Nat /\ lev * x <= n /\ y \in Nat /\ 100 * y <= n * fee
  BY <1>1, QuotientBound
<1>3. m * x <= 10000 * n
  <2>1. m * x = 10000 * (lev * x)
    BY <1>2
  <2>2. lev * x \in Nat
    BY <1>2
  <2> QED BY <1>2, <2>1, <2>2
<1>4. m * y <= (100 * lev) * (n * fee)
  <2>1. m * y = (100 * lev) * (100 * y)
    BY <1>2
  <2>2. 100 * y \in Nat
    BY <1>2
  <2> HIDE DEF x, y, m, k
  <2> QED BY <1>1, <1>2, <2>1, <2>2, ProductMonotone
<1>5. 10000 * n + (100 * lev) * (n * fee) = k * (100 * n)
  OBVIOUS
<1>6. k * (100 * n) <= k * (cash * (lev * u))
  <2> HIDE DEF k
  <2> QED BY <1>1, ProductMonotone
<1>7. k * (cash * (lev * u)) = (cash * lev) * (100 * u + lev * u * fee)
  OBVIOUS
<1>8. (cash * lev) * (100 * u + lev * u * fee) <= (cash * lev) * 10000
  BY <1>1, ProductMonotone
<1>9. (cash * lev) * 10000 = m * cash
  OBVIOUS
<1>10. m * x + m * y = m * (x + y)
  BY <1>1, <1>2
<1>11. /\ m * x \in Int /\ m * y \in Int /\ 10000 * n \in Int /\ (100 * lev) * (n * fee) \in Int
       /\ k * (100 * n) \in Int /\ k * (cash * (lev * u)) \in Int
       /\ (cash * lev) * 10000 \in Int
  BY <1>1, <1>2
<1> HIDE DEF x, y, m, k
<1>12. m * (x + y) <= m * cash
  BY <1>3, <1>4, <1>5, <1>6, <1>7, <1>8, <1>9, <1>10, <1>11
<1>13. x + y \in Nat
  BY <1>2
<1>14. x + y <= cash
  BY <1>1, <1>12, <1>13, ProductCancels
<1> QED BY <1>14 DEF x, y

\* What calculatePositionQuantity returns is covered, by at least as much cash.
LEMMA SizedIsFilled ==
  ASSUME MarginCoversFees, agentCash \in Int, NEW cash \in Int, NEW price \in AgentPrices, NEW o,
         o.qty = Agent!PositionQuantity(cash, price), o.entry = price, o.qty > 0
  PROVE  o.qty \in Nat /\ (cash <= agentCash => Agent!Verdict(o) = "filled")
<1> DEFINE lev == AgentLeverage
           u == AgentUtilizationPct
           fee == AgentCommissionPct
           a == (cash * AgentRiskPct) \div (price * AgentStopPct)
           b == (cash * lev * u) \div (100 * price)
           n == o.qty * price
<1>1. /\ price \in Nat \ {0} /\ lev \in Nat \ {0} /\ u \in Nat /\ fee \in Nat
      /\ AgentRiskPct \in Nat /\ AgentStopPct \in Nat \ {0}
  BY AgentAssumed, PricesArePositive
<1>2. cash > 0 /\ o.qty = IF a <= b THEN a ELSE b
  BY DEF Agent!PositionQuantity, Agent!Min2
<1>3. cash \in Nat
  BY <1>2
<1>4. a \in Nat /\ b \in Nat /\ (100 * price) * b <= cash * lev * u
  <2>1. /\ cash * AgentRiskPct \in Nat /\ price * AgentStopPct \in Nat \ {0}
        /\ cash * lev * u \in Nat /\ 100 * price \in Nat \ {0}
    BY <1>1, <1>3
  <2> QED BY <2>1, QuotientBound
<1>5. o.qty \in Nat /\ o.qty <= b
  BY <1>2, <1>4
<1>6. 100 * n <= cash * (lev * u)
  <2>1. 100 * price \in Nat
    BY <1>1
  <2>2. (100 * price) * o.qty <= (100 * price) * b
    <3> HIDE DEF b
    <3> QED BY <1>4, <1>5, <2>1, ProductMonotone
  <2>3. (100 * price) * o.qty = 100 * n /\ cash * lev * u = cash * (lev * u)
    BY <1>1, <1>3, <1>5
  <2>4. (100 * price) * b \in Int /\ 100 * n \in Int /\ cash * (lev * u) \in Int
    BY <1>1, <1>3, <1>4, <1>5
  <2> HIDE DEF b, n
  <2> QED BY <1>4, <2>2, <2>3, <2>4
<1>7. n \in Nat
  BY <1>1, <1>5
<1>8. n \div lev + (n * fee) \div 100 <= cash
  <2> HIDE DEF n
  <2> QED BY <1>1, <1>3, <1>6, <1>7, CashCovers DEF MarginCoversFees
<1>9. /\ Agent!Notional(o) = n /\ Agent!Commission(o) = (n * fee) \div 100
  BY DEF Agent!Notional, Agent!Commission
<1>10. cash <= agentCash => Agent!Affordable(o)
  <2> DEFINE m == n \div lev
             f == (n * fee) \div 100
  <2>1. m \in Nat /\ f \in Nat
    <3>1. n * fee \in Nat
      BY <1>1, <1>7
    <3> HIDE DEF n
    <3> QED BY <1>1, <1>7, <3>1, QuotientBound
  <2>2. Agent!Affordable(o) <=> agentCash >= m + f
    BY <1>9 DEF Agent!Affordable
  <2>3. m + f <= cash
    BY <1>8
  <2> HIDE DEF m, f
  <2> QED BY <2>1, <2>2, <2>3
<1> QED BY <1>1, <1>5, <1>10 DEF Agent!Verdict

\* The one call whose place changes.
TickSet(c, at, o) == agentTick' = [agentTick EXCEPT ![c] = [at |-> at, order |-> o]]

LEMMA TickSetTyped ==
  ASSUME TicksInv, NEW c \in AgentCalls, NEW at \in {"idle", "sizing", "placing"},
         NEW o \in AgentOrder \union {Agent!NoOrder}, TickSet(c, at, o)
  PROVE  /\ agentTick' \in [AgentCalls -> [at : {"idle", "sizing", "placing"},
                                           order : AgentOrder \union {Agent!NoOrder}]]
         /\ agentTick'[c].at = at /\ agentTick'[c].order = o
         /\ \A d \in AgentCalls : d # c => agentTick'[d] = agentTick[d]
BY DEF TicksInv, TickSet

LEMMA Transitions ==
  /\ Agent!TransitionTo(Agent!TransitionTo("INITIALIZING", "FETCHING_MARKET_DATA"), "IDLE") = "IDLE"
  /\ Agent!TransitionTo(Agent!TransitionTo("IDLE", "FETCHING_MARKET_DATA"), "EVALUATING_RULES")
       = "EVALUATING_RULES"
  /\ Agent!TransitionTo("EVALUATING_RULES", "IDLE") = "IDLE"
  /\ Agent!TransitionTo("EVALUATING_RULES", "PLACING_TRADE") = "PLACING_TRADE"
  /\ Agent!TransitionTo("PLACING_TRADE", "IDLE") = "IDLE"
BY DEF Agent!TransitionTo, Agent!Allowed

\* A call moves on, and no other is under way.
LEMMA OneCallMoves ==
  ASSUME TicksInv, NEW c \in AgentCalls, NEW at \in {"sizing", "placing"},
         NEW o \in AgentOrder, TickSet(c, at, o),
         \A d \in AgentCalls : d # c => agentTick[d].at = "idle",
         agentFsm' = IF at = "sizing" THEN "EVALUATING_RULES" ELSE "PLACING_TRADE"
  PROVE  TicksInv'
<1>1. /\ agentTick' \in [AgentCalls -> [at : {"idle", "sizing", "placing"},
                                        order : AgentOrder \union {Agent!NoOrder}]]
      /\ agentTick'[c].at = at /\ agentTick'[c].order = o
      /\ \A d \in AgentCalls : d # c => agentTick'[d].at = "idle"
  BY TickSetTyped
<1> QED BY <1>1 DEF TicksInv, States

LEMMA CallReturns ==
  ASSUME TicksInv, NEW c \in AgentCalls, TickSet(c, "idle", Agent!NoOrder),
         \A d \in AgentCalls : d # c => agentTick[d].at = "idle", agentFsm' = "IDLE"
  PROVE  TicksInv'
<1>1. /\ agentTick' \in [AgentCalls -> [at : {"idle", "sizing", "placing"},
                                        order : AgentOrder \union {Agent!NoOrder}]]
      /\ \A d \in AgentCalls : agentTick'[d].at = "idle"
  BY TickSetTyped
<1> QED BY <1>1 DEF TicksInv, States

LEMMA RunTickKeeps ==
  ASSUME AgentInv, NEW c \in AgentCalls, NEW s \in AgentSymbols, NEW p \in AgentPrices,
         NEW d \in {"long", "short", "flat"}, Agent!RunTick(c, s, p, d)
  PROVE  AgentInv'
<1>1. BooksInv'
  BY MarkKeepsBooks DEF AgentInv, Agent!RunTick
<1>2. KeysInv'
  <2>1. UNCHANGED <<agentOrderCounter, agentProcessedKeys, agentUndercut>>
    BY DEF Agent!RunTick, Agent!MarkToMarket
  <2>2. agentBalance' \in {agentBalance, [agentBalance EXCEPT ![c] = agentCash']}
    BY DEF Agent!RunTick
  <2>3. agentCash' \in Int
    BY <1>1 DEF BooksInv
  <2> QED BY <2>1, <2>2, <2>3 DEF AgentInv, KeysInv
<1>3. CASE d = "flat"
  <2>1. UNCHANGED <<agentFsm, agentTick>>
    BY <1>3 DEF Agent!RunTick
  <2> QED BY <1>1, <1>2, <2>1 DEF AgentInv, TicksInv
<1>4. CASE d # "flat"
  <2> DEFINE stop == p - Agent!Sign(d) * AgentOffset
             target == p + Agent!Sign(d) * AgentOffset
             o == Agent!Order(s, d, 0, p, stop, target)
  <2>1. /\ agentFsm = "IDLE" /\ TickSet(c, "sizing", o)
        /\ agentFsm' = Agent!TransitionTo(
             Agent!TransitionTo(agentFsm, "FETCHING_MARKET_DATA"), "EVALUATING_RULES")
    BY <1>4 DEF Agent!RunTick, Agent!MayRun, TickSet
  <2>2. agentFsm' = "EVALUATING_RULES"
    BY <2>1, Transitions
  <2>3. stop \in Int /\ target \in Int
    <3>1. Agent!Sign(d) \in {1, -1} /\ p \in Int /\ AgentOffset \in Int
      BY AgentAssumed, PricesArePositive DEF Agent!Sign
    <3> QED BY <3>1
  <2> HIDE DEF stop, target
  <2>4. o \in AgentOrder
    BY <1>4, <2>3 DEF AgentOrder, Agent!Order
  <2> HIDE DEF o
  <2>5. \A e \in AgentCalls : agentTick[e].at = "idle"
    BY <2>1 DEF AgentInv, TicksInv
  <2>6. TicksInv'
    BY <2>1, <2>2, <2>4, <2>5, OneCallMoves DEF AgentInv
  <2> QED BY <1>1, <1>2, <2>6 DEF AgentInv
<1> QED BY <1>3, <1>4

LEMMA SizeKeeps ==
  ASSUME MarginCoversFees, AgentInv, NEW c \in AgentCalls, Agent!Size(c)
  PROVE  AgentInv'
<1> DEFINE o == agentTick[c].order
           held == agentBalance[c]
           qty == Agent!PositionQuantity(held, o.entry)
           sized == [o EXCEPT !.qty = qty]
           key == agentOrderCounter + 1
<1>1. /\ agentTick[c].at = "sizing" /\ agentFsm = "EVALUATING_RULES" /\ o \in AgentOrder
      /\ \A d \in AgentCalls : d # c => agentTick[d].at = "idle"
      /\ agentCash \in Int /\ held \in Int /\ agentOrderCounter \in Nat
      /\ agentBalance' = agentBalance
  BY DEF AgentInv, TicksInv, BooksInv, KeysInv, Agent!Size
<1>2. o.entry \in AgentPrices
  BY <1>1 DEF AgentOrder
<1>3. agentFsm' = Agent!StateAfterSizing(qty)
  BY DEF Agent!Size
<1>4. CASE qty <= 0
  <2>1. agentFsm' = "IDLE"
    BY <1>1, <1>3, <1>4, Transitions DEF Agent!StateAfterSizing
  <2>2. TickSet(c, "idle", Agent!NoOrder) /\ UNCHANGED <<agentOrderCounter, agentCash,
          agentRealizedPnl, agentPositions, agentProcessedKeys, agentUndercut>>
    BY <1>4 DEF Agent!Size, TickSet, Agent!ledger
  <2>3. TicksInv'
    BY <1>1, <2>1, <2>2, CallReturns DEF AgentInv
  <2> QED BY <1>1, <2>2, <2>3 DEF AgentInv, BooksInv, KeysInv
<1>5. CASE ~(qty <= 0)
  <2>1. agentFsm' = "PLACING_TRADE"
    BY <1>1, <1>3, <1>5, Transitions DEF Agent!StateAfterSizing
  <2>2. /\ TickSet(c, "placing", sized) /\ agentOrderCounter' = key
        /\ Agent!PlaceOrder(key, sized)
        /\ agentUndercut' = agentUndercut \union (IF agentCash < held THEN {key} ELSE {})
    BY <1>5 DEF Agent!Size, TickSet
  <2> HIDE DEF held
  <2>3. qty \in Int
    <3>1. held > 0
      BY <1>1, <1>5 DEF Agent!PositionQuantity
    <3>2. /\ held * AgentRiskPct \in Nat /\ o.entry * AgentStopPct \in Nat \ {0}
          /\ held * AgentLeverage * AgentUtilizationPct \in Nat /\ 100 * o.entry \in Nat \ {0}
      <4>1. /\ o.entry \in Nat \ {0} /\ held \in Nat /\ AgentRiskPct \in Nat
            /\ AgentStopPct \in Nat \ {0} /\ AgentLeverage \in Nat /\ AgentUtilizationPct \in Nat
        <5>1. o.entry \in Nat /\ o.entry # 0
          BY <1>2, PricesArePositive
        <5>2. held \in Nat
          BY <1>1, <3>1
        <5> QED BY <5>1, <5>2, AgentAssumed
      <4> HIDE DEF o
      <4> QED BY <4>1
    <3>3. /\ (held * AgentRiskPct) \div (o.entry * AgentStopPct) \in Nat
          /\ (held * AgentLeverage * AgentUtilizationPct) \div (100 * o.entry) \in Nat
      BY <3>2, QuotientBound
    <3> HIDE DEF o
    <3> QED BY <3>1, <3>3 DEF Agent!PositionQuantity, Agent!Min2
  <2>4. sized.qty = qty /\ sized.entry = o.entry
    BY <1>1 DEF AgentOrder
  <2> HIDE DEF qty
  <2>5. qty > 0
    BY <1>5, <2>3
  <2>6. qty \in Nat /\ (held <= agentCash => Agent!Verdict(sized) = "filled")
    <3> HIDE DEF sized, o
    <3> QED BY <1>1, <1>2, <2>4, <2>5, SizedIsFilled DEF qty
  <2>7. sized \in AgentOrder
    BY <1>1, <2>6 DEF AgentOrder
  <2> HIDE DEF sized, o
  <2>8. TicksInv'
    BY <1>1, <2>1, <2>2, <2>7, OneCallMoves DEF AgentInv
  <2>9. key \notin DOMAIN agentProcessedKeys
    <3>1. key \in Int /\ key \notin 1 .. agentOrderCounter
      BY <1>1
    <3>2. key \notin AgentKeys
      BY <3>1, AgentAssumed
    <3> QED BY <3>1, <3>2 DEF AgentInv, KeysInv
  <2>10. /\ BooksInv'
         /\ DOMAIN agentProcessedKeys' = DOMAIN agentProcessedKeys \union {key}
         /\ agentProcessedKeys'[key] = Agent!Verdict(sized)
         /\ \A k \in DOMAIN agentProcessedKeys : agentProcessedKeys'[k] = agentProcessedKeys[k]
    BY <2>2, <2>7, <2>9, OrderKeepsBooks DEF AgentInv
  <2>11. KeysInv'
    <3>1. \A k \in 1 .. key : k = key \/ k \in 1 .. agentOrderCounter
      BY <1>1
    <3>2. \A k \in 1 .. agentOrderCounter : k \in 1 .. key
      BY <1>1
    <3>3. key \in DOMAIN agentProcessedKeys'
            /\ (key \notin agentUndercut' => agentProcessedKeys'[key] = "filled")
      <4>1. key \notin agentUndercut' => held <= agentCash
        BY <1>1, <2>2
      <4> QED BY <2>6, <2>10, <4>1
    <3>4. ASSUME NEW k \in 1 .. agentOrderCounter
          PROVE  k \in DOMAIN agentProcessedKeys'
                   /\ (k \notin agentUndercut' => agentProcessedKeys'[k] = "filled")
      <4>1. k \in DOMAIN agentProcessedKeys
              /\ (k \notin agentUndercut => agentProcessedKeys[k] = "filled")
        BY DEF AgentInv, KeysInv
      <4>2. k \in agentUndercut => k \in agentUndercut'
        BY <2>2
      <4> QED BY <2>10, <4>1, <4>2
    <3>5. DOMAIN agentProcessedKeys' \subseteq AgentKeys \union (1 .. key)
      <4>1. key \in 1 .. key
        BY <1>1
      <4> QED BY <2>10, <3>2, <4>1 DEF AgentInv, KeysInv
    <3>6. agentOrderCounter' \in Nat /\ agentBalance' \in [AgentCalls -> Int]
      BY <1>1, <2>2 DEF AgentInv, KeysInv
    <3> QED BY <2>2, <3>1, <3>3, <3>4, <3>5, <3>6 DEF KeysInv
  <2> QED BY <2>8, <2>10, <2>11 DEF AgentInv
<1> QED BY <1>4, <1>5

LEMMA PlacedKeeps ==
  ASSUME AgentInv, NEW c \in AgentCalls, Agent!Placed(c)
  PROVE  AgentInv'
<1>1. /\ agentFsm = "PLACING_TRADE" /\ TickSet(c, "idle", Agent!NoOrder)
      /\ agentFsm' = Agent!TransitionTo(agentFsm, "IDLE")
      /\ \A d \in AgentCalls : d # c => agentTick[d].at = "idle"
      /\ UNCHANGED <<agentBalance, agentOrderCounter, agentCash, agentRealizedPnl, agentPositions,
                     agentProcessedKeys, agentUndercut>>
  BY DEF AgentInv, TicksInv, Agent!Placed, TickSet, Agent!ledger
<1>2. TicksInv'
  BY <1>1, Transitions, CallReturns DEF AgentInv
<1> QED BY <1>1, <1>2 DEF AgentInv, BooksInv, KeysInv

LEMMA ClientKeeps ==
  ASSUME AgentInv, NEW k \in AgentKeys, NEW o \in AgentOrder, Agent!ClientOrder(k, o)
  PROVE  AgentInv'
<1>1. /\ Agent!PlaceOrder(k, o)
      /\ UNCHANGED <<agentFsm, agentTick, agentBalance, agentOrderCounter, agentUndercut>>
  BY DEF Agent!ClientOrder
<1>2. TicksInv'
  BY <1>1 DEF AgentInv, TicksInv
<1>3. CASE k \in DOMAIN agentProcessedKeys
  <2>1. UNCHANGED <<agentCash, agentRealizedPnl, agentPositions, agentProcessedKeys>>
    BY <1>1, <1>3 DEF Agent!PlaceOrder, Agent!Seen, Agent!ledger
  <2> QED BY <1>1, <1>2, <2>1 DEF AgentInv, BooksInv, KeysInv
<1>4. CASE k \notin DOMAIN agentProcessedKeys
  <2>1. /\ BooksInv'
        /\ DOMAIN agentProcessedKeys' = DOMAIN agentProcessedKeys \union {k}
        /\ \A j \in DOMAIN agentProcessedKeys : agentProcessedKeys'[j] = agentProcessedKeys[j]
    BY <1>1, <1>4, OrderKeepsBooks DEF AgentInv
  <2>2. KeysInv'
    BY <1>1, <2>1 DEF AgentInv, KeysInv
  <2> QED BY <1>2, <2>1, <2>2 DEF AgentInv
<1> QED BY <1>3, <1>4

LEMMA AgentInit == Agent!Init => AgentInv
<1> SUFFICES ASSUME Agent!Init PROVE AgentInv
  OBVIOUS
<1>1. /\ agentPositions = <<>> /\ agentProcessedKeys = <<>> /\ agentRealizedPnl = 0
      /\ agentCash = AgentCapital /\ agentOrderCounter = 0 /\ agentFsm = "INITIALIZING"
      /\ agentTick = [c \in AgentCalls |-> [at |-> "idle", order |-> Agent!NoOrder]]
      /\ agentBalance = [c \in AgentCalls |-> AgentCapital]
  BY DEF Agent!Init
<1>2. BooksInv
  <2>1. agentPositions \in Seq(AgentPosition) /\ Len(agentPositions) = 0 /\ DOMAIN agentPositions = {}
    BY <1>1
  <2>2. /\ ResultsOf(agentPositions) \in [1 .. 0 -> Int] /\ DOMAIN ResultsOf(agentPositions) = {}
        /\ FeesOf(agentPositions) \in [1 .. 0 -> Int] /\ DOMAIN FeesOf(agentPositions) = {}
    BY <2>1, ListsAreInts DEF ResultsOf, FeesOf
  <2>3. SumOf(ResultsOf(agentPositions)) = 0 /\ SumOf(FeesOf(agentPositions)) = 0
    BY <2>2, SumOfNone
  <2>4. Balanced(agentPositions, agentRealizedPnl, agentCash)
    BY <1>1, <2>3, AgentAssumed DEF Balanced
  <2>5. DOMAIN agentProcessedKeys = {} /\ FilledIn(agentProcessedKeys) = {}
    BY <1>1 DEF FilledIn
  <2>6. agentCash \in Int /\ agentRealizedPnl \in Int
    BY <1>1, AgentAssumed
  <2> QED BY <2>1, <2>4, <2>5, <2>6, FS_EmptySet DEF BooksInv
<1>3. TicksInv
  BY <1>1 DEF TicksInv, States
<1>4. KeysInv
  BY <1>1, AgentAssumed DEF KeysInv
<1> QED BY <1>2, <1>3, <1>4 DEF AgentInv

LEMMA AgentStep == MarginCoversFees /\ AgentInv /\ [Agent!Next]_agentVars => AgentInv'
<1> SUFFICES ASSUME MarginCoversFees, AgentInv, [Agent!Next]_agentVars PROVE AgentInv'
  OBVIOUS
<1>1. CASE UNCHANGED agentVars
  BY <1>1 DEF agentVars, AgentInv, BooksInv, TicksInv, KeysInv
<1>2. CASE Agent!Initialize
  <2>1. /\ agentFsm' = "IDLE" /\ agentFsm = "INITIALIZING"
        /\ UNCHANGED <<agentTick, agentBalance, agentOrderCounter, agentCash, agentRealizedPnl,
                       agentPositions, agentProcessedKeys, agentUndercut>>
    BY <1>2, Transitions DEF Agent!Initialize, Agent!ledger
  <2>2. TicksInv'
    BY <2>1 DEF AgentInv, TicksInv, States
  <2> QED BY <2>1, <2>2 DEF AgentInv, BooksInv, KeysInv
<1>3. ASSUME NEW i \in DOMAIN agentPositions, Agent!CancelOrder(i)
      PROVE  AgentInv'
  <2>1. BooksInv'
    BY <1>3, CancelKeepsBooks DEF AgentInv
  <2>2. UNCHANGED <<agentFsm, agentTick, agentBalance, agentOrderCounter, agentProcessedKeys,
                    agentUndercut>>
    BY <1>3 DEF Agent!CancelOrder
  <2> QED BY <2>1, <2>2 DEF AgentInv, TicksInv, KeysInv
<1>4. ASSUME NEW k \in AgentKeys, NEW s \in AgentSymbols, NEW d \in {"long", "short"},
             NEW q \in AgentQuantities, NEW p \in AgentPrices,
             Agent!ClientOrder(k, Agent!Order(s, d, q, p, None, None))
      PROVE  AgentInv'
  <2>1. Agent!Order(s, d, q, p, None, None) \in AgentOrder
    BY AgentAssumed DEF AgentOrder, Agent!Order
  <2> QED BY <1>4, <2>1, ClientKeeps
<1> QED
  BY <1>1, <1>2, <1>3, <1>4, RunTickKeeps, SizeKeeps, PlacedKeeps DEF Agent!Next

\* The instance counts as FiniteSets does.
LEMMA AgentCounts == ASSUME NEW S PROVE Agent!Cardinality(S) = Cardinality(S)
BY DEF Agent!Cardinality, Cardinality

\* The invariant says what the run checks.
LEMMA BooksFollow == AgentInv => BooksBalance
<1> SUFFICES ASSUME AgentInv PROVE BooksBalance
  OBVIOUS
<1>1. Agent!BooksBalance
  <2>1. /\ Agent!Settled = SumOf(ResultsOf(agentPositions))
        /\ Agent!Fees = SumOf(FeesOf(agentPositions))
    BY AgentTotalIsSum DEF Agent!Settled, Agent!Fees, ResultsOf, FeesOf
  <2>2. Agent!Filled = FilledIn(agentProcessedKeys)
    BY DEF Agent!Filled, FilledIn
  <2>3. /\ agentRealizedPnl = Agent!Settled
        /\ agentCash = AgentCapital + agentRealizedPnl - Agent!Fees
    BY <2>1 DEF AgentInv, BooksInv, Balanced
  <2>4. Cardinality(Agent!Filled) = Len(agentPositions)
    BY <2>2 DEF AgentInv, BooksInv
  <2> QED BY <2>3, <2>4, AgentCounts DEF Agent!BooksBalance
<1>2. Agent!OneTickAtATime
  <2> DEFINE busy == {c \in AgentCalls : agentTick[c].at # "idle"}
  <2>1. \A c, d \in busy : c = d
    BY DEF AgentInv, TicksInv
  <2>2. busy # {} <=> agentFsm \in {"EVALUATING_RULES", "PLACING_TRADE"}
    <3>1. ASSUME NEW c \in AgentCalls, agentTick[c].at # "idle"
          PROVE  agentFsm \in {"EVALUATING_RULES", "PLACING_TRADE"}
      <4>1. agentTick[c].at \in {"sizing", "placing"}
        BY <3>1 DEF AgentInv, TicksInv
      <4> QED BY <4>1 DEF AgentInv, TicksInv
    <3> QED BY <3>1 DEF AgentInv, TicksInv
  <2>3. Cardinality(busy) <= 1
    <3> HIDE DEF busy
    <3>1. CASE busy = {}
      BY <3>1, FS_EmptySet
    <3>2. CASE busy # {}
      <4>1. PICK c \in busy : TRUE
        BY <3>2
      <4>2. busy = {c}
        BY <2>1, <4>1
      <4> QED BY <4>2, FS_Singleton
    <3> QED BY <3>1, <3>2
  <2>4. Agent!OneTickAtATime
          <=> /\ Agent!Cardinality(busy) <= 1
              /\ busy # {} <=> agentFsm \in {"EVALUATING_RULES", "PLACING_TRADE"}
    BY Zenon DEF Agent!OneTickAtATime
  <2> QED BY <2>2, <2>3, <2>4, AgentCounts
<1>3. Agent!SizedOrdersAreFilled
  BY DEF AgentInv, KeysInv, Agent!SizedOrdersAreFilled
<1> QED BY <1>1, <1>2, <1>3 DEF BooksBalance

\* Where the margin of a full position leaves its commission, the cash of the agent
\* is its capital with the gains and fees of its positions, one tick at a time
\* trades, and an order it sized is filled unless the cash has shrunk since, for every price, capital, leverage,
\* number of callers and clients, and order of their steps (autonomous-agent.ts
\* runTick, brokerage.ts placeOrder, markToMarket and cancelOrder).
THEOREM BooksAlwaysBalance == MarginCoversFees => (BundleSpec => []BooksBalance)
<1> SUFFICES ASSUME MarginCoversFees PROVE BundleSpec => []BooksBalance
  OBVIOUS
<1>1. BundleInit => AgentInv
  BY AgentInit DEF BundleInit
<1>2. [BundleNext]_bundle => [Agent!Next]_agentVars
  BY DEF BundleNext, bundle
<1>3. AgentInv /\ [BundleNext]_bundle => AgentInv'
  BY <1>2, AgentStep
<1> QED BY <1>1, <1>3, BooksFollow, PTL DEF BundleSpec

-----------------------------------------------------------------------------
(* The trackers.                                                            *)

TrackerIds == Trackers!Ids
Slots == [TrackerIds -> Trackers!Position \union {None}]
JournalEntry == [type : {"open", "close"}, id : TrackerIds]

LEMMA TrackersAssumed ==
  /\ TrackersCandidates \in Seq(TrackerIds) /\ Len(TrackersCandidates) \in Nat \ {0}
  /\ TrackersInterval \in Nat \ {0}
  /\ None \notin Trackers!Position
BY BundleAssumption DEF Trackers!TrackersAssumption, TrackerIds

\* How often an entry is in a journal.
Times(j, e) == Cardinality({i \in DOMAIN j : j[i] = e})
Booked(j, id) == Times(j, [type |-> "open", id |-> id]) - Times(j, [type |-> "close", id |-> id])
HeldIn(slots, id) == IF slots[id] = None THEN 0 ELSE 1

\* What a position was paid up to its last look.
PaidUp(pos, at) ==
  pos # None =>
    /\ pos.openedAt <= pos.lastFundingCheckAt /\ pos.lastFundingCheckAt <= at
    /\ pos.accrued = Trackers!Payments(pos.openedAt, pos.lastFundingCheckAt)

AllPaidUp(k, slots, at) == k = "funding" => \A id \in TrackerIds : PaidUp(slots[id], at)

\* State and file differ by one booking of a candidate at most: the saving is
\* missed by a crash, and a request is awaited only on what it was asked for.
TrackersInv ==
  /\ trackersKind \in {"shadow", "funding", "pairs"}
  /\ trackersState \in Slots /\ trackersFile \in Slots
  /\ trackersJournal \in Seq(JournalEntry)
  /\ trackersNext \in 0 .. Len(TrackersCandidates)
  /\ trackersNow \in Nat /\ trackersClock \in Nat /\ trackersNow <= trackersClock
  /\ trackersCrashes \in Nat
  /\ \A id \in TrackerIds :
       Booked(trackersJournal, id) - HeldIn(trackersState, id) \in -trackersCrashes .. trackersCrashes
  /\ AllPaidUp(trackersKind, trackersState, trackersNow)
  /\ AllPaidUp(trackersKind, trackersFile, trackersNow)
  /\ trackersNext > 0 /\ trackersAwaits = "spot" /\ trackersKind = "shadow" =>
       trackersState[TrackersCandidates[trackersNext]] = None
  /\ trackersNext > 0 /\ trackersAwaits = "rates" =>
       trackersKind = "funding" /\ trackersState[TrackersCandidates[trackersNext]] # None

LEMMA TimesIsNat ==
  ASSUME NEW S, NEW j \in Seq(S), NEW e
  PROVE  IsFiniteSet({i \in DOMAIN j : j[i] = e}) /\ Times(j, e) \in Nat
<1>1. DOMAIN j = 1 .. Len(j) /\ Len(j) \in Nat
  OBVIOUS
<1>2. IsFiniteSet(1 .. Len(j))
  BY <1>1, FS_Interval
<1>3. {i \in DOMAIN j : j[i] = e} \subseteq 1 .. Len(j)
  BY <1>1
<1> QED BY <1>2, <1>3, FS_Subset, FS_CardinalityType DEF Times

\* One entry more.
LEMMA TimesAppend ==
  ASSUME NEW S, NEW j \in Seq(S), NEW new \in S, NEW e
  PROVE  Times(Append(j, new), e) = Times(j, e) + (IF new = e THEN 1 ELSE 0)
<1> DEFINE n == Len(j) + 1
           all == Append(j, new)
           old == {i \in DOMAIN j : j[i] = e}
           now == {i \in DOMAIN all : all[i] = e}
<1>1. /\ Len(j) \in Nat /\ DOMAIN j = 1 .. Len(j) /\ DOMAIN all = 1 .. n /\ all[n] = new
      /\ \A i \in 1 .. Len(j) : all[i] = j[i]
      /\ \A i \in 1 .. n : i = n \/ i \in 1 .. Len(j)
      /\ \A i \in 1 .. Len(j) : i \in 1 .. n /\ i # n
      /\ n \in 1 .. n
  OBVIOUS
<1>2. IsFiniteSet(old) /\ Times(j, e) \in Nat /\ Times(j, e) = Cardinality(old)
  BY TimesIsNat DEF Times
<1>3. CASE new = e
  <2>1. now = old \union {n} /\ n \notin old
    <3> HIDE DEF all, n
    <3> QED BY <1>1, <1>3
  <2>2. Cardinality(now) = Cardinality(old) + 1
    <3> HIDE DEF now, old, n
    <3> QED BY <1>2, <2>1, FS_AddElement
  <2> QED BY <1>2, <1>3, <2>2 DEF Times
<1>4. CASE new # e
  <2>1. now = old
    <3> HIDE DEF all, n
    <3> QED BY <1>1, <1>4
  <2>2. Cardinality(now) = Cardinality(old)
    BY <2>1
  <2>3. Times(all, e) = Cardinality(now)
    BY DEF Times
  <2> HIDE DEF now, old
  <2> QED BY <1>2, <1>4, <2>2, <2>3
<1> QED BY <1>3, <1>4

\* The booking of a candidate is that of no other.
LEMMA BookedAppend ==
  ASSUME NEW j \in Seq(JournalEntry), NEW new \in JournalEntry, NEW x \in TrackerIds
  PROVE  /\ Append(j, new) \in Seq(JournalEntry)
         /\ Booked(j, x) \in Int
         /\ Booked(Append(j, new), x)
              = IF x # new.id THEN Booked(j, x)
                ELSE IF new.type = "open" THEN Booked(j, x) + 1 ELSE Booked(j, x) - 1
<1> DEFINE opening == [type |-> "open", id |-> x]
           closing == [type |-> "close", id |-> x]
           more == Append(j, new)
<1>1. /\ new = opening <=> (x = new.id /\ new.type = "open")
      /\ new = closing <=> (x = new.id /\ new.type = "close")
      /\ new.type \in {"open", "close"}
  BY DEF JournalEntry
<1> HIDE DEF opening, closing
<1>2. /\ Times(more, opening) = Times(j, opening) + (IF new = opening THEN 1 ELSE 0)
      /\ Times(more, closing) = Times(j, closing) + (IF new = closing THEN 1 ELSE 0)
      /\ Times(j, opening) \in Nat /\ Times(j, closing) \in Nat
  <2>1. \A e : Times(j, e) \in Nat
    BY TimesIsNat
  <2>2. \A e : Times(more, e) = Times(j, e) + (IF new = e THEN 1 ELSE 0)
    BY TimesAppend
  <2> QED BY <2>1, <2>2
<1>3. more \in Seq(JournalEntry)
  OBVIOUS
<1>4. /\ Booked(j, x) = Times(j, opening) - Times(j, closing)
      /\ Booked(more, x) = Times(more, opening) - Times(more, closing)
  BY DEF Booked, opening, closing
<1> HIDE DEF more
<1>5. /\ more \in Seq(JournalEntry) /\ Booked(j, x) \in Int
      /\ Booked(more, x) = IF x # new.id THEN Booked(j, x)
                           ELSE IF new.type = "open" THEN Booked(j, x) + 1 ELSE Booked(j, x) - 1
  BY <1>1, <1>2, <1>3, <1>4
<1> QED BY <1>5 DEF more

-----------------------------------------------------------------------------
(* The fundings a position is paid.                                         *)

LEMMA QuotientMonotone ==
  ASSUME NEW a \in Nat, NEW b \in Nat, a <= b, NEW k \in Nat \ {0}
  PROVE  a \div k \in Nat /\ b \div k \in Nat /\ a \div k <= b \div k
<1> DEFINE p == a \div k
           q == b \div k
<1>1. p \in Nat /\ q \in Nat /\ k * p <= a /\ b < k * q + k
  OBVIOUS
<1> HIDE DEF p, q
<1>2. k * p < k * (q + 1)
  BY <1>1
<1>3. k * p \in Nat /\ k * (q + 1) \in Nat /\ q + 1 \in Nat
  BY <1>1
<1>4. p <= q
  <2> SUFFICES ASSUME q + 1 <= p PROVE FALSE
    BY <1>1
  <2>1. k * (q + 1) <= k * p
    BY <1>1, <1>3, ProductMonotone
  <2> QED BY <1>2, <1>3, <2>1
<1> QED BY <1>1, <1>4 DEF p, q

\* What is paid to one look and from there to the next is what is paid in all.
LEMMA PaymentsJoin ==
  ASSUME NEW a \in Nat, NEW b \in Nat, NEW c \in Nat, a <= b, b <= c
  PROVE  /\ Trackers!Payments(a, b) \in Seq(Nat)
         /\ Trackers!Payments(a, b) \o Trackers!Payments(b, c) = Trackers!Payments(a, c)
<1> DEFINE p == a \div TrackersInterval
           q == b \div TrackersInterval
           r == c \div TrackersInterval
           first == [n \in 1 .. q - p |-> p + n]
           second == [n \in 1 .. r - q |-> q + n]
           both == [n \in 1 .. r - p |-> p + n]
<1>1. p \in Nat /\ q \in Nat /\ r \in Nat /\ p <= q /\ q <= r
  BY TrackersAssumed, QuotientMonotone
<1>2. /\ Trackers!Payments(a, b) = first /\ Trackers!Payments(b, c) = second
      /\ Trackers!Payments(a, c) = both
  BY DEF Trackers!Payments
<1> HIDE DEF p, q, r
<1>3. /\ first \in Seq(Nat) /\ second \in Seq(Nat) /\ both \in Seq(Nat)
      /\ Len(first) = q - p /\ Len(second) = r - q /\ Len(both) = r - p
  <2>1. /\ q - p \in Nat /\ r - q \in Nat /\ r - p \in Nat
        /\ \A n \in 1 .. q - p : p + n \in Nat
        /\ \A n \in 1 .. r - q : q + n \in Nat
        /\ \A n \in 1 .. r - p : p + n \in Nat
    BY <1>1
  <2>2. \A k \in Nat : \A f \in [1 .. k -> Nat] : f \in Seq(Nat) /\ Len(f) = k
    OBVIOUS
  <2>3. first \in [1 .. q - p -> Nat] /\ second \in [1 .. r - q -> Nat] /\ both \in [1 .. r - p -> Nat]
    BY <2>1
  <2> HIDE DEF first, second, both
  <2> QED BY <2>1, <2>2, <2>3
<1>4. first \o second = both
  <2> DEFINE joined == first \o second
  <2>1. joined \in Seq(Nat) /\ Len(joined) = r - p
    BY <1>1, <1>3
  <2>2. ASSUME NEW n \in 1 .. r - p PROVE joined[n] = both[n]
    <3>1. joined[n] = IF n <= Len(first) THEN first[n] ELSE second[n - Len(first)]
      BY <1>1, <1>3
    <3>2. CASE n <= q - p
      <4>1. n \in 1 .. q - p
        BY <1>1, <3>2
      <4> QED BY <1>3, <3>1, <3>2, <4>1
    <3>3. CASE ~(n <= q - p)
      <4>1. n - (q - p) \in 1 .. r - q /\ q + (n - (q - p)) = p + n
        BY <1>1, <3>3
      <4> QED BY <1>3, <3>1, <3>3, <4>1
    <3> QED BY <3>2, <3>3
  <2> HIDE DEF joined, both
  <2> QED BY <1>3, <2>1, <2>2, SeqEqual DEF joined
<1> QED BY <1>2, <1>3, <1>4

LEMMA PaymentsAreList ==
  ASSUME NEW a \in Nat, NEW c \in Nat, a <= c
  PROVE  Trackers!Payments(a, c) \in Seq(Nat)
<1>1. c <= c
  OBVIOUS
<1> QED BY <1>1, PaymentsJoin

LEMMA NothingPaidYet ==
  ASSUME NEW a \in Nat
  PROVE  Trackers!Payments(a, a) = <<>>
<1>1. a \div TrackersInterval - a \div TrackersInterval = 0
  BY TrackersAssumed
<1> QED BY <1>1 DEF Trackers!Payments

\* A new position, and one that has looked again, are paid up.
LEMMA OpenedPaidUp ==
  ASSUME NEW since \in Nat, NEW at \in Nat, since <= at
  PROVE  LET pos == [openedAt |-> since, lastFundingCheckAt |-> since, accrued |-> <<>>, bars |-> 0]
         IN  pos \in Trackers!Position /\ PaidUp(pos, at)
BY NothingPaidYet DEF Trackers!Position, PaidUp

LEMMA AccruedPaidUp ==
  ASSUME NEW pos \in Trackers!Position, PaidUp(pos, trackersNow), trackersNow \in Nat
  PROVE  Trackers!Accrued(pos) \in Trackers!Position /\ PaidUp(Trackers!Accrued(pos), trackersNow)
<1> DEFINE from == pos.openedAt
           last == pos.lastFundingCheckAt
           paid == pos.accrued \o Trackers!Payments(last, trackersNow)
           new == [pos EXCEPT !.accrued = paid, !.lastFundingCheckAt = trackersNow]
<1>1. /\ from \in Nat /\ last \in Nat /\ from <= last /\ last <= trackersNow
      /\ pos.accrued = Trackers!Payments(from, last) /\ pos \in Trackers!Position
  BY TrackersAssumed DEF PaidUp, Trackers!Position
<1>2. paid = Trackers!Payments(from, trackersNow) /\ paid \in Seq(Nat)
  <2> HIDE DEF from, last
  <2>1. Trackers!Payments(from, last) \o Trackers!Payments(last, trackersNow)
          = Trackers!Payments(from, trackersNow)
    BY <1>1, PaymentsJoin
  <2>2. from <= trackersNow
    BY <1>1
  <2>3. Trackers!Payments(from, trackersNow) \in Seq(Nat)
    BY <1>1, <2>2, PaymentsAreList
  <2> QED BY <1>1, <2>1, <2>3
<1>3. Trackers!Accrued(pos) = new
  BY DEF Trackers!Accrued
<1> HIDE DEF paid
<1>4. /\ new \in Trackers!Position /\ new.openedAt = from /\ new.lastFundingCheckAt = trackersNow
      /\ new.accrued = paid
  BY <1>1, <1>2 DEF Trackers!Position
<1> HIDE DEF new, from, last
<1>5. from <= trackersNow
  BY <1>1
<1> QED BY <1>2, <1>3, <1>4, <1>5 DEF PaidUp

-----------------------------------------------------------------------------
(* The loop of a tracker.                                                   *)

LEMMA TrackerPlace ==
  ASSUME TrackersInv, trackersNext > 0
  PROVE  /\ trackersNext \in 1 .. Len(TrackersCandidates)
         /\ Trackers!Id \in TrackerIds /\ Trackers!Id = TrackersCandidates[trackersNext]
         /\ Trackers!Held = trackersState[Trackers!Id]
         /\ Trackers!Held \in Trackers!Position \union {None}
BY TrackersAssumed DEF TrackersInv, Slots, Trackers!Id, Trackers!Held

\* What a step of the loop hands on: slots of the right type that are paid up, and a
\* journal in which each candidate is booked as it was held.
Hands(after, j) ==
  /\ after \in Slots /\ AllPaidUp(trackersKind, after, trackersNow)
  /\ j \in Seq(JournalEntry)
  /\ \A id \in TrackerIds : Booked(j, id) - HeldIn(after, id)
                              = Booked(trackersJournal, id) - HeldIn(trackersState, id)

Steady == UNCHANGED <<trackersKind, trackersNow, trackersClock, trackersCrashes>>

LEMMA Continues ==
  ASSUME TrackersInv, trackersNext > 0, Steady, NEW after, Trackers!Continue(after),
         Hands(after, trackersJournal')
  PROVE  TrackersInv'
<1>1. /\ trackersState' = after /\ trackersAwaits' = "quote"
      /\ trackersFile' = trackersFile \/ trackersFile' = after
  BY DEF Trackers!Continue
<1>2. trackersNext' \in 0 .. Len(TrackersCandidates)
  BY TrackersAssumed, TrackerPlace DEF Trackers!Continue
<1>3. /\ trackersFile' \in Slots
      /\ AllPaidUp(trackersKind, after, trackersNow)
      /\ AllPaidUp(trackersKind, trackersFile', trackersNow)
  BY <1>1 DEF TrackersInv, Hands
<1> QED BY <1>1, <1>2, <1>3 DEF TrackersInv, Hands, Steady

LEMMA Awaiting ==
  ASSUME TrackersInv, trackersNext > 0, Steady, NEW after, NEW what, Trackers!Await(what, after),
         Hands(after, trackersJournal),
         what = "spot" /\ trackersKind = "shadow" => after[Trackers!Id] = None,
         what = "rates" => trackersKind = "funding" /\ after[Trackers!Id] # None
  PROVE  TrackersInv'
<1>1. /\ trackersState' = after /\ trackersAwaits' = what
      /\ UNCHANGED <<trackersNext, trackersFile, trackersJournal>>
  BY DEF Trackers!Await
<1>2. Trackers!Id = TrackersCandidates[trackersNext]
  BY TrackerPlace
<1> QED BY <1>1, <1>2 DEF TrackersInv, Hands, Steady

LEMMA HandsOn == TrackersInv => Hands(trackersState, trackersJournal)
BY DEF TrackersInv, Hands

LEMMA Skipping ==
  ASSUME TrackersInv, trackersNext > 0, Steady, Trackers!Skip
  PROVE  TrackersInv'
BY HandsOn, Continues DEF Trackers!Skip

\* The position held is replaced by another that is paid up.
LEMMA HandsReplaced ==
  ASSUME TrackersInv, trackersNext > 0, Trackers!Held # None, NEW q \in Trackers!Position,
         trackersKind = "funding" => PaidUp(q, trackersNow)
  PROVE  Hands([trackersState EXCEPT ![Trackers!Id] = q], trackersJournal)
<1> DEFINE id == Trackers!Id
           after == [trackersState EXCEPT ![id] = q]
<1>1. id \in TrackerIds /\ trackersState[id] # None /\ trackersState \in Slots
      /\ trackersJournal \in Seq(JournalEntry) /\ AllPaidUp(trackersKind, trackersState, trackersNow)
  BY TrackerPlace DEF TrackersInv
<1>2. q # None
  BY TrackersAssumed
<1> HIDE DEF id
<1>3. after \in Slots /\ \A x \in TrackerIds : after[x] = IF x = id THEN q ELSE trackersState[x]
  BY <1>1 DEF Slots
<1> HIDE DEF after
<1>4. \A x \in TrackerIds : HeldIn(after, x) = HeldIn(trackersState, x)
  BY <1>1, <1>2, <1>3 DEF HeldIn
<1>5. AllPaidUp(trackersKind, after, trackersNow)
  BY <1>1, <1>3 DEF AllPaidUp
<1>6. Hands(after, trackersJournal)
  BY <1>1, <1>3, <1>4, <1>5 DEF Hands
<1> QED BY <1>6 DEF after, id

LEMMA Closing ==
  ASSUME TrackersInv, trackersNext > 0, Steady, Trackers!Held # None, Trackers!Close
  PROVE  TrackersInv'
<1> DEFINE id == Trackers!Id
           after == [trackersState EXCEPT ![id] = None]
           more == Append(trackersJournal, [type |-> "close", id |-> id])
<1>1. /\ id \in TrackerIds /\ trackersState[id] # None /\ trackersState \in Slots
      /\ trackersJournal \in Seq(JournalEntry) /\ AllPaidUp(trackersKind, trackersState, trackersNow)
  BY TrackerPlace DEF TrackersInv
<1>2. Trackers!Continue(after) /\ trackersJournal' = more
  BY DEF Trackers!Close
<1> HIDE DEF id
<1>3. after \in Slots /\ \A x \in TrackerIds : after[x] = IF x = id THEN None ELSE trackersState[x]
  BY <1>1 DEF Slots
<1>4. /\ more \in Seq(JournalEntry)
      /\ \A x \in TrackerIds : /\ Booked(trackersJournal, x) \in Int
                               /\ Booked(more, x) = IF x # id THEN Booked(trackersJournal, x)
                                                    ELSE Booked(trackersJournal, x) - 1
  <2> DEFINE new == [type |-> "close", id |-> id]
  <2>1. new \in JournalEntry /\ new.id = id /\ new.type # "open"
    BY <1>1 DEF JournalEntry
  <2> HIDE DEF new
  <2>2. more = Append(trackersJournal, new)
    BY DEF new
  <2> HIDE DEF more
  <2> QED BY <1>1, <2>1, <2>2, BookedAppend
<1> HIDE DEF after, more
<1>5. \A x \in TrackerIds : HeldIn(after, x) = IF x # id THEN HeldIn(trackersState, x)
                                               ELSE HeldIn(trackersState, x) - 1
  BY <1>1, <1>3 DEF HeldIn
<1>6. \A x \in TrackerIds : HeldIn(trackersState, x) \in Int
  BY DEF HeldIn
<1>7. \A x \in TrackerIds : Booked(more, x) - HeldIn(after, x)
                              = Booked(trackersJournal, x) - HeldIn(trackersState, x)
  BY <1>4, <1>5, <1>6
<1>8. AllPaidUp(trackersKind, after, trackersNow)
  BY <1>1, <1>3 DEF AllPaidUp, PaidUp
<1>9. Hands(after, more)
  BY <1>3, <1>4, <1>7, <1>8 DEF Hands
<1> QED BY <1>2, <1>9, Continues

LEMMA Opening ==
  ASSUME TrackersInv, trackersNext > 0, Steady, Trackers!Held = None, NEW since \in Nat,
         trackersKind = "funding" => since <= trackersNow, Trackers!Open(since)
  PROVE  TrackersInv'
<1> DEFINE id == Trackers!Id
           pos == [openedAt |-> since, lastFundingCheckAt |-> since, accrued |-> <<>>, bars |-> 0]
           after == [trackersState EXCEPT ![id] = pos]
           more == Append(trackersJournal, [type |-> "open", id |-> id])
<1>1. /\ id \in TrackerIds /\ trackersState[id] = None /\ trackersState \in Slots
      /\ trackersJournal \in Seq(JournalEntry) /\ AllPaidUp(trackersKind, trackersState, trackersNow)
      /\ trackersNow \in Nat
  BY TrackerPlace DEF TrackersInv
<1>2. Trackers!Continue(after) /\ trackersJournal' = more
  BY DEF Trackers!Open
<1>3. pos \in Trackers!Position /\ (trackersKind = "funding" => PaidUp(pos, trackersNow))
  <2>1. pos \in Trackers!Position
    BY DEF Trackers!Position
  <2>2. since <= trackersNow => PaidUp(pos, trackersNow)
    BY <1>1, OpenedPaidUp
  <2> QED BY <2>1, <2>2
<1> HIDE DEF id, pos
<1>4. pos # None
  BY <1>3, TrackersAssumed
<1>5. after \in Slots /\ \A x \in TrackerIds : after[x] = IF x = id THEN pos ELSE trackersState[x]
  BY <1>1, <1>3 DEF Slots
<1>6. /\ more \in Seq(JournalEntry)
      /\ \A x \in TrackerIds : /\ Booked(trackersJournal, x) \in Int
                               /\ Booked(more, x) = IF x # id THEN Booked(trackersJournal, x)
                                                    ELSE Booked(trackersJournal, x) + 1
  <2> DEFINE new == [type |-> "open", id |-> id]
  <2>1. new \in JournalEntry /\ new.id = id /\ new.type = "open"
    BY <1>1 DEF JournalEntry
  <2> HIDE DEF new
  <2>2. more = Append(trackersJournal, new)
    BY DEF new
  <2> HIDE DEF more
  <2> QED BY <1>1, <2>1, <2>2, BookedAppend
<1> HIDE DEF after, more
<1>7. \A x \in TrackerIds : HeldIn(after, x) = IF x # id THEN HeldIn(trackersState, x)
                                               ELSE HeldIn(trackersState, x) + 1
  BY <1>1, <1>4, <1>5 DEF HeldIn
<1>8. \A x \in TrackerIds : HeldIn(trackersState, x) \in Int
  BY DEF HeldIn
<1>9. \A x \in TrackerIds : Booked(more, x) - HeldIn(after, x)
                              = Booked(trackersJournal, x) - HeldIn(trackersState, x)
  BY <1>6, <1>7, <1>8
<1>10. AllPaidUp(trackersKind, after, trackersNow)
  BY <1>1, <1>3, <1>5 DEF AllPaidUp
<1>11. Hands(after, more)
  BY <1>5, <1>6, <1>9, <1>10 DEF Hands
<1> QED BY <1>2, <1>11, Continues

-----------------------------------------------------------------------------
(* The requests of the three ledgers.                                       *)

LEMMA ShadowKeeps ==
  ASSUME TrackersInv, trackersNext > 0, Steady, trackersKind = "shadow",
         \/ trackersAwaits = "quote" /\ Trackers!ShadowQuote
         \/ trackersAwaits = "spot" /\ Trackers!ShadowFill
  PROVE  TrackersInv'
<1>1. trackersClock \in Nat /\ (trackersAwaits = "spot" => Trackers!Held = None)
  BY TrackerPlace DEF TrackersInv
<1>2. Trackers!Held = None => trackersState[Trackers!Id] = None
  BY TrackerPlace
<1>3. \/ Trackers!Skip
      \/ Trackers!Held # None /\ Trackers!Close
      \/ Trackers!Held = None /\ Trackers!Await("spot", trackersState)
      \/ Trackers!Held = None /\ Trackers!Open(trackersClock)
  BY <1>1 DEF Trackers!ShadowQuote, Trackers!ShadowFill
<1> QED BY <1>1, <1>2, <1>3, Skipping, Closing, Opening, Awaiting, HandsOn

LEMMA PairsKeeps ==
  ASSUME TrackersInv, trackersNext > 0, Steady, trackersKind = "pairs", Trackers!PairsQuote
  PROVE  TrackersInv'
<1>1. trackersClock \in Nat /\ trackersState \in Slots
  BY DEF TrackersInv
<1>2. CASE Trackers!Skip
  BY <1>2, Skipping
<1>3. CASE Trackers!Held = None /\ Trackers!Open(trackersClock)
  BY <1>1, <1>3, Opening
<1>4. CASE Trackers!Held # None /\ Trackers!Close
  BY <1>4, Closing
<1>5. CASE /\ Trackers!Held # None /\ UNCHANGED trackersJournal
           /\ Trackers!Continue([trackersState EXCEPT ![Trackers!Id].bars = @ + 1])
  <2> DEFINE p == trackersState[Trackers!Id]
             q == [p EXCEPT !.bars = @ + 1]
  <2>1. p \in Trackers!Position
    BY <1>5, TrackerPlace
  <2>2. q \in Trackers!Position
    <3>1. p.bars \in Nat /\ p.bars + 1 \in Nat
      BY <2>1 DEF Trackers!Position
    <3> HIDE DEF p
    <3> QED BY <2>1, <3>1 DEF Trackers!Position
  <2>3. [trackersState EXCEPT ![Trackers!Id].bars = @ + 1] = [trackersState EXCEPT ![Trackers!Id] = q]
    OBVIOUS
  <2> HIDE DEF q
  <2>4. Hands([trackersState EXCEPT ![Trackers!Id] = q], trackersJournal)
    BY <1>5, <2>2, HandsReplaced
  <2> QED BY <1>5, <2>3, <2>4, Continues
<1> QED BY <1>2, <1>3, <1>4, <1>5 DEF Trackers!PairsQuote

\* The tick leaves or goes on, with what was paid.
LEMMA OutOrOnKeeps ==
  ASSUME TrackersInv, trackersNext > 0, Steady, trackersKind = "funding", NEW after, NEW rate,
         Hands(after, trackersJournal), Trackers!OutOrOn(after, rate)
  PROVE  TrackersInv'
<1>1. \/ Trackers!Await("spot", after)
      \/ Trackers!Continue(after) /\ UNCHANGED trackersJournal
  BY DEF Trackers!OutOrOn
<1> QED BY <1>1, Awaiting, Continues

LEMMA FundingKeeps ==
  ASSUME TrackersInv, trackersNext > 0, Steady, trackersKind = "funding",
         \/ trackersAwaits = "quote" /\ Trackers!FundingQuote
         \/ trackersAwaits = "rates" /\ Trackers!FundingRates
         \/ trackersAwaits = "spot" /\ Trackers!FundingSpot
  PROVE  TrackersInv'
<1>1. /\ trackersNow \in Nat /\ Hands(trackersState, trackersJournal)
      /\ Trackers!Id \in TrackerIds /\ Trackers!Held = trackersState[Trackers!Id]
      /\ Trackers!Held \in Trackers!Position \union {None}
  BY HandsOn, TrackerPlace DEF TrackersInv
<1>2. CASE trackersAwaits = "quote" /\ Trackers!FundingQuote
  <2>1. \/ Trackers!Skip
        \/ Trackers!Await("spot", trackersState)
        \/ Trackers!Held # None /\ Trackers!Await("rates", trackersState)
        \/ \E rate \in Trackers!Leaves : Trackers!OutOrOn(trackersState, rate)
    BY <1>2 DEF Trackers!FundingQuote
  <2> QED BY <1>1, <2>1, Skipping, Awaiting, OutOrOnKeeps
<1>3. CASE trackersAwaits = "rates" /\ Trackers!FundingRates
  <2> DEFINE q == Trackers!Accrued(Trackers!Held)
  <2>1. Trackers!Held # None
    BY <1>3, TrackerPlace DEF TrackersInv
  <2>2. PaidUp(Trackers!Held, trackersNow)
    BY <1>1 DEF TrackersInv, AllPaidUp
  <2>3. q \in Trackers!Position /\ PaidUp(q, trackersNow)
    BY <1>1, <2>1, <2>2, AccruedPaidUp
  <2>4. \E rate \in Trackers!Leaves :
          Trackers!OutOrOn([trackersState EXCEPT ![Trackers!Id] = q], rate)
    BY <1>3 DEF Trackers!FundingRates
  <2> HIDE DEF q
  <2>5. Hands([trackersState EXCEPT ![Trackers!Id] = q], trackersJournal)
    BY <2>1, <2>3, HandsReplaced
  <2> QED BY <2>4, <2>5, OutOrOnKeeps
<1>4. CASE trackersAwaits = "spot" /\ Trackers!FundingSpot
  <2>1. \/ Trackers!Skip
        \/ Trackers!Held # None /\ Trackers!Close
        \/ Trackers!Held = None /\ Trackers!Open(trackersNow)
    BY <1>4 DEF Trackers!FundingSpot
  <2> QED BY <1>1, <2>1, Skipping, Closing, Opening
<1> QED BY <1>2, <1>3, <1>4

\* Looking later is no earlier than the last look.
LEMMA PaidUpLater ==
  ASSUME NEW k, NEW slots \in Slots, NEW a \in Nat, NEW b \in Nat, a <= b, AllPaidUp(k, slots, a)
  PROVE  AllPaidUp(k, slots, b)
<1> SUFFICES ASSUME k = "funding", NEW id \in TrackerIds, slots[id] # None
             PROVE  PaidUp(slots[id], b)
  BY DEF AllPaidUp, PaidUp
<1>1. PaidUp(slots[id], a) /\ slots[id].lastFundingCheckAt \in Nat
  BY DEF AllPaidUp, Slots, Trackers!Position
<1> QED BY <1>1 DEF PaidUp

LEMMA StartKeeps ==
  ASSUME TrackersInv, Trackers!StartTick
  PROVE  TrackersInv'
<1>1. /\ trackersNext' = 1 /\ trackersAwaits' = "quote" /\ trackersNow' = trackersClock
      /\ UNCHANGED <<trackersKind, trackersState, trackersFile, trackersJournal, trackersClock,
                     trackersCrashes>>
  BY DEF Trackers!StartTick
<1>2. trackersNext' \in 0 .. Len(TrackersCandidates)
  BY <1>1, TrackersAssumed
<1>3. /\ AllPaidUp(trackersKind, trackersState, trackersClock)
      /\ AllPaidUp(trackersKind, trackersFile, trackersClock)
  BY PaidUpLater DEF TrackersInv
<1> QED BY <1>1, <1>2, <1>3 DEF TrackersInv

\* A crash takes at most one booking of each candidate out of step.
LEMMA CrashKeeps ==
  ASSUME TrackersInv, Trackers!Crash
  PROVE  TrackersInv'
<1>1. /\ trackersCrashes' = trackersCrashes + 1 /\ trackersState' = trackersFile
      /\ trackersNext' = 0 /\ trackersAwaits' = "quote"
      /\ UNCHANGED <<trackersKind, trackersFile, trackersJournal, trackersNow, trackersClock>>
  BY DEF Trackers!Crash
<1>2. ASSUME NEW id \in TrackerIds
      PROVE  Booked(trackersJournal, id) - HeldIn(trackersFile, id)
               \in -(trackersCrashes + 1) .. trackersCrashes + 1
  <2>1. /\ Booked(trackersJournal, id) - HeldIn(trackersState, id)
             \in -trackersCrashes .. trackersCrashes
        /\ trackersCrashes \in Nat
    BY DEF TrackersInv
  <2>2. HeldIn(trackersFile, id) \in 0 .. 1 /\ HeldIn(trackersState, id) \in 0 .. 1
    BY DEF HeldIn
  <2>3. Booked(trackersJournal, id) \in Int
    <3>1. trackersJournal \in Seq(JournalEntry)
      BY DEF TrackersInv
    <3>2. \A e : Times(trackersJournal, e) \in Nat
      BY <3>1, TimesIsNat
    <3> QED BY <3>2 DEF Booked
  <2> QED BY <2>1, <2>2, <2>3
<1>3. trackersCrashes + 1 \in Nat /\ 0 \in 0 .. Len(TrackersCandidates)
  BY TrackersAssumed DEF TrackersInv
<1> QED BY <1>1, <1>2, <1>3 DEF TrackersInv

LEMMA TrackersStep == TrackersInv /\ [Trackers!Next]_trackersVars => TrackersInv'
<1> SUFFICES ASSUME TrackersInv, [Trackers!Next]_trackersVars PROVE TrackersInv'
  OBVIOUS
<1>1. CASE UNCHANGED trackersVars
  BY <1>1 DEF trackersVars, TrackersInv
<1>2. CASE Trackers!Ticking /\ (Trackers!Quote \/ Trackers!Rates \/ Trackers!Spot)
  <2>1. trackersNext > 0 /\ Steady
    BY <1>2 DEF Trackers!Ticking, Steady
  <2>2. trackersAwaits = "rates" => trackersKind = "funding"
    BY <2>1 DEF TrackersInv
  <2> QED BY <1>2, <2>1, <2>2, ShadowKeeps, PairsKeeps, FundingKeeps
       DEF Trackers!Quote, Trackers!Rates, Trackers!Spot
<1>3. CASE Trackers!RatesFail
  <2>1. /\ trackersNext' = 0 /\ trackersAwaits' = "quote" /\ 0 \in 0 .. Len(TrackersCandidates)
        /\ UNCHANGED <<trackersKind, trackersState, trackersFile, trackersJournal, trackersNow,
                       trackersClock, trackersCrashes>>
    BY <1>3, TrackersAssumed DEF Trackers!RatesFail, Trackers!Ticking
  <2> QED BY <2>1 DEF TrackersInv
<1>4. CASE Trackers!TimePasses
  <2>1. /\ trackersClock' = trackersClock + 1
        /\ UNCHANGED <<trackersKind, trackersState, trackersFile, trackersJournal, trackersNext,
                       trackersAwaits, trackersNow, trackersCrashes>>
    BY <1>4 DEF Trackers!TimePasses
  <2>2. trackersClock' \in Nat /\ trackersNow <= trackersClock'
    BY <2>1 DEF TrackersInv
  <2> QED BY <2>1, <2>2 DEF TrackersInv
<1> QED
  BY <1>1, <1>2, <1>3, <1>4, StartKeeps, CrashKeeps
  DEF Trackers!Next, Trackers!Quote, Trackers!Rates, Trackers!Spot

LEMMA TrackersInit == Trackers!Init => TrackersInv
<1> SUFFICES ASSUME Trackers!Init PROVE TrackersInv
  OBVIOUS
<1>1. /\ trackersState = [id \in TrackerIds |-> None] /\ trackersFile = trackersState
      /\ trackersJournal = <<>> /\ trackersNext = 0 /\ trackersNow = 0 /\ trackersClock = 0
      /\ trackersCrashes = 0 /\ trackersKind \in {"shadow", "funding", "pairs"}
  BY DEF Trackers!Init, TrackerIds
<1>2. \A id \in TrackerIds : Booked(trackersJournal, id) = 0 /\ HeldIn(trackersState, id) = 0
  <2>1. \A e : {i \in DOMAIN trackersJournal : trackersJournal[i] = e} = {}
    BY <1>1
  <2>2. \A e : Times(trackersJournal, e) = 0
    BY <2>1, FS_EmptySet DEF Times
  <2> QED BY <1>1, <2>2 DEF Booked, HeldIn
<1>3. trackersState \in Slots /\ trackersJournal \in Seq(JournalEntry)
  BY <1>1 DEF Slots
<1>4. AllPaidUp(trackersKind, trackersState, trackersNow)
  BY <1>1 DEF AllPaidUp, PaidUp
<1>5. 0 \in 0 .. Len(TrackersCandidates)
  BY TrackersAssumed
<1> QED BY <1>1, <1>2, <1>3, <1>4, <1>5 DEF TrackersInv

LEMMA TrackersCount == ASSUME NEW S PROVE Trackers!Cardinality(S) = Cardinality(S)
BY DEF Trackers!Cardinality, Cardinality

LEMMA TrackersFollow == TrackersInv => TrackersKeepTheirBooks
<1> SUFFICES ASSUME TrackersInv PROVE TrackersKeepTheirBooks
  OBVIOUS
<1>1. Trackers!JournalFollowsState
  <2> SUFFICES ASSUME NEW id \in TrackerIds
               PROVE  LET open == Trackers!Journalled("open", id) - Trackers!Journalled("close", id)
                          held == IF trackersState[id] = None THEN 0 ELSE 1
                      IN  open - held \in -trackersCrashes .. trackersCrashes
    BY DEF Trackers!JournalFollowsState, TrackerIds
  <2>1. \A type : Trackers!Journalled(type, id) = Times(trackersJournal, [type |-> type, id |-> id])
    BY TrackersCount DEF Trackers!Journalled, Times
  <2>2. Booked(trackersJournal, id) - HeldIn(trackersState, id) \in -trackersCrashes .. trackersCrashes
    BY DEF TrackersInv
  <2> QED BY <2>1, <2>2 DEF Booked, HeldIn
<1>2. Trackers!FundingIsCountedOnce
  BY DEF TrackersInv, AllPaidUp, PaidUp, Trackers!FundingIsCountedOnce, TrackerIds
<1> QED BY <1>1, <1>2 DEF TrackersKeepTheirBooks

\* The journal of a tracker follows its state but for one booking at each crash, and a
\* position is credited each funding payment of its time once, for any candidates,
\* intervals and times, whatever requests fail (shadow-signal-tracker.ts,
\* funding-arb.ts and pairs-arb.ts tick and saveState).
THEOREM TrackersAlwaysKeepBooks == BundleSpec => []TrackersKeepTheirBooks
<1>1. BundleInit => TrackersInv
  BY TrackersInit DEF BundleInit
<1>2. [BundleNext]_bundle => [Trackers!Next]_trackersVars
  BY DEF BundleNext, bundle
<1>3. TrackersInv /\ [BundleNext]_bundle => TrackersInv'
  BY <1>2, TrackersStep
<1> QED BY <1>1, <1>3, TrackersFollow, PTL DEF BundleSpec

=============================================================================
