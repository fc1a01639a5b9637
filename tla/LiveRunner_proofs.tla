------------------------- MODULE LiveRunner_proofs -------------------------
(***************************************************************************)
(* The live runner where no pass works on the shared position while        *)
(* another is suspended half way: on one candle a strategy enters once,    *)
(* the margin passes its ceiling by no more than the multipliers after it, *)
(* no exit is passed over, and the journal                                 *)
(* accounts for the position, through crashes, pool reloads and pauses.    *)
(***************************************************************************)
EXTENDS LiveRunner, SymbolPosition_proofs, FiniteSetTheorems

\* Either nothing is awaited half way through a pass, or no pass goes into its
\* candles while another one is suspended there.
Unawaited == ~AiMode /\ HtfReaders = {} /\ ~FundingAwait
NothingInterleaves == ~MayOverlap \/ Unawaited

\* The ceiling, and the multipliers that come after it.
Most == Scaled(Scaled(Cap, MaxMultiplier), MaxGateSize)

\* What an entry adds to, and the quantities that keep to the bound.
SameSide(p, s) == IF p.direction = DirOf[s] THEN p.qty ELSE 0
Fits(p, s, q) == SameSide(p, s) + q <= Most

\* A quantity clipped to the headroom and sized, before the gate is asked.
Sized(s, q) == Headroom(s) > 0 /\ q <= Scaled(Headroom(s), MaxMultiplier)

StratsIn(g) == {s \in Strategies : GroupOf[s] = g}
Bars == 0 .. MaxBar

Held(p) ==
  /\ p \in PositionsOf(Strategies, Bars) /\ Covered(p)
  /\ p.direction = "none" => p = FlatPosition
  /\ p.direction # "none" => p.gov \in Strategies
  /\ p.qty <= Most

\* A candle counts as evaluated for the governing strategy when the exits of the
\* position were checked on it.
Checked(p, evaluated, charts, excused) ==
  p.direction # "none"
    => LET g == GroupOf[p.gov]
           b == evaluated[p.gov]
       IN  b > p.entryIdx => ~charts[g][b] \/ <<g, b>> \in excused

\* What may be held in memory and saved, on the candles closed and judged so far.
Sound(p, evaluated, off, charts, excused) ==
  /\ Held(p) /\ Checked(p, evaluated, charts, excused)
  /\ evaluated \in [Strategies -> Bars]
  /\ \A s \in Strategies : evaluated[s] <= Len(charts[GroupOf[s]])
  /\ off \in SUBSET Strategies

MemoryInv == Sound(pos, lastEval, paused, bars, misread)

DiskInv ==
  /\ DOMAIN disk = {"pos", "lastEval", "paused"}
  /\ Sound(disk.pos, disk.lastEval, disk.paused, bars, misread)

PassStates ==
  [pc : {"idle", "fetch", "exit", "funding", "eval", "htf", "gate"}, pool : Seq(Strategies),
   groups : Seq(Groups), strats : Seq(Strategies), asked : Nat, bar : Nat, final : BOOLEAN,
   crosses : BOOLEAN, held : PositionsOf(Strategies, Bars), qty : Nat]

Working == {"exit", "funding", "eval", "htf", "gate"}

\* What a pass works on: strategies of the group it is at, on a candle of that group.
WorkInv(w) ==
  /\ pass[w].pc # "idle" =>
       /\ pass[w].groups # <<>>
       /\ Range(pass[w].strats) \subseteq StratsIn(Group(w))
       /\ pass[w].asked \in 1 .. Closed(Group(w))
  /\ pass[w].pc \in Working =>
       /\ pass[w].bar \in 1 .. Closed(Group(w))
       /\ pass[w].final => pass[w].crosses = bars[Group(w)][pass[w].bar]
  /\ pass[w].pc \in {"exit", "eval"} <=> running = w

LoopInv ==
  /\ bars \in [Groups -> Seq(BOOLEAN)] /\ \A g \in Groups : Closed(g) \in 1 .. MaxBar
  /\ pool \in Seq(Strategies)
  /\ attached \in [Streamed -> Seq(Strategies)]
  /\ \A g \in Streamed : Range(attached[g]) \subseteq StratsIn(g)
  /\ globalHalt \in BOOLEAN /\ crashes \in Nat
  /\ misread \subseteq Groups \X (1 .. MaxBar)
  /\ running \in Passes \union {Nobody}
  /\ pass \in [Passes -> PassStates]
  /\ \A w \in Passes : WorkInv(w)

\* The exits of the position were checked on the candle of a pass, or the position
\* was opened on it, before its governing strategy is evaluated.
ExitsChecked(w) ==
  pos.direction # "none" /\ pos.gov \in Range(pass[w].strats) /\ pass[w].bar > lastEval[pos.gov]
    => \/ pos.entryIdx >= pass[w].bar
       \/ ~bars[Group(w)][pass[w].bar]
       \/ <<Group(w), pass[w].bar>> \in misread

\* What a pass knows of the memory still holds when it goes on: nothing else has
\* worked on it meanwhile.
KnowsInv(w) ==
  /\ pass[w].pc = "funding" => pass[w].held = pos /\ pos.direction # "none"
  /\ pass[w].pc \in {"htf", "gate"} =>
       pass[w].strats # <<>> /\ pass[w].bar > lastEval[Strat(w)]
  /\ pass[w].pc = "gate" => pass[w].qty > 0 /\ Sized(Strat(w), pass[w].qty)
  /\ pass[w].pc \in {"eval", "htf", "gate"} => ExitsChecked(w)

AloneInv ==
  /\ \A v, w \in Passes : pass[v].pc \in Working /\ pass[w].pc \in Working => v = w
  /\ Unawaited => \A w \in Passes : ~HalfWay(w)
  /\ \A w \in Passes : KnowsInv(w)

\* An entry on a candle that does not count as evaluated was made before a crash.
JournalInv ==
  /\ journal.net \in Int
  /\ journal.entries \in [Strategies -> [1 .. MaxBar -> Nat]]
  /\ \A s \in Strategies, b \in 1 .. MaxBar :
       /\ journal.entries[s][b] <= 1 + crashes
       /\ b > lastEval[s] => journal.entries[s][b] <= crashes
  /\ crashes = 0 => journal.net = SignedQty(pos)
  /\ \A s \in Strategies :
       /\ Cardinality(LotsBy(s, pos.lots)) <= TotalOf(journal.entries[s])
       /\ Cardinality(LotsBy(s, disk.pos.lots)) <= TotalOf(journal.entries[s])

RunnerInv ==
  LoopInv /\ MemoryInv /\ DiskInv /\ AloneInv /\ JournalInv

-----------------------------------------------------------------------------
(* Sizes.                                                                  *)

LEMMA Quotient ==
  ASSUME NEW a \in Nat, NEW b \in Nat
  PROVE  /\ a \div Whole \in Nat
         /\ a <= b => a \div Whole <= b \div Whole
         /\ (a + Whole * b) \div Whole = (a \div Whole) + b
  BY DEF Whole

LEMMA ScaledType ==
  ASSUME NEW q \in Nat, NEW m \in Nat
  PROVE  Scaled(q, m) \in Nat \ {0}
<1>1. q * m \in Nat
  OBVIOUS
<1>2. (q * m) \div Whole \in Nat
  BY <1>1, Quotient
<1> QED BY <1>2 DEF Scaled, Greatest

LEMMA ScaledGrows ==
  ASSUME NEW a \in Nat, NEW b \in Nat, a <= b, NEW n \in Nat, NEW m \in 1 .. n
  PROVE  Scaled(a, m) <= Scaled(b, n)
<1>1. a * m \in Nat /\ b * n \in Nat /\ a * m <= b * n
  <2>1. a * m <= b * m
    OBVIOUS
  <2>2. b * m <= b * n
    OBVIOUS
  <2> QED BY <2>1, <2>2
<1>2. /\ (a * m) \div Whole \in Nat /\ (b * n) \div Whole \in Nat
      /\ (a * m) \div Whole <= (b * n) \div Whole
  BY <1>1, Quotient
<1> QED BY <1>2 DEF Scaled, Greatest

\* What is held beside a quantity grows with it where the size is at least one.
LEMMA ScaledAdds ==
  ASSUME NEW q \in Nat \ {0}, NEW x \in Nat, NEW m \in Nat, Whole <= m
  PROVE  /\ Scaled(q, m) \in Nat \ {0}
         /\ Scaled(q, m) + x <= Scaled(q + x, m)
         /\ q <= Scaled(q, m)
<1>1. q * m \in Nat /\ (q + x) * m \in Nat /\ Whole * x \in Nat /\ Whole * q \in Nat
  BY DEF Whole
<1>2. (q + x) * m >= q * m + Whole * x /\ q * m >= Whole * q
  <2>1. (q + x) * m = q * m + x * m
    OBVIOUS
  <2>2. x * m >= x * Whole /\ q * m >= q * Whole
    BY DEF Whole
  <2> QED BY <1>1, <2>1, <2>2 DEF Whole
<1>3. /\ (q * m) \div Whole \in Nat /\ ((q + x) * m) \div Whole \in Nat
      /\ (q * m + Whole * x) \div Whole = ((q * m) \div Whole) + x
      /\ (q * m + Whole * x) \div Whole <= ((q + x) * m) \div Whole
  <2> DEFINE a == q * m
             b == (q + x) * m
             c == q * m + Whole * x
  <2>1. a \in Nat /\ b \in Nat /\ c \in Nat /\ c <= b /\ c = a + Whole * x
    BY <1>1, <1>2
  <2> HIDE DEF a, b, c
  <2>2. /\ a \div Whole \in Nat /\ b \div Whole \in Nat /\ c \div Whole <= b \div Whole
        /\ (a + Whole * x) \div Whole = (a \div Whole) + x
    BY <2>1, Quotient
  <2>3. (q * m + Whole * x) \div Whole = c \div Whole
    BY DEF c
  <2> QED BY <2>1, <2>2, <2>3 DEF a, b
<1>4. (q * m) \div Whole >= q
  <2>1. (0 + Whole * q) \div Whole = (0 \div Whole) + q /\ 0 \div Whole = 0
    BY Quotient DEF Whole
  <2>2. (0 + Whole * q) \div Whole <= (q * m) \div Whole
    BY <1>1, <1>2, Quotient
  <2> QED BY <1>1, <1>3, <2>1, <2>2
<1> QED BY <1>3, <1>4 DEF Scaled, Greatest

LEMMA MostType == Most \in Nat
  BY RunnerAssumption, ScaledType DEF RunnerAssumption, Most

-----------------------------------------------------------------------------
(* The lists of a pool.                                                    *)

\* What is left of a list is of the set it was filtered by.
LEMMA FilterType ==
  ASSUME NEW p \in Seq(Strategies), NEW kept
  PROVE  Filter(p, kept) \in Seq(Strategies \intersect kept)
<1> DEFINE n == Len(p)
           S == Seq(Strategies \intersect kept)
           IsFold(g) == g = [s \in SUBSET (1 .. n) |->
                               IF s = {} THEN <<>>
                               ELSE IF p[Max(s)] \in kept
                                    THEN Append(g[s \ {Max(s)}], p[Max(s)])
                                    ELSE g[s \ {Max(s)}]]
           iter == CHOOSE g : IsFold(g)
           step == [a \in (1 .. n) \X S |-> IF p[a[1]] \in kept THEN Append(a[2], p[a[1]]) ELSE a[2]]
<1>1. Filter(p, kept) = iter[1 .. n]
  <2>1. DOMAIN p = 1 .. n OBVIOUS
  <2> HIDE DEF step, S
  <2> QED BY <2>1 DEF Filter, FoldLeft, MapThenFoldSet
<1>2. n \in Nat /\ <<>> \in S /\ \A i \in 1 .. n : p[i] \in Strategies
  OBVIOUS
<1>3. \A list \in S, s \in Strategies \intersect kept : Append(list, s) \in S
  OBVIOUS
<1>4. step = [a \in (1 .. n) \X S |-> IF p[a[1]] \in kept THEN Append(a[2], p[a[1]]) ELSE a[2]]
  OBVIOUS
<1> HIDE DEF n, S, step, iter, IsFold
<1>5. step \in [(1 .. n) \X S -> S]
  <2>1. \A a \in (1 .. n) \X S :
          (IF p[a[1]] \in kept THEN Append(a[2], p[a[1]]) ELSE a[2]) \in S
    BY <1>2, <1>3
  <2> QED BY <1>4, <2>1
<1>6. PICK f \in [SUBSET (1 .. n) -> S] : FoldsTo(f, n, <<>>, step)
  BY <1>2, <1>5, FoldExists
<1>7. IsFold(f)
  <2>1. ASSUME NEW s \in SUBSET (1 .. n)
        PROVE  f[s] = IF s = {} THEN <<>>
                      ELSE IF p[Max(s)] \in kept THEN Append(f[s \ {Max(s)}], p[Max(s)])
                      ELSE f[s \ {Max(s)}]
    <3>1. s # {} => Max(s) \in 1 .. n /\ f[s \ {Max(s)}] \in S
      BY <1>2, MaxUpTo
    <3> QED BY <1>4, <1>6, <3>1 DEF FoldsTo
  <2> QED BY <2>1 DEF IsFold
<1>8. IsFold(iter)
  BY <1>7 DEF iter
<1>9. iter[{}] = <<>>
  <2>1. {} \in SUBSET (1 .. n) OBVIOUS
  <2> QED BY <1>8, <2>1 DEF IsFold
<1>10. ASSUME NEW i \in 1 .. n, iter[1 .. i - 1] \in S PROVE iter[1 .. i] \in S
  <2>1. /\ 1 .. i \in SUBSET (1 .. n) /\ 1 .. i # {}
        /\ Max(1 .. i) = i /\ (1 .. i) \ {i} = 1 .. i - 1
    BY <1>2, IntervalStep
  <2>2. iter[1 .. i] = IF p[Max(1 .. i)] \in kept
                       THEN Append(iter[(1 .. i) \ {Max(1 .. i)}], p[Max(1 .. i)])
                       ELSE iter[(1 .. i) \ {Max(1 .. i)}]
    BY <1>8, <2>1 DEF IsFold
  <2>3. iter[1 .. i] = IF p[i] \in kept THEN Append(iter[1 .. i - 1], p[i]) ELSE iter[1 .. i - 1]
    BY <2>1, <2>2
  <2> QED BY <1>2, <1>3, <1>10, <2>3
<1>11. \A i \in 0 .. n : iter[1 .. i] \in S
  BY <1>2, <1>9, <1>10, FoldReaches
<1>12. n \in 0 .. n
  BY <1>2
<1>13. Filter(p, kept) \in S
  BY <1>1, <1>11, <1>12
<1> QED BY <1>13 DEF S

LEMMA StratsOfType ==
  ASSUME NEW p \in Seq(Strategies), NEW g
  PROVE  /\ StratsOf(p, g) \in Seq(Strategies)
         /\ Range(StratsOf(p, g)) \subseteq StratsIn(g)
<1>1. StratsOf(p, g) \in Seq(Strategies \intersect StratsIn(g))
  BY FilterType DEF StratsOf, StratsIn
<1>2. \A list \in Seq(Strategies \intersect StratsIn(g)) :
        list \in Seq(Strategies) /\ Range(list) \subseteq StratsIn(g)
  BY DEF Range
<1> QED BY <1>1, <1>2

LEMMA GroupType ==
  ASSUME NEW s \in Strategies
  PROVE  GroupOf[s] \in Groups
  BY DEF Groups

\* The groups of a pool with strategies: there is one at least.
LEMMA GroupsOfType ==
  ASSUME NEW p \in Seq(Strategies), p # <<>>
  PROVE  GroupsOf(p) \in Seq(Groups) /\ GroupsOf(p) # <<>>
<1> DEFINE n == Len(p)
           S == Seq(Groups)
           IsFold(g) == g = [s \in SUBSET (1 .. n) |->
                               IF s = {} THEN <<>> ELSE WithGroup(g[s \ {Max(s)}], p[Max(s)])]
           iter == CHOOSE g : IsFold(g)
           step == [a \in (1 .. n) \X S |-> WithGroup(a[2], p[a[1]])]
<1>1. GroupsOf(p) = iter[1 .. n]
  <2>1. DOMAIN p = 1 .. n OBVIOUS
  <2> HIDE DEF step, S
  <2> QED BY <2>1 DEF GroupsOf, FoldLeft, MapThenFoldSet
<1>2. n \in Nat \ {0} /\ <<>> \in S /\ \A i \in 1 .. n : p[i] \in Strategies
  OBVIOUS
<1>3. \A list \in S, s \in Strategies : WithGroup(list, s) \in S /\ WithGroup(list, s) # <<>>
  <2> TAKE list \in S, s \in Strategies
  <2>1. GroupOf[s] \in Groups
    BY GroupType
  <2>2. GroupOf[s] \in Range(list) => list # <<>>
    BY DEF Range
  <2>3. Append(list, GroupOf[s]) \in S /\ Append(list, GroupOf[s]) # <<>>
    <3> DEFINE more == Append(list, GroupOf[s])
    <3>1. more \in S /\ Len(more) = Len(list) + 1 /\ Len(list) \in Nat
      BY <2>1
    <3> HIDE DEF more
    <3>2. more # <<>>
      BY <3>1
    <3> QED BY <3>1, <3>2 DEF more
  <2> QED BY <2>2, <2>3 DEF WithGroup
<1>4. step = [a \in (1 .. n) \X S |-> WithGroup(a[2], p[a[1]])]
  OBVIOUS
<1> HIDE DEF n, S, step, iter, IsFold
<1>5. step \in [(1 .. n) \X S -> S]
  <2>1. \A a \in (1 .. n) \X S : WithGroup(a[2], p[a[1]]) \in S
    BY <1>2, <1>3
  <2> QED BY <1>4, <2>1
<1>6. PICK f \in [SUBSET (1 .. n) -> S] : FoldsTo(f, n, <<>>, step)
  BY <1>2, <1>5, FoldExists
<1>7. IsFold(f)
  <2>1. ASSUME NEW s \in SUBSET (1 .. n)
        PROVE  f[s] = IF s = {} THEN <<>> ELSE WithGroup(f[s \ {Max(s)}], p[Max(s)])
    <3>1. s # {} => Max(s) \in 1 .. n /\ f[s \ {Max(s)}] \in S
      BY <1>2, MaxUpTo
    <3> QED BY <1>4, <1>6, <3>1 DEF FoldsTo
  <2> QED BY <2>1 DEF IsFold
<1>8. IsFold(iter)
  BY <1>7 DEF iter
<1>9. iter[{}] = <<>>
  <2>1. {} \in SUBSET (1 .. n) OBVIOUS
  <2> QED BY <1>8, <2>1 DEF IsFold
<1>10. \A i \in 1 .. n : iter[1 .. i] = WithGroup(iter[1 .. i - 1], p[i])
  <2> TAKE i \in 1 .. n
  <2>1. /\ 1 .. i \in SUBSET (1 .. n) /\ 1 .. i # {}
        /\ Max(1 .. i) = i /\ (1 .. i) \ {i} = 1 .. i - 1
    BY <1>2, IntervalStep
  <2>2. iter[1 .. i] = WithGroup(iter[(1 .. i) \ {Max(1 .. i)}], p[Max(1 .. i)])
    BY <1>8, <2>1 DEF IsFold
  <2> QED BY <2>1, <2>2
<1>11. \A i \in 0 .. n : iter[1 .. i] \in S
  <2>1. \A i \in 1 .. n : iter[1 .. i - 1] \in S => iter[1 .. i] \in S
    BY <1>2, <1>3, <1>10
  <2> QED BY <1>2, <1>9, <2>1, FoldReaches
<1>12. n \in 1 .. n /\ n - 1 \in 0 .. n /\ n \in 0 .. n
  BY <1>2
<1>13. GroupsOf(p) \in S
  BY <1>1, <1>11, <1>12
<1>14. GroupsOf(p) # <<>>
  BY <1>1, <1>2, <1>3, <1>10, <1>11, <1>12
<1> QED BY <1>13, <1>14 DEF S

-----------------------------------------------------------------------------
(* What the fills of a change say to the journal.                          *)

SignedTotal(fills) == TotalOf([i \in DOMAIN fills |-> Signed(fills[i])])

\* One amount of a list that grows.
LEMMA TotalGrows ==
  ASSUME NEW n \in Nat, NEW m \in [1 .. n -> Nat], NEW b \in 1 .. n, NEW k \in Nat
  PROVE  /\ TotalOf([m EXCEPT ![b] = @ + k]) = TotalOf(m) + k
         /\ TotalOf(m) \in Int
<1> DEFINE o == [m EXCEPT ![b] = @ + k]
<1>1. o \in [1 .. n -> Int] /\ m \in [1 .. n -> Int]
  OBVIOUS
<1>2. PICK a : PartialSums(a, m, n) /\ TotalOf(m) = a[n]
  BY <1>1, TotalUnrolls
<1>3. PICK c : PartialSums(c, o, n) /\ TotalOf(o) = c[n]
  <2> HIDE DEF o
  <2> QED BY <1>1, TotalUnrolls
<1>4. \A i \in 1 .. n : o[i] = IF i = b THEN m[i] + k ELSE m[i]
  OBVIOUS
<1> HIDE DEF o
<1> DEFINE Good == {i \in 0 .. n : c[i] = IF i < b THEN a[i] ELSE a[i] + k}
<1>5. 0 \in Good
  BY <1>2, <1>3 DEF PartialSums
<1>6. ASSUME NEW i \in 1 .. n, i - 1 \in Good PROVE i \in Good
  <2>1. /\ a[i] = a[i - 1] + m[i] /\ c[i] = c[i - 1] + o[i]
        /\ a[i - 1] \in Int /\ m[i] \in Int
    BY <1>1, <1>2, <1>3 DEF PartialSums
  <2>2. c[i - 1] = IF i - 1 < b THEN a[i - 1] ELSE a[i - 1] + k
    BY <1>6
  <2> QED BY <1>4, <2>1, <2>2, SMTT(40)
<1>7. \A i \in 0 .. n : i \in Good
  <2> HIDE DEF Good
  <2> QED BY <1>5, <1>6, InductionTo
<1>8. n \in 0 .. n /\ ~(n < b)
  OBVIOUS
<1>9. c[n] = a[n] + k
  BY <1>7, <1>8
<1>10. TotalOf(m) \in Int
  BY <1>1, TotalType
<1> QED BY <1>2, <1>3, <1>9, <1>10 DEF o

\* Amounts one after the other.
LEMMA SignedOfMore ==
  ASSUME NEW R, NEW fills \in Seq(R), NEW f, \A r \in R \union {f} : Signed(r) \in Int
  PROVE  /\ SignedTotal(fills) \in Int
         /\ SignedTotal(Append(fills, f)) = SignedTotal(fills) + Signed(f)
<1> DEFINE n == Len(fills)
           m == [i \in DOMAIN fills |-> Signed(fills[i])]
           o == [i \in DOMAIN Append(fills, f) |-> Signed(Append(fills, f)[i])]
<1>1. n \in Nat /\ DOMAIN fills = 1 .. n /\ DOMAIN Append(fills, f) = 1 .. n + 1
  OBVIOUS
<1>2. /\ \A i \in 1 .. n : Append(fills, f)[i] = fills[i] /\ fills[i] \in R
      /\ Append(fills, f)[n + 1] = f
  OBVIOUS
<1>3. m \in [1 .. n -> Int] /\ \A i \in 1 .. n : m[i] = Signed(fills[i])
  <2> HIDE DEF n
  <2> QED BY <1>1, <1>2
<1>4. (\A i \in 1 .. n : o[i] = m[i]) /\ o[n + 1] = Signed(f)
  <2> HIDE DEF n
  <2> QED BY <1>1, <1>2
<1>5. o \in [1 .. n + 1 -> Int]
  <2>1. DOMAIN o = 1 .. n + 1 /\ \A i \in 1 .. n + 1 : i \in 1 .. n \/ i = n + 1
    BY <1>1
  <2>2. \A i \in 1 .. n + 1 : o[i] \in Int
    BY <1>3, <1>4, <2>1
  <2> QED BY <2>1, <2>2
<1> HIDE DEF n, m, o
<1>6. TotalOf(o) = TotalOf(m) + o[n + 1] /\ TotalOf(m) \in Int
  BY <1>1, <1>3, <1>4, <1>5, TotalExtends, TotalType
<1> QED BY <1>4, <1>6 DEF SignedTotal, m, o

LEMMA SignedOfNone == SignedTotal(<<>>) = 0
<1> DEFINE m == [i \in DOMAIN <<>> |-> Signed(<<>>[i])]
<1>1. DOMAIN m = {} /\ m \in [1 .. 0 -> Int]
  OBVIOUS
<1> HIDE DEF m
<1>2. TotalOf(m) = 0
  BY <1>1, TotalOfNone
<1> QED BY <1>2 DEF SignedTotal, m

\* The fills of a cut are the position's own quantity, given back.
LEMMA SignedOfCut ==
  ASSUME NEW cut, cut.action \in ClosingActions, NEW Owners,
         NEW fills \in Seq(FillsOf(cut, Owners))
  PROVE  SignedTotal(fills) = IF cut.dir = "long" THEN -TotalOf(Column(fills, "qty"))
                              ELSE TotalOf(Column(fills, "qty"))
<1> DEFINE n == Len(fills)
           m == Column(fills, "qty")
           o == [i \in DOMAIN fills |-> Signed(fills[i])]
<1>1. n \in Nat /\ DOMAIN fills = 1 .. n /\ \A i \in 1 .. n : fills[i] \in FillsOf(cut, Owners)
  OBVIOUS
<1>2. \A i \in 1 .. n : /\ fills[i].action \in ClosingActions /\ fills[i].direction = cut.dir
                        /\ fills[i].qty \in Nat
  BY <1>1 DEF FillsOf
<1>3. \A i \in 1 .. n : Signed(fills[i]) = IF cut.dir = "long" THEN -fills[i].qty ELSE fills[i].qty
  BY <1>2 DEF Signed
<1>4. /\ m \in [1 .. n -> Int] /\ o \in [1 .. n -> Int]
      /\ \A i \in 1 .. n : m[i] = fills[i].qty /\ o[i] = Signed(fills[i])
  <2> HIDE DEF n
  <2> QED BY <1>1, <1>2, <1>3 DEF Column
<1> HIDE DEF n, m, o
<1>5. CASE cut.dir = "long"
  <2>1. \A i \in 1 .. n : o[i] = -m[i]
    BY <1>3, <1>4, <1>5
  <2>2. TotalOf(o) = -TotalOf(m)
    BY <1>1, <1>4, <2>1, TotalNegated
  <2> QED BY <1>5, <2>2 DEF SignedTotal, m, o
<1>6. CASE cut.dir # "long"
  <2>1. \A i \in 1 .. n : o[i] = m[i]
    BY <1>3, <1>4, <1>6
  <2>2. o = m
    <3>1. o = [i \in 1 .. n |-> o[i]] /\ m = [i \in 1 .. n |-> m[i]]
      BY <1>4
    <3> QED BY <2>1, <3>1
  <2> QED BY <1>6, <2>2 DEF SignedTotal, m, o
<1> QED BY <1>5, <1>6

LEMMA NoEntriesInCut ==
  ASSUME NEW cut, cut.action \in ClosingActions, NEW Owners,
         NEW fills \in Seq(FillsOf(cut, Owners)), NEW s
  PROVE  EntriesOf(s, fills) = {}
<1>1. \A i \in DOMAIN fills : fills[i] \in FillsOf(cut, Owners)
  OBVIOUS
<1>2. \A i \in DOMAIN fills : fills[i].action = cut.action
  BY <1>1 DEF FillsOf
<1> QED BY <1>2 DEF EntriesOf

\* One entry after fills that are none.
LEMMA OneEntry ==
  ASSUME NEW R, NEW fills \in Seq(R), \A s \in Strategies : EntriesOf(s, fills) = {},
         NEW f, f.action \notin ClosingActions
  PROVE  \A s \in Strategies :
           Cardinality(EntriesOf(s, Append(fills, f))) = IF f.strategyId = s THEN 1 ELSE 0
<1> TAKE s \in Strategies
<1> DEFINE n == Len(fills)
           more == Append(fills, f)
<1>1. /\ n \in Nat /\ DOMAIN fills = 1 .. n /\ DOMAIN more = 1 .. n + 1
      /\ \A i \in 1 .. n : more[i] = fills[i]
      /\ more[n + 1] = f
  OBVIOUS
<1> HIDE DEF n, more
<1>2. \A i \in 1 .. n : ~(fills[i].strategyId = s /\ fills[i].action \notin ClosingActions)
  BY <1>1 DEF EntriesOf
<1>3. EntriesOf(s, more) = IF f.strategyId = s THEN {n + 1} ELSE {}
  <2>1. \A i \in DOMAIN more : i = n + 1 \/ i \in 1 .. n
    BY <1>1
  <2> QED BY <1>1, <1>2, <2>1 DEF EntriesOf
<1>4. Cardinality({}) = 0 /\ Cardinality({n + 1}) = 1
  BY FS_EmptySet, FS_Singleton
<1> QED BY <1>3, <1>4 DEF more

-----------------------------------------------------------------------------
(* The lots of one strategy.                                               *)

LEMMA LotsByFinite ==
  ASSUME NEW R, NEW lots \in Seq(R), NEW s
  PROVE  IsFiniteSet(LotsBy(s, lots)) /\ Cardinality(LotsBy(s, lots)) \in Nat
<1>1. IsFiniteSet(1 .. Len(lots))
  BY FS_Interval, Len(lots) \in Nat
<1>2. LotsBy(s, lots) \subseteq 1 .. Len(lots)
  BY DEF LotsBy
<1> QED BY <1>1, <1>2, FS_Subset, FS_CardinalityType

LEMMA LotsByOfMore ==
  ASSUME NEW R, NEW lots \in Seq(R), NEW x, NEW s
  PROVE  Cardinality(LotsBy(s, Append(lots, x)))
           = Cardinality(LotsBy(s, lots)) + (IF x.strategyId = s THEN 1 ELSE 0)
<1> DEFINE n == Len(lots)
           more == Append(lots, x)
<1>1. /\ n \in Nat /\ DOMAIN lots = 1 .. n /\ DOMAIN more = 1 .. n + 1
      /\ \A i \in 1 .. n : more[i] = lots[i]
      /\ more[n + 1] = x
  OBVIOUS
<1> HIDE DEF n, more
<1>2. LotsBy(s, more) = IF x.strategyId = s THEN LotsBy(s, lots) \union {n + 1} ELSE LotsBy(s, lots)
  <2>1. \A i \in DOMAIN more : i = n + 1 \/ i \in 1 .. n
    BY <1>1
  <2>2. 1 .. n \subseteq DOMAIN more /\ n + 1 \in DOMAIN more
    BY <1>1
  <2> QED BY <1>1, <2>1, <2>2 DEF LotsBy
<1>3. n + 1 \notin LotsBy(s, lots)
  BY <1>1 DEF LotsBy
<1>4. IsFiniteSet(LotsBy(s, lots)) /\ Cardinality(LotsBy(s, lots)) \in Nat
  BY LotsByFinite
<1>5. Cardinality(LotsBy(s, lots) \union {n + 1}) = Cardinality(LotsBy(s, lots)) + 1
  BY <1>3, <1>4, FS_AddElement
<1> QED BY <1>2, <1>4, <1>5 DEF more

\* What a cut leaves is a part of the lots there were.
LEMMA LotsLeft ==
  ASSUME NEW Owners, NEW lots \in Seq(LotsOf(Owners)), NEW q \in Nat,
         NEW totals \in [Quantities -> Int], NEW action, NEW trigger, NEW dir, NEW price, NEW s
  PROVE  Cardinality(LotsBy(s, AllocateAcrossLots(lots, q, totals, action, trigger, dir, price).remaining))
           <= Cardinality(LotsBy(s, lots))
<1> DEFINE cut == CutOf(q, totals, action, trigger, dir, price)
           n == Len(lots)
           left == AllocateAcrossLots(lots, q, totals, action, trigger, dir, price)
           first(i) == {j \in 1 .. i : lots[j].strategyId = s}
<1>1. PICK acc : Steps(acc, lots, cut, Owners) /\ left = acc[n]
  <2> HIDE DEF left, cut
  <2> QED BY AllocationUnrolls DEF left, cut
<1>2. n \in Nat /\ DOMAIN lots = 1 .. n /\ \A i \in 1 .. n : lots[i] \in LotsOf(Owners)
  OBVIOUS
<1> HIDE DEF left, cut, n
<1>3. /\ acc \in [0 .. n -> Progress(cut, Owners)] /\ acc[0] = NothingConsumed(cut.qty)
      /\ \A i \in 1 .. n : acc[i] = Consume(acc[i - 1], lots[i], cut)
  BY <1>1 DEF Steps, n
<1>4. \A i \in 0 .. n : acc[i].remaining \in Seq(LotsOf(Owners))
  BY <1>3 DEF Progress
<1>5. \A i \in 0 .. n : IsFiniteSet(first(i)) /\ Cardinality(first(i)) \in Nat
  <2> TAKE i \in 0 .. n
  <2>1. IsFiniteSet(1 .. i)
    BY FS_Interval
  <2> QED BY <2>1, FS_Subset, FS_CardinalityType
<1> DEFINE Good == {i \in 0 .. n : Cardinality(LotsBy(s, acc[i].remaining)) <= Cardinality(first(i))}
<1>6. 0 \in Good
  <2>1. LotsBy(s, acc[0].remaining) = {}
    BY <1>3 DEF NothingConsumed, LotsBy
  <2>2. first(0) = {}
    OBVIOUS
  <2> HIDE DEF first
  <2>3. Cardinality(LotsBy(s, acc[0].remaining)) = 0 /\ Cardinality(first(0)) = 0
    BY <2>1, <2>2, FS_EmptySet
  <2> QED BY <1>2, <2>3
<1>7. ASSUME NEW i \in 1 .. n, i - 1 \in Good PROVE i \in Good
  <2> DEFINE k == IF lots[i].strategyId = s THEN 1 ELSE 0
             was == acc[i - 1].remaining
  <2>1. i - 1 \in 0 .. n /\ i \in 0 .. n
    BY <1>2
  <2>2. Cardinality(first(i)) = Cardinality(first(i - 1)) + k
    <3>1. CASE lots[i].strategyId = s
      <4>1. first(i) = first(i - 1) \union {i} /\ i \notin first(i - 1)
        BY <1>2, <3>1
      <4> HIDE DEF first
      <4> QED BY <1>5, <2>1, <3>1, <4>1, FS_AddElement
    <3>2. CASE lots[i].strategyId # s
      <4>1. first(i) = first(i - 1)
        BY <1>2, <3>2
      <4> HIDE DEF first
      <4> QED BY <1>5, <2>1, <3>2, <4>1
    <3> QED BY <3>1, <3>2
  <2>3. \/ acc[i].remaining = was
        \/ \E x : x.strategyId = lots[i].strategyId /\ acc[i].remaining = Append(was, x)
    <3>1. acc[i] = Consume(acc[i - 1], lots[i], cut) /\ acc[i - 1] \in Progress(cut, Owners)
      BY <1>3, <2>1
    <3>2. CASE acc[i - 1].toConsume <= 0
      BY <3>1, <3>2 DEF Consume, Progress
    <3>3. CASE ~(acc[i - 1].toConsume <= 0)
      <4> DEFINE rest == lots[i].qty - Least(lots[i].qty, acc[i - 1].toConsume)
                 lot == Lot(lots[i].strategyId, rest)
      <4>1. Consume(acc[i - 1], lots[i], cut).remaining = IF rest > 0 THEN Append(was, lot) ELSE was
        BY <3>3 DEF Consume
      <4>2. lot.strategyId = lots[i].strategyId
        BY DEF Lot
      <4> HIDE DEF rest, lot, was
      <4> QED BY <3>1, <4>1, <4>2
    <3> QED BY <3>2, <3>3
  <2>4. /\ was \in Seq(LotsOf(Owners)) /\ Cardinality(LotsBy(s, was)) \in Nat
        /\ Cardinality(LotsBy(s, was)) <= Cardinality(first(i - 1))
    BY <1>4, <1>7, <2>1, LotsByFinite
  <2> HIDE DEF was, first, Good
  <2>5. Cardinality(LotsBy(s, acc[i].remaining)) <= Cardinality(LotsBy(s, was)) + k
    <3>1. \A x : Cardinality(LotsBy(s, Append(was, x)))
                   = Cardinality(LotsBy(s, was)) + (IF x.strategyId = s THEN 1 ELSE 0)
      BY <2>4, LotsByOfMore
    <3>2. CASE acc[i].remaining = was
      BY <2>4, <3>2
    <3>3. ASSUME NEW x, x.strategyId = lots[i].strategyId, acc[i].remaining = Append(was, x)
          PROVE  Cardinality(LotsBy(s, acc[i].remaining)) <= Cardinality(LotsBy(s, was)) + k
      BY <2>4, <3>1, <3>3
    <3> QED BY <2>3, <3>2, <3>3
  <2>6. Cardinality(first(i - 1)) \in Nat /\ Cardinality(LotsBy(s, acc[i].remaining)) \in Nat
    BY <1>4, <1>5, <2>1, LotsByFinite
  <2>7. Cardinality(LotsBy(s, acc[i].remaining)) <= Cardinality(first(i))
    BY <2>2, <2>4, <2>5, <2>6
  <2> QED BY <2>1, <2>7 DEF Good
<1>8. \A i \in 0 .. n : i \in Good
  <2> HIDE DEF Good
  <2> QED BY <1>2, <1>6, <1>7, InductionTo
<1>9. first(n) = LotsBy(s, lots) /\ n \in 0 .. n
  BY <1>2 DEF LotsBy
<1> QED BY <1>1, <1>8, <1>9 DEF left

-----------------------------------------------------------------------------
(* What a change of the position keeps, and what its fills say of it.      *)

LEMMA FlatHeld ==
  /\ Held(FlatPosition) /\ FlatPosition.direction = "none" /\ SignedQty(FlatPosition) = 0
  /\ \A s : LotsBy(s, FlatPosition.lots) = {} /\ Cardinality(LotsBy(s, FlatPosition.lots)) = 0
<1>1. 0 \in Bars
  BY RunnerAssumption DEF RunnerAssumption, Bars
<1>2. FlatPosition \in PositionsOf(Strategies, Bars) /\ Covered(FlatPosition)
  BY <1>1, FlatCovers
<1>3. FlatPosition.direction = "none" /\ FlatPosition.qty = 0 /\ FlatPosition.lots = <<>>
  BY DEF FlatPosition
<1>4. \A s : LotsBy(s, FlatPosition.lots) = {}
  BY <1>3 DEF LotsBy
<1>5. Cardinality({}) = 0
  BY FS_EmptySet
<1>6. Held(FlatPosition)
  <2>1. Most \in Nat
    BY MostType
  <2> QED BY <1>2, <1>3, <2>1 DEF Held
<1>7. SignedQty(FlatPosition) = 0
  BY <1>3 DEF SignedQty
<1> QED BY <1>3, <1>4, <1>5, <1>6, <1>7

\* A cut leaves the governing strategy or nothing, and tells the journal of no entry.
CutsTo(p, q, r) ==
  /\ Held(r.position)
  /\ q = p.qty => r.position = FlatPosition
  /\ q < p.qty => /\ p.direction # "none" /\ r.position.gov = p.gov
                  /\ r.position.entryIdx = p.entryIdx
  /\ \E R : r.fills \in Seq(R) /\ \A f \in R : Signed(f) \in Int
  /\ SignedTotal(r.fills) = SignedQty(r.position) - SignedQty(p)
  /\ \A s : EntriesOf(s, r.fills) = {}
  /\ \A s : Cardinality(LotsBy(s, r.position.lots)) <= Cardinality(LotsBy(s, p.lots))

LEMMA CutHeld ==
  ASSUME NEW p, Held(p), NEW q \in Nat, q <= p.qty, NEW trigger,
         NEW emptied \in ClosingActions
  PROVE  CutsTo(p, q, ReduceBy(p, q, Price, trigger, emptied))
<1> DEFINE r == ReduceBy(p, q, Price, trigger, emptied)
           totals == ReduceTotals(p, q, Price)
           rest == p.qty - q
           action == IF rest <= 0 THEN emptied ELSE "reduce"
           split == AllocateAcrossLots(p.lots, q, totals, action, trigger, p.direction, Price)
<1>0. /\ p \in PositionsOf(Strategies, Bars) /\ Covered(p) /\ p.qty \in Nat /\ p.qty <= Most
      /\ p.lots \in Seq(LotsOf(Strategies)) /\ p.direction \in {"long", "short", "none"}
      /\ Price \in Nat /\ 0 \in Bars /\ Most \in Nat
      /\ p.direction = "none" => p.qty = 0
  BY RunnerAssumption, MostType DEF RunnerAssumption, Held, Covered, PositionsOf, Directions, Price, Bars
<1>1. /\ r.position \in PositionsOf(Strategies, Bars) /\ Covered(r.position)
      /\ r.position.qty = p.qty - q
      /\ TotalOf(Column(r.fills, "qty")) = q
      /\ \E cut : /\ cut.action = (IF q = p.qty THEN emptied ELSE "reduce")
                  /\ cut.dir = p.direction
                  /\ r.fills \in Seq(FillsOf(cut, Strategies))
  <2>1. LeavesCovered(r, p, q, Price, emptied, Strategies, Bars)
    BY <1>0, ReduceCovers
  <2> HIDE DEF r
  <2> QED BY <2>1 DEF LeavesCovered
<1>2. PICK cut : /\ cut.action \in ClosingActions /\ cut.dir = p.direction
                 /\ r.fills \in Seq(FillsOf(cut, Strategies))
  BY <1>1 DEF ClosingActions
<1>3. r.position = IF rest <= 0 THEN FlatPosition
                   ELSE [p EXCEPT !.qty = rest, !.margin = @ - totals.margin,
                                  !.lots = split.remaining,
                                  !.contributors = LotOwners(split.remaining)]
  BY DEF ReduceBy
<1>4. totals \in [Quantities -> Int]
  <2>1. TotalsFit(totals, p, q, Price)
    BY <1>0, ReduceTotalsType
  <2> HIDE DEF totals
  <2> QED BY <2>1 DEF TotalsFit
<1>5. \A s : Cardinality(LotsBy(s, split.remaining)) <= Cardinality(LotsBy(s, p.lots))
  <2> HIDE DEF totals, action
  <2> QED BY <1>0, <1>4, LotsLeft
<1> HIDE DEF r, totals, split, action
<1>6. q = p.qty => r.position = FlatPosition
  BY <1>0, <1>3
<1>7. q < p.qty => /\ p.direction # "none" /\ r.position.gov = p.gov
                   /\ r.position.entryIdx = p.entryIdx /\ r.position.direction = p.direction
                   /\ r.position.lots = split.remaining
  <2> SUFFICES ASSUME q < p.qty
               PROVE  /\ p.direction # "none" /\ r.position.gov = p.gov
                      /\ r.position.entryIdx = p.entryIdx /\ r.position.direction = p.direction
                      /\ r.position.lots = split.remaining
    OBVIOUS
  <2>1. rest > 0 /\ p.direction # "none"
    BY <1>0
  <2> QED BY <1>0, <1>3, <2>1 DEF PositionsOf
<1>8. Held(r.position)
  <2>1. CASE q = p.qty
    BY <1>6, <2>1, FlatHeld
  <2>2. CASE q < p.qty
    BY <1>0, <1>1, <1>7, <2>2 DEF Held
  <2> QED BY <1>0, <2>1, <2>2
<1>9. SignedTotal(r.fills) = IF p.direction = "long" THEN -q ELSE q
  BY <1>1, <1>2, SignedOfCut
<1>10. SignedTotal(r.fills) = SignedQty(r.position) - SignedQty(p)
  <2>1. CASE q = p.qty
    BY <1>0, <1>6, <1>9, <2>1, FlatHeld DEF SignedQty
  <2>2. CASE q < p.qty
    BY <1>0, <1>1, <1>7, <1>9, <2>2, SMTT(40) DEF SignedQty
  <2> QED BY <1>0, <2>1, <2>2
<1>11. \A s : EntriesOf(s, r.fills) = {}
  BY <1>2, NoEntriesInCut
<1>12. \A s : Cardinality(LotsBy(s, r.position.lots)) <= Cardinality(LotsBy(s, p.lots))
  <2>1. CASE q = p.qty
    BY <1>0, <1>6, <2>1, FlatHeld, LotsByFinite
  <2>2. CASE q < p.qty
    BY <1>5, <1>7, <2>2
  <2> QED BY <1>0, <2>1, <2>2
<1>13. \A f \in FillsOf(cut, Strategies) : Signed(f) \in Int
  BY DEF FillsOf, Signed
<1>14. \E R : r.fills \in Seq(R) /\ \A f \in R : Signed(f) \in Int
  BY <1>2, <1>13
<1>15. q < p.qty => /\ p.direction # "none" /\ r.position.gov = p.gov
                    /\ r.position.entryIdx = p.entryIdx
  BY <1>7
<1>16. CutsTo(p, q, r)
  BY <1>6, <1>8, <1>10, <1>11, <1>12, <1>14, <1>15 DEF CutsTo
<1> QED BY <1>16 DEF r

\* What an entry of strategy s on candle b makes of a position: it keeps to the cap,
\* is governed by s from b on or as before, and its fills tell the journal of one
\* entry at most, of s.
EntersAs(p, s, b, r) ==
  /\ Held(r.position)
  /\ \/ r.position.gov = s /\ r.position.entryIdx = b
     \/ p.direction # "none" /\ r.position.gov = p.gov /\ r.position.entryIdx = p.entryIdx
  /\ SignedTotal(r.fills) = SignedQty(r.position) - SignedQty(p)
  /\ \A x \in Strategies :
       /\ Cardinality(EntriesOf(x, r.fills)) \in {0, 1}
       /\ x # s => Cardinality(EntriesOf(x, r.fills)) = 0
       /\ Cardinality(LotsBy(x, r.position.lots))
            <= Cardinality(LotsBy(x, p.lots)) + Cardinality(EntriesOf(x, r.fills))

\* The fill of an entry.
EndsInEntry(fills, before, s, q, dir) ==
  /\ SignedTotal(fills) = SignedTotal(before) + (IF dir = "long" THEN q ELSE -q)
  /\ \A x \in Strategies : Cardinality(EntriesOf(x, fills)) = IF x = s THEN 1 ELSE 0

LEMMA EntryFill ==
  ASSUME NEW R, NEW before \in Seq(R), \A f \in R : Signed(f) \in Int,
         \A x \in Strategies : EntriesOf(x, before) = {},
         NEW s \in Strategies, NEW q \in Nat, NEW dir \in Directions,
         NEW action, action \notin ClosingActions, NEW trigger, NEW margin, NEW fee
  PROVE  EndsInEntry(Append(before, Fill(action, s, trigger, dir, Price, q, margin, 0, fee)),
                     before, s, q, dir)
<1> DEFINE f == Fill(action, s, trigger, dir, Price, q, margin, 0, fee)
<1>1. f.action = action /\ f.strategyId = s /\ f.direction = dir /\ f.qty = q
  BY DEF Fill
<1> HIDE DEF f
<1>2. Signed(f) = IF dir = "long" THEN q ELSE -q
  BY <1>1 DEF Signed
<1>3. SignedTotal(Append(before, f)) = SignedTotal(before) + Signed(f)
  <2>1. \A x \in R \union {f} : Signed(x) \in Int
    BY <1>2
  <2> QED BY <2>1, SignedOfMore
<1>4. \A x \in Strategies : Cardinality(EntriesOf(x, Append(before, f))) = IF x = s THEN 1 ELSE 0
  BY <1>1, OneEntry
<1>5. EndsInEntry(Append(before, f), before, s, q, dir)
  BY <1>2, <1>3, <1>4 DEF EndsInEntry
<1> QED BY <1>5 DEF f

LEMMA OneLot ==
  ASSUME NEW s \in Strategies, NEW q \in Nat
  PROVE  \A x \in Strategies :
           Cardinality(LotsBy(x, <<Lot(s, q)>>)) = IF x = s THEN 1 ELSE 0
<1> TAKE x \in Strategies
<1>1. Lot(s, q).strategyId = s
  BY DEF Lot
<1>2. LotsBy(x, <<Lot(s, q)>>) = IF x = s THEN {1} ELSE {}
  BY <1>1 DEF LotsBy
<1>3. Cardinality({}) = 0 /\ Cardinality({1}) = 1
  BY FS_EmptySet, FS_Singleton
<1> QED BY <1>2, <1>3

\* The position an intent opens.
OpenedBy(n, s, b, q) ==
  /\ Held(n) /\ n.gov = s /\ n.entryIdx = b
  /\ n.direction = DirOf[s] /\ n.qty = q /\ n.lots = <<Lot(s, q)>>

LEMMA OpenHeld ==
  ASSUME NEW s \in Strategies, NEW b \in 1 .. MaxBar, NEW q \in Nat, q <= Most, NEW action
  PROVE  OpenedBy(Open(IntentOf(s, b), Price, q, action).position, s, b, q)
<1> DEFINE i == IntentOf(s, b)
           n == Open(i, Price, q, action).position
<1>1. i.strategyId = s /\ i.direction = DirOf[s] /\ i.entryIdx = b
  BY DEF IntentOf
<1>2. DirOf[s] \in Directions /\ b \in Bars /\ Price \in Nat
  BY RunnerAssumption DEF RunnerAssumption, Bars, Price
<1> HIDE DEF i
<1>3. n \in PositionsOf(Strategies, Bars) /\ Covered(n)
  BY <1>1, <1>2, OpenCovers
<1>4. /\ n.gov = s /\ n.entryIdx = b /\ n.direction = DirOf[s] /\ n.qty = q
      /\ n.lots = <<Lot(s, q)>>
  BY <1>1 DEF Open
<1>5. Held(n)
  <2> HIDE DEF n
  <2> QED BY <1>2, <1>3, <1>4 DEF Held, Directions
<1>6. OpenedBy(n, s, b, q)
  <2> HIDE DEF n
  <2> QED BY <1>4, <1>5 DEF OpenedBy
<1> QED BY <1>6 DEF i

LEMMA OpenEnters ==
  ASSUME NEW p, Held(p), p.direction = "none",
         NEW s \in Strategies, NEW b \in 1 .. MaxBar, NEW q \in Nat, q <= Most
  PROVE  EntersAs(p, s, b, Open(IntentOf(s, b), Price, q, "open"))
<1> DEFINE i == IntentOf(s, b)
           r == Open(i, Price, q, "open")
           none == <<>>
           fill == Fill("open", s, s, DirOf[s], Price, q, MarginOf(q * Price), 0, Fee(q * Price))
<1>1. /\ Held(r.position) /\ r.position.gov = s /\ r.position.entryIdx = b
      /\ r.position.direction = DirOf[s] /\ r.position.qty = q /\ r.position.lots = <<Lot(s, q)>>
      /\ i.strategyId = s /\ i.direction = DirOf[s]
  <2>1. OpenedBy(r.position, s, b, q)
    BY OpenHeld
  <2>2. i.strategyId = s /\ i.direction = DirOf[s]
    BY DEF IntentOf
  <2> HIDE DEF r, i
  <2> QED BY <2>1, <2>2 DEF OpenedBy
<1>2. r.fills = <<fill>>
  <2> HIDE DEF fill, i
  <2> QED BY <1>1 DEF Open, fill
<1>3. p = FlatPosition /\ SignedQty(p) = 0 /\ \A x : Cardinality(LotsBy(x, p.lots)) = 0
  BY FlatHeld DEF Held
<1>4. DirOf[s] \in Directions
  BY RunnerAssumption DEF RunnerAssumption
<1>5. /\ SignedTotal(Append(none, fill)) = SignedTotal(none) + (IF DirOf[s] = "long" THEN q ELSE -q)
      /\ \A x \in Strategies : Cardinality(EntriesOf(x, Append(none, fill))) = IF x = s THEN 1 ELSE 0
  <2>1. none \in Seq({}) /\ \A x \in Strategies : EntriesOf(x, none) = {}
    BY DEF EntriesOf
  <2>2. "open" \notin ClosingActions
    BY DEF ClosingActions
  <2> HIDE DEF none
  <2>3. EndsInEntry(Append(none, fill), none, s, q, DirOf[s])
    BY <1>4, <2>1, <2>2, EntryFill
  <2> QED BY <2>3 DEF EndsInEntry
<1>6. Append(none, fill) = <<fill>>
  <2> HIDE DEF fill
  <2> QED OBVIOUS
<1>7. \A x \in Strategies : Cardinality(LotsBy(x, r.position.lots)) = IF x = s THEN 1 ELSE 0
  BY <1>1, OneLot
<1>8. SignedQty(r.position) = IF DirOf[s] = "long" THEN q ELSE -q
  BY <1>1, <1>4 DEF SignedQty, Directions
<1>9. SignedTotal(none) = 0
  BY SignedOfNone
<1> HIDE DEF r, i, fill, none
<1>10. SignedTotal(r.fills) = SignedQty(r.position) - SignedQty(p)
  BY <1>2, <1>3, <1>5, <1>6, <1>8, <1>9
<1>11. \A x \in Strategies :
         /\ Cardinality(EntriesOf(x, r.fills)) \in {0, 1}
         /\ x # s => Cardinality(EntriesOf(x, r.fills)) = 0
         /\ Cardinality(LotsBy(x, r.position.lots))
              <= Cardinality(LotsBy(x, p.lots)) + Cardinality(EntriesOf(x, r.fills))
  BY <1>2, <1>3, <1>5, <1>6, <1>7
<1>12. EntersAs(p, s, b, r)
  BY <1>1, <1>10, <1>11 DEF EntersAs
<1> QED BY <1>12 DEF r, i

LEMMA AddEnters ==
  ASSUME NEW p, Held(p), p.direction # "none",
         NEW s \in Strategies, p.direction = DirOf[s], NEW b \in 1 .. MaxBar,
         NEW q \in Nat \ {0}, p.qty + q <= Most
  PROVE  EntersAs(p, s, b, Add(p, IntentOf(s, b), Price, q))
<1> DEFINE i == IntentOf(s, b)
           r == Add(p, i, Price, q)
           none == <<>>
           fill == Fill("add", s, s, p.direction, Price, q, MarginOf(q * Price), 0, Fee(q * Price))
<1>0. i.strategyId = s /\ Price \in Nat
  BY DEF IntentOf, Price
<1>1. /\ p \in PositionsOf(Strategies, Bars) /\ Covered(p) /\ p.qty \in Nat
      /\ p.lots \in Seq(LotsOf(Strategies)) /\ p.direction \in Directions
  BY DEF Held, PositionsOf
<1>2. r.fills = <<fill>>
  <2> HIDE DEF i
  <2> QED BY <1>0 DEF Add
<1>3. r.position \in PositionsOf(Strategies, Bars) /\ Covered(r.position)
  <2> HIDE DEF i
  <2> QED BY <1>0, <1>1, AddCovers, SMTT(60)
<1>4. /\ r.position.qty = p.qty + q /\ r.position.lots = Append(p.lots, Lot(s, q))
      /\ r.position.direction = p.direction /\ r.position.gov = p.gov
      /\ r.position.entryIdx = p.entryIdx
  <2> HIDE DEF i
  <2> QED BY <1>0, <1>1 DEF Add, PositionsOf
<1>5. /\ SignedTotal(Append(none, fill)) = SignedTotal(none) + (IF p.direction = "long" THEN q ELSE -q)
      /\ \A x \in Strategies : Cardinality(EntriesOf(x, Append(none, fill))) = IF x = s THEN 1 ELSE 0
  <2>1. none \in Seq({}) /\ \A x \in Strategies : EntriesOf(x, none) = {}
    BY DEF EntriesOf
  <2>2. "add" \notin ClosingActions
    BY DEF ClosingActions
  <2> HIDE DEF none
  <2>3. EndsInEntry(Append(none, fill), none, s, q, p.direction)
    BY <1>1, <2>1, <2>2, EntryFill
  <2> QED BY <2>3 DEF EndsInEntry
<1>6. Append(none, fill) = <<fill>> /\ SignedTotal(none) = 0
  <2> HIDE DEF fill
  <2> QED BY SignedOfNone
<1> HIDE DEF r, i, fill, none
<1>7. Held(r.position)
  BY <1>1, <1>3, <1>4 DEF Held
<1>8. SignedTotal(r.fills) = SignedQty(r.position) - SignedQty(p)
  BY <1>1, <1>2, <1>4, <1>5, <1>6 DEF SignedQty, Directions
<1>9. \A x \in Strategies :
        /\ Cardinality(LotsBy(x, r.position.lots))
             = Cardinality(LotsBy(x, p.lots)) + (IF x = s THEN 1 ELSE 0)
        /\ Cardinality(LotsBy(x, p.lots)) \in Nat
  <2>1. Lot(s, q).strategyId = s
    BY DEF Lot
  <2> QED BY <1>1, <1>4, <2>1, LotsByOfMore, LotsByFinite
<1>10. \A x \in Strategies :
         /\ Cardinality(EntriesOf(x, r.fills)) \in {0, 1}
         /\ x # s => Cardinality(EntriesOf(x, r.fills)) = 0
         /\ Cardinality(LotsBy(x, r.position.lots))
              <= Cardinality(LotsBy(x, p.lots)) + Cardinality(EntriesOf(x, r.fills))
  BY <1>2, <1>5, <1>6, <1>9
<1>11. EntersAs(p, s, b, r)
  BY <1>4, <1>7, <1>8, <1>10 DEF EntersAs
<1> QED BY <1>11 DEF r, i

LEMMA FlipEnters ==
  ASSUME NEW p, Held(p), p.direction # "none",
         NEW s \in Strategies, p.direction # DirOf[s], NEW b \in 1 .. MaxBar,
         NEW q \in Nat, p.qty <= q, q <= Most
  PROVE  EntersAs(p, s, b, Flip(p, IntentOf(s, b), Price, q))
<1> DEFINE i == IntentOf(s, b)
           closed == ReduceBy(p, p.qty, Price, s, "flip_close")
           opened == Open(i, Price, q - p.qty, "flip_open")
           left == q - p.qty
           fill == Fill("flip_open", s, s, DirOf[s], Price, left, MarginOf(left * Price), 0,
                        Fee(left * Price))
           r == Flip(p, i, Price, q)
<1>1. p.qty \in Nat /\ left \in Nat /\ left <= Most
  BY MostType DEF Held, PositionsOf
<1>2. /\ Held(opened.position) /\ opened.position.gov = s /\ opened.position.entryIdx = b
      /\ opened.position.direction = DirOf[s] /\ opened.position.qty = left
      /\ opened.position.lots = <<Lot(s, left)>>
      /\ i.strategyId = s /\ i.direction = DirOf[s]
  <2> HIDE DEF left
  <2>1. OpenedBy(opened.position, s, b, left)
    BY <1>1, OpenHeld DEF left
  <2>2. i.strategyId = s /\ i.direction = DirOf[s]
    BY DEF IntentOf
  <2> HIDE DEF opened, i
  <2> QED BY <2>1, <2>2 DEF OpenedBy
<1>3. opened.fills = <<fill>>
  <2> HIDE DEF i
  <2> QED BY <1>2 DEF Open
<1>4. /\ closed.position = FlatPosition
      /\ \E R : closed.fills \in Seq(R) /\ \A f \in R : Signed(f) \in Int
      /\ SignedTotal(closed.fills) = SignedQty(closed.position) - SignedQty(p)
      /\ \A x : EntriesOf(x, closed.fills) = {}
  <2>1. "flip_close" \in ClosingActions /\ p.qty <= p.qty
    BY <1>1 DEF ClosingActions
  <2>2. CutsTo(p, p.qty, closed)
    BY <1>1, <2>1, CutHeld
  <2> HIDE DEF closed
  <2> QED BY <2>2 DEF CutsTo
<1>5. PICK R : closed.fills \in Seq(R) /\ \A f \in R : Signed(f) \in Int
  BY <1>4
<1>6. r = [position |-> opened.position, fills |-> closed.fills \o opened.fills]
  <2> HIDE DEF i
  <2> QED BY <1>2 DEF Flip
<1>7. DirOf[s] \in Directions /\ p.direction \in Directions
  BY RunnerAssumption DEF RunnerAssumption, Held, PositionsOf
<1> HIDE DEF r, i, fill, closed, opened, left
<1>8. r.fills = Append(closed.fills, fill) /\ r.position = opened.position
  BY <1>3, <1>5, <1>6
<1>9. /\ SignedTotal(r.fills) = SignedTotal(closed.fills) + (IF DirOf[s] = "long" THEN left ELSE -left)
      /\ \A x \in Strategies : Cardinality(EntriesOf(x, r.fills)) = IF x = s THEN 1 ELSE 0
  <2>1. "flip_open" \notin ClosingActions
    BY DEF ClosingActions
  <2>2. EndsInEntry(Append(closed.fills, fill), closed.fills, s, left, DirOf[s])
    BY <1>1, <1>4, <1>5, <1>7, <2>1, EntryFill DEF fill
  <2> QED BY <1>8, <2>2 DEF EndsInEntry
<1>10. SignedTotal(r.fills) = SignedQty(r.position) - SignedQty(p)
  <2>1. SignedQty(p) \in Int
    BY <1>1 DEF SignedQty
  <2>2. SignedQty(r.position) = IF DirOf[s] = "long" THEN left ELSE -left
    BY <1>2, <1>7, <1>8 DEF SignedQty, Directions
  <2> QED BY <1>1, <1>4, <1>9, <2>1, <2>2, FlatHeld
<1>11. \A x \in Strategies : /\ Cardinality(LotsBy(x, r.position.lots)) = IF x = s THEN 1 ELSE 0
                             /\ Cardinality(LotsBy(x, p.lots)) \in Nat
  <2>1. p.lots \in Seq(LotsOf(Strategies))
    BY DEF Held, PositionsOf
  <2>2. \A x \in Strategies :
          Cardinality(LotsBy(x, <<Lot(s, left)>>)) = IF x = s THEN 1 ELSE 0
    BY <1>1, OneLot
  <2>3. r.position.lots = <<Lot(s, left)>>
    BY <1>2, <1>8
  <2>4. \A x : Cardinality(LotsBy(x, p.lots)) \in Nat
    BY <2>1, LotsByFinite
  <2> QED BY <2>2, <2>3, <2>4
<1>12. \A x \in Strategies :
         /\ Cardinality(EntriesOf(x, r.fills)) \in {0, 1}
         /\ x # s => Cardinality(EntriesOf(x, r.fills)) = 0
         /\ Cardinality(LotsBy(x, r.position.lots))
              <= Cardinality(LotsBy(x, p.lots)) + Cardinality(EntriesOf(x, r.fills))
  BY <1>9, <1>11
<1>13. EntersAs(p, s, b, r)
  BY <1>2, <1>8, <1>10, <1>12 DEF EntersAs
<1> QED BY <1>13 DEF r, i

LEMMA CutEnters ==
  ASSUME NEW p, Held(p), NEW s \in Strategies, NEW b \in 1 .. MaxBar, NEW q \in Nat, q < p.qty
  PROVE  EntersAs(p, s, b, ReduceBy(p, q, Price, s, "close"))
<1> DEFINE r == ReduceBy(p, q, Price, s, "close")
<1>1. p.lots \in Seq(LotsOf(Strategies)) /\ p.qty \in Nat
  BY DEF Held, PositionsOf
<1>2. /\ Held(r.position)
      /\ p.direction # "none" /\ r.position.gov = p.gov /\ r.position.entryIdx = p.entryIdx
      /\ SignedTotal(r.fills) = SignedQty(r.position) - SignedQty(p)
      /\ \A x : EntriesOf(x, r.fills) = {}
      /\ \A x : Cardinality(LotsBy(x, r.position.lots)) <= Cardinality(LotsBy(x, p.lots))
  <2>1. "close" \in ClosingActions /\ q <= p.qty
    BY <1>1 DEF ClosingActions
  <2>2. CutsTo(p, q, r)
    BY <1>1, <2>1, CutHeld
  <2> HIDE DEF r
  <2> QED BY <2>2 DEF CutsTo
<1> HIDE DEF r
<1>3. \A x \in Strategies : Cardinality(EntriesOf(x, r.fills)) = 0
  BY <1>2, FS_EmptySet
<1>4. \A x \in Strategies : Cardinality(LotsBy(x, p.lots)) \in Nat
  BY <1>1, LotsByFinite
<1>5. \A x \in Strategies :
        /\ Cardinality(EntriesOf(x, r.fills)) \in {0, 1}
        /\ x # s => Cardinality(EntriesOf(x, r.fills)) = 0
        /\ Cardinality(LotsBy(x, r.position.lots))
             <= Cardinality(LotsBy(x, p.lots)) + Cardinality(EntriesOf(x, r.fills))
  BY <1>2, <1>3, <1>4
<1>6. EntersAs(p, s, b, r)
  BY <1>2, <1>5 DEF EntersAs
<1> QED BY <1>6 DEF r

\* An intent whose quantity fits keeps to the bound, whatever it meets.
LEMMA IntentEnters ==
  ASSUME NEW p, Held(p), NEW s \in Strategies, NEW b \in 1 .. MaxBar, NEW q \in Nat \ {0},
         Fits(p, s, q)
  PROVE  EntersAs(p, s, b, ApplyIntent(p, IntentOf(s, b), Price, q))
<1> DEFINE i == IntentOf(s, b)
<1>0. /\ p.qty \in Nat /\ Most \in Nat /\ DirOf[s] # "none" /\ q \in Nat
      /\ i.strategyId = s /\ i.direction = DirOf[s]
  BY RunnerAssumption, MostType DEF Held, PositionsOf, RunnerAssumption, Directions, IntentOf
<1>1. q <= Most
  BY <1>0 DEF Fits, SameSide
<1> HIDE DEF i
<1>2. CASE p.direction = "none"
  <2>1. ApplyIntent(p, i, Price, q) = Open(i, Price, q, "open")
    BY <1>2 DEF ApplyIntent
  <2> QED BY <1>0, <1>1, <1>2, <2>1, OpenEnters DEF i
<1>3. CASE p.direction # "none" /\ p.direction = DirOf[s]
  <2>1. ApplyIntent(p, i, Price, q) = Add(p, i, Price, q)
    BY <1>0, <1>3 DEF ApplyIntent
  <2>2. p.qty + q <= Most
    BY <1>0, <1>3 DEF Fits, SameSide
  <2> QED BY <1>3, <2>1, <2>2, AddEnters DEF i
<1>4. CASE p.direction # "none" /\ p.direction # DirOf[s] /\ q >= p.qty
  <2>1. ApplyIntent(p, i, Price, q) = Flip(p, i, Price, q)
    BY <1>0, <1>4 DEF ApplyIntent
  <2> QED BY <1>0, <1>1, <1>4, <2>1, FlipEnters DEF i
<1>5. CASE p.direction # "none" /\ p.direction # DirOf[s] /\ q < p.qty
  <2>1. ApplyIntent(p, i, Price, q) = ReduceBy(p, q, Price, s, "close")
    BY <1>0, <1>5 DEF ApplyIntent
  <2> QED BY <1>0, <1>5, <2>1, CutEnters DEF i
<1> QED BY <1>0, <1>2, <1>3, <1>4, <1>5 DEF i

-----------------------------------------------------------------------------
(* What a step that works on nothing of a part leaves true of it.          *)

\* Candles only close, and what was misread stays so.
Charted(charts, later) ==
  /\ later \in [Groups -> Seq(BOOLEAN)]
  /\ \A g \in Groups : /\ Len(charts[g]) <= Len(later[g]) /\ Len(later[g]) \in 1 .. MaxBar
                       /\ \A b \in 1 .. Len(charts[g]) : later[g][b] = charts[g][b]

LEMMA ChartedSame ==
  ASSUME LoopInv
  PROVE  Charted(bars, bars)
  BY DEF LoopInv, Charted, Closed

LEMMA SoundLater ==
  ASSUME NEW p, NEW evaluated, NEW off, NEW charts, NEW later, NEW excused, NEW more,
         Sound(p, evaluated, off, charts, excused), Charted(charts, later), excused \subseteq more,
         charts \in [Groups -> Seq(BOOLEAN)]
  PROVE  Sound(p, evaluated, off, later, more)
<1>1. \A s \in Strategies : GroupOf[s] \in Groups
  BY GroupType
<1>2. /\ Held(p) /\ evaluated \in [Strategies -> Bars] /\ off \in SUBSET Strategies
      /\ \A s \in Strategies : evaluated[s] <= Len(charts[GroupOf[s]])
      /\ Checked(p, evaluated, charts, excused)
  BY DEF Sound
<1>3. \A g \in Groups : /\ Len(charts[g]) \in Nat /\ Len(later[g]) \in Nat
                        /\ Len(charts[g]) <= Len(later[g])
                        /\ \A b \in 1 .. Len(charts[g]) : later[g][b] = charts[g][b]
  BY DEF Charted
<1>4. \A s \in Strategies : evaluated[s] <= Len(later[GroupOf[s]])
  <2> TAKE s \in Strategies
  <2>1. evaluated[s] \in Int /\ MaxBar \in Nat
    BY <1>2, RunnerAssumption DEF Bars, RunnerAssumption
  <2> QED BY <1>1, <1>2, <1>3, <2>1
<1>5. Checked(p, evaluated, later, more)
  <2> SUFFICES ASSUME p.direction # "none", evaluated[p.gov] > p.entryIdx
               PROVE  \/ ~later[GroupOf[p.gov]][evaluated[p.gov]]
                      \/ <<GroupOf[p.gov], evaluated[p.gov]>> \in more
    BY DEF Checked
  <2>1. p.gov \in Strategies /\ p.entryIdx \in Bars
    BY <1>2 DEF Held, PositionsOf
  <2>2. evaluated[p.gov] \in 1 .. Len(charts[GroupOf[p.gov]])
    BY <1>1, <1>2, <1>3, <2>1, RunnerAssumption DEF Bars, RunnerAssumption
  <2>3. later[GroupOf[p.gov]][evaluated[p.gov]] = charts[GroupOf[p.gov]][evaluated[p.gov]]
    BY <1>1, <1>3, <2>1, <2>2
  <2> QED BY <1>2, <2>3 DEF Checked
<1> QED BY <1>2, <1>4, <1>5 DEF Sound

\* The memory stands while nothing is evaluated or traded, and may be saved.
LEMMA MemoryKept ==
  ASSUME RunnerInv, pos' = pos, lastEval' = lastEval, journal' = journal, crashes' = crashes,
         paused' \in SUBSET Strategies, Charted(bars, bars'), misread \subseteq misread',
         \/ disk' = disk
         \/ disk' = [pos |-> pos, lastEval |-> lastEval, paused |-> paused']
  PROVE  MemoryInv' /\ DiskInv' /\ JournalInv'
<1>1. bars \in [Groups -> Seq(BOOLEAN)]
  BY DEF RunnerInv, LoopInv
<1>2. Sound(pos, lastEval, paused', bars, misread)
  BY DEF RunnerInv, MemoryInv, Sound
<1>3. Sound(pos', lastEval', paused', bars', misread')
  BY <1>1, <1>2, SoundLater
<1>4. DiskInv'
  <2>1. CASE disk' = disk
    <3>1. Sound(disk.pos, disk.lastEval, disk.paused, bars, misread)
      BY DEF RunnerInv, DiskInv
    <3>2. Sound(disk.pos, disk.lastEval, disk.paused, bars', misread')
      BY <1>1, <3>1, SoundLater
    <3> QED BY <2>1, <3>2 DEF DiskInv, RunnerInv
  <2>2. CASE disk' = [pos |-> pos, lastEval |-> lastEval, paused |-> paused']
    BY <1>3, <2>2 DEF DiskInv
  <2> QED BY <2>1, <2>2
<1>5. \A s \in Strategies : Cardinality(LotsBy(s, disk'.pos.lots)) <= TotalOf(journal.entries[s])
  BY DEF RunnerInv, JournalInv
<1>6. JournalInv'
  BY <1>5 DEF RunnerInv, JournalInv, SignedQty
<1> QED BY <1>3, <1>4, <1>6 DEF MemoryInv

\* So does what a pass knows, when it is not the one that steps.
LEMMA PassKept ==
  ASSUME RunnerInv, NEW v \in Passes, pass'[v] = pass[v], running' = v <=> running = v,
         Charted(bars, bars'), misread \subseteq misread',
         (pos' = pos /\ lastEval' = lastEval) \/ pass[v].pc \notin Working
  PROVE  WorkInv(v)' /\ KnowsInv(v)' /\ (HalfWay(v)' <=> HalfWay(v))
<1>1. /\ WorkInv(v) /\ KnowsInv(v) /\ pass[v].groups \in Seq(Groups)
      /\ bars \in [Groups -> Seq(BOOLEAN)]
      /\ pass[v].pc \in {"idle", "fetch", "exit", "funding", "eval", "htf", "gate"}
  BY DEF RunnerInv, LoopInv, AloneInv, PassStates
<1>2. pass[v].pc # "idle" => Group(v) \in Groups
  BY <1>1 DEF WorkInv, Group
<1>3. /\ Group(v)' = Group(v) /\ Strat(v)' = Strat(v)
      /\ Closed(Group(v))' = Len(bars'[Group(v)]) /\ Closed(Group(v)) = Len(bars[Group(v)])
  BY DEF Group, Strat, Closed
<1>4. pass[v].pc # "idle" =>
        /\ Closed(Group(v)) \in Nat /\ Closed(Group(v))' \in Nat
        /\ Closed(Group(v)) <= Closed(Group(v))'
        /\ \A b \in 1 .. Closed(Group(v)) : bars'[Group(v)][b] = bars[Group(v)][b]
  BY <1>1, <1>2, <1>3 DEF Charted
<1>5. WorkInv(v)'
  BY <1>1, <1>2, <1>3, <1>4 DEF WorkInv, Working
<1>6. KnowsInv(v)'
  <2>1. CASE pass[v].pc \notin Working
    BY <2>1 DEF KnowsInv, Working
  <2>2. CASE pos' = pos /\ lastEval' = lastEval /\ pass[v].pc \in Working
    <3>1. bars'[Group(v)][pass[v].bar] = bars[Group(v)][pass[v].bar]
      BY <1>1, <1>4, <2>2 DEF WorkInv, Working
    <3>2. ExitsChecked(v) => ExitsChecked(v)'
      BY <1>3, <2>2, <3>1 DEF ExitsChecked
    <3>3. Headroom(Strat(v))' = Headroom(Strat(v))
      BY <1>3, <2>2 DEF Headroom
    <3> QED BY <1>1, <1>3, <2>2, <3>2, <3>3 DEF KnowsInv, Sized
  <2> QED BY <2>1, <2>2
<1> QED BY <1>5, <1>6 DEF HalfWay

\* The passes after a step of one of them.
LEMMA OthersKept ==
  ASSUME RunnerInv, NEW w \in Passes,
         \A v \in Passes \ {w} : pass'[v] = pass[v],
         running \in {w, Nobody}, running' \in {w, Nobody},
         Charted(bars, bars'), misread \subseteq misread',
         \/ pos' = pos /\ lastEval' = lastEval
         \/ \A v \in Passes \ {w} : pass[v].pc \notin Working,
         pass'[w].pc \in Working => \A v \in Passes \ {w} : pass[v].pc \notin Working,
         WorkInv(w)', KnowsInv(w)', Unawaited => ~HalfWay(w)'
  PROVE  (\A v \in Passes : WorkInv(v)') /\ AloneInv'
<1>1. \A v \in Passes \ {w} : WorkInv(v)' /\ KnowsInv(v)' /\ (HalfWay(v)' <=> HalfWay(v))
  <2> TAKE v \in Passes \ {w}
  <2>1. Nobody \notin Passes
    BY RunnerAssumption DEF RunnerAssumption
  <2>2. running' # v /\ running # v /\ pass'[v] = pass[v]
    BY <2>1
  <2> QED BY <2>2, PassKept
<1>2. \A v \in Passes : WorkInv(v)' /\ KnowsInv(v)'
  BY <1>1
<1>3. Unawaited => \A v \in Passes : ~HalfWay(v)'
  BY <1>1 DEF RunnerInv, AloneInv
<1>4. ASSUME NEW u \in Passes, NEW v \in Passes, pass'[u].pc \in Working, pass'[v].pc \in Working
      PROVE  u = v
  BY <1>4 DEF RunnerInv, AloneInv
<1> QED BY <1>2, <1>3, <1>4 DEF AloneInv

-----------------------------------------------------------------------------
(* The steps that neither trade nor evaluate.                              *)

\* The memory is not worked on.
Untouched ==
  /\ pos' = pos /\ lastEval' = lastEval /\ journal' = journal /\ crashes' = crashes
  /\ misread' = misread

\* What is left of the loop's state.
LEMMA LoopKept ==
  ASSUME LoopInv, Charted(bars, bars'), pool' \in Seq(Strategies), attached' = attached,
         globalHalt' \in BOOLEAN, crashes' \in Nat, misread' \subseteq Groups \X (1 .. MaxBar),
         running' \in Passes \union {Nobody}, pass' \in [Passes -> PassStates],
         \A v \in Passes : WorkInv(v)'
  PROVE  LoopInv'
  BY DEF LoopInv, Charted, Closed

LEMMA IdleType == Idle \in PassStates /\ Idle.pc = "idle"
<1>1. FlatPosition \in PositionsOf(Strategies, Bars)
  BY FlatHeld DEF Held
<1>2. Idle.pc = "idle"
  BY DEF Idle
<1> QED BY <1>1, <1>2 DEF Idle, PassStates

\* A pass that asks for the candles of its next group.
LEMMA FetchingType ==
  ASSUME LoopInv, NEW p \in Seq(Strategies), NEW gs \in Seq(Groups), gs # <<>>
  PROVE  LET f == Fetching(p, gs)
         IN  /\ f \in PassStates /\ f.pc = "fetch" /\ f.groups = gs /\ Head(gs) \in Groups
             /\ f.strats = StratsOf(p, Head(gs)) /\ Range(f.strats) \subseteq StratsIn(Head(gs))
             /\ f.asked = Closed(Head(gs)) /\ f.asked \in 1 .. Closed(Head(gs))
<1> DEFINE f == Fetching(p, gs)
<1>1. Head(gs) \in Groups
  OBVIOUS
<1>2. Closed(Head(gs)) \in 1 .. MaxBar /\ MaxBar \in Nat
  BY <1>1, RunnerAssumption DEF LoopInv, RunnerAssumption
<1>3. /\ StratsOf(p, Head(gs)) \in Seq(Strategies)
      /\ Range(StratsOf(p, Head(gs))) \subseteq StratsIn(Head(gs))
  BY StratsOfType
<1>4. FlatPosition \in PositionsOf(Strategies, Bars)
  BY FlatHeld DEF Held
<1>5. f = [pc |-> "fetch", pool |-> p, groups |-> gs, strats |-> StratsOf(p, Head(gs)),
           asked |-> Closed(Head(gs)), bar |-> 0, final |-> TRUE, crosses |-> FALSE,
           held |-> FlatPosition, qty |-> 0]
  <2> DEFINE strats == StratsOf(p, Head(gs))
             closed == Closed(Head(gs))
  <2>1. f = [Idle EXCEPT !.pc = "fetch", !.pool = p, !.groups = gs, !.strats = strats,
                         !.asked = closed]
    BY DEF Fetching
  <2> HIDE DEF f, strats, closed
  <2>2. f = [pc |-> "fetch", pool |-> p, groups |-> gs, strats |-> strats, asked |-> closed,
             bar |-> 0, final |-> TRUE, crosses |-> FALSE, held |-> FlatPosition, qty |-> 0]
    BY <2>1 DEF Idle
  <2> QED BY <2>2 DEF strats, closed
<1> HIDE DEF f
<1>6. f \in PassStates
  BY <1>2, <1>3, <1>4, <1>5 DEF PassStates
<1>7. f.asked \in 1 .. Closed(Head(gs))
  BY <1>2, <1>5
<1> QED BY <1>1, <1>3, <1>5, <1>6, <1>7 DEF f

\* A pass that has just begun, or is over, works on nothing yet.
LEMMA Began ==
  ASSUME RunnerInv, NEW w \in Passes, NEW t, pass' = [pass EXCEPT ![w] = t],
         \/ t = Idle
         \/ \E p \in Seq(Strategies), gs \in Seq(Groups) : gs # <<>> /\ t = Fetching(p, gs),
         bars' = bars, pool' = pool, attached' = attached, globalHalt' = globalHalt, Untouched,
         paused' = paused, disk' = disk \/ disk' = Saved,
         running \in {w, Nobody}, running' = Nobody
  PROVE  RunnerInv'
<1>1. LoopInv /\ pass \in [Passes -> PassStates] /\ Nobody \notin Passes
  BY RunnerAssumption DEF RunnerInv, LoopInv, RunnerAssumption
<1>2. pass' \in [Passes -> PassStates] /\ pass'[w] = t
      /\ \A v \in Passes \ {w} : pass'[v] = pass[v]
  <2>1. t \in PassStates
    BY <1>1, IdleType, FetchingType
  <2> QED BY <1>1, <2>1
<1>3. t.pc \in {"idle", "fetch"}
  BY <1>1, IdleType, FetchingType
<1>4. WorkInv(w)'
  <2>1. CASE t = Idle
    BY <1>1, <1>2, <2>1, IdleType DEF WorkInv, Working
  <2>2. ASSUME NEW p \in Seq(Strategies), NEW gs \in Seq(Groups), gs # <<>>, t = Fetching(p, gs)
        PROVE  WorkInv(w)'
    <3>1. /\ t.pc = "fetch" /\ t.groups = gs /\ Range(t.strats) \subseteq StratsIn(Head(gs))
          /\ t.asked \in 1 .. Closed(Head(gs))
      BY <1>1, <2>2, FetchingType
    <3>2. Group(w)' = Head(gs) /\ Closed(Head(gs))' = Closed(Head(gs))
      BY <1>2, <3>1 DEF Group, Closed
    <3>3. running' # w
      BY <1>1
    <3> QED BY <1>2, <2>2, <3>1, <3>2, <3>3 DEF WorkInv, Working, Closed
  <2> QED BY <2>1, <2>2
<1>5. KnowsInv(w)' /\ ~HalfWay(w)' /\ pass'[w].pc \notin Working
  BY <1>2, <1>3 DEF KnowsInv, HalfWay, Working
<1>6. Charted(bars, bars') /\ misread \subseteq misread'
  BY <1>1, ChartedSame DEF Untouched
<1>7. (\A v \in Passes : WorkInv(v)') /\ AloneInv'
  BY <1>2, <1>4, <1>5, <1>6, OthersKept DEF Untouched
<1>8. LoopInv'
  BY <1>1, <1>2, <1>6, <1>7, LoopKept DEF LoopInv, Untouched
<1>9. MemoryInv' /\ DiskInv' /\ JournalInv'
  <2>1. paused' \in SUBSET Strategies
    BY DEF RunnerInv, MemoryInv, Sound
  <2>2. disk' = disk \/ disk' = [pos |-> pos, lastEval |-> lastEval, paused |-> paused']
    BY DEF Saved
  <2> QED BY <1>6, <2>1, <2>2, MemoryKept DEF Untouched
<1> QED BY <1>7, <1>8, <1>9 DEF RunnerInv

\* A step around the passes.
LEMMA AroundKeeps ==
  ASSUME RunnerInv, pass' = pass, running' = running, Untouched, Charted(bars, bars'),
         pool' \in Seq(Strategies), attached' = attached, globalHalt' \in BOOLEAN,
         paused' \in SUBSET Strategies,
         \/ disk' = disk
         \/ disk' = [pos |-> pos, lastEval |-> lastEval, paused |-> paused']
  PROVE  RunnerInv'
<1>1. \A v \in Passes : WorkInv(v)' /\ KnowsInv(v)' /\ (HalfWay(v)' <=> HalfWay(v))
  <2> TAKE v \in Passes
  <2>1. pass'[v] = pass[v] /\ running' = running /\ pos' = pos /\ lastEval' = lastEval
        /\ misread \subseteq misread'
    BY DEF Untouched
  <2> QED BY <2>1, PassKept
<1>2. AloneInv'
  BY <1>1 DEF RunnerInv, AloneInv
<1>3. LoopInv'
  BY <1>1, LoopKept DEF RunnerInv, LoopInv, Untouched
<1>4. MemoryInv' /\ DiskInv' /\ JournalInv'
  BY MemoryKept DEF Untouched
<1> QED BY <1>2, <1>3, <1>4 DEF RunnerInv

LEMMA PollStartKeeps ==
  ASSUME RunnerInv, PollStart
  PROVE  RunnerInv'
<1>1. Poll \in Passes /\ pool \in Seq(Strategies) /\ LoopInv
  BY DEF Passes, RunnerInv, LoopInv
<1>2. CASE pool # <<>> /\ pass' = [pass EXCEPT ![Poll] = Fetching(pool, GroupsOf(pool))]
  <2>1. GroupsOf(pool) \in Seq(Groups) /\ GroupsOf(pool) # <<>>
    BY <1>1, <1>2, GroupsOfType
  <2>2. \E p \in Seq(Strategies), gs \in Seq(Groups) :
          gs # <<>> /\ Fetching(pool, GroupsOf(pool)) = Fetching(p, gs)
    BY <1>1, <2>1
  <2> QED BY <1>1, <1>2, <2>2, Began DEF PollStart, Untouched, streams, memory
<1>3. CASE disk' = Saved /\ UNCHANGED pass
  <2>1. disk' = [pos |-> pos, lastEval |-> lastEval, paused |-> paused']
    BY <1>3 DEF Saved, PollStart, memory
  <2>2. paused' \in SUBSET Strategies /\ globalHalt' \in BOOLEAN /\ pool' \in Seq(Strategies)
    BY <1>1 DEF RunnerInv, MemoryInv, Sound, LoopInv, PollStart, memory
  <2> QED BY <1>1, <1>3, <2>1, <2>2, ChartedSame, AroundKeeps DEF PollStart, Untouched, memory, streams
<1> QED BY <1>2, <1>3 DEF PollStart

LEMMA StreamFireKeeps ==
  ASSUME RunnerInv, NEW g \in Streamed, StreamFire(g)
  PROVE  RunnerInv'
<1>1. g \in Passes /\ <<g>> \in Seq(Groups) /\ <<g>> # <<>>
  BY RunnerAssumption DEF RunnerAssumption, Passes
<1>2. attached[g] \in Seq(Strategies)
  BY DEF RunnerInv, LoopInv
<1>3. \E p \in Seq(Strategies), gs \in Seq(Groups) :
        gs # <<>> /\ Fetching(attached[g], <<g>>) = Fetching(p, gs)
  BY <1>1, <1>2
<1> QED BY <1>1, <1>3, Began DEF StreamFire, Untouched, memory

\* The end of a group: the next one is asked for, or the state is saved.
LEMMA EndGroupKeeps ==
  ASSUME RunnerInv, NEW w \in Passes, EndGroup(w), pass[w].pc # "idle",
         bars' = bars, pool' = pool, attached' = attached, globalHalt' = globalHalt, Untouched,
         paused' = paused, running \in {w, Nobody}
  PROVE  RunnerInv'
<1> DEFINE rest == Tail(pass[w].groups)
<1>1. pass[w].groups \in Seq(Groups) /\ pass[w].groups # <<>> /\ pass[w].pool \in Seq(Strategies)
  BY DEF RunnerInv, LoopInv, PassStates, WorkInv
<1>2. rest \in Seq(Groups)
  BY <1>1
<1>3. running' = Nobody
  BY DEF EndGroup
<1>4. CASE rest = <<>>
  <2>1. pass' = [pass EXCEPT ![w] = Idle] /\ disk' = Saved
    BY <1>4 DEF EndGroup
  <2> QED BY <1>3, <2>1, Began
<1>5. CASE rest # <<>>
  <2>1. pass' = [pass EXCEPT ![w] = Fetching(pass[w].pool, rest)] /\ disk' = disk
    BY <1>5 DEF EndGroup
  <2>2. \E p \in Seq(Strategies), gs \in Seq(Groups) :
          gs # <<>> /\ Fetching(pass[w].pool, rest) = Fetching(p, gs)
    BY <1>1, <1>2, <1>5
  <2> QED BY <1>3, <2>1, <2>2, Began
<1> QED BY <1>4, <1>5

LEMMA FetchFailKeeps ==
  ASSUME RunnerInv, NEW w \in Passes, FetchFail(w)
  PROVE  RunnerInv'
<1>1. EndGroup(w) /\ pass[w].pc # "idle" /\ running \in {w, Nobody}
  BY DEF FetchFail
<1>2. /\ bars' = bars /\ pool' = pool /\ attached' = attached /\ globalHalt' = globalHalt
      /\ Untouched /\ paused' = paused
  BY DEF FetchFail, Untouched, streams, memory
<1> QED BY <1>1, <1>2, EndGroupKeeps

LEMMA EvalEndKeeps ==
  ASSUME RunnerInv, NEW w \in Passes, EvalEnd(w)
  PROVE  RunnerInv'
<1>1. EndGroup(w) /\ pass[w].pc # "idle" /\ running \in {w, Nobody}
  BY DEF EvalEnd
<1>2. /\ bars' = bars /\ pool' = pool /\ attached' = attached /\ globalHalt' = globalHalt
      /\ Untouched /\ paused' = paused
  BY DEF EvalEnd, Untouched, streams, memory
<1> QED BY <1>1, <1>2, EndGroupKeeps

\* Candles are worked on only when no other pass is half way through its own.
LEMMA FetchDoneKeeps ==
  ASSUME NothingInterleaves, RunnerInv, NEW w \in Passes, FetchDone(w)
  PROVE  RunnerInv'
<1>1. /\ LoopInv /\ pass \in [Passes -> PassStates] /\ WorkInv(w) /\ Nobody \notin Passes
      /\ running = Nobody /\ running' = w /\ pass[w].pc = "fetch"
  BY RunnerAssumption DEF RunnerInv, LoopInv, RunnerAssumption, FetchDone, MayRun
<1> DEFINE g == Group(w)
           bar == Least(pass[w].asked + 1, Closed(g))
<1>2. g \in Groups /\ Closed(g) \in Nat /\ pass[w].asked \in 1 .. Closed(g)
      /\ bars[g] \in Seq(BOOLEAN) /\ Range(pass[w].strats) \subseteq StratsIn(g)
  BY <1>1 DEF WorkInv, Group, LoopInv, PassStates
<1>3. bar \in 1 .. Closed(g) /\ bar \in Nat
  BY <1>2 DEF Least
<1>4. bars[g][bar] \in BOOLEAN
  BY <1>2, <1>3 DEF Closed
<1>5. PICK final \in BOOLEAN, crosses \in BOOLEAN :
        /\ final => crosses = bars[g][bar]
        /\ pass' = [pass EXCEPT ![w].pc = "exit", ![w].bar = bar, ![w].final = final,
                                ![w].crosses = crosses]
  BY <1>4 DEF FetchDone
<1>6. bars' = bars /\ pool' = pool /\ attached' = attached /\ globalHalt' = globalHalt
      /\ Untouched /\ paused' = paused /\ disk' = disk
  BY DEF FetchDone, Untouched, memory, streams
<1> HIDE DEF g, bar
<1>7. /\ pass'[w] = [pass[w] EXCEPT !.pc = "exit", !.bar = bar, !.final = final, !.crosses = crosses]
      /\ \A v \in Passes \ {w} : pass'[v] = pass[v]
      /\ pass' \in [Passes -> PassStates]
  <2>1. [pass[w] EXCEPT !.pc = "exit", !.bar = bar, !.final = final, !.crosses = crosses] \in PassStates
    BY <1>1, <1>3, ZenonT(60) DEF PassStates
  <2> QED BY <1>1, <1>5, <2>1
<1>8. /\ pass'[w].pc = "exit" /\ pass'[w].bar = bar /\ pass'[w].final = final
      /\ pass'[w].crosses = crosses /\ pass'[w].groups = pass[w].groups
      /\ pass'[w].strats = pass[w].strats /\ pass'[w].asked = pass[w].asked
  BY <1>1, <1>7 DEF PassStates
<1>9. \A v \in Passes \ {w} : pass[v].pc \notin Working
  <2> TAKE v \in Passes \ {w}
  <2>1. pass[v].pc \notin {"exit", "eval"}
    BY <1>1 DEF LoopInv, WorkInv
  <2>2. ~HalfWay(v)
    <3>1. CASE Unawaited
      BY <3>1 DEF RunnerInv, AloneInv
    <3>2. CASE ~MayOverlap
      BY <3>2 DEF FetchDone, MayRun
    <3> QED BY <3>1, <3>2 DEF NothingInterleaves
  <2> QED BY <2>1, <2>2 DEF HalfWay, Working
<1>10. WorkInv(w)'
  <2>1. Group(w)' = Group(w) /\ Closed(Group(w))' = Closed(Group(w)) /\ bars' = bars
    BY <1>6, <1>8 DEF Group, Closed
  <2>2. /\ bar \in 1 .. Closed(Group(w)) /\ pass[w].asked \in 1 .. Closed(Group(w))
        /\ final => crosses = bars[Group(w)][bar]
        /\ Range(pass[w].strats) \subseteq StratsIn(Group(w)) /\ pass[w].groups # <<>>
    BY <1>1, <1>2, <1>3, <1>5 DEF WorkInv, g
  <2> QED BY <1>1, <1>8, <2>1, <2>2 DEF WorkInv
<1>11. KnowsInv(w)' /\ ~HalfWay(w)'
  BY <1>8 DEF KnowsInv, HalfWay
<1>12. Charted(bars, bars') /\ misread \subseteq misread'
  BY <1>1, <1>6, ChartedSame DEF Untouched
<1>13. (\A v \in Passes : WorkInv(v)') /\ AloneInv'
  BY <1>1, <1>6, <1>7, <1>9, <1>10, <1>11, <1>12, OthersKept DEF Untouched
<1>14. LoopInv'
  BY <1>1, <1>6, <1>7, <1>12, <1>13, LoopKept DEF LoopInv, Untouched
<1>15. MemoryInv' /\ DiskInv' /\ JournalInv'
  BY <1>6, <1>12, MemoryKept DEF Untouched, RunnerInv, MemoryInv, Sound
<1> QED BY <1>13, <1>14, <1>15 DEF RunnerInv

LEMMA BarClosesKeeps ==
  ASSUME RunnerInv, NEW g \in Groups, NEW crosses \in BOOLEAN, BarCloses(g, crosses)
  PROVE  RunnerInv'
<1>1. /\ bars \in [Groups -> Seq(BOOLEAN)] /\ \A h \in Groups : Closed(h) \in 1 .. MaxBar
      /\ MaxBar \in Nat
  BY RunnerAssumption DEF RunnerInv, LoopInv, RunnerAssumption
<1>2. bars' = [bars EXCEPT ![g] = Append(bars[g], crosses)] /\ Closed(g) < MaxBar
  BY DEF BarCloses
<1>3. Charted(bars, bars')
  <2>1. bars' \in [Groups -> Seq(BOOLEAN)]
    BY <1>1, <1>2
  <2>2. ASSUME NEW h \in Groups
        PROVE  /\ Len(bars[h]) <= Len(bars'[h]) /\ Len(bars'[h]) \in 1 .. MaxBar
               /\ \A b \in 1 .. Len(bars[h]) : bars'[h][b] = bars[h][b]
    <3>1. CASE h = g
      <4>1. bars'[h] = Append(bars[g], crosses) /\ bars[g] \in Seq(BOOLEAN)
        BY <1>1, <1>2, <3>1
      <4>2. Len(bars[g]) \in 1 .. MaxBar /\ Len(bars[g]) < MaxBar
        BY <1>1, <1>2 DEF Closed
      <4> QED BY <1>1, <3>1, <4>1, <4>2
    <3>2. CASE h # g
      <4>1. bars'[h] = bars[h] /\ Len(bars[h]) \in 1 .. MaxBar
        BY <1>1, <1>2, <3>2 DEF Closed
      <4> QED BY <1>1, <4>1
    <3> QED BY <3>1, <3>2
  <2> QED BY <2>1, <2>2 DEF Charted
<1>4. /\ pass' = pass /\ running' = running /\ Untouched /\ pool' = pool /\ attached' = attached
      /\ globalHalt' = globalHalt /\ paused' = paused /\ disk' = disk
  BY DEF BarCloses, Untouched, memory, streams
<1>5. pool \in Seq(Strategies) /\ globalHalt \in BOOLEAN /\ paused \in SUBSET Strategies
  BY DEF RunnerInv, LoopInv, MemoryInv, Sound
<1> QED BY <1>3, <1>4, <1>5, AroundKeeps

LEMMA SetPausedKeeps ==
  ASSUME RunnerInv, NEW s \in Strategies, NEW on \in BOOLEAN, SetPaused(s, on)
  PROVE  RunnerInv'
<1>1. LoopInv /\ pool \in Seq(Strategies) /\ globalHalt \in BOOLEAN /\ paused \in SUBSET Strategies
  BY DEF RunnerInv, LoopInv, MemoryInv, Sound
<1>2. /\ pass' = pass /\ running' = running /\ Untouched /\ bars' = bars /\ pool' = pool
      /\ attached' = attached /\ globalHalt' = globalHalt
  BY DEF SetPaused, Intervene, Untouched, streams
<1>3. paused' \in SUBSET Strategies
  BY <1>1 DEF SetPaused
<1>4. disk' = [pos |-> pos, lastEval |-> lastEval, paused |-> paused']
  BY DEF SetPaused, Saved
<1> QED BY <1>1, <1>2, <1>3, <1>4, ChartedSame, AroundKeeps

LEMMA SetGlobalHaltKeeps ==
  ASSUME RunnerInv, NEW on \in BOOLEAN, SetGlobalHalt(on)
  PROVE  RunnerInv'
<1>1. LoopInv /\ pool \in Seq(Strategies) /\ paused \in SUBSET Strategies
  BY DEF RunnerInv, LoopInv, MemoryInv, Sound
<1>2. /\ pass' = pass /\ running' = running /\ Untouched /\ bars' = bars /\ pool' = pool
      /\ attached' = attached /\ globalHalt' = on /\ paused' = paused /\ disk' = disk
  BY DEF SetGlobalHalt, Intervene, Untouched, streams, memory
<1> QED BY <1>1, <1>2, ChartedSame, AroundKeeps

\* What a reload leaves in the pool is of the strategies there are.
LEMMA FilteredPool ==
  ASSUME NEW p \in Seq(Strategies), NEW kept
  PROVE  Filter(p, kept) \in Seq(Strategies)
<1>1. Filter(p, kept) \in Seq(Strategies \intersect kept)
  BY FilterType
<1>2. \A list \in Seq(Strategies \intersect kept) : list \in Seq(Strategies)
  OBVIOUS
<1> QED BY <1>1, <1>2

LEMMA ReloadPoolKeeps ==
  ASSUME RunnerInv, NEW enabled \in SUBSET Strategies, ReloadPool(enabled)
  PROVE  RunnerInv'
<1>1. LoopInv /\ pool \in Seq(Strategies) /\ globalHalt \in BOOLEAN /\ paused \in SUBSET Strategies
      /\ Order \in Seq(Strategies)
  BY RunnerAssumption DEF RunnerInv, LoopInv, MemoryInv, Sound, RunnerAssumption
<1>2. /\ pass' = pass /\ running' = running /\ Untouched /\ bars' = bars
      /\ attached' = attached /\ globalHalt' = globalHalt /\ paused' = paused
      /\ disk' = [pos |-> pos, lastEval |-> lastEval, paused |-> paused']
  BY DEF ReloadPool, Intervene, Untouched, streams, memory, Saved
<1>3. /\ Filter(pool, enabled) \in Seq(Strategies)
      /\ Filter(Order, enabled \ Range(pool)) \in Seq(Strategies)
  BY <1>1, FilteredPool
<1>4. pool' = Filter(pool, enabled) \o Filter(Order, enabled \ Range(pool))
  BY DEF ReloadPool
<1>5. pool' \in Seq(Strategies)
  BY <1>3, <1>4
<1> QED BY <1>1, <1>2, <1>5, ChartedSame, AroundKeeps

\* The process is what its files say; an entry made since they were saved may be
\* made again.
LEMMA CrashKeeps ==
  ASSUME RunnerInv, Crash
  PROVE  RunnerInv'
<1>1. /\ LoopInv /\ Order \in Seq(Strategies) /\ Nobody \notin Passes /\ crashes \in Nat
      /\ Streamed \subseteq Groups
  BY RunnerAssumption DEF RunnerInv, LoopInv, RunnerAssumption
<1>2. /\ pos' = disk.pos /\ lastEval' = disk.lastEval /\ paused' = disk.paused
      /\ globalHalt' = FALSE /\ pool' = Filter(Order, Range(pool))
      /\ attached' = [g \in Streamed |-> StratsOf(pool', g)]
      /\ pass' = [w \in Passes |-> Idle] /\ running' = Nobody /\ crashes' = crashes + 1
      /\ bars' = bars /\ disk' = disk /\ journal' = journal /\ misread' = misread
  BY DEF Crash
<1>3. pool' \in Seq(Strategies)
  BY <1>1, <1>2, FilteredPool
<1>4. \A w \in Passes : pass'[w] = Idle /\ Idle.pc = "idle" /\ Idle \in PassStates
  BY <1>2, IdleType
<1>5. \A w \in Passes : WorkInv(w)' /\ KnowsInv(w)' /\ ~HalfWay(w)'
  BY <1>1, <1>2, <1>4 DEF WorkInv, KnowsInv, HalfWay, Working
<1>6. LoopInv'
  <2>1. attached' \in [Streamed -> Seq(Strategies)]
        /\ \A g \in Streamed : Range(attached'[g]) \subseteq StratsIn(g)
    BY <1>2, <1>3, StratsOfType
  <2>2. pass' \in [Passes -> PassStates]
    BY <1>2, <1>4
  <2>3. bars' \in [Groups -> Seq(BOOLEAN)] /\ \A g \in Groups : Closed(g)' \in 1 .. MaxBar
    BY <1>1, <1>2 DEF LoopInv, Closed
  <2>4. misread' \subseteq Groups \X (1 .. MaxBar) /\ crashes' \in Nat
    BY <1>1, <1>2 DEF LoopInv
  <2> QED BY <1>2, <1>3, <1>5, <2>1, <2>2, <2>3, <2>4 DEF LoopInv
<1>7. AloneInv'
  BY <1>4, <1>5 DEF AloneInv, Working
<1>8. MemoryInv' /\ DiskInv'
  BY <1>2 DEF RunnerInv, DiskInv, MemoryInv
<1>9. JournalInv'
  <2>1. JournalInv /\ crashes' = crashes + 1 /\ journal' = journal
        /\ pos' = disk.pos /\ disk' = disk
    BY <1>2 DEF RunnerInv
  <2>2. \A s \in Strategies, b \in 1 .. MaxBar :
          journal.entries[s][b] \in Nat /\ journal.entries[s][b] <= 1 + crashes
    BY <2>1 DEF JournalInv
  <2>3. \A s \in Strategies, b \in 1 .. MaxBar :
          journal.entries[s][b] <= crashes' /\ journal.entries[s][b] <= 1 + crashes'
    BY <1>1, <2>1, <2>2
  <2> QED BY <1>1, <2>1, <2>3 DEF JournalInv
<1> QED BY <1>6, <1>7, <1>8, <1>9 DEF RunnerInv

-----------------------------------------------------------------------------
(* The steps of a pass at work on its candles.                             *)

\* The candles of a pass stay the same until it is over.
Carries(w) ==
  /\ pass'[w].groups = pass[w].groups /\ pass'[w].asked = pass[w].asked
  /\ pass'[w].bar = pass[w].bar /\ pass'[w].final = pass[w].final
  /\ pass'[w].crosses = pass[w].crosses

\* A step of a pass at work disturbs no other: none is at work.
LEMMA WorkGoesOn ==
  ASSUME RunnerInv, NEW w \in Passes, pass[w].pc \in Working,
         pass' \in [Passes -> PassStates], \A v \in Passes \ {w} : pass'[v] = pass[v],
         Carries(w), pass'[w].pc \in Working,
         Range(pass'[w].strats) \subseteq Range(pass[w].strats),
         running \in {w, Nobody}, running' \in {w, Nobody},
         pass'[w].pc \in {"exit", "eval"} <=> running' = w,
         bars' = bars, pool' = pool, attached' = attached, globalHalt' = globalHalt,
         crashes' = crashes, misread \subseteq misread', misread' \subseteq Groups \X (1 .. MaxBar),
         KnowsInv(w)', Unawaited => ~HalfWay(w)'
  PROVE  LoopInv' /\ AloneInv'
<1>1. LoopInv /\ WorkInv(w)
  BY DEF RunnerInv, LoopInv
<1>2. \A v \in Passes \ {w} : pass[v].pc \notin Working
  BY DEF RunnerInv, AloneInv
<1>3. Charted(bars, bars')
  BY <1>1, ChartedSame
<1>4. WorkInv(w)'
  <2>1. Group(w)' = Group(w) /\ Closed(Group(w))' = Closed(Group(w))
    BY DEF Carries, Group, Closed
  <2>2. pass[w].pc # "idle"
    BY DEF Working
  <2> QED BY <1>1, <2>1, <2>2 DEF WorkInv, Carries
<1>5. (\A v \in Passes : WorkInv(v)') /\ AloneInv'
  BY <1>2, <1>3, <1>4, OthersKept
<1>6. running' \in Passes \union {Nobody}
  OBVIOUS
<1>7. LoopInv'
  BY <1>1, <1>3, <1>5, <1>6, LoopKept DEF LoopInv
<1> QED BY <1>5, <1>7

\* What the fills of a change of position tell the journal: what it changed, and at
\* most one entry, of strategy s.
Tells(p, s, r) ==
  /\ SignedTotal(r.fills) = SignedQty(r.position) - SignedQty(p)
  /\ \A x \in Strategies :
       /\ Cardinality(EntriesOf(x, r.fills)) \in {0, 1}
       /\ x # s => Cardinality(EntriesOf(x, r.fills)) = 0
       /\ Cardinality(LotsBy(x, r.position.lots))
            <= Cardinality(LotsBy(x, p.lots)) + Cardinality(EntriesOf(x, r.fills))

LEMMA JournalKept ==
  ASSUME RunnerInv, NEW s \in Strategies, NEW b \in 1 .. MaxBar, NEW r, Tells(pos, s, r),
         Held(r.position), pos' = r.position, journal' = Journalled(r.fills, b),
         crashes' = crashes, disk' = disk,
         \A x \in Strategies : lastEval'[x] \in Bars /\ lastEval[x] <= lastEval'[x],
         \/ Cardinality(EntriesOf(s, r.fills)) = 0
         \/ b > lastEval[s] /\ lastEval'[s] >= b
  PROVE  JournalInv'
<1> DEFINE n(x) == Cardinality(EntriesOf(x, r.fills))
<1>1. /\ JournalInv /\ MaxBar \in Nat /\ crashes \in Nat
      /\ \A x \in Strategies : lastEval[x] \in Bars
      /\ Held(pos) /\ Held(disk.pos)
  BY RunnerAssumption DEF RunnerInv, MemoryInv, DiskInv, Sound, LoopInv, RunnerAssumption
<1>2. /\ journal'.net = journal.net + SignedTotal(r.fills)
      /\ journal'.entries = [x \in Strategies |-> [journal.entries[x] EXCEPT ![b] = @ + n(x)]]
  BY DEF Journalled, SignedTotal
<1>3. \A x \in Strategies : n(x) \in {0, 1} /\ (x # s => n(x) = 0)
  BY DEF Tells
<1>4. \A x \in Strategies : Cardinality(LotsBy(x, pos'.lots)) <= Cardinality(LotsBy(x, pos.lots)) + n(x)
  BY DEF Tells
<1>5. n(s) = 0 \/ (b > lastEval[s] /\ lastEval'[s] >= b)
  OBVIOUS
<1>6. SignedTotal(r.fills) = SignedQty(pos') - SignedQty(pos)
  BY DEF Tells
<1> HIDE DEF n
<1>7. SignedQty(pos) \in Int /\ SignedQty(pos') \in Int
  <2>1. \A p : Held(p) => SignedQty(p) \in Int
    BY DEF Held, PositionsOf, SignedQty
  <2> QED BY <1>1, <2>1
<1>8. journal'.net \in Int /\ (crashes' = 0 => journal'.net = SignedQty(pos)')
  BY <1>1, <1>2, <1>6, <1>7 DEF JournalInv, SignedQty
<1>9. journal.entries \in [Strategies -> [1 .. MaxBar -> Nat]]
  BY <1>1 DEF JournalInv
<1>10. ASSUME NEW x \in Strategies
       PROVE  /\ journal'.entries[x] \in [1 .. MaxBar -> Nat]
              /\ \A c \in 1 .. MaxBar :
                   journal'.entries[x][c] = IF c = b THEN journal.entries[x][c] + n(x)
                                            ELSE journal.entries[x][c]
              /\ TotalOf(journal'.entries[x]) = TotalOf(journal.entries[x]) + n(x)
              /\ TotalOf(journal.entries[x]) \in Int
  <2> DEFINE m == journal.entries[x]
             k == n(x)
             o == journal'.entries[x]
  <2>1. m \in [1 .. MaxBar -> Nat] /\ k \in Nat
    BY <1>3, <1>9
  <2>2. o = [m EXCEPT ![b] = @ + k]
    BY <1>2
  <2> HIDE DEF m, k, o
  <2>3. TotalOf(o) = TotalOf(m) + k /\ TotalOf(m) \in Int
    BY <1>1, <2>1, <2>2, TotalGrows, ZenonT(60)
  <2>4. o \in [1 .. MaxBar -> Nat] /\ \A c \in 1 .. MaxBar : o[c] = IF c = b THEN m[c] + k ELSE m[c]
    BY <2>1, <2>2
  <2> QED BY <2>3, <2>4 DEF m, k, o
<1>11. journal'.entries \in [Strategies -> [1 .. MaxBar -> Nat]]
  <2>1. DOMAIN journal'.entries = Strategies
        /\ journal'.entries = [x \in Strategies |-> journal'.entries[x]]
    BY <1>2
  <2> QED BY <1>10, <2>1
<1>12. ASSUME NEW x \in Strategies, NEW c \in 1 .. MaxBar
       PROVE  /\ journal'.entries[x][c] <= 1 + crashes
              /\ c > lastEval'[x] => journal'.entries[x][c] <= crashes
  <2>1. /\ journal.entries[x][c] \in Nat /\ journal.entries[x][c] <= 1 + crashes
        /\ c > lastEval[x] => journal.entries[x][c] <= crashes
    BY <1>1, <1>9 DEF JournalInv
  <2>2. /\ lastEval[x] \in Int /\ lastEval'[x] \in Int /\ lastEval[x] <= lastEval'[x]
        /\ c \in Int /\ b \in Int
    BY <1>1 DEF Bars
  <2>3. n(x) = 0 \/ (x = s /\ n(x) = 1)
    BY <1>3
  <2>4. CASE n(x) = 0 \/ c # b
    <3>1. journal'.entries[x][c] = journal.entries[x][c]
      BY <1>10, <2>1, <2>4
    <3> QED BY <1>1, <2>1, <2>2, <3>1
  <2>5. CASE n(x) # 0 /\ c = b
    <3>1. x = s /\ n(x) = 1 /\ c > lastEval[x] /\ ~(c > lastEval'[x])
      BY <1>5, <2>2, <2>3, <2>5
    <3>2. journal'.entries[x][c] = journal.entries[x][c] + 1
      BY <1>10, <2>5, <3>1
    <3> QED BY <1>1, <2>1, <3>1, <3>2
  <2> QED BY <2>4, <2>5
<1>13. ASSUME NEW x \in Strategies
       PROVE  /\ Cardinality(LotsBy(x, pos'.lots)) <= TotalOf(journal'.entries[x])
              /\ Cardinality(LotsBy(x, disk.pos.lots)) <= TotalOf(journal'.entries[x])
  <2>1. n(x) \in Nat /\ journal.entries[x] \in [1 .. MaxBar -> Nat]
    BY <1>3, <1>9
  <2>2. TotalOf(journal'.entries[x]) = TotalOf(journal.entries[x]) + n(x)
        /\ TotalOf(journal.entries[x]) \in Int
    BY <1>10
  <2>3. /\ Cardinality(LotsBy(x, pos.lots)) <= TotalOf(journal.entries[x])
        /\ Cardinality(LotsBy(x, disk.pos.lots)) <= TotalOf(journal.entries[x])
    BY <1>1 DEF JournalInv
  <2>4. \A p : Held(p) => Cardinality(LotsBy(x, p.lots)) \in Nat
    BY LotsByFinite DEF Held, PositionsOf
  <2> QED BY <1>1, <1>4, <2>1, <2>2, <2>3, <2>4
<1>14. \A x \in Strategies : LotsBy(x, pos.lots)' = LotsBy(x, pos'.lots)
                             /\ LotsBy(x, disk.pos.lots)' = LotsBy(x, disk.pos.lots)
  BY DEF LotsBy
<1> QED BY <1>8, <1>11, <1>12, <1>13, <1>14 DEF JournalInv

\* The whole position is closed.
LEMMA ClosedOut ==
  ASSUME RunnerInv, NEW w \in Passes, pos.direction # "none", Close(w, pos),
         pass[w].bar \in 1 .. MaxBar, lastEval' = lastEval, crashes' = crashes, disk' = disk
  PROVE  pos' = FlatPosition /\ JournalInv'
<1> DEFINE r == ClosePosition(pos, pos.gov, Price)
<1>1. Held(pos) /\ pos.qty \in Nat /\ pos.gov \in Strategies /\ lastEval \in [Strategies -> Bars]
  BY DEF RunnerInv, MemoryInv, Sound, Held, PositionsOf
<1>2. r = ReduceBy(pos, pos.qty, Price, pos.gov, "close")
  BY DEF ClosePosition
<1>3. CutsTo(pos, pos.qty, r)
  <2>1. "close" \in ClosingActions /\ pos.qty <= pos.qty
    BY <1>1 DEF ClosingActions
  <2> QED BY <1>1, <1>2, <2>1, CutHeld
<1>4. pos' = r.position /\ journal' = Journalled(r.fills, pass[w].bar)
  BY DEF Close
<1> HIDE DEF r
<1>5. r.position = FlatPosition /\ Held(r.position)
  BY <1>3 DEF CutsTo
<1>6. Tells(pos, pos.gov, r) /\ \A x \in Strategies : Cardinality(EntriesOf(x, r.fills)) = 0
  <2>1. \A x \in Strategies : Cardinality(EntriesOf(x, r.fills)) = 0
    BY <1>3, FS_EmptySet DEF CutsTo
  <2>2. \A x \in Strategies : Cardinality(LotsBy(x, r.position.lots)) \in Nat
                              /\ Cardinality(LotsBy(x, pos.lots)) \in Nat
    BY <1>1, <1>5, LotsByFinite DEF Held, PositionsOf
  <2> QED BY <1>3, <2>1, <2>2 DEF CutsTo, Tells
<1>7. \A x \in Strategies : lastEval'[x] \in Bars /\ lastEval[x] <= lastEval'[x]
  BY <1>1 DEF Bars
<1>8. JournalInv'
  BY <1>1, <1>4, <1>5, <1>6, <1>7, JournalKept
<1> QED BY <1>4, <1>5, <1>8

\* A flat position is sound whatever was evaluated.
LEMMA FlatSound ==
  ASSUME RunnerInv, pos' = FlatPosition, lastEval' = lastEval, paused' = paused, bars' = bars,
         misread \subseteq misread', disk' = disk
  PROVE  MemoryInv' /\ DiskInv'
<1>1. Sound(pos, lastEval, paused, bars, misread)
  BY DEF RunnerInv, MemoryInv
<1>2. Held(pos') /\ pos'.direction = "none"
  BY FlatHeld
<1>3. MemoryInv'
  BY <1>1, <1>2 DEF MemoryInv, Sound, Checked
<1>4. Sound(disk.pos, disk.lastEval, disk.paused, bars, misread')
  BY ChartedSame, SoundLater DEF RunnerInv, DiskInv, LoopInv
<1> QED BY <1>3, <1>4 DEF RunnerInv, DiskInv

\* One field of a pass at work changes.
LEMMA PassMoves ==
  ASSUME RunnerInv, NEW w \in Passes, NEW t \in PassStates, pass' = [pass EXCEPT ![w] = t]
  PROVE  /\ pass' \in [Passes -> PassStates] /\ pass'[w] = t
         /\ \A v \in Passes \ {w} : pass'[v] = pass[v]
<1>1. pass \in [Passes -> PassStates]
  BY DEF RunnerInv, LoopInv
<1> QED BY <1>1

\* Where a pass at work stands: on a candle of its group that has closed.
LEMMA AtWork ==
  ASSUME RunnerInv, NEW w \in Passes, pass[w].pc \in Working
  PROVE  /\ pass[w] \in PassStates /\ Group(w) \in Groups /\ bars[Group(w)] \in Seq(BOOLEAN)
         /\ Closed(Group(w)) \in 1 .. MaxBar /\ MaxBar \in Nat
         /\ pass[w].bar \in 1 .. Closed(Group(w)) /\ pass[w].bar \in 1 .. MaxBar
         /\ bars[Group(w)][pass[w].bar] \in BOOLEAN
         /\ Range(pass[w].strats) \subseteq StratsIn(Group(w))
         /\ KnowsInv(w)
<1>1. LoopInv /\ WorkInv(w) /\ KnowsInv(w) /\ pass[w] \in PassStates /\ MaxBar \in Nat
  BY RunnerAssumption DEF RunnerInv, LoopInv, AloneInv, RunnerAssumption
<1>2. pass[w].pc # "idle"
  BY DEF Working
<1>3. Group(w) \in Groups
  BY <1>1, <1>2 DEF WorkInv, Group, PassStates
<1>4. bars[Group(w)] \in Seq(BOOLEAN) /\ Closed(Group(w)) \in 1 .. MaxBar
  BY <1>1, <1>3 DEF LoopInv
<1>5. pass[w].bar \in 1 .. Closed(Group(w)) /\ Range(pass[w].strats) \subseteq StratsIn(Group(w))
  BY <1>1, <1>2 DEF WorkInv
<1> QED BY <1>1, <1>3, <1>4, <1>5 DEF Closed

LEMMA ExitStepKeeps ==
  ASSUME RunnerInv, NEW w \in Passes, ExitStep(w)
  PROVE  RunnerInv'
<1>1. /\ pass[w].pc = "exit" /\ running = w /\ pass[w].pc \in Working
      /\ LoopInv /\ WorkInv(w) /\ Nobody \notin Passes
  BY RunnerAssumption DEF RunnerInv, LoopInv, ExitStep, RunnerAssumption, Working
<1> DEFINE g == Group(w)
           bar == pass[w].bar
<1>2. /\ pass[w] \in PassStates /\ g \in Groups /\ bar \in 1 .. MaxBar /\ bars[g][bar] \in BOOLEAN
      /\ MaxBar \in Nat
  BY <1>1, AtWork
<1>3. /\ bars' = bars /\ pool' = pool /\ attached' = attached /\ globalHalt' = globalHalt
      /\ lastEval' = lastEval /\ paused' = paused /\ disk' = disk /\ crashes' = crashes
  BY DEF ExitStep, streams
<1>4. /\ misread \subseteq misread' /\ misread' \subseteq Groups \X (1 .. MaxBar)
      /\ GoverningHere(w) /\ ~pass[w].final => <<g, bar>> \in misread'
  <2>1. misread' = IF GoverningHere(w) /\ ~pass[w].final THEN misread \union {<<g, bar>>} ELSE misread
    BY DEF ExitStep
  <2> QED BY <1>1, <1>2, <2>1 DEF LoopInv
<1>5. pass[w].final \in BOOLEAN /\ (pass[w].final => pass[w].crosses = bars[g][bar])
  BY <1>1, <1>2 DEF WorkInv, Working, PassStates
<1> HIDE DEF g, bar
<1>6. CASE ~(GoverningHere(w) /\ pass[w].crosses)
  <2> DEFINE t == [pass[w] EXCEPT !.pc = "eval"]
  <2>1. pass' = [pass EXCEPT ![w] = t] /\ pos' = pos /\ journal' = journal /\ running' = w
    BY <1>1, <1>6 DEF ExitStep
  <2>2. t \in PassStates /\ t.pc = "eval" /\ t.strats = pass[w].strats
    BY <1>2 DEF PassStates
  <2>3. /\ t.groups = pass[w].groups /\ t.asked = pass[w].asked
        /\ t.bar = pass[w].bar /\ t.final = pass[w].final /\ t.crosses = pass[w].crosses
    BY <1>2 DEF PassStates
  <2> HIDE DEF t
  <2>4. /\ pass' \in [Passes -> PassStates] /\ pass'[w] = t
        /\ \A v \in Passes \ {w} : pass'[v] = pass[v]
    BY <2>1, <2>2, PassMoves
  <2>5. Carries(w) /\ ~HalfWay(w)' /\ pass'[w].pc \in Working
    BY <2>2, <2>3, <2>4 DEF Carries, HalfWay, Working
  <2>6. ExitsChecked(w)'
    <3> SUFFICES ASSUME pos.direction # "none", pos.gov \in Range(pass[w].strats),
                        pass[w].bar > lastEval[pos.gov]
                 PROVE  ~bars[g][bar] \/ <<g, bar>> \in misread'
      BY <1>3, <2>1, <2>2, <2>3, <2>4 DEF ExitsChecked, Group, g, bar
    <3>1. GoverningHere(w)
      BY DEF GoverningHere
    <3>2. ~pass[w].crosses
      BY <1>6, <3>1
    <3> QED BY <1>4, <1>5, <3>1, <3>2
  <2>7. KnowsInv(w)'
    BY <2>2, <2>4, <2>6 DEF KnowsInv
  <2>8. LoopInv' /\ AloneInv'
    BY <1>1, <1>3, <1>4, <2>1, <2>2, <2>4, <2>5, <2>7, WorkGoesOn
  <2>9. MemoryInv' /\ DiskInv' /\ JournalInv'
    <3>1. Charted(bars, bars') /\ paused' \in SUBSET Strategies
      BY <1>1, <1>3, ChartedSame DEF RunnerInv, MemoryInv, Sound
    <3> QED BY <1>3, <1>4, <2>1, <3>1, MemoryKept
  <2> QED BY <2>8, <2>9 DEF RunnerInv
<1>7. CASE GoverningHere(w) /\ pass[w].crosses /\ FundingAwait
  <2> DEFINE t == [pass[w] EXCEPT !.pc = "funding", !.held = pos]
  <2>1. pass' = [pass EXCEPT ![w] = t] /\ pos' = pos /\ journal' = journal /\ running' = Nobody
    BY <1>7 DEF ExitStep
  <2>2. pos \in PositionsOf(Strategies, Bars) /\ pos.direction # "none"
    BY <1>7 DEF RunnerInv, MemoryInv, Sound, Held, GoverningHere
  <2>3. t \in PassStates /\ t.pc = "funding" /\ t.strats = pass[w].strats /\ t.held = pos
    BY <1>2, <2>2 DEF PassStates
  <2>4. /\ t.groups = pass[w].groups /\ t.asked = pass[w].asked
        /\ t.bar = pass[w].bar /\ t.final = pass[w].final /\ t.crosses = pass[w].crosses
    BY <1>2 DEF PassStates
  <2> HIDE DEF t
  <2>5. /\ pass' \in [Passes -> PassStates] /\ pass'[w] = t
        /\ \A v \in Passes \ {w} : pass'[v] = pass[v]
    BY <2>1, <2>3, PassMoves
  <2>6. Carries(w) /\ pass'[w].pc \in Working /\ ~Unawaited
    BY <1>7, <2>3, <2>4, <2>5 DEF Carries, Working, Unawaited
  <2>7. KnowsInv(w)'
    BY <2>1, <2>2, <2>3, <2>5 DEF KnowsInv
  <2>8. LoopInv' /\ AloneInv'
    <3>1. Range(pass'[w].strats) \subseteq Range(pass[w].strats)
          /\ (pass'[w].pc \in {"exit", "eval"} <=> running' = w)
      BY <1>1, <2>1, <2>3, <2>5
    <3> QED BY <1>1, <1>3, <1>4, <2>1, <2>5, <2>6, <2>7, <3>1, WorkGoesOn
  <2>9. MemoryInv' /\ DiskInv' /\ JournalInv'
    <3>1. Charted(bars, bars') /\ paused' \in SUBSET Strategies
      BY <1>1, <1>3, ChartedSame DEF RunnerInv, MemoryInv, Sound
    <3> QED BY <1>3, <1>4, <2>1, <3>1, MemoryKept
  <2> QED BY <2>8, <2>9 DEF RunnerInv
<1>8. CASE GoverningHere(w) /\ pass[w].crosses /\ ~FundingAwait
  <2> DEFINE t == [pass[w] EXCEPT !.pc = "eval"]
  <2>1. pass' = [pass EXCEPT ![w] = t] /\ Close(w, pos) /\ running' = w
    BY <1>1, <1>8 DEF ExitStep
  <2>2. t \in PassStates /\ t.pc = "eval" /\ t.strats = pass[w].strats
    BY <1>2 DEF PassStates
  <2>3. /\ t.groups = pass[w].groups /\ t.asked = pass[w].asked
        /\ t.bar = pass[w].bar /\ t.final = pass[w].final /\ t.crosses = pass[w].crosses
    BY <1>2 DEF PassStates
  <2> HIDE DEF t
  <2>4. /\ pass' \in [Passes -> PassStates] /\ pass'[w] = t
        /\ \A v \in Passes \ {w} : pass'[v] = pass[v]
    BY <2>1, <2>2, PassMoves
  <2>5. Carries(w) /\ ~HalfWay(w)' /\ pass'[w].pc \in Working
    BY <2>2, <2>3, <2>4 DEF Carries, HalfWay, Working
  <2>6. pos' = FlatPosition /\ JournalInv'
    <3>1. pos.direction # "none" /\ pass[w].bar \in 1 .. MaxBar
      BY <1>2, <1>8 DEF GoverningHere, bar
    <3> QED BY <1>3, <2>1, <3>1, ClosedOut
  <2>7. KnowsInv(w)'
    <3>1. ExitsChecked(w)'
      BY <2>6, FlatHeld DEF ExitsChecked
    <3> QED BY <2>2, <2>4, <3>1 DEF KnowsInv
  <2>8. LoopInv' /\ AloneInv'
    BY <1>1, <1>3, <1>4, <2>1, <2>2, <2>4, <2>5, <2>7, WorkGoesOn
  <2>9. MemoryInv' /\ DiskInv'
    BY <1>3, <1>4, <2>6, FlatSound
  <2> QED BY <2>6, <2>8, <2>9 DEF RunnerInv
<1> QED BY <1>6, <1>7, <1>8

LEMMA FundingDoneKeeps ==
  ASSUME RunnerInv, NEW w \in Passes, FundingDone(w)
  PROVE  RunnerInv'
<1>1. /\ pass[w].pc = "funding" /\ running = Nobody /\ running' = w /\ pass[w].pc \in Working
      /\ LoopInv
  BY DEF RunnerInv, FundingDone, Working
<1>2. pass[w] \in PassStates /\ pass[w].bar \in 1 .. MaxBar /\ KnowsInv(w)
  BY <1>1, AtWork
<1>3. /\ bars' = bars /\ pool' = pool /\ attached' = attached /\ globalHalt' = globalHalt
      /\ lastEval' = lastEval /\ paused' = paused /\ disk' = disk /\ crashes' = crashes
      /\ misread' = misread
  BY DEF FundingDone, streams
<1>4. pass[w].held = pos /\ pos.direction # "none"
  BY <1>1, <1>2 DEF KnowsInv
<1>5. FlatPosition \in PositionsOf(Strategies, Bars)
  BY FlatHeld DEF Held
<1> DEFINE t == [pass[w] EXCEPT !.pc = "eval", !.held = FlatPosition]
<1>6. pass' = [pass EXCEPT ![w] = t] /\ Close(w, pos)
  BY <1>4 DEF FundingDone
<1>7. t \in PassStates /\ t.pc = "eval" /\ t.strats = pass[w].strats
  BY <1>2, <1>5 DEF PassStates
<1>8. /\ t.groups = pass[w].groups /\ t.asked = pass[w].asked
      /\ t.bar = pass[w].bar /\ t.final = pass[w].final /\ t.crosses = pass[w].crosses
  BY <1>2 DEF PassStates
<1> HIDE DEF t
<1>9. /\ pass' \in [Passes -> PassStates] /\ pass'[w] = t
      /\ \A v \in Passes \ {w} : pass'[v] = pass[v]
  BY <1>6, <1>7, PassMoves
<1>10. Carries(w) /\ ~HalfWay(w)' /\ pass'[w].pc \in Working
  BY <1>7, <1>8, <1>9 DEF Carries, HalfWay, Working
<1>11. pos' = FlatPosition /\ JournalInv'
  BY <1>2, <1>3, <1>4, <1>6, ClosedOut
<1>12. KnowsInv(w)'
  <2>1. ExitsChecked(w)'
    BY <1>11, FlatHeld DEF ExitsChecked
  <2> QED BY <1>7, <1>9, <2>1 DEF KnowsInv
<1>13. LoopInv' /\ AloneInv'
  <2>1. misread \subseteq misread' /\ misread' \subseteq Groups \X (1 .. MaxBar)
    BY <1>1, <1>3 DEF LoopInv
  <2> QED BY <1>1, <1>3, <1>7, <1>9, <1>10, <1>12, <2>1, WorkGoesOn
<1>14. MemoryInv' /\ DiskInv'
  BY <1>3, <1>11, FlatSound
<1> QED BY <1>11, <1>13, <1>14 DEF RunnerInv

\* The position after an evaluation is the one before it, or one that the strategy
\* evaluated opened on the candle: no exit of it is passed over.
LEMMA EvaluationIsSound ==
  ASSUME RunnerInv, NEW w \in Passes, pass[w].pc \in Working, pass[w].strats # <<>>,
         ExitsChecked(w), NEW t, t.bar = pass[w].bar, t.groups = pass[w].groups,
         Range(t.strats) \subseteq Range(pass[w].strats), pass'[w] = t,
         bars' = bars, misread' = misread, paused' = paused, disk' = disk,
         \/ lastEval' = lastEval
         \/ IsNew(w) /\ lastEval' = [lastEval EXCEPT ![Strat(w)] = pass[w].bar],
         Held(pos'),
         \/ pos' = pos
         \/ /\ IsNew(w) /\ lastEval' = [lastEval EXCEPT ![Strat(w)] = pass[w].bar]
            /\ \/ pos'.gov = Strat(w) /\ pos'.entryIdx = pass[w].bar
               \/ pos.direction # "none" /\ pos'.gov = pos.gov /\ pos'.entryIdx = pos.entryIdx
  PROVE  MemoryInv' /\ DiskInv' /\ ExitsChecked(w)'
<1> DEFINE s == Strat(w)
           g == Group(w)
           bar == pass[w].bar
<1>1. /\ pass[w] \in PassStates /\ g \in Groups /\ bar \in 1 .. Closed(g) /\ bar \in 1 .. MaxBar
      /\ Range(pass[w].strats) \subseteq StratsIn(g) /\ MaxBar \in Nat
      /\ Closed(g) \in 1 .. MaxBar
  BY AtWork
<1>2. s \in Range(pass[w].strats) /\ s \in Strategies /\ GroupOf[s] = g
  <2>1. pass[w].strats \in Seq(Strategies)
    BY <1>1 DEF PassStates
  <2>2. Head(pass[w].strats) \in Range(pass[w].strats)
    BY <2>1 DEF Range
  <2> QED BY <1>1, <2>2 DEF Strat, StratsIn
<1>3. /\ Held(pos) /\ lastEval \in [Strategies -> Bars] /\ paused \in SUBSET Strategies
      /\ \A x \in Strategies : lastEval[x] <= Closed(GroupOf[x])
      /\ Checked(pos, lastEval, bars, misread)
  BY DEF RunnerInv, MemoryInv, Sound, Closed
<1>4. Group(w)' = g /\ pass'[w].bar = bar
  BY DEF Group
<1>5. IsNew(w) => bar > lastEval[s]
  BY DEF IsNew
<1>6. ExitsChecked(w)
  OBVIOUS
<1>7. /\ lastEval' = lastEval \/ (IsNew(w) /\ lastEval' = [lastEval EXCEPT ![s] = bar])
      /\ \/ pos' = pos
         \/ /\ IsNew(w) /\ lastEval' = [lastEval EXCEPT ![s] = bar]
            /\ \/ pos'.gov = s /\ pos'.entryIdx = bar
               \/ pos.direction # "none" /\ pos'.gov = pos.gov /\ pos'.entryIdx = pos.entryIdx
  OBVIOUS
<1> HIDE DEF s, g, bar
<1>8. \A x \in Strategies : lastEval[x] \in Nat
  BY <1>1, <1>3 DEF Bars
<1>9. /\ lastEval' \in [Strategies -> Bars]
      /\ \A x \in Strategies : /\ lastEval[x] <= lastEval'[x] /\ lastEval'[x] \in Nat
                               /\ lastEval'[x] = lastEval[x] \/ (x = s /\ lastEval'[x] = bar
                                                                 /\ bar > lastEval[x])
                               /\ lastEval'[x] <= Closed(GroupOf[x])
  <2>1. CASE lastEval' = lastEval
    BY <1>3, <1>8, <2>1
  <2>2. CASE IsNew(w) /\ lastEval' = [lastEval EXCEPT ![s] = bar]
    BY <1>1, <1>2, <1>3, <1>5, <1>8, <2>2 DEF Bars
  <2> QED BY <1>7, <2>1, <2>2
<1>10. pos'.direction # "none" => pos'.gov \in Strategies /\ pos'.entryIdx \in Nat
  BY <1>1 DEF Held, PositionsOf, Bars
<1>11. \/ pos'.gov = s /\ pos'.entryIdx = bar /\ lastEval'[s] = bar
       \/ pos' = pos
       \/ pos.direction # "none" /\ pos'.gov = pos.gov /\ pos'.entryIdx = pos.entryIdx
  BY <1>2, <1>3, <1>7
<1>12. ASSUME pos'.direction # "none", lastEval'[pos'.gov] > pos'.entryIdx
       PROVE  \/ ~bars[GroupOf[pos'.gov]][lastEval'[pos'.gov]]
              \/ <<GroupOf[pos'.gov], lastEval'[pos'.gov]>> \in misread
  <2>1. ~(pos'.gov = s /\ pos'.entryIdx = bar /\ lastEval'[s] = bar)
    BY <1>1, <1>12
  <2>2. pos.direction # "none" /\ pos'.gov = pos.gov /\ pos'.entryIdx = pos.entryIdx
    BY <1>11, <1>12, <2>1
  <2>3. CASE lastEval'[pos.gov] = lastEval[pos.gov]
    BY <1>3, <1>12, <2>2, <2>3 DEF Checked
  <2>4. CASE pos.gov = s /\ lastEval'[pos.gov] = bar /\ bar > lastEval[pos.gov]
    <3>1. pos.gov \in Range(pass[w].strats) /\ ~(pos.entryIdx >= bar)
      BY <1>1, <1>2, <1>10, <1>12, <2>2, <2>4
    <3>2. ~bars[g][bar] \/ <<g, bar>> \in misread
      BY <1>6, <2>2, <2>4, <3>1 DEF ExitsChecked, g, bar
    <3> QED BY <1>2, <2>2, <2>4, <3>2
  <2> QED BY <1>9, <1>10, <1>12, <2>2, <2>3, <2>4
<1>13. Checked(pos', lastEval', bars, misread)
  BY <1>12 DEF Checked
<1>14. MemoryInv'
  BY <1>3, <1>9, <1>13 DEF MemoryInv, Sound, Closed
<1>15. DiskInv'
  BY DEF RunnerInv, DiskInv
<1>16. ExitsChecked(w)'
  <2> SUFFICES ASSUME pos'.direction # "none", pos'.gov \in Range(pass'[w].strats),
                      bar > lastEval'[pos'.gov]
               PROVE  pos'.entryIdx >= bar \/ ~bars[g][bar] \/ <<g, bar>> \in misread
    BY <1>4 DEF ExitsChecked
  <2>1. ~(pos'.gov = s /\ lastEval'[s] = bar)
    BY <1>1
  <2>2. pos.direction # "none" /\ pos'.gov = pos.gov /\ pos'.entryIdx = pos.entryIdx
    BY <1>11, <2>1
  <2>3. pos.gov \in Range(pass[w].strats) /\ bar > lastEval[pos.gov]
    BY <1>1, <1>8, <1>9, <1>10, <2>2
  <2> QED BY <1>6, <2>2, <2>3 DEF ExitsChecked, g, bar
<1> QED BY <1>14, <1>15, <1>16

\* A strategy is evaluated, and enters at most once.
LEMMA EvaluatedKeeps ==
  ASSUME RunnerInv, NEW w \in Passes, pass[w].pc \in {"eval", "htf", "gate"},
         pass[w].strats # <<>>, running \in {w, Nobody}, NEW new \in BOOLEAN, Evaluated(w, new),
         new => IsNew(w),
         \/ pos' = pos /\ journal' = journal
         \/ new /\ \E q \in Nat \ {0} : Fits(pos, Strat(w), q) /\ Enter(w, q),
         bars' = bars, pool' = pool, attached' = attached, paused' = paused,
         globalHalt' = globalHalt, disk' = disk, crashes' = crashes, misread' = misread
  PROVE  RunnerInv'
<1> DEFINE s == Strat(w)
           bar == pass[w].bar
           t == [pass[w] EXCEPT !.pc = "eval", !.strats = Tail(@), !.qty = 0]
<1>1. /\ pass[w] \in PassStates /\ bar \in 1 .. MaxBar /\ MaxBar \in Nat /\ KnowsInv(w)
      /\ Range(pass[w].strats) \subseteq StratsIn(Group(w)) /\ pass[w].pc \in Working
  BY AtWork DEF Working
<1>2. /\ t \in PassStates /\ t.pc = "eval" /\ t.strats = Tail(pass[w].strats)
      /\ Range(t.strats) \subseteq Range(pass[w].strats) /\ s \in Strategies
  <2>1. pass[w].strats \in Seq(Strategies)
    BY <1>1 DEF PassStates
  <2>2. Tail(pass[w].strats) \in Seq(Strategies) /\ Head(pass[w].strats) \in Strategies
    BY <2>1
  <2>3. Range(Tail(pass[w].strats)) \subseteq Range(pass[w].strats)
    BY <2>1 DEF Range
  <2> QED BY <1>1, <2>2, <2>3 DEF PassStates, Strat
<1>3. /\ t.groups = pass[w].groups /\ t.asked = pass[w].asked
      /\ t.bar = pass[w].bar /\ t.final = pass[w].final /\ t.crosses = pass[w].crosses
  BY <1>1 DEF PassStates
<1>4. /\ pass' = [pass EXCEPT ![w] = t] /\ running' = w
      /\ lastEval' = IF new THEN [lastEval EXCEPT ![s] = bar] ELSE lastEval
  BY DEF Evaluated
<1> HIDE DEF t
<1>5. /\ pass' \in [Passes -> PassStates] /\ pass'[w] = t
      /\ \A v \in Passes \ {w} : pass'[v] = pass[v]
  BY <1>2, <1>4, PassMoves
<1>6. /\ Held(pos) /\ lastEval \in [Strategies -> Bars] /\ LoopInv
  BY DEF RunnerInv, MemoryInv, Sound
<1>7. /\ Held(pos')
      /\ \/ pos' = pos
         \/ /\ IsNew(w) /\ lastEval' = [lastEval EXCEPT ![s] = bar]
            /\ \/ pos'.gov = s /\ pos'.entryIdx = bar
               \/ pos.direction # "none" /\ pos'.gov = pos.gov /\ pos'.entryIdx = pos.entryIdx
      /\ JournalInv'
  <2>1. CASE pos' = pos /\ journal' = journal
    <3>1. \A x \in Strategies : lastEval[x] <= lastEval'[x]
      BY <1>1, <1>4, <1>6 DEF IsNew, Bars
    <3>2. \A x \in Strategies : lastEval[x] \in Int /\ lastEval'[x] \in Int
      BY <1>1, <1>4, <1>6 DEF Bars
    <3>3. JournalInv /\ pos' = pos /\ journal' = journal /\ crashes' = crashes /\ disk' = disk
      BY <2>1 DEF RunnerInv
    <3>4. ASSUME NEW x \in Strategies, NEW c \in 1 .. MaxBar, c > lastEval'[x]
          PROVE  c > lastEval[x]
      BY <3>1, <3>2, <3>4
    <3>5. JournalInv'
      BY <3>3, <3>4 DEF JournalInv, SignedQty
    <3> QED BY <1>6, <2>1, <3>5
  <2>2. ASSUME new, NEW q \in Nat \ {0}, Fits(pos, s, q), Enter(w, q)
        PROVE  /\ Held(pos')
               /\ \/ pos'.gov = s /\ pos'.entryIdx = bar
                  \/ pos.direction # "none" /\ pos'.gov = pos.gov /\ pos'.entryIdx = pos.entryIdx
               /\ JournalInv'
    <3> DEFINE r == ApplyIntent(pos, IntentOf(s, bar), Price, q)
    <3>2. EntersAs(pos, s, bar, r)
      BY <1>1, <1>2, <1>6, <2>2, IntentEnters
    <3>3. pos' = r.position /\ journal' = Journalled(r.fills, bar)
      BY <2>2 DEF Enter
    <3> HIDE DEF r
    <3>4. /\ Held(r.position) /\ Tells(pos, s, r)
          /\ \/ r.position.gov = s /\ r.position.entryIdx = bar
             \/ pos.direction # "none" /\ r.position.gov = pos.gov
                /\ r.position.entryIdx = pos.entryIdx
      BY <3>2 DEF EntersAs, Tells
    <3>5. IsNew(w) /\ lastEval' = [lastEval EXCEPT ![s] = bar] /\ bar > lastEval[s]
      BY <1>4, <2>2 DEF IsNew
    <3>6. \A x \in Strategies : lastEval'[x] \in Bars /\ lastEval[x] <= lastEval'[x]
      BY <1>1, <1>6, <3>5 DEF Bars
    <3>7. lastEval'[s] >= bar
      BY <1>1, <1>2, <1>6, <3>5
    <3>8. JournalInv'
      BY <1>1, <1>2, <3>3, <3>4, <3>5, <3>6, <3>7, JournalKept
    <3> QED BY <3>3, <3>4, <3>8
  <2> QED BY <1>4, <2>1, <2>2
<1>8. ExitsChecked(w)
  BY <1>1 DEF KnowsInv
<1>9. lastEval' = lastEval \/ (IsNew(w) /\ lastEval' = [lastEval EXCEPT ![s] = bar])
  BY <1>4
<1>10. MemoryInv' /\ DiskInv' /\ ExitsChecked(w)'
  BY <1>1, <1>2, <1>3, <1>5, <1>7, <1>8, <1>9, EvaluationIsSound
<1>11. KnowsInv(w)'
  BY <1>2, <1>5, <1>10 DEF KnowsInv
<1>12. Carries(w) /\ ~HalfWay(w)' /\ pass'[w].pc \in Working
  BY <1>2, <1>3, <1>5 DEF Carries, HalfWay, Working
<1>13. LoopInv' /\ AloneInv'
  <2>1. /\ misread \subseteq misread' /\ misread' \subseteq Groups \X (1 .. MaxBar)
        /\ running' \in {w, Nobody} /\ (pass'[w].pc \in {"exit", "eval"} <=> running' = w)
        /\ Range(pass'[w].strats) \subseteq Range(pass[w].strats)
    BY <1>2, <1>4, <1>5, <1>6 DEF LoopInv
  <2> QED BY <1>1, <1>5, <1>11, <1>12, <2>1, WorkGoesOn
<1> QED BY <1>7, <1>10, <1>13 DEF RunnerInv

\* The evaluation is suspended, for the higher timeframe or for the gate.
LEMMA SuspendedKeeps ==
  ASSUME RunnerInv, NEW w \in Passes, pass[w].pc \in {"eval", "htf"}, pass[w].strats # <<>>,
         IsNew(w), running \in {w, Nobody}, running' = Nobody, NEW q \in Nat, NEW pc,
         \/ pc = "htf" /\ HtfReaders # {}
         \/ pc = "gate" /\ AiMode /\ q > 0 /\ Sized(Strat(w), q),
         pass' = [pass EXCEPT ![w] = [pass[w] EXCEPT !.pc = pc, !.qty = q]],
         pos' = pos, journal' = journal, lastEval' = lastEval,
         bars' = bars, pool' = pool, attached' = attached, paused' = paused,
         globalHalt' = globalHalt, disk' = disk, crashes' = crashes, misread' = misread
  PROVE  RunnerInv'
<1> DEFINE t == [pass[w] EXCEPT !.pc = pc, !.qty = q]
<1>1. /\ pass[w] \in PassStates /\ KnowsInv(w) /\ pass[w].pc \in Working /\ LoopInv
      /\ Nobody \notin Passes
  BY AtWork, RunnerAssumption DEF Working, RunnerInv, RunnerAssumption
<1>2. t \in PassStates /\ t.pc = pc /\ t.strats = pass[w].strats /\ t.qty = q
  BY <1>1 DEF PassStates
<1>3. /\ t.groups = pass[w].groups /\ t.asked = pass[w].asked
      /\ t.bar = pass[w].bar /\ t.final = pass[w].final /\ t.crosses = pass[w].crosses
  BY <1>1 DEF PassStates
<1>4. pass' = [pass EXCEPT ![w] = t]
  OBVIOUS
<1> HIDE DEF t
<1>5. /\ pass' \in [Passes -> PassStates] /\ pass'[w] = t
      /\ \A v \in Passes \ {w} : pass'[v] = pass[v]
  BY <1>2, <1>4, PassMoves
<1>6. Carries(w) /\ pass'[w].pc \in Working /\ pass'[w].pc \notin {"exit", "eval"}
  BY <1>2, <1>3, <1>5 DEF Carries, Working
<1>7. KnowsInv(w)'
  <2>1. ExitsChecked(w)
    BY <1>1 DEF KnowsInv
  <2>2. Strat(w)' = Strat(w) /\ Headroom(Strat(w))' = Headroom(Strat(w)) /\ Group(w)' = Group(w)
    BY <1>2, <1>3, <1>5 DEF Strat, Headroom, Group
  <2>3. ExitsChecked(w)'
    BY <1>2, <1>3, <1>5, <2>1, <2>2 DEF ExitsChecked
  <2>4. pass[w].bar > lastEval[Strat(w)]
    BY DEF IsNew
  <2> QED BY <1>2, <1>3, <1>5, <2>2, <2>3, <2>4 DEF KnowsInv, Sized
<1>8. ~Unawaited
  BY DEF Unawaited
<1>9. LoopInv' /\ AloneInv'
  <2>1. /\ misread \subseteq misread' /\ misread' \subseteq Groups \X (1 .. MaxBar)
        /\ running' \in {w, Nobody} /\ running' # w
        /\ Range(pass'[w].strats) \subseteq Range(pass[w].strats)
    BY <1>1, <1>2, <1>5 DEF LoopInv
  <2> QED BY <1>1, <1>5, <1>6, <1>7, <1>8, <2>1, WorkGoesOn
<1>10. MemoryInv' /\ DiskInv' /\ JournalInv'
  <2>1. Charted(bars, bars') /\ paused' \in SUBSET Strategies /\ misread \subseteq misread'
    BY <1>1, ChartedSame DEF RunnerInv, MemoryInv, Sound
  <2> QED BY <2>1, MemoryKept
<1> QED BY <1>9, <1>10 DEF RunnerInv

\* What is clipped to the headroom fits once it is sized, and sized again by the gate.
LEMMA SizedFits ==
  ASSUME RunnerInv, NEW s \in Strategies, NEW q \in Nat, Sized(s, q)
  PROVE  /\ Fits(pos, s, q)
         /\ \A size \in GateSizes : Fits(pos, s, Scaled(q, size)) /\ Scaled(q, size) \in Nat \ {0}
<1> DEFINE h == Headroom(s)
           x == SameSide(pos, s)
           clipped == Scaled(h, MaxMultiplier)
<1>1. /\ Cap \in Nat /\ MaxMultiplier \in Nat /\ MaxGateSize \in Nat /\ Whole <= MaxMultiplier
      /\ Whole <= MaxGateSize /\ GateSizes \subseteq 1 .. MaxGateSize
  BY RunnerAssumption DEF RunnerAssumption
<1>2. pos.qty \in Nat
  BY DEF RunnerInv, MemoryInv, Sound, Held, PositionsOf
<1>3. x \in Nat /\ h \in Nat \ {0} /\ h + x = Cap /\ q <= clipped
  BY <1>1, <1>2 DEF SameSide, Headroom, Sized
<1> HIDE DEF h, x
<1>4. clipped \in Nat \ {0} /\ clipped + x <= Scaled(Cap, MaxMultiplier)
  BY <1>1, <1>3, ScaledAdds
<1> HIDE DEF clipped
<1>5. ASSUME NEW size \in 1 .. MaxGateSize, NEW c \in Nat, c <= clipped
      PROVE  /\ Scaled(c, size) \in Nat \ {0}
             /\ Scaled(c, size) + x <= Scaled(Scaled(Cap, MaxMultiplier), MaxGateSize)
  <2>1. Scaled(Cap, MaxMultiplier) \in Nat
    BY <1>1, ScaledType
  <2>2. Scaled(c, size) <= Scaled(clipped, MaxGateSize) /\ Scaled(c, size) \in Nat \ {0}
    <3>1. clipped \in Nat /\ size \in Nat
      BY <1>1, <1>4
    <3>2. Scaled(c, size) \in Nat \ {0}
      BY <3>1, ScaledType
    <3>3. Scaled(c, size) <= Scaled(clipped, MaxGateSize)
      BY <1>1, <1>5, <3>1, ScaledGrows
    <3> QED BY <3>2, <3>3
  <2>3. Scaled(clipped, MaxGateSize) + x <= Scaled(clipped + x, MaxGateSize)
    BY <1>1, <1>3, <1>4, ScaledAdds
  <2>4. Scaled(clipped + x, MaxGateSize) <= Scaled(Scaled(Cap, MaxMultiplier), MaxGateSize)
    <3>1. clipped + x \in Nat /\ MaxGateSize \in 1 .. MaxGateSize
      BY <1>1, <1>3, <1>4 DEF Whole
    <3>2. Scaled(Cap, MaxMultiplier) \in Nat /\ clipped + x <= Scaled(Cap, MaxMultiplier)
      BY <1>4, <2>1
    <3> QED BY <1>1, <3>1, <3>2, ScaledGrows
  <2>5. /\ Scaled(clipped, MaxGateSize) \in Nat /\ Scaled(clipped + x, MaxGateSize) \in Nat
        /\ Scaled(Scaled(Cap, MaxMultiplier), MaxGateSize) \in Nat
    <3>1. clipped \in Nat /\ clipped + x \in Nat
      BY <1>3, <1>4
    <3> QED BY <1>1, <2>1, <3>1, ScaledType
  <2> QED BY <1>3, <2>2, <2>3, <2>4, <2>5
<1>6. Fits(pos, s, q)
  <2>1. q + x <= Scaled(Cap, MaxMultiplier)
    BY <1>1, <1>3, <1>4, ScaledType
  <2>2. Scaled(Cap, MaxMultiplier) <= Scaled(Scaled(Cap, MaxMultiplier), MaxGateSize)
    BY <1>1, <1>3, <1>4, ScaledType, ScaledAdds
  <2>3. Scaled(Cap, MaxMultiplier) \in Nat /\ Scaled(Scaled(Cap, MaxMultiplier), MaxGateSize) \in Nat
    BY <1>1, ScaledType
  <2> QED BY <1>3, <2>1, <2>2, <2>3 DEF Fits, Most, x
<1>7. ASSUME NEW size \in GateSizes
      PROVE  Fits(pos, s, Scaled(q, size)) /\ Scaled(q, size) \in Nat \ {0}
  <2>1. /\ Scaled(q, size) \in Nat \ {0}
        /\ Scaled(q, size) + x <= Scaled(Scaled(Cap, MaxMultiplier), MaxGateSize)
    BY <1>1, <1>3, <1>5
  <2>2. Scaled(Scaled(Cap, MaxMultiplier), MaxGateSize) \in Nat
    BY <1>1, ScaledType
  <2> QED BY <1>3, <2>1, <2>2 DEF Fits, Most, x
<1> QED BY <1>6, <1>7

\* A signal that fired is sized within the headroom, times the size of its strategy.
LEMMA FiredKeeps ==
  ASSUME RunnerInv, NEW w \in Passes, pass[w].pc \in {"eval", "htf"}, pass[w].strats # <<>>,
         IsNew(w), running \in {w, Nobody}, Fired(w),
         bars' = bars, pool' = pool, attached' = attached, paused' = paused,
         globalHalt' = globalHalt, disk' = disk, crashes' = crashes, misread' = misread
  PROVE  RunnerInv'
<1> DEFINE s == Strat(w)
           q == Least(SizeOf[s], Headroom(s))
<1>1. s \in Strategies
  <2>1. pass[w] \in PassStates
    BY AtWork DEF Working
  <2> QED BY <2>1 DEF Strat, PassStates
<1>2. SizeOf[s] \in Nat /\ Headroom(s) \in Int
  <2>1. pos.qty \in Nat
    BY DEF RunnerInv, MemoryInv, Sound, Held, PositionsOf
  <2> QED BY <1>1, <2>1, RunnerAssumption DEF RunnerAssumption, Headroom
<1>3. q \in Int /\ q <= Headroom(s)
  <2> HIDE DEF s
  <2> QED BY <1>2 DEF Least
<1>4. CASE q <= 0 /\ Evaluated(w, TRUE) /\ UNCHANGED <<pos, journal>>
  BY <1>4, EvaluatedKeeps
<1>5. ASSUME NEW m \in Multipliers, q > 0
      PROVE  Scaled(q, m) \in Nat \ {0} /\ Sized(s, Scaled(q, m))
  <2>1. /\ MaxMultiplier \in Nat /\ m \in 1 .. MaxMultiplier
    BY RunnerAssumption DEF RunnerAssumption
  <2>2. q \in Nat /\ Headroom(s) \in Nat /\ q <= Headroom(s) /\ Headroom(s) > 0
    BY <1>2, <1>3, <1>5
  <2> HIDE DEF q
  <2> QED BY <2>1, <2>2, ScaledType, ScaledGrows DEF Sized
<1>6. ASSUME NEW m \in Multipliers, q > 0, ~AiMode, Enter(w, Scaled(q, m)), Evaluated(w, TRUE)
      PROVE  RunnerInv'
  <2>1. Scaled(q, m) \in Nat \ {0} /\ Fits(pos, Strat(w), Scaled(q, m))
    BY <1>1, <1>5, <1>6, SizedFits
  <2> HIDE DEF q
  <2>2. \E n \in Nat \ {0} : Fits(pos, Strat(w), n) /\ Enter(w, n)
    BY <1>6, <2>1
  <2> QED BY <1>6, <2>2, EvaluatedKeeps
<1>7. ASSUME NEW m \in Multipliers, q > 0, AiMode,
             pass' = [pass EXCEPT ![w].pc = "gate", ![w].qty = Scaled(q, m)],
             running' = Nobody, UNCHANGED <<pos, journal, lastEval>>
      PROVE  RunnerInv'
  <2> DEFINE n == Scaled(q, m)
  <2>1. n \in Nat /\ n > 0 /\ Sized(Strat(w), n)
    BY <1>5, <1>7
  <2>2. pass' = [pass EXCEPT ![w] = [pass[w] EXCEPT !.pc = "gate", !.qty = n]]
    BY <1>7
  <2> HIDE DEF q, n
  <2> QED BY <1>7, <2>1, <2>2, SuspendedKeeps
<1>8. \/ q <= 0 /\ Evaluated(w, TRUE) /\ UNCHANGED <<pos, journal>>
      \/ \E m \in Multipliers :
           \/ q > 0 /\ ~AiMode /\ Enter(w, Scaled(q, m)) /\ Evaluated(w, TRUE)
           \/ /\ q > 0 /\ AiMode
              /\ pass' = [pass EXCEPT ![w].pc = "gate", ![w].qty = Scaled(q, m)]
              /\ running' = Nobody /\ UNCHANGED <<pos, journal, lastEval>>
  BY DEF Fired
<1> HIDE DEF q
<1> QED BY <1>4, <1>6, <1>7, <1>8

LEMMA EvalStepKeeps ==
  ASSUME RunnerInv, NEW w \in Passes, EvalStep(w)
  PROVE  RunnerInv'
<1>1. /\ running = w /\ pass[w].pc = "eval" /\ pass[w].strats # <<>>
      /\ bars' = bars /\ pool' = pool /\ attached' = attached /\ paused' = paused
      /\ globalHalt' = globalHalt /\ disk' = disk /\ crashes' = crashes /\ misread' = misread
  BY DEF EvalStep, streams
<1>2. CASE Evaluated(w, IsNew(w)) /\ UNCHANGED <<pos, journal>>
  <2>1. IsNew(w) \in BOOLEAN
    BY DEF IsNew
  <2> QED BY <1>1, <1>2, <2>1, EvaluatedKeeps
<1>3. CASE /\ MayEnter(w) /\ Strat(w) \in HtfReaders
           /\ pass' = [pass EXCEPT ![w].pc = "htf"] /\ running' = Nobody
           /\ UNCHANGED <<pos, journal, lastEval>>
  <2>1. pass[w] \in PassStates
    BY <1>1, AtWork DEF Working
  <2>2. pass[w].qty \in Nat
        /\ [pass[w] EXCEPT !.pc = "htf"] = [pass[w] EXCEPT !.pc = "htf", !.qty = pass[w].qty]
    BY <2>1 DEF PassStates
  <2>3. pass' = [pass EXCEPT ![w] = [pass[w] EXCEPT !.pc = "htf", !.qty = pass[w].qty]]
    BY <1>3, <2>2
  <2>4. IsNew(w) /\ HtfReaders # {}
    BY <1>3 DEF MayEnter
  <2> QED BY <1>1, <1>3, <2>2, <2>3, <2>4, SuspendedKeeps, ZenonT(60)
<1>4. CASE MayEnter(w) /\ Evaluated(w, TRUE) /\ UNCHANGED <<pos, journal>>
  <2>1. IsNew(w)
    BY <1>4 DEF MayEnter
  <2> QED BY <1>1, <1>4, <2>1, EvaluatedKeeps
<1>5. CASE MayEnter(w) /\ Fired(w)
  <2>1. IsNew(w)
    BY <1>5 DEF MayEnter
  <2> QED BY <1>1, <1>5, <2>1, FiredKeeps
<1> QED BY <1>2, <1>3, <1>4, <1>5 DEF EvalStep

LEMMA HtfDoneKeeps ==
  ASSUME RunnerInv, NEW w \in Passes, HtfDone(w)
  PROVE  RunnerInv'
<1>1. /\ running = Nobody /\ pass[w].pc = "htf"
      /\ bars' = bars /\ pool' = pool /\ attached' = attached /\ paused' = paused
      /\ globalHalt' = globalHalt /\ disk' = disk /\ crashes' = crashes /\ misread' = misread
  BY DEF HtfDone, streams
<1>2. pass[w].strats # <<>> /\ IsNew(w)
  <2>1. KnowsInv(w)
    BY <1>1, AtWork DEF Working
  <2> QED BY <1>1, <2>1 DEF KnowsInv, IsNew
<1>3. CASE Evaluated(w, TRUE) /\ UNCHANGED <<pos, journal>>
  BY <1>1, <1>2, <1>3, EvaluatedKeeps
<1>4. CASE Fired(w)
  BY <1>1, <1>2, <1>4, FiredKeeps
<1> QED BY <1>3, <1>4 DEF HtfDone

\* The quantity sized before the gate was asked still fits: nothing traded meanwhile.
LEMMA GateDoneKeeps ==
  ASSUME RunnerInv, NEW w \in Passes, GateDone(w)
  PROVE  RunnerInv'
<1>1. /\ running = Nobody /\ pass[w].pc = "gate" /\ Evaluated(w, TRUE)
      /\ bars' = bars /\ pool' = pool /\ attached' = attached /\ paused' = paused
      /\ globalHalt' = globalHalt /\ disk' = disk /\ crashes' = crashes /\ misread' = misread
  BY DEF GateDone, streams
<1>2. /\ pass[w].strats # <<>> /\ IsNew(w)
      /\ pass[w].qty \in Nat \ {0} /\ Sized(Strat(w), pass[w].qty) /\ Strat(w) \in Strategies
  <2>1. KnowsInv(w) /\ pass[w] \in PassStates
    BY <1>1, AtWork DEF Working
  <2>2. pass[w].qty \in Nat /\ (pass[w].strats # <<>> => Strat(w) \in Strategies)
    BY <2>1 DEF PassStates, Strat
  <2> QED BY <1>1, <2>1, <2>2 DEF KnowsInv, IsNew
<1>3. CASE UNCHANGED <<pos, journal>>
  BY <1>1, <1>2, <1>3, EvaluatedKeeps
<1>4. ASSUME NEW size \in GateSizes, Enter(w, Scaled(pass[w].qty, size)) PROVE RunnerInv'
  <2>1. \E n \in Nat \ {0} : Fits(pos, Strat(w), n) /\ Enter(w, n)
    BY <1>2, <1>4, SizedFits
  <2> QED BY <1>1, <1>2, <2>1, EvaluatedKeeps
<1> QED BY <1>3, <1>4 DEF GateDone

-----------------------------------------------------------------------------
(* The invariant, and what follows from it.                                *)

LEMMA TotalOfZeros ==
  ASSUME NEW n \in Nat
  PROVE  TotalOf([b \in 1 .. n |-> 0]) = 0
<1> DEFINE m == [b \in 1 .. n |-> 0]
<1>1. m \in [1 .. n -> Int] /\ \A i \in 1 .. n : m[i] = -m[i]
  <2>1. \A i \in 1 .. n : m[i] = 0
    OBVIOUS
  <2>2. m \in [1 .. n -> Int]
    OBVIOUS
  <2> HIDE DEF m
  <2> QED BY <2>1, <2>2
<1> HIDE DEF m
<1>2. TotalOf(m) \in Int /\ TotalOf(m) = -TotalOf(m)
  BY <1>1, TotalType, TotalNegated
<1> QED BY <1>2 DEF m

LEMMA InitSound ==
  ASSUME Init
  PROVE  RunnerInv
<1>1. /\ Cap \in Nat /\ MaxBar \in Nat \ {0} /\ Nobody \notin Passes /\ Streamed \subseteq Groups
      /\ InitialPool \in Seq(Strategies)
  BY RunnerAssumption DEF RunnerAssumption
<1>2. /\ bars = [g \in Groups |-> <<FALSE>>] /\ pool = InitialPool
      /\ attached = [g \in Streamed |-> StratsOf(pool, g)]
      /\ pos = FlatPosition /\ lastEval = [s \in Strategies |-> 0] /\ paused = {}
      /\ globalHalt = FALSE /\ disk = [pos |-> pos, lastEval |-> lastEval, paused |-> paused]
      /\ pass = [w \in Passes |-> Idle] /\ running = Nobody /\ crashes = 0 /\ misread = {}
  BY DEF Init, Saved
<1>3. /\ journal.net = 0
      /\ journal.entries = [s \in Strategies |-> [b \in 1 .. MaxBar |-> 0]]
  BY DEF Init
<1>4. \A g \in Groups : bars[g] \in Seq(BOOLEAN) /\ Closed(g) = 1
  <2>1. <<FALSE>> \in Seq(BOOLEAN) /\ Len(<<FALSE>>) = 1
    OBVIOUS
  <2> QED BY <1>2, <2>1 DEF Closed
<1>5. \A w \in Passes : pass[w] = Idle /\ Idle \in PassStates /\ Idle.pc = "idle"
  BY <1>2, IdleType
<1>6. \A w \in Passes : WorkInv(w) /\ KnowsInv(w) /\ ~HalfWay(w)
  BY <1>1, <1>2, <1>5 DEF WorkInv, KnowsInv, HalfWay, Working
<1>7. LoopInv
  <2>1. attached \in [Streamed -> Seq(Strategies)]
        /\ \A g \in Streamed : Range(attached[g]) \subseteq StratsIn(g)
    BY <1>1, <1>2, StratsOfType
  <2>2. bars \in [Groups -> Seq(BOOLEAN)] /\ \A g \in Groups : Closed(g) \in 1 .. MaxBar
    BY <1>1, <1>2, <1>4
  <2>3. pass \in [Passes -> PassStates]
    BY <1>2, <1>5
  <2> QED BY <1>1, <1>2, <1>6, <2>1, <2>2, <2>3 DEF LoopInv
<1>8. AloneInv
  BY <1>5, <1>6 DEF AloneInv, Working
<1>9. Sound(pos, lastEval, paused, bars, misread)
  <2>1. lastEval \in [Strategies -> Bars] /\ paused \in SUBSET Strategies
    BY <1>1, <1>2 DEF Bars
  <2>2. \A s \in Strategies : lastEval[s] <= Len(bars[GroupOf[s]])
    BY <1>2, <1>4, GroupType DEF Closed
  <2> QED BY <1>2, <2>1, <2>2, FlatHeld DEF Sound, Checked
<1>10. MemoryInv /\ DiskInv
  BY <1>2, <1>9 DEF MemoryInv, DiskInv
<1>11. JournalInv
  <2>1. \A s \in Strategies : TotalOf(journal.entries[s]) = 0
    BY <1>1, <1>3, TotalOfZeros
  <2>2. \A s \in Strategies :
          Cardinality(LotsBy(s, pos.lots)) = 0 /\ Cardinality(LotsBy(s, disk.pos.lots)) = 0
    BY <1>2, FlatHeld
  <2>3. SignedQty(pos) = 0
    BY <1>2, FlatHeld
  <2>4. journal.entries \in [Strategies -> [1 .. MaxBar -> Nat]]
        /\ \A s \in Strategies, b \in 1 .. MaxBar : journal.entries[s][b] = 0
    BY <1>3
  <2>5. \A s \in Strategies, b \in 1 .. MaxBar :
          /\ journal.entries[s][b] <= 1 + crashes
          /\ b > lastEval[s] => journal.entries[s][b] <= crashes
    BY <1>2, <2>4
  <2>6. \A s \in Strategies :
          /\ Cardinality(LotsBy(s, pos.lots)) <= TotalOf(journal.entries[s])
          /\ Cardinality(LotsBy(s, disk.pos.lots)) <= TotalOf(journal.entries[s])
    BY <2>1, <2>2
  <2>7. journal.net \in Int /\ (crashes = 0 => journal.net = SignedQty(pos))
    BY <1>3, <2>3
  <2> QED BY <2>4, <2>5, <2>6, <2>7 DEF JournalInv
<1> QED BY <1>7, <1>8, <1>10, <1>11 DEF RunnerInv

LEMMA StutterKeeps ==
  ASSUME RunnerInv, UNCHANGED vars
  PROVE  RunnerInv'
<1>1. /\ pass' = pass /\ running' = running /\ Untouched /\ bars' = bars /\ pool' = pool
      /\ attached' = attached /\ globalHalt' = globalHalt /\ paused' = paused /\ disk' = disk
  BY DEF vars, streams, memory, Untouched
<1>2. LoopInv /\ pool \in Seq(Strategies) /\ globalHalt \in BOOLEAN /\ paused \in SUBSET Strategies
  BY DEF RunnerInv, LoopInv, MemoryInv, Sound
<1> QED BY <1>1, <1>2, ChartedSame, AroundKeeps

LEMMA NextKeeps ==
  ASSUME NothingInterleaves, RunnerInv, [Next]_vars
  PROVE  RunnerInv'
<1>1. CASE PollStart
  BY <1>1, PollStartKeeps
<1>2. ASSUME NEW g \in Streamed, StreamFire(g) PROVE RunnerInv'
  BY <1>2, StreamFireKeeps
<1>3. ASSUME NEW w \in Passes,
             FetchFail(w) \/ FetchDone(w) \/ ExitStep(w) \/ FundingDone(w)
             \/ EvalStep(w) \/ HtfDone(w) \/ GateDone(w) \/ EvalEnd(w)
      PROVE  RunnerInv'
  <2>1. CASE FetchFail(w)
    BY <2>1, FetchFailKeeps
  <2>2. CASE FetchDone(w)
    BY <2>2, FetchDoneKeeps
  <2>3. CASE ExitStep(w)
    BY <2>3, ExitStepKeeps
  <2>4. CASE FundingDone(w)
    BY <2>4, FundingDoneKeeps
  <2>5. CASE EvalStep(w)
    BY <2>5, EvalStepKeeps
  <2>6. CASE HtfDone(w)
    BY <2>6, HtfDoneKeeps
  <2>7. CASE GateDone(w)
    BY <2>7, GateDoneKeeps
  <2>8. CASE EvalEnd(w)
    BY <2>8, EvalEndKeeps
  <2> QED BY <1>3, <2>1, <2>2, <2>3, <2>4, <2>5, <2>6, <2>7, <2>8
<1>4. ASSUME NEW g \in Groups, NEW crosses \in BOOLEAN, BarCloses(g, crosses) PROVE RunnerInv'
  BY <1>4, BarClosesKeeps
<1>5. ASSUME NEW s \in Strategies, NEW on \in BOOLEAN, SetPaused(s, on) PROVE RunnerInv'
  BY <1>5, SetPausedKeeps
<1>6. ASSUME NEW on \in BOOLEAN, SetGlobalHalt(on) PROVE RunnerInv'
  BY <1>6, SetGlobalHaltKeeps
<1>7. ASSUME NEW enabled \in SUBSET Strategies, ReloadPool(enabled) PROVE RunnerInv'
  BY <1>7, ReloadPoolKeeps
<1>8. CASE Crash
  BY <1>8, CrashKeeps
<1>9. CASE UNCHANGED vars
  BY <1>9, StutterKeeps
<1> QED BY <1>1, <1>2, <1>3, <1>4, <1>5, <1>6, <1>7, <1>8, <1>9 DEF Next

\* Passes that never work on the position while another is suspended half way keep
\* the invariant.
LEMMA InvariantKept ==
  ASSUME NothingInterleaves
  PROVE  Spec => []RunnerInv
<1>1. Init => RunnerInv
  BY InitSound
<1>2. RunnerInv /\ [Next]_vars => RunnerInv'
  BY NextKeeps
<1> QED BY <1>1, <1>2, PTL DEF Spec

LEMMA RunnerInvTyped ==
  ASSUME RunnerInv
  PROVE  TypeOK
<1>1. LoopInv /\ MemoryInv /\ DiskInv /\ JournalInv /\ Held(pos)
  BY DEF RunnerInv, MemoryInv, Sound
<1>2. /\ pos.direction \in Directions \union {"none"} /\ pos.qty \in Nat
      /\ pos.direction = "none" <=> pos = FlatPosition
      /\ pos.gov \in Strategies \union {NoOne}
  BY <1>1, FlatHeld DEF Held, PositionsOf
<1>3. lastEval \in [Strategies -> 0 .. MaxBar] /\ paused \in SUBSET Strategies
  BY <1>1 DEF MemoryInv, Sound, Bars
<1>4. ASSUME NEW w \in Passes
      PROVE  /\ pass[w].pc \in {"idle", "fetch", "exit", "funding", "eval", "htf", "gate"}
             /\ pass[w].pc # "idle" => Len(pass[w].groups) > 0
  <2>1. pass[w] \in PassStates /\ WorkInv(w)
    BY <1>1 DEF LoopInv
  <2>2. pass[w].groups \in Seq(Groups)
        /\ pass[w].pc \in {"idle", "fetch", "exit", "funding", "eval", "htf", "gate"}
    BY <2>1 DEF PassStates
  <2>3. pass[w].groups # <<>> => Len(pass[w].groups) > 0
    BY <2>2
  <2> QED BY <2>1, <2>2, <2>3 DEF WorkInv
<1>5. running # Nobody => pass[running].pc \in {"exit", "eval"}
  BY <1>1 DEF LoopInv, WorkInv
<1>6. Range(pool) \subseteq Strategies
  BY <1>1 DEF LoopInv, Range
<1> QED BY <1>1, <1>2, <1>3, <1>4, <1>5, <1>6 DEF TypeOK, LoopInv, DiskInv, JournalInv

\* On one candle a strategy enters once, and once more for every crash that lost the
\* state saved after it, however the poll and the streams meet on the candle
\* (processGroup's isNew check).
THEOREM EntersOncePerCandle == NothingInterleaves => (Spec => []EntryOncePerCandle)
<1> SUFFICES ASSUME NothingInterleaves PROVE Spec => []EntryOncePerCandle
  OBVIOUS
<1>1. RunnerInv => EntryOncePerCandle
  BY DEF RunnerInv, JournalInv, EntryOncePerCandle
<1>2. Spec => []RunnerInv
  BY InvariantKept
<1> QED BY <1>1, <1>2, PTL

\* The margin in use passes its ceiling by no more than the multipliers that come after
\* the headroom, for all the entries sized before an answer that was awaited
\* (computeEntryMargin, processGroup).
THEOREM MarginIsBounded == NothingInterleaves => (Spec => []ExposureIsBounded)
<1> SUFFICES ASSUME NothingInterleaves PROVE Spec => []ExposureIsBounded
  OBVIOUS
<1>1. RunnerInv => ExposureIsBounded
  BY DEF RunnerInv, MemoryInv, Sound, Held, Most, ExposureIsBounded
<1>2. Spec => []RunnerInv
  BY InvariantKept
<1> QED BY <1>1, <1>2, PTL

\* No candle that crosses an exit level counts as evaluated while the position it
\* should have closed is held, through crashes and reloads (processGroup's exits run
\* before its entries).
THEOREM NoExitPassedOver == NothingInterleaves => (Spec => []EvaluatedBarsAreSafe)
<1> SUFFICES ASSUME NothingInterleaves PROVE Spec => []EvaluatedBarsAreSafe
  OBVIOUS
<1>1. RunnerInv => EvaluatedBarsAreSafe
  BY DEF RunnerInv, MemoryInv, Sound, Checked, EvaluatedBarsAreSafe
<1>2. Spec => []RunnerInv
  BY InvariantKept
<1> QED BY <1>1, <1>2, PTL

\* The three together, as the rules-mode run checks them.
THEOREM RunnerIsAlwaysSafe == NothingInterleaves => (Spec => []RunnerIsSafe)
<1> SUFFICES ASSUME NothingInterleaves PROVE Spec => []RunnerIsSafe
  OBVIOUS
<1>1. RunnerInv => RunnerIsSafe
  BY DEF RunnerInv, JournalInv, MemoryInv, Sound, Held, Checked, RunnerIsSafe, EntryOncePerCandle,
         ExposureIsBounded, Most, EvaluatedBarsAreSafe
<1>2. Spec => []RunnerInv
  BY InvariantKept
<1> QED BY <1>1, <1>2, PTL

\* The journal replays to the position held until a crash, and never lacks the entry
\* of a lot that is held or saved (journalFills writes ahead of saveState).
THEOREM JournalAlwaysAccounts == NothingInterleaves => (Spec => []JournalAccounts)
<1> SUFFICES ASSUME NothingInterleaves PROVE Spec => []JournalAccounts
  OBVIOUS
<1>1. RunnerInv => JournalAccounts
  <2> SUFFICES ASSUME RunnerInv PROVE JournalAccounts
    OBVIOUS
  <2>1. TypeOK /\ JournalInv
    BY RunnerInvTyped DEF RunnerInv
  <2>2. JournalReplaysToPosition
    BY <2>1 DEF JournalInv, JournalReplaysToPosition
  <2>3. LotsAreJournalled
    BY <2>1 DEF JournalInv, LotsAreJournalled
  <2> QED BY <2>1, <2>2, <2>3 DEF JournalAccounts
<1>2. Spec => []RunnerInv
  BY InvariantKept
<1> QED BY <1>1, <1>2, PTL
=============================================================================
