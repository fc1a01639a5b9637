---------------------- MODULE PositionLifecycle_proofs ----------------------
(***************************************************************************)
(* What holds of the shared position for every set of strategies, prices,  *)
(* sizes and risk distances.                                               *)
(*                                                                         *)
(* PositionOK types the fields that the risk plan needs; the lots, the     *)
(* margin and the fills come after, on the sums of SymbolPosition_proofs,  *)
(* and last the order in which lots are consumed.                          *)
(***************************************************************************)
EXTENDS PositionLifecycle, SymbolPosition_proofs, SequenceTheorems

-----------------------------------------------------------------------------
(* What updateTrailingStop guarantees for every bar, ATR and setting.      *)

TrailStates == [phase : Phases, extreme : Int]
BarShape == [low : Int, high : Int, close : Int]

\* The better of two prices is one of them and no worse than the first.
LEMMA BestIsNoWorse ==
  ASSUME NEW dir \in Directions, NEW a \in Int, NEW b \in Int
  PROVE  /\ Best(dir, a, b) \in Int
         /\ ~Improves(dir, Best(dir, a, b), a)
  BY DEF Best, Improves, Directions

\* No worse than something no worse: the order of prices is transitive.
LEMMA NoWorseTransitive ==
  ASSUME NEW dir \in Directions, NEW a \in Int, NEW b \in Int, NEW c \in Int,
         ~Improves(dir, b, a), ~Improves(dir, c, b)
  PROVE  ~Improves(dir, c, a)
  BY DEF Improves, Directions

LEMMA TrailDistanceType ==
  ASSUME NEW atr \in Nat
  PROVE  TrailDistance(atr) \in Nat
  <1>1. TrailMult * atr \in Nat
    BY TrailingAssumption DEF TrailingAssumption
  <1> QED
    BY <1>1, TrailingAssumption DEF TrailingAssumption, TrailDistance, Least, Greatest

\* updateTrailingStop (trailing.ts:68-118) returns a trail state and a stop that
\* is never worse for the position than the one it was given: the comment
\* "Invariant: the stop only ever moves in favor of the position" at line 113.
THEOREM TrailNeverLoosens ==
  ASSUME NEW trail \in TrailStates, trail.phase # "off",
         NEW bar \in BarShape, NEW dir \in Directions,
         NEW entry \in Int, NEW stop \in Int, NEW atr \in Nat
  PROVE  LET r == UpdateTrailingStop(trail, bar, dir, entry, stop, atr)
         IN  /\ r.state \in TrailStates
             /\ r.state.phase # "off"
             /\ r.stop \in Int
             /\ ~Improves(dir, r.stop, stop)
  <1> DEFINE reach   == IF dir = "long" THEN bar.high ELSE bar.low
             extreme == Best(dir, trail.extreme, reach)
             profit  == Gain(dir, entry, extreme)
             phase   == NextPhase(trail.phase, profit, atr)
             lock    == trail.phase = "initial" /\ profit >= BreakevenMult * atr
             locked  == IF lock THEN Best(dir, stop, Ahead(dir, entry, BreakevenOffset))
                        ELSE stop
             trailed == IF phase = "trailing"
                        THEN Best(dir, locked, Ahead(dir, extreme, -TrailDistance(atr)))
                        ELSE locked
  <1>1. extreme \in Int
    <2>1. trail.extreme \in Int /\ reach \in Int
      BY DEF TrailStates, BarShape
    <2> QED BY <2>1, BestIsNoWorse
  <1>2. phase \in Phases /\ phase # "off"
    <2>1. trail.phase \in Phases
      BY DEF TrailStates
    <2> QED BY <2>1, ZenonT(60) DEF NextPhase, Phases
  <1>3. locked \in Int /\ ~Improves(dir, locked, stop)
    <2>1. Ahead(dir, entry, BreakevenOffset) \in Int
      BY TrailingAssumption DEF TrailingAssumption, Ahead
    <2>2. CASE lock
      BY <2>1, <2>2, BestIsNoWorse
    <2>3. CASE ~lock
      BY <2>3 DEF Improves
    <2> QED BY <2>2, <2>3
  <1>4. trailed \in Int /\ ~Improves(dir, trailed, locked)
    <2> HIDE DEF locked, extreme, phase
    <2>1. Ahead(dir, extreme, -TrailDistance(atr)) \in Int
      BY <1>1, TrailDistanceType DEF Ahead
    <2>2. CASE phase = "trailing"
      BY <2>1, <2>2, <1>3, BestIsNoWorse
    <2>3. CASE phase # "trailing"
      BY <2>3, <1>3 DEF Improves
    <2> QED BY <2>2, <2>3
  <1>5. ~Improves(dir, trailed, stop)
    <2> HIDE DEF trailed, locked
    <2> QED BY <1>3, <1>4, NoWorseTransitive
  <1>6. UpdateTrailingStop(trail, bar, dir, entry, stop, atr)
          = [state |-> [phase |-> phase, extreme |-> extreme], stop |-> trailed,
             targetDisabled |-> phase = "trailing"]
    BY DEF UpdateTrailingStop
  <1> HIDE DEF trailed, locked, extreme, phase
  <1> QED BY <1>1, <1>2, <1>4, <1>5, <1>6 DEF TrailStates

\* The trail's phases only advance: an activated trail stays active, so a target
\* once disabled is not checked again while the position lives.
THEOREM PhaseNeverRegresses ==
  ASSUME NEW phase \in Phases, NEW profit \in Int, NEW atr \in Nat
  PROVE  /\ phase = "trailing" => NextPhase(phase, profit, atr) = "trailing"
         /\ phase = "breakeven" => NextPhase(phase, profit, atr) \in {"breakeven", "trailing"}
  BY Zenon DEF NextPhase

-----------------------------------------------------------------------------
(* The shared position.                                                    *)

PositionOK(p) ==
  /\ p \in [direction : Directions \union {"none"}, qty : Nat, avgEntry : Int,
            margin : {p.margin}, gov : {p.gov}, stop : Int, target : Int, liq : Int,
            entryIdx : Int, contributors : {p.contributors}, lots : {p.lots},
            trailing : TrailStates]
  /\ p.direction = "none" => p.qty = 0
  /\ p.direction # "none" => Improves(p.direction, p.liq, p.stop)

IInv == PositionOK(pos) /\ candles \in Int

IntentOK(i) == i.direction \in Directions /\ i.entryIdx \in Int

LEMMA FlatOK == PositionOK(FlatPosition) /\ Net(FlatPosition) = 0
  BY DEF PositionOK, FlatPosition, NoTrail, TrailStates, Phases, Net, Sign

LEMMA OpenOK ==
  ASSUME NEW i, IntentOK(i), NEW price \in Int, NEW q \in Nat, NEW action
  PROVE  LET p == Open(i, price, q, action).position
         IN  /\ PositionOK(p)
             /\ p.direction = i.direction
             /\ p.qty = q
  <1> DEFINE p == Open(i, price, q, action).position
  <1>1. p.trailing \in TrailStates
    BY DEF Open, InitTrailingState, NoTrail, TrailStates, Phases
  <1>2. p.stop \in Int /\ p.target \in Int /\ p.liq \in Int
    BY PositionAssumption DEF Open, Ahead, PositionAssumption
  <1>3. Improves(i.direction, p.liq, p.stop)
    BY PositionAssumption DEF Open, Ahead, Improves, PositionAssumption, IntentOK, Directions
  <1>4. p.direction = i.direction /\ p.qty = q /\ p.avgEntry = price /\ p.entryIdx = i.entryIdx
    BY DEF Open
  <1>5. p = [direction |-> p.direction, qty |-> p.qty, avgEntry |-> p.avgEntry,
             margin |-> p.margin, gov |-> p.gov, stop |-> p.stop, target |-> p.target,
             liq |-> p.liq, entryIdx |-> p.entryIdx, contributors |-> p.contributors,
             lots |-> p.lots, trailing |-> p.trailing]
    BY DEF Open
  <1>6. PositionOK(p)
    <2> HIDE DEF p
    <2> QED BY <1>1, <1>2, <1>3, <1>4, <1>5 DEF PositionOK, IntentOK, Directions
  <1> QED BY <1>4, <1>6

\* What a step may do to a position whose plan it does not replace.
Tightens(p, n) ==
  (p.direction # "none" /\ n.direction = p.direction) =>
    /\ ~Improves(p.direction, n.stop, p.stop)
    /\ n.target = p.target /\ n.liq = p.liq /\ n.gov = p.gov
    /\ Rank(n.trailing.phase) >= Rank(p.trailing.phase)

LEMMA RankType ==
  ASSUME NEW phase \in Phases
  PROVE  Rank(phase) \in Nat
  BY DEF Rank, Phases

\* A step that leaves the whole plan alone tightens it.
LEMMA SamePlanTightens ==
  ASSUME NEW p, PositionOK(p), NEW n,
         n.stop = p.stop, n.target = p.target, n.liq = p.liq, n.gov = p.gov,
         n.trailing = p.trailing
  PROVE  Tightens(p, n)
  <1>1. Rank(p.trailing.phase) \in Nat
    BY RankType DEF PositionOK, TrailStates
  <1>2. ~Improves(p.direction, p.stop, p.stop)
    BY DEF PositionOK, Improves
  <1> QED BY <1>1, <1>2 DEF Tightens

LEMMA AddOK ==
  ASSUME NEW p, PositionOK(p), p.direction # "none", NEW i,
         NEW price \in Int, NEW q \in Nat \ {0}
  PROVE  LET n == Add(p, i, price, q).position
         IN  /\ PositionOK(n)
             /\ n.direction = p.direction /\ n.qty = p.qty + q
             /\ Tightens(p, n)
  <1> DEFINE n == Add(p, i, price, q).position
             total == p.qty * p.avgEntry + q * price
  <1>1. p.qty \in Nat /\ p.avgEntry \in Int
    BY DEF PositionOK
  <1>2. total \in Int /\ p.qty + q \in Nat \ {0}
    BY <1>1
  <1>3. total \div (p.qty + q) \in Int
    <2> HIDE DEF total
    <2> QED BY <1>2
  <1>4. n = [p EXCEPT !.qty = p.qty + q,
                      !.avgEntry = total \div (p.qty + q),
                      !.margin = p.margin + MarginOf(q * price),
                      !.contributors = p.contributors \union {i.strategyId},
                      !.lots = Append(p.lots, Lot(i.strategyId, q))]
    BY DEF Add
  <1> HIDE DEF n, total
  <1>5. PositionOK(n) /\ n.direction = p.direction /\ n.qty = p.qty + q
    BY <1>2, <1>3, <1>4 DEF PositionOK
  <1>6. /\ n.stop = p.stop /\ n.target = p.target /\ n.liq = p.liq
        /\ n.gov = p.gov /\ n.trailing = p.trailing
    BY <1>4 DEF PositionOK
  <1>7. Tightens(p, n)
    BY <1>6, SamePlanTightens
  <1> USE DEF n
  <1> QED BY <1>5, <1>7

LEMMA ReduceOK ==
  ASSUME NEW p, PositionOK(p), NEW q \in Nat, q <= p.qty,
         NEW price, NEW trigger, NEW emptied
  PROVE  LET n == ReduceBy(p, q, price, trigger, emptied).position
         IN  /\ PositionOK(n)
             /\ q = p.qty => n = FlatPosition
             /\ q < p.qty => n.direction = p.direction /\ n.qty = p.qty - q
             /\ p.direction # "none" => Tightens(p, n)
  <1> DEFINE n == ReduceBy(p, q, price, trigger, emptied).position
             margin == p.margin - ReduceTotals(p, q, price).margin
             lots == AllocateAcrossLots(p.lots, q, ReduceTotals(p, q, price),
                       IF p.qty - q <= 0 THEN emptied ELSE "reduce",
                       trigger, p.direction, price).remaining
  <1>1. p.qty \in Nat
    BY DEF PositionOK
  <1>2. CASE q = p.qty
    <2>1. n = FlatPosition
      BY <1>1, <1>2 DEF ReduceBy
    <2>2. Tightens(p, FlatPosition)
      BY DEF Tightens, FlatPosition
    <2> QED BY <1>2, <2>1, <2>2, FlatOK
  <1>3. CASE q < p.qty
    <2>1. n = [p EXCEPT !.qty = p.qty - q, !.margin = margin,
                        !.lots = lots, !.contributors = LotOwners(lots)]
      <3>1. ~(p.qty - q <= 0)
        BY <1>1, <1>3
      <3> QED BY <3>1, ZenonT(60) DEF ReduceBy
    <2> HIDE DEF n, margin, lots
    <2>2. PositionOK(n) /\ n.direction = p.direction /\ n.qty = p.qty - q
      <3> DEFINE rest == p.qty - q
                 owners == LotOwners(lots)
      <3>1. rest \in Nat
        BY <1>1, <1>3
      <3>2. n = [p EXCEPT !.qty = rest, !.margin = margin, !.lots = lots,
                          !.contributors = owners]
        BY <2>1
      <3> HIDE DEF rest, owners
      <3>3. PositionOK(n) /\ n.direction = p.direction /\ n.qty = rest
        <4>1. p.direction # "none"
          BY <1>1, <1>3 DEF PositionOK
        <4> QED BY <3>1, <3>2, <4>1 DEF PositionOK
      <3> QED BY <3>3 DEF rest
    <2>3. /\ n.stop = p.stop /\ n.target = p.target /\ n.liq = p.liq
          /\ n.gov = p.gov /\ n.trailing = p.trailing
      BY <2>1 DEF PositionOK
    <2>4. Tightens(p, n)
      BY <2>3, SamePlanTightens
    <2> USE DEF n
    <2> QED BY <2>2, <2>4, <1>3, <1>1
  <1> QED BY <1>1, <1>2, <1>3

\* Open, add, reduce and flip all move the signed quantity by what was asked.
LEMMA ApplyIntentOK ==
  ASSUME NEW p, PositionOK(p), NEW i, IntentOK(i),
         NEW price \in Int, NEW q \in Nat \ {0}
  PROVE  LET n == ApplyIntent(p, i, price, q).position
         IN  /\ PositionOK(n)
             /\ Net(n) = Net(p) + Sign(i.direction) * q
             /\ Tightens(p, n)
  <1> DEFINE n == ApplyIntent(p, i, price, q).position
  <1>0. /\ p.qty \in Nat /\ p.direction \in Directions \union {"none"}
        /\ p.direction = "none" => p.qty = 0
        /\ i.direction \in Directions
    BY DEF PositionOK, IntentOK
  <1>1. CASE p.direction = "none"
    <2>1. n = Open(i, price, q, "open").position
      BY <1>1 DEF ApplyIntent
    <2>2. PositionOK(n) /\ n.direction = i.direction /\ n.qty = q
      BY <2>1, OpenOK
    <2> HIDE DEF n
    <2>3. Net(n) = Net(p) + Sign(i.direction) * q
      BY <1>0, <1>1, <2>2 DEF Net, Sign, Directions
    <2>4. Tightens(p, n)
      BY <1>1 DEF Tightens
    <2> USE DEF n
    <2> QED BY <2>2, <2>3, <2>4
  <1>2. CASE p.direction # "none" /\ p.direction = i.direction
    <2>1. n = Add(p, i, price, q).position
      BY <1>2 DEF ApplyIntent
    <2>2. PositionOK(n) /\ n.direction = p.direction /\ n.qty = p.qty + q /\ Tightens(p, n)
      BY <2>1, <1>2, AddOK
    <2> HIDE DEF n
    <2>3. Net(n) = Net(p) + Sign(i.direction) * q
      BY <1>0, <1>2, <2>2 DEF Net, Sign, Directions
    <2> USE DEF n
    <2> QED BY <2>2, <2>3
  <1>3. CASE p.direction # "none" /\ p.direction # i.direction /\ q >= p.qty
    <2>1. n = Open(i, price, q - p.qty, "flip_open").position
      BY <1>3 DEF ApplyIntent, Flip
    <2>2. q - p.qty \in Nat
      BY <1>0, <1>3
    <2>3. PositionOK(n) /\ n.direction = i.direction /\ n.qty = q - p.qty
      BY <2>1, <2>2, OpenOK
    <2> HIDE DEF n
    <2>4. Net(n) = Net(p) + Sign(i.direction) * q
      BY <1>0, <1>3, <2>3 DEF Net, Sign, Directions
    <2>5. Tightens(p, n)
      BY <1>3, <2>3 DEF Tightens
    <2> USE DEF n
    <2> QED BY <2>3, <2>4, <2>5
  <1>4. CASE p.direction # "none" /\ p.direction # i.direction /\ ~(q >= p.qty)
    <2>1. n = ReduceBy(p, q, price, i.strategyId, "close").position
      BY <1>4 DEF ApplyIntent
    <2>2. q < p.qty
      BY <1>0, <1>4
    <2>3. PositionOK(n) /\ n.direction = p.direction /\ n.qty = p.qty - q /\ Tightens(p, n)
      BY <2>1, <2>2, <1>0, <1>4, ReduceOK
    <2> HIDE DEF n
    <2>4. Net(n) = Net(p) + Sign(i.direction) * q
      BY <1>0, <1>4, <2>2, <2>3 DEF Net, Sign, Directions
    <2> USE DEF n
    <2> QED BY <2>3, <2>4
  <1> QED BY <1>1, <1>2, <1>3, <1>4

\* The bars have a shape that the trail can read.
LEMMA BarsType ==
  /\ \A bar \in Bars : bar \in BarShape
  /\ Atrs \subseteq Nat /\ Adjustments \subseteq Int
  <1>1. Prices \subseteq Int /\ Atrs \subseteq Nat /\ Adjustments \subseteq Int
    <2>1. Prices \subseteq Nat /\ Atrs \subseteq Nat /\ Adjustments \subseteq Int
      BY LifecycleAssumption DEF LifecycleAssumption
    <2> QED BY <2>1
  <1>2. \A bar \in Bars : bar \in BarShape
    BY <1>1 DEF Bars, BarShape
  <1> QED BY <1>1, <1>2

\* The trail moves the stop, never loosens it, and leaves the rest alone.
LEMMA TrailedOK ==
  ASSUME PositionOK(pos), pos.direction # "none", NEW bar \in Bars, NEW atr \in Atrs
  PROVE  LET n == Trailed(bar, atr).position
         IN  /\ PositionOK(n)
             /\ n.direction = pos.direction /\ n.qty = pos.qty
             /\ Tightens(pos, n)
  <1> DEFINE n == Trailed(bar, atr).position
             moved == UpdateTrailingStop(pos.trailing, bar, pos.direction,
                                         pos.avgEntry, pos.stop, atr)
  <1>1. CASE pos.trailing.phase = "off"
    <2>1. n = pos
      BY <1>1 DEF Trailed
    <2>2. Tightens(pos, pos)
      BY SamePlanTightens
    <2> QED BY <2>1, <2>2
  <1>2. CASE pos.trailing.phase # "off"
    <2>1. n = [pos EXCEPT !.trailing = moved.state, !.stop = moved.stop]
      BY <1>2 DEF Trailed
    <2>2. /\ pos.trailing \in TrailStates /\ pos.direction \in Directions
          /\ pos.avgEntry \in Int /\ pos.stop \in Int /\ pos.liq \in Int
          /\ Improves(pos.direction, pos.liq, pos.stop)
      BY DEF PositionOK
    <2>3. bar \in BarShape /\ atr \in Nat
      BY BarsType
    <2>4. /\ moved.state \in TrailStates /\ moved.stop \in Int
          /\ ~Improves(pos.direction, moved.stop, pos.stop)
      BY <1>2, <2>2, <2>3, TrailNeverLoosens
    <2>5. Rank(moved.state.phase) >= Rank(pos.trailing.phase)
      <3> DEFINE profit == Gain(pos.direction, pos.avgEntry,
                                Best(pos.direction, pos.trailing.extreme,
                                     IF pos.direction = "long" THEN bar.high ELSE bar.low))
      <3>1. moved.state.phase = NextPhase(pos.trailing.phase, profit, atr)
        BY DEF UpdateTrailingStop
      <3>2. pos.trailing.phase \in Phases
        BY <2>2 DEF TrailStates
      <3> HIDE DEF profit, moved
      <3> QED BY <3>1, <3>2, SMT DEF NextPhase, Rank, Phases
    <2> HIDE DEF n, moved
    <2>6. Improves(pos.direction, pos.liq, moved.stop)
      BY <2>2, <2>4 DEF Improves, Directions
    <2>7. /\ n.stop = moved.stop /\ n.trailing = moved.state
          /\ n.direction = pos.direction /\ n.qty = pos.qty
          /\ n.target = pos.target /\ n.liq = pos.liq /\ n.gov = pos.gov
      BY <2>1 DEF PositionOK
    <2>8. PositionOK(n)
      BY <2>1, <2>4, <2>6 DEF PositionOK
    <2>9. Tightens(pos, n)
      BY <2>4, <2>5, <2>7 DEF Tightens
    <2> USE DEF n
    <2> QED BY <2>7, <2>8, <2>9
  <1> QED BY <1>1, <1>2

\* One lemma per action: the invariant is preserved, the plan only tightens,
\* and the signed quantity moves as NetPosition allows.
LEMMA SignalStep ==
  ASSUME IInv, NEW s \in Strategies, NEW price \in Prices, NEW q \in Sizes,
         Signal(s, price, q)
  PROVE  IInv' /\ Tightens(pos, pos') /\ Abstract!Next
  <1>1. IntentOK(Intent(s)) /\ Intent(s).direction = DirOf[s] /\ DirOf[s] \in Directions
    BY LifecycleAssumption DEF LifecycleAssumption, IntentOK, Intent, IInv
  <1>2. price \in Int /\ q \in Nat \ {0}
    BY LifecycleAssumption DEF LifecycleAssumption
  <1>3. pos' = ApplyIntent(pos, Intent(s), price, q).position /\ candles' = candles
    BY DEF Signal, Settle
  <1>4. /\ PositionOK(pos') /\ Net(pos') = Net(pos) + Sign(DirOf[s]) * q
        /\ Tightens(pos, pos')
    BY <1>1, <1>2, <1>3, ApplyIntentOK DEF IInv
  <1>5. IInv'
    BY <1>3, <1>4 DEF IInv, PositionOK
  <1>6. Net(pos) \in Int
    BY DEF IInv, PositionOK, Net, Sign, Directions
  <1>7. Abstract!Next
    <2>1. CASE DirOf[s] = "long"
      <3>1. Net(pos') = Net(pos) + q
        BY <1>2, <1>4, <1>6, <2>1 DEF Sign
      <3> QED BY <3>1 DEF Abstract!Next, Abstract!Buy
    <2>2. CASE DirOf[s] = "short"
      <3>1. Net(pos') = Net(pos) - q
        BY <1>2, <1>4, <1>6, <2>2 DEF Sign
      <3> QED BY <3>1 DEF Abstract!Next, Abstract!Sell
    <2> QED BY <1>1, <2>1, <2>2 DEF Directions
  <1> QED BY <1>4, <1>5, <1>7

LEMMA BarCloseStep ==
  ASSUME IInv, NEW bar \in Bars, NEW atr \in Atrs, NEW a \in Adjustments,
         BarClose(bar, atr, a)
  PROVE  IInv' /\ Tightens(pos, pos') /\ (Net(pos') = Net(pos) \/ Abstract!Next)
  <1> DEFINE length == Least(candles + 1, Window)
             n      == Trailed(bar, atr).position
             exit   == ExitOf(n, Trailed(bar, atr).targetDisabled, bar, length)
  <1>1. pos.direction # "none" /\ candles' = length
    BY DEF BarClose
  <1>2. length \in Int
    BY LifecycleAssumption DEF LifecycleAssumption, IInv, Least
  <1>3. /\ PositionOK(n) /\ n.direction = pos.direction /\ n.qty = pos.qty
        /\ Tightens(pos, n)
    BY <1>1, TrailedOK DEF IInv
  <1>4. CASE exit.reason = "none"
    <2>1. pos' = n
      BY <1>4 DEF BarClose
    <2> HIDE DEF n, exit, length
    <2>2. Net(pos') = Net(pos)
      BY <1>3, <2>1 DEF Net
    <2>3. IInv'
      BY <1>1, <1>2, <1>3, <2>1 DEF IInv, PositionOK
    <2> QED BY <1>3, <2>1, <2>2, <2>3
  <1>5. CASE exit.reason # "none"
    <2>1. pos' = ReduceBy(n, n.qty, exit.price + a, pos.gov, "close").position
      BY <1>5 DEF BarClose, Settle, ClosePosition
    <2> HIDE DEF n, exit, length
    <2>2. n.qty \in Nat /\ n.qty <= n.qty
      BY <1>3 DEF PositionOK
    <2>3. pos' = FlatPosition
      BY <1>3, <2>1, <2>2, ReduceOK
    <2>4. IInv'
      BY <1>1, <1>2, <2>3, FlatOK DEF IInv, PositionOK
    <2>5. Tightens(pos, pos')
      BY <1>1, <2>3 DEF Tightens, FlatPosition
    <2>6. Abstract!Next
      BY <2>3, FlatOK DEF Abstract!Next, Abstract!Exit
    <2> QED BY <2>4, <2>5, <2>6
  <1> QED BY <1>4, <1>5

LEMMA QuietBarStep ==
  ASSUME IInv, QuietBar
  PROVE  IInv' /\ Tightens(pos, pos') /\ Net(pos') = Net(pos)
  <1>1. pos' = pos /\ candles' = Least(candles + 1, Window) /\ pos.direction = "none"
    BY DEF QuietBar
  <1>2. candles' \in Int
    BY <1>1, LifecycleAssumption DEF LifecycleAssumption, IInv, Least
  <1> QED BY <1>1, <1>2 DEF IInv, PositionOK, Tightens

LEMMA StutterStep ==
  ASSUME IInv, UNCHANGED vars
  PROVE  IInv' /\ Tightens(pos, pos') /\ Net(pos') = Net(pos)
  <1>1. pos' = pos /\ candles' = candles
    BY DEF vars
  <1>2. Tightens(pos, pos)
    BY SamePlanTightens DEF IInv
  <1> QED BY <1>1, <1>2 DEF IInv, PositionOK

LEMMA InitIInv == Init => IInv
  BY FlatOK DEF Init, IInv

LEMMA StepIInv ==
  IInv /\ [Next]_vars =>
    IInv' /\ Tightens(pos, pos') /\ (Net(pos') = Net(pos) \/ Abstract!Next)
  <1> SUFFICES ASSUME IInv, [Next]_vars
               PROVE  /\ IInv' /\ Tightens(pos, pos')
                      /\ Net(pos') = Net(pos) \/ Abstract!Next
    OBVIOUS
  <1>1. CASE \E s \in Strategies, price \in Prices, q \in Sizes : Signal(s, price, q)
    BY <1>1, SignalStep
  <1>2. CASE \E bar \in Bars, atr \in Atrs, a \in Adjustments : BarClose(bar, atr, a)
    BY <1>2, BarCloseStep
  <1>3. CASE QuietBar
    BY <1>3, QuietBarStep
  <1>4. CASE UNCHANGED vars
    BY <1>4, StutterStep
  <1> QED BY <1>1, <1>2, <1>3, <1>4 DEF Next

\* Whatever the strategies ask for and the bars do, the stop of an open
\* position lies strictly before its liquidation price, so a bar that only reaches
\* the stop never liquidates, and the stop is never "dead code"
\* (assertStopsClearLiquidation, symbol-position.ts:135-141).
THEOREM StopClearsLiquidationAlways == Spec => []StopClearsLiquidation
  <1>1. IInv => StopClearsLiquidation
    BY DEF IInv, PositionOK, StopClearsLiquidation
  <1> QED BY InitIInv, StepIInv, <1>1, PTL DEF Spec

\* An opener's risk plan only ever tightens while it governs (the header of
\* SymbolPosition, symbol-position.ts:69-72, and trailing.ts:113).
THEOREM PlanOnlyTightensAlways == Spec => PlanOnlyTightens
  <1>1. IInv /\ [Next]_vars =>
          [SamePlan => /\ ~Improves(pos.direction, pos'.stop, pos.stop)
                       /\ pos'.target = pos.target /\ pos'.liq = pos.liq
                       /\ pos'.gov = pos.gov
                       /\ Rank(pos'.trailing.phase) >= Rank(pos.trailing.phase)]_vars
    BY StepIInv DEF Tightens, SamePlan
  <1> QED BY InitIInv, StepIInv, <1>1, PTL DEF Spec, PlanOnlyTightens

\* The five ways a fill changes the position (open, add, reduce, close, flip)
\* implement one signed sum: applyIntent never loses or invents quantity.
THEOREM NettingImplementsSum == Spec => NettingIsASum
  <1>1. Init => Abstract!Init
    BY FlatOK DEF Init, Abstract!Init
  <1>2. IInv /\ [Next]_vars => [Abstract!Next]_(Net(pos))
    BY StepIInv
  <1> QED BY InitIInv, StepIInv, <1>1, <1>2, PTL DEF Spec, NettingIsASum, Abstract!Spec

-----------------------------------------------------------------------------
(* The lots and the fills.                                                 *)

\* What the sums of the fills count of each one.
LEMMA TellsType ==
  ASSUME NEW f, f.direction \in Directions, f.qty \in Nat, f.realizedPnl \in Int
  PROVE  /\ Signed(f) \in Int /\ ClosedQty(f) \in Int /\ ClosedPnl(f) \in Int
         /\ IsClosing(f) => /\ Signed(f) = -(Sign(f.direction) * f.qty)
                         /\ ClosedQty(f) = f.qty /\ ClosedPnl(f) = f.realizedPnl
         /\ ~IsClosing(f) => /\ Signed(f) = Sign(f.direction) * f.qty
                          /\ ClosedQty(f) = 0 /\ ClosedPnl(f) = 0
<1>1. Sign(f.direction) \in {1, -1}
  BY DEF Sign, Directions
<1> QED BY <1>1 DEF Signed, ClosedQty, ClosedPnl

\* Fills that can be told.
Told(f) ==
  /\ f.direction \in Directions /\ f.qty \in Nat /\ f.realizedPnl \in Int
  /\ f.marginDelta \in Int

LEMMA OneFillMore ==
  ASSUME NEW F, \A f \in F : Told(f), NEW fs \in Seq(F), NEW g \in F
  PROVE  LET more == Append(fs, g)
         IN  /\ TotalOf([i \in DOMAIN more |-> Signed(more[i])])
                  = TotalOf([i \in DOMAIN fs |-> Signed(fs[i])]) + Signed(g)
             /\ TotalOf([i \in DOMAIN more |-> ClosedQty(more[i])])
                  = TotalOf([i \in DOMAIN fs |-> ClosedQty(fs[i])]) + ClosedQty(g)
             /\ TotalOf([i \in DOMAIN more |-> ClosedPnl(more[i])])
                  = TotalOf([i \in DOMAIN fs |-> ClosedPnl(fs[i])]) + ClosedPnl(g)
             /\ TotalOf(Column(more, "marginDelta"))
                  = TotalOf(Column(fs, "marginDelta")) + g.marginDelta
<1> DEFINE more == Append(fs, g)
           n == Len(fs)
<1>1. /\ n \in Nat /\ DOMAIN fs = 1 .. n /\ DOMAIN more = 1 .. n + 1
      /\ (\A i \in 1 .. n : more[i] = fs[i] /\ fs[i] \in F) /\ more[n + 1] = g
  OBVIOUS
<1>2. \A f \in F : /\ Signed(f) \in Int /\ ClosedQty(f) \in Int /\ ClosedPnl(f) \in Int
                   /\ f.marginDelta \in Int
  BY TellsType DEF Told
<1>3. \A i \in 1 .. n + 1 : more[i] \in F
  BY <1>1
<1> HIDE DEF more, n
<1>4. TotalOf([i \in DOMAIN more |-> Signed(more[i])])
        = TotalOf([i \in DOMAIN fs |-> Signed(fs[i])]) + Signed(g)
  <2> DEFINE m == [i \in 1 .. n |-> Signed(fs[i])]
             o == [i \in 1 .. n + 1 |-> Signed(more[i])]
  <2>1. /\ m \in [1 .. n -> Int] /\ o \in [1 .. n + 1 -> Int]
        /\ (\A i \in 1 .. n : o[i] = m[i]) /\ o[n + 1] = Signed(g)
    BY <1>1, <1>2, <1>3
  <2> HIDE DEF m, o
  <2>2. TotalOf(o) = TotalOf(m) + o[n + 1]
    BY <1>1, <2>1, TotalExtends
  <2> QED BY <1>1, <2>1, <2>2 DEF m, o
<1>5. TotalOf([i \in DOMAIN more |-> ClosedQty(more[i])])
        = TotalOf([i \in DOMAIN fs |-> ClosedQty(fs[i])]) + ClosedQty(g)
  <2> DEFINE m == [i \in 1 .. n |-> ClosedQty(fs[i])]
             o == [i \in 1 .. n + 1 |-> ClosedQty(more[i])]
  <2>1. /\ m \in [1 .. n -> Int] /\ o \in [1 .. n + 1 -> Int]
        /\ (\A i \in 1 .. n : o[i] = m[i]) /\ o[n + 1] = ClosedQty(g)
    BY <1>1, <1>2, <1>3
  <2> HIDE DEF m, o
  <2>2. TotalOf(o) = TotalOf(m) + o[n + 1]
    BY <1>1, <2>1, TotalExtends
  <2> QED BY <1>1, <2>1, <2>2 DEF m, o
<1>6. TotalOf([i \in DOMAIN more |-> ClosedPnl(more[i])])
        = TotalOf([i \in DOMAIN fs |-> ClosedPnl(fs[i])]) + ClosedPnl(g)
  <2> DEFINE m == [i \in 1 .. n |-> ClosedPnl(fs[i])]
             o == [i \in 1 .. n + 1 |-> ClosedPnl(more[i])]
  <2>1. /\ m \in [1 .. n -> Int] /\ o \in [1 .. n + 1 -> Int]
        /\ (\A i \in 1 .. n : o[i] = m[i]) /\ o[n + 1] = ClosedPnl(g)
    BY <1>1, <1>2, <1>3
  <2> HIDE DEF m, o
  <2>2. TotalOf(o) = TotalOf(m) + o[n + 1]
    BY <1>1, <2>1, TotalExtends
  <2> QED BY <1>1, <2>1, <2>2 DEF m, o
<1>7. TotalOf(Column(more, "marginDelta")) = TotalOf(Column(fs, "marginDelta")) + g.marginDelta
  <2>1. \A f \in F : f["marginDelta"] \in Int
    BY <1>2
  <2> QED BY <2>1, ColumnExtends DEF more
<1> QED BY <1>4, <1>5, <1>6, <1>7 DEF more

LEMMA NothingTold ==
  LET fs == <<>>
  IN  /\ TotalOf([i \in DOMAIN fs |-> Signed(fs[i])]) = 0
      /\ TotalOf([i \in DOMAIN fs |-> ClosedQty(fs[i])]) = 0
      /\ TotalOf([i \in DOMAIN fs |-> ClosedPnl(fs[i])]) = 0
      /\ TotalOf(Column(fs, "marginDelta")) = 0
<1>1. ASSUME NEW m, DOMAIN m = {}, m \in [1 .. 0 -> Int] PROVE TotalOf(m) = 0
  BY <1>1, TotalOfNone
<1> DEFINE fs == <<>>
           a == [i \in DOMAIN fs |-> Signed(fs[i])]
           b == [i \in DOMAIN fs |-> ClosedQty(fs[i])]
           c == [i \in DOMAIN fs |-> ClosedPnl(fs[i])]
<1>2. /\ DOMAIN a = {} /\ a \in [1 .. 0 -> Int]
      /\ DOMAIN b = {} /\ b \in [1 .. 0 -> Int]
      /\ DOMAIN c = {} /\ c \in [1 .. 0 -> Int]
  OBVIOUS
<1> HIDE DEF a, b, c
<1>3. TotalOf(a) = 0 /\ TotalOf(b) = 0 /\ TotalOf(c) = 0
  BY <1>1, <1>2
<1> QED BY <1>3, ColumnOfNone DEF a, b, c

\* What is told of a list of closing fills of one direction.
LEMMA ReductionTold ==
  ASSUME NEW cut, cut.action \in ClosingActions, cut.dir \in Directions,
         NEW fs \in Seq(FillsOf(cut, Strategies))
  PROVE  /\ TotalOf([i \in DOMAIN fs |-> Signed(fs[i])])
              = -(Sign(cut.dir) * TotalOf(Column(fs, "qty")))
         /\ TotalOf([i \in DOMAIN fs |-> ClosedQty(fs[i])]) = TotalOf(Column(fs, "qty"))
         /\ TotalOf([i \in DOMAIN fs |-> ClosedPnl(fs[i])]) = TotalOf(Column(fs, "realizedPnl"))
<1> DEFINE n == Len(fs)
           signed == [i \in DOMAIN fs |-> Signed(fs[i])]
           qty == Column(fs, "qty")
<1>1. n \in Nat /\ DOMAIN fs = 1 .. n /\ \A i \in 1 .. n : fs[i] \in FillsOf(cut, Strategies)
  OBVIOUS
<1>2. \A f \in FillsOf(cut, Strategies) :
        /\ f.direction = cut.dir /\ f.qty \in Nat /\ f.realizedPnl \in Int /\ IsClosing(f)
  BY DEF FillsOf, IsClosing
<1>3. \A i \in 1 .. n : /\ Signed(fs[i]) = -(Sign(cut.dir) * fs[i].qty)
                        /\ ClosedQty(fs[i]) = fs[i].qty /\ ClosedPnl(fs[i]) = fs[i].realizedPnl
                        /\ fs[i].qty \in Nat
  BY <1>1, <1>2, TellsType
<1> HIDE DEF n
<1>4. /\ [i \in DOMAIN fs |-> ClosedQty(fs[i])] = Column(fs, "qty")
      /\ [i \in DOMAIN fs |-> ClosedPnl(fs[i])] = Column(fs, "realizedPnl")
  BY <1>1, <1>3 DEF Column
<1>5. /\ signed \in [1 .. n -> Int] /\ qty \in [1 .. n -> Int]
      /\ \A i \in 1 .. n : signed[i] = -(Sign(cut.dir) * qty[i])
  BY <1>1, <1>3 DEF Column, Sign, Directions
<1> HIDE DEF signed, qty
<1>6. TotalOf(signed) = -(Sign(cut.dir) * TotalOf(qty))
  <2>1. TotalOf(qty) \in Int
    BY <1>1, <1>5, TotalType
  <2>2. CASE cut.dir = "long"
    <3>1. Sign(cut.dir) = 1
      BY <2>2 DEF Sign
    <3>2. \A i \in 1 .. n : signed[i] = -qty[i]
      BY <1>5, <3>1
    <3>3. TotalOf(signed) = -TotalOf(qty)
      BY <1>1, <1>5, <3>2, TotalNegated
    <3> QED BY <2>1, <3>1, <3>3
  <2>3. CASE cut.dir = "short"
    <3>1. Sign(cut.dir) = -1
      BY <2>3 DEF Sign
    <3>2. \A i \in 1 .. n : Signed(fs[i]) = fs[i].qty
      BY <1>3, <3>1
    <3>3. signed = qty
      BY <1>1, <3>2 DEF signed, qty, Column
    <3> QED BY <2>1, <3>1, <3>3
  <2> QED BY <2>2, <2>3 DEF Directions
<1> QED BY <1>4, <1>6 DEF signed, qty

Idx == 0 .. Window - 1

LEMMA ToldFills ==
  ASSUME NEW cut, cut.dir \in Directions
  PROVE  \A f \in FillsOf(cut, Strategies) : Told(f)
  BY DEF FillsOf, Told

\* A list of closing fills at one price.
ClosedAt(fs, price) ==
  \E F : /\ \A f \in F : /\ Told(f) /\ IsClosing(f) /\ f.price = price
                       /\ f.strategyId \in Strategies
        /\ fs \in Seq(F)

\* A reduction's fills tell what it did: the units and margin it freed, and its
\* one PnL.
Reduced(r, p, q, price) ==
  /\ r.position \in PositionsOf(Strategies, Idx) /\ Covered(r.position)
  /\ r.position.qty = p.qty - q
  /\ ClosedAt(r.fills, price)
  /\ TotalOf([j \in DOMAIN r.fills |-> Signed(r.fills[j])]) = -(Sign(p.direction) * q)
  /\ TotalOf([j \in DOMAIN r.fills |-> ClosedQty(r.fills[j])]) = q
  /\ TotalOf([j \in DOMAIN r.fills |-> ClosedPnl(r.fills[j])])
       = Gain(p.direction, p.avgEntry, price) * q - Fee(q * price)
  /\ TotalOf(Column(r.fills, "marginDelta")) = r.position.margin - p.margin

LEMMA ReduceTold ==
  ASSUME NEW p \in PositionsOf(Strategies, Idx), Covered(p), p.direction # "none",
         NEW q \in Nat, q <= p.qty, NEW price \in Int, NEW trigger,
         NEW emptied \in ClosingActions
  PROVE  Reduced(ReduceBy(p, q, price, trigger, emptied), p, q, price)
<1> DEFINE r == ReduceBy(p, q, price, trigger, emptied)
<1>1. 0 \in Idx
  BY LifecycleAssumption DEF LifecycleAssumption, Idx
<1>a. LeavesCovered(r, p, q, price, emptied, Strategies, Idx)
  BY <1>1, ReduceCovers
<1> HIDE DEF r
<1>2. /\ r.position \in PositionsOf(Strategies, Idx) /\ Covered(r.position)
      /\ r.position.qty = p.qty - q
      /\ \E cut : /\ cut.action = (IF q = p.qty THEN emptied ELSE "reduce")
                  /\ cut.dir = p.direction /\ cut.price = price
                  /\ r.fills \in Seq(FillsOf(cut, Strategies))
      /\ TotalOf(Column(r.fills, "qty")) = q
      /\ TotalOf(Column(r.fills, "realizedPnl"))
           = Gain(p.direction, p.avgEntry, price) * q - Fee(q * price)
      /\ TotalOf(Column(r.fills, "marginDelta")) = r.position.margin - p.margin
  BY <1>a DEF LeavesCovered
<1>3. PICK cut : /\ cut.action = (IF q = p.qty THEN emptied ELSE "reduce")
                 /\ cut.dir = p.direction /\ cut.price = price
                 /\ r.fills \in Seq(FillsOf(cut, Strategies))
  BY <1>2
<1>4. cut.action \in ClosingActions
  BY <1>3 DEF ClosingActions
<1>5. cut.dir \in Directions
  BY <1>3 DEF PositionsOf
<1>6. /\ TotalOf([j \in DOMAIN r.fills |-> Signed(r.fills[j])])
           = -(Sign(p.direction) * TotalOf(Column(r.fills, "qty")))
      /\ TotalOf([j \in DOMAIN r.fills |-> ClosedQty(r.fills[j])]) = TotalOf(Column(r.fills, "qty"))
      /\ TotalOf([j \in DOMAIN r.fills |-> ClosedPnl(r.fills[j])])
           = TotalOf(Column(r.fills, "realizedPnl"))
  BY <1>3, <1>4, <1>5, ReductionTold
<1>7. \A f \in FillsOf(cut, Strategies) : /\ Told(f) /\ IsClosing(f) /\ f.price = price
                                         /\ f.strategyId \in Strategies
  <2>1. \A f \in FillsOf(cut, Strategies) : Told(f)
    BY <1>5, ToldFills
  <2> QED BY <1>3, <1>4, <2>1 DEF FillsOf, IsClosing
<1>8. ClosedAt(r.fills, price)
  BY <1>3, <1>7 DEF ClosedAt
<1> QED BY <1>2, <1>6, <1>8 DEF Reduced, r

\* The fills of one operation on the position, as the lifecycle types them.
FillOK(f) == f.strategyId \in Strategies /\ f.qty \in Nat

\* What each operation keeps: the shape, the cover of the lots, and fills that
\* explain the change.
Sound(r, p) ==
  /\ r.position \in PositionsOf(Strategies, Idx) /\ Covered(r.position)
  /\ \A j \in DOMAIN r.fills : FillOK(r.fills[j])
  /\ Explain(r.fills, p, r.position)

OpenerOK(i) ==
  i.strategyId \in Strategies /\ i.direction \in Directions /\ i.entryIdx \in Idx

\* A list of the one fill that opens.
OpensWith(fs, i, q, margin) ==
  \E g : /\ fs = <<g>> /\ Told(g) /\ ~IsClosing(g) /\ g.direction = i.direction
        /\ g.qty = q /\ g.strategyId = i.strategyId /\ g.marginDelta = margin

LEMMA OpenFill ==
  ASSUME NEW i, OpenerOK(i), NEW price \in Nat, NEW q \in Nat,
         NEW action \in {"open", "flip_open"}
  PROVE  OpensWith(Open(i, price, q, action).fills, i, q, MarginOf(q * price))
<1> DEFINE g == Fill(action, i.strategyId, i.strategyId, i.direction, price, q,
                     MarginOf(q * price), 0, Fee(q * price))
<1>1. Open(i, price, q, action).fills = <<g>>
  BY DEF Open
<1>2. MarginOf(q * price) \in Int
  <2> DEFINE notional == q * price
  <2>1. notional \in Nat
    OBVIOUS
  <2> HIDE DEF notional
  <2>2. MarginOf(notional) \in Nat
    BY <2>1, MarginType
  <2> QED BY <2>2 DEF notional
<1>3. /\ g.direction = i.direction /\ g.qty = q /\ g.strategyId = i.strategyId
      /\ g.marginDelta = MarginOf(q * price) /\ g.realizedPnl = 0 /\ g.action = action
  BY DEF Fill
<1> HIDE DEF g
<1>4. Told(g) /\ ~IsClosing(g)
  BY <1>2, <1>3 DEF Told, IsClosing, ClosingActions, OpenerOK
<1> QED BY <1>1, <1>3, <1>4 DEF OpensWith

\* A single fill that opens or adds tells its own quantity and margin.
LEMMA OneTold ==
  ASSUME NEW g, Told(g), ~IsClosing(g)
  PROVE  LET fs == <<g>>
         IN  /\ TotalOf([j \in DOMAIN fs |-> Signed(fs[j])]) = Sign(g.direction) * g.qty
             /\ TotalOf(Column(fs, "marginDelta")) = g.marginDelta
<1> DEFINE fs == <<>>
           more == Append(fs, g)
<1>1. <<g>> = more /\ fs \in Seq({g}) /\ g \in {g}
  OBVIOUS
<1>2. \A f \in {g} : Told(f)
  OBVIOUS
<1>3. Signed(g) = Sign(g.direction) * g.qty /\ Signed(g) \in Int /\ g.marginDelta \in Int
  BY TellsType DEF Told
<1>4. /\ TotalOf([i \in DOMAIN more |-> Signed(more[i])])
           = TotalOf([i \in DOMAIN fs |-> Signed(fs[i])]) + Signed(g)
      /\ TotalOf(Column(more, "marginDelta")) = TotalOf(Column(fs, "marginDelta")) + g.marginDelta
  BY <1>1, <1>2, OneFillMore
<1>5. TotalOf([i \in DOMAIN fs |-> Signed(fs[i])]) = 0 /\ TotalOf(Column(fs, "marginDelta")) = 0
  BY NothingTold
<1> HIDE DEF fs, more
<1> QED BY <1>1, <1>3, <1>4, <1>5

\* Open, add, reduce, close and flip.
LEMMA OpenSound ==
  ASSUME NEW p \in PositionsOf(Strategies, Idx), Covered(p), p.direction = "none",
         NEW i, OpenerOK(i), NEW price \in Nat, NEW q \in Nat \ {0}
  PROVE  Sound(Open(i, price, q, "open"), p)
<1> DEFINE r == Open(i, price, q, "open")
<1>1. r.position \in PositionsOf(Strategies, Idx) /\ Covered(r.position)
  BY OpenCovers DEF OpenerOK
<1>2. PICK g : /\ r.fills = <<g>> /\ Told(g) /\ ~IsClosing(g) /\ g.direction = i.direction
               /\ g.qty = q /\ g.strategyId = i.strategyId /\ g.marginDelta = MarginOf(q * price)
  <2>1. "open" \in {"open", "flip_open"} /\ q \in Nat
    OBVIOUS
  <2>2. OpensWith(r.fills, i, q, MarginOf(q * price))
    BY <2>1, OpenFill
  <2> HIDE DEF r
  <2> QED BY <2>2 DEF OpensWith
<1>3. /\ r.position.direction = i.direction /\ r.position.qty = q
      /\ r.position.margin = MarginOf(q * price)
  BY DEF Open
<1>4. p.qty = 0 /\ p.margin = 0
  BY DEF Covered
<1> HIDE DEF r
<1>a. r.position.margin \in Nat
  BY <1>1 DEF PositionsOf
<1>5. /\ TotalOf([j \in DOMAIN r.fills |-> Signed(r.fills[j])]) = Sign(i.direction) * q
      /\ TotalOf(Column(r.fills, "marginDelta")) = MarginOf(q * price)
  BY <1>2, OneTold
<1>6. DOMAIN r.fills = {1} /\ r.fills[1] = g
  BY <1>2
<1>7. Net(r.position) - Net(p) = Sign(i.direction) * q
  BY <1>3, <1>4 DEF Net, Sign, OpenerOK, Directions
<1>8. r.position.margin - p.margin = MarginOf(q * price)
  BY <1>a, <1>3, <1>4
<1>9. Explain(r.fills, p, r.position)
  BY <1>2, <1>5, <1>6, <1>7, <1>8 DEF Explain
<1>10. \A j \in DOMAIN r.fills : FillOK(r.fills[j])
  BY <1>2, <1>6 DEF FillOK, OpenerOK
<1> QED BY <1>1, <1>9, <1>10 DEF Sound, r

LEMMA AddSound ==
  ASSUME NEW p \in PositionsOf(Strategies, Idx), Covered(p), p.direction \in Directions,
         NEW i, OpenerOK(i), i.direction = p.direction, NEW price \in Nat, NEW q \in Nat \ {0}
  PROVE  Sound(Add(p, i, price, q), p)
<1> DEFINE r == Add(p, i, price, q)
           g == Fill("add", i.strategyId, i.strategyId, p.direction, price, q,
                     MarginOf(q * price), 0, Fee(q * price))
<1>1. r.position \in PositionsOf(Strategies, Idx) /\ Covered(r.position)
  BY AddCovers DEF OpenerOK, Directions
<1>2. /\ g.direction = p.direction /\ g.qty = q /\ g.strategyId = i.strategyId
      /\ g.marginDelta = MarginOf(q * price) /\ g.realizedPnl = 0 /\ g.action = "add"
      /\ r.fills = <<g>>
  BY DEF Fill, Add
<1>3. /\ r.position.direction = p.direction /\ r.position.qty = p.qty + q
      /\ r.position.margin = p.margin + MarginOf(q * price)
  BY DEF Add, PositionsOf
<1>4. p.qty \in Nat /\ p.margin \in Nat /\ r.position.margin \in Nat
  BY <1>1 DEF PositionsOf
<1>5. MarginOf(q * price) \in Int
  <2> DEFINE notional == q * price
  <2>1. notional \in Nat
    OBVIOUS
  <2> HIDE DEF notional
  <2>2. MarginOf(notional) \in Nat
    BY <2>1, MarginType
  <2> QED BY <2>2 DEF notional
<1> HIDE DEF r, g
<1>6. Told(g) /\ ~IsClosing(g)
  BY <1>2, <1>5 DEF Told, IsClosing, ClosingActions
<1>7. /\ TotalOf([j \in DOMAIN r.fills |-> Signed(r.fills[j])]) = Sign(p.direction) * q
      /\ TotalOf(Column(r.fills, "marginDelta")) = MarginOf(q * price)
  BY <1>2, <1>6, OneTold
<1>8. DOMAIN r.fills = {1} /\ r.fills[1] = g
  BY <1>2
<1>9. Net(r.position) - Net(p) = Sign(p.direction) * q
  BY <1>3, <1>4 DEF Net, Sign, Directions
<1>10. r.position.margin - p.margin = MarginOf(q * price)
  BY <1>3, <1>4, <1>5
<1>11. Explain(r.fills, p, r.position)
  BY <1>6, <1>7, <1>8, <1>9, <1>10 DEF Explain
<1>12. \A j \in DOMAIN r.fills : FillOK(r.fills[j])
  BY <1>2, <1>8 DEF FillOK, OpenerOK
<1> QED BY <1>1, <1>11, <1>12 DEF Sound, r

LEMMA ReduceSound ==
  ASSUME NEW p \in PositionsOf(Strategies, Idx), Covered(p), p.direction # "none",
         NEW q \in Nat, q <= p.qty, NEW price \in Int, NEW trigger,
         NEW emptied \in ClosingActions
  PROVE  Sound(ReduceBy(p, q, price, trigger, emptied), p)
<1> DEFINE r == ReduceBy(p, q, price, trigger, emptied)
           told == TotalOf([j \in DOMAIN r.fills |-> Signed(r.fills[j])])
           qty == TotalOf([j \in DOMAIN r.fills |-> ClosedQty(r.fills[j])])
           pnl == TotalOf([j \in DOMAIN r.fills |-> ClosedPnl(r.fills[j])])
           margin == TotalOf(Column(r.fills, "marginDelta"))
<1>1. /\ r.position \in PositionsOf(Strategies, Idx) /\ Covered(r.position)
      /\ r.position.qty = p.qty - q
      /\ ClosedAt(r.fills, price)
      /\ told = -(Sign(p.direction) * q) /\ qty = q
      /\ pnl = Gain(p.direction, p.avgEntry, price) * q - Fee(q * price)
      /\ margin = r.position.margin - p.margin
  <2>1. Reduced(r, p, q, price)
    BY ReduceTold
  <2> HIDE DEF r
  <2> QED BY <2>1 DEF Reduced
<1>2. p.direction \in Directions /\ p.qty \in Nat
  BY DEF PositionsOf
<1>3. r.position.direction = p.direction \/ r.position = FlatPosition
  BY DEF ReduceBy, PositionsOf
<1>4. PICK F : /\ \A f \in F : /\ Told(f) /\ IsClosing(f) /\ f.price = price
                              /\ f.strategyId \in Strategies
               /\ r.fills \in Seq(F)
  BY <1>1 DEF ClosedAt
<1> HIDE DEF r, told, qty, pnl, margin
<1>5. \A j \in DOMAIN r.fills : r.fills[j] \in F
  BY <1>4
<1>6. Net(r.position) - Net(p) = told
  <2>1. CASE r.position.direction = p.direction
    BY <1>1, <1>2, <2>1 DEF Net, Sign, Directions
  <2>2. CASE r.position = FlatPosition
    <3>1. Net(r.position) = 0 /\ r.position.qty = 0
      BY <2>2 DEF Net, FlatPosition, Sign
    <3>2. q = p.qty
      BY <1>1, <1>2, <3>1
    <3>3. Sign(p.direction) \in Int /\ Net(p) = Sign(p.direction) * p.qty
      BY <1>2 DEF Net, Sign, Directions
    <3> QED BY <1>1, <1>2, <3>1, <3>2, <3>3
  <2> QED BY <1>3, <2>1, <2>2
<1>7. price * q = q * price
  OBVIOUS
<1>8. Explain(r.fills, p, r.position)
  <2>1. \A j \in DOMAIN r.fills :
          IsClosing(r.fills[j]) => pnl = Gain(p.direction, p.avgEntry, r.fills[j].price) * qty
                                       - Fee(r.fills[j].price * qty)
    BY <1>1, <1>4, <1>5, <1>7
  <2>2. r.position.margin - p.margin = margin
    BY <1>1
  <2> QED BY <1>6, <2>1, <2>2 DEF Explain, told, qty, pnl, margin
<1>9. \A j \in DOMAIN r.fills : FillOK(r.fills[j])
  BY <1>4, <1>5 DEF FillOK, Told
<1> QED BY <1>1, <1>8, <1>9 DEF Sound, r

\* A flip closes all that is held, oldest first, and opens the rest the other way.
LEMMA FlipSound ==
  ASSUME NEW p \in PositionsOf(Strategies, Idx), Covered(p), p.direction \in Directions,
         NEW i, OpenerOK(i), i.direction # p.direction,
         NEW price \in Nat, NEW q \in Nat, q >= p.qty
  PROVE  Sound(Flip(p, i, price, q), p)
<1> DEFINE c == ReduceBy(p, p.qty, price, i.strategyId, "flip_close")
           rest == q - p.qty
           o == Open(i, price, rest, "flip_open")
           r == Flip(p, i, price, q)
<1>1. p.qty \in Nat /\ p.qty <= p.qty /\ rest \in Nat /\ p.margin \in Nat
      /\ p.avgEntry \in Int
  BY DEF PositionsOf
<1>2. /\ c.position \in PositionsOf(Strategies, Idx) /\ Covered(c.position)
      /\ c.position.qty = p.qty - p.qty
      /\ ClosedAt(c.fills, price)
      /\ TotalOf([j \in DOMAIN c.fills |-> Signed(c.fills[j])]) = -(Sign(p.direction) * p.qty)
      /\ TotalOf([j \in DOMAIN c.fills |-> ClosedQty(c.fills[j])]) = p.qty
      /\ TotalOf([j \in DOMAIN c.fills |-> ClosedPnl(c.fills[j])])
           = Gain(p.direction, p.avgEntry, price) * p.qty - Fee(p.qty * price)
      /\ TotalOf(Column(c.fills, "marginDelta")) = c.position.margin - p.margin
  <2>1. price \in Int /\ "flip_close" \in ClosingActions /\ p.direction # "none"
    BY DEF ClosingActions, Directions
  <2>2. Reduced(c, p, p.qty, price)
    BY <1>1, <2>1, ReduceTold
  <2> HIDE DEF c
  <2> QED BY <2>2 DEF Reduced
<1>3. o.position \in PositionsOf(Strategies, Idx) /\ Covered(o.position)
  <2> HIDE DEF rest
  <2> QED BY <1>1, OpenCovers DEF OpenerOK
<1>4. PICK g : /\ o.fills = <<g>> /\ Told(g) /\ ~IsClosing(g) /\ g.direction = i.direction
               /\ g.qty = rest /\ g.strategyId = i.strategyId
               /\ g.marginDelta = MarginOf(rest * price)
  <2>1. "flip_open" \in {"open", "flip_open"}
    OBVIOUS
  <2> HIDE DEF rest
  <2>2. OpensWith(o.fills, i, rest, MarginOf(rest * price))
    BY <1>1, <2>1, OpenFill
  <2> HIDE DEF o
  <2> QED BY <2>2 DEF OpensWith
<1>5. /\ o.position.direction = i.direction /\ o.position.qty = rest
      /\ o.position.margin = MarginOf(rest * price)
  BY DEF Open
<1>6. r.position = o.position /\ r.fills = c.fills \o o.fills
  BY DEF Flip
<1> HIDE DEF c, o, r, rest
<1>7. PICK F : /\ \A f \in F : /\ Told(f) /\ IsClosing(f) /\ f.price = price
                              /\ f.strategyId \in Strategies
               /\ c.fills \in Seq(F)
  BY <1>2 DEF ClosedAt
<1> DEFINE all == F \union {g}
<1>8. /\ c.fills \in Seq(all) /\ g \in all /\ \A f \in all : Told(f)
      /\ r.fills = Append(c.fills, g)
  <2> HIDE DEF Told
  <2> QED BY <1>4, <1>6, <1>7
<1> HIDE DEF all
<1>9. /\ TotalOf([j \in DOMAIN r.fills |-> Signed(r.fills[j])])
           = TotalOf([j \in DOMAIN c.fills |-> Signed(c.fills[j])]) + Signed(g)
      /\ TotalOf([j \in DOMAIN r.fills |-> ClosedQty(r.fills[j])])
           = TotalOf([j \in DOMAIN c.fills |-> ClosedQty(c.fills[j])]) + ClosedQty(g)
      /\ TotalOf([j \in DOMAIN r.fills |-> ClosedPnl(r.fills[j])])
           = TotalOf([j \in DOMAIN c.fills |-> ClosedPnl(c.fills[j])]) + ClosedPnl(g)
      /\ TotalOf(Column(r.fills, "marginDelta"))
           = TotalOf(Column(c.fills, "marginDelta")) + g.marginDelta
  BY <1>8, OneFillMore
<1>10. /\ Signed(g) = Sign(i.direction) * rest
       /\ ClosedQty(g) = 0 /\ ClosedPnl(g) = 0
  BY <1>4, TellsType DEF Told
<1> DEFINE qty == TotalOf([j \in DOMAIN r.fills |-> ClosedQty(r.fills[j])])
           pnl == TotalOf([j \in DOMAIN r.fills |-> ClosedPnl(r.fills[j])])
<1>11. qty = p.qty /\ pnl = Gain(p.direction, p.avgEntry, price) * qty - Fee(price * qty)
  <2>1. p.qty * price = price * p.qty
    BY <1>1
  <2>2. Gain(p.direction, p.avgEntry, price) \in Int
    BY <1>1 DEF Gain
  <2>3. Fee(price * p.qty) \in Int
    <3> DEFINE notional == price * p.qty
    <3>1. notional \in Int
      BY <1>1
    <3> HIDE DEF notional
    <3>2. Fee(notional) \in Int
      BY <3>1, FeeType
    <3> QED BY <3>2 DEF notional
  <2>4. qty = p.qty
    BY <1>1, <1>2, <1>9, <1>10
  <2>5. pnl = Gain(p.direction, p.avgEntry, price) * p.qty - Fee(price * p.qty)
    <3>1. Gain(p.direction, p.avgEntry, price) * p.qty \in Int
      BY <1>1, <2>2
    <3> HIDE DEF pnl
    <3>2. pnl = (Gain(p.direction, p.avgEntry, price) * p.qty - Fee(price * p.qty)) + 0
      BY <1>2, <1>9, <1>10, <2>1 DEF pnl
    <3> QED BY <2>3, <3>1, <3>2
  <2> QED BY <2>4, <2>5
<1>12. Net(r.position) - Net(p) = TotalOf([j \in DOMAIN r.fills |-> Signed(r.fills[j])])
  <2>1. Sign(p.direction) \in Int /\ Sign(i.direction) \in Int
    BY DEF Sign, Directions, OpenerOK
  <2>2. Net(r.position) = Sign(i.direction) * rest /\ Net(p) = Sign(p.direction) * p.qty
    BY <1>5, <1>6 DEF Net
  <2>3. Sign(i.direction) * rest \in Int /\ Sign(p.direction) * p.qty \in Int
    BY <1>1, <2>1
  <2> QED BY <1>2, <1>9, <1>10, <2>2, <2>3
<1>13. r.position.margin - p.margin = TotalOf(Column(r.fills, "marginDelta"))
  <2>1. c.position.margin = 0 /\ o.position.margin \in Nat
    BY <1>1, <1>2, <1>3 DEF Covered, PositionsOf
  <2>2. TotalOf(Column(r.fills, "marginDelta")) = (c.position.margin - p.margin) + g.marginDelta
    BY <1>2, <1>9
  <2>3. r.position.margin = g.marginDelta
    BY <1>4, <1>5, <1>6
  <2> QED BY <1>1, <1>6, <2>1, <2>2, <2>3
<1>14. /\ DOMAIN r.fills = 1 .. Len(c.fills) + 1 /\ Len(c.fills) \in Nat
       /\ \A j \in 1 .. Len(c.fills) : r.fills[j] = c.fills[j] /\ c.fills[j] \in F
       /\ r.fills[Len(c.fills) + 1] = g
  BY <1>7, <1>8
<1>15. \A j \in DOMAIN r.fills : r.fills[j] \in F \/ r.fills[j] = g
  BY <1>14
<1> HIDE DEF qty, pnl
<1>16. \A j \in DOMAIN r.fills :
         IsClosing(r.fills[j]) => pnl = Gain(p.direction, p.avgEntry, r.fills[j].price) * qty
                                      - Fee(r.fills[j].price * qty)
  BY <1>4, <1>7, <1>11, <1>15
<1>17. Explain(r.fills, p, r.position)
  BY <1>12, <1>13, <1>16 DEF Explain, qty, pnl
<1>18. \A j \in DOMAIN r.fills : FillOK(r.fills[j])
  <2>1. \A f \in F : FillOK(f)
    BY <1>7 DEF FillOK, Told
  <2>2. FillOK(g)
    BY <1>4 DEF FillOK, Told, OpenerOK
  <2> QED BY <1>15, <2>1, <2>2
<1>19. r.position \in PositionsOf(Strategies, Idx) /\ Covered(r.position)
  BY <1>3, <1>6
<1> QED BY <1>17, <1>18, <1>19 DEF Sound, r

LEMMA ApplyIntentSound ==
  ASSUME NEW p \in PositionsOf(Strategies, Idx), Covered(p), NEW i, OpenerOK(i),
         NEW price \in Nat, NEW q \in Nat \ {0}
  PROVE  Sound(ApplyIntent(p, i, price, q), p)
<1>0. p.direction \in Directions \union {"none"} /\ p.qty \in Nat
  BY DEF PositionsOf
<1>1. CASE p.direction = "none"
  BY <1>1, OpenSound DEF ApplyIntent
<1>2. CASE p.direction # "none" /\ p.direction = i.direction
  BY <1>0, <1>2, AddSound DEF ApplyIntent
<1>3. CASE p.direction # "none" /\ p.direction # i.direction /\ q >= p.qty
  <2>1. ApplyIntent(p, i, price, q) = Flip(p, i, price, q)
    BY <1>3 DEF ApplyIntent
  <2> QED BY <1>0, <1>3, <2>1, FlipSound
<1>4. CASE p.direction # "none" /\ p.direction # i.direction /\ ~(q >= p.qty)
  <2>1. ApplyIntent(p, i, price, q) = ReduceBy(p, q, price, i.strategyId, "close")
    BY <1>4 DEF ApplyIntent
  <2>2. q <= p.qty /\ price \in Int /\ "close" \in ClosingActions
    BY <1>0, <1>4 DEF ClosingActions
  <2> QED BY <1>4, <2>1, <2>2, ReduceSound
<1> QED BY <1>1, <1>2, <1>3, <1>4

-----------------------------------------------------------------------------
(* The steps of the lifecycle.                                             *)

SoundInv ==
  /\ IInv
  /\ pos \in PositionsOf(Strategies, Idx) /\ Covered(pos)
  /\ \A j \in DOMAIN fills : FillOK(fills[j])
  /\ candles \in 1 .. Window /\ heldBars \in 0 .. MaxHoldBars + 1

LEMMA LeastType ==
  ASSUME NEW n \in Nat, NEW bound \in Nat \ {0}
  PROVE  Least(n + 1, bound) \in 1 .. bound
  BY DEF Least

\* The trail moves the stop and leaves what the lots are worth alone.
LEMMA TrailedCovers ==
  ASSUME SoundInv, pos.direction # "none", NEW bar \in Bars, NEW atr \in Atrs
  PROVE  LET n == Trailed(bar, atr).position
         IN  /\ n \in PositionsOf(Strategies, Idx) /\ Covered(n)
             /\ n.direction = pos.direction /\ n.qty = pos.qty /\ n.margin = pos.margin
             /\ n.avgEntry = pos.avgEntry /\ n.lots = pos.lots
<1> DEFINE n == Trailed(bar, atr).position
           moved == UpdateTrailingStop(pos.trailing, bar, pos.direction,
                                       pos.avgEntry, pos.stop, atr)
<1>1. pos \in PositionsOf(Strategies, Idx) /\ Covered(pos)
  BY DEF SoundInv
<1>2. CASE pos.trailing.phase = "off"
  BY <1>1, <1>2 DEF Trailed
<1>3. CASE pos.trailing.phase # "off"
  <2>1. n = [pos EXCEPT !.trailing = moved.state, !.stop = moved.stop]
    BY <1>3 DEF Trailed
  <2>2. /\ pos.trailing \in TrailStates /\ pos.direction \in Directions
        /\ pos.avgEntry \in Int /\ pos.stop \in Int
    BY <1>1 DEF PositionsOf, TrailStates
  <2>3. bar \in BarShape /\ atr \in Nat
    BY BarsType
  <2>4. moved.state \in TrailStates /\ moved.stop \in Int
    BY <1>3, <2>2, <2>3, TrailNeverLoosens
  <2> HIDE DEF n, moved
  <2>5. n \in PositionsOf(Strategies, Idx)
    BY <1>1, <2>1, <2>4 DEF PositionsOf, TrailStates
  <2>6. /\ n.direction = pos.direction /\ n.qty = pos.qty /\ n.margin = pos.margin
        /\ n.avgEntry = pos.avgEntry /\ n.lots = pos.lots /\ n.contributors = pos.contributors
    BY <1>1, <2>1 DEF PositionsOf
  <2>7. Covered(n)
    BY <1>1, <2>6 DEF Covered
  <2> QED BY <2>5, <2>6, <2>7 DEF n
<1> QED BY <1>2, <1>3

\* An exit is at a level of the position or at the close.
LEMMA ExitPriceType ==
  ASSUME NEW n \in PositionsOf(Strategies, Idx), NEW off, NEW bar \in Bars, NEW length,
         NEW a \in Adjustments
  PROVE  ExitOf(n, off, bar, length).price + a \in Int
<1> DEFINE exit == ExitOf(n, off, bar, length)
<1>1. exit.price \in {n.liq, n.stop, n.target, bar.close, 0}
  BY DEF ExitOf
<1>2. bar.close \in Int /\ a \in Int
  BY BarsType DEF BarShape
<1> HIDE DEF exit
<1>3. exit.price \in Int
  BY <1>1, <1>2 DEF PositionsOf
<1> QED BY <1>2, <1>3 DEF exit

\* Nothing done tells nothing.
LEMMA NothingExplains ==
  ASSUME NEW p \in PositionsOf(Strategies, Idx), NEW n,
         n.direction = p.direction, n.qty = p.qty, n.margin = p.margin
  PROVE  Explain(<<>>, p, n)
<1> DEFINE fs == <<>>
           a == TotalOf([i \in DOMAIN fs |-> Signed(fs[i])])
           b == TotalOf(Column(fs, "marginDelta"))
<1>1. Net(n) = Net(p) /\ Net(p) \in Int /\ p.margin \in Int
  BY DEF Net, Sign, PositionsOf, Directions
<1>2. DOMAIN fs = {}
  OBVIOUS
<1>3. a = 0 /\ b = 0
  BY NothingTold
<1> HIDE DEF fs
<1>4. Explain(fs, p, n)
  BY <1>1, <1>2, <1>3 DEF Explain
<1> QED BY <1>4 DEF fs

LEMMA SignalSound ==
  ASSUME SoundInv, NEW s \in Strategies, NEW price \in Prices, NEW q \in Sizes,
         Signal(s, price, q)
  PROVE  SoundInv' /\ Explain(fills', pos, pos')
<1>1. OpenerOK(Intent(s))
  BY LifecycleAssumption DEF LifecycleAssumption, OpenerOK, Intent, Idx, SoundInv
<1>2. price \in Nat /\ q \in Nat \ {0}
  BY LifecycleAssumption DEF LifecycleAssumption
<1>3. /\ pos' = ApplyIntent(pos, Intent(s), price, q).position
      /\ fills' = ApplyIntent(pos, Intent(s), price, q).fills
      /\ candles' = candles
  BY DEF Signal, Settle
<1>4. Sound(ApplyIntent(pos, Intent(s), price, q), pos)
  BY <1>1, <1>2, ApplyIntentSound DEF SoundInv
<1>5. heldBars' \in 0 .. MaxHoldBars + 1
  <2>1. heldBars' = 0 \/ heldBars' = heldBars
    BY DEF Signal
  <2> QED BY <2>1, LifecycleAssumption DEF SoundInv, LifecycleAssumption
<1>6. IInv'
  BY SignalStep DEF SoundInv
<1> QED BY <1>3, <1>4, <1>5, <1>6 DEF SoundInv, Sound

LEMMA BarCloseSound ==
  ASSUME SoundInv, NEW bar \in Bars, NEW atr \in Atrs, NEW a \in Adjustments,
         BarClose(bar, atr, a)
  PROVE  SoundInv' /\ Explain(fills', pos, pos')
<1> DEFINE length == Least(candles + 1, Window)
           n      == Trailed(bar, atr).position
           exit   == ExitOf(n, Trailed(bar, atr).targetDisabled, bar, length)
<1>1. pos.direction # "none" /\ candles' = length
  BY DEF BarClose
<1>2. length \in 1 .. Window
  BY LifecycleAssumption, LeastType DEF LifecycleAssumption, SoundInv
<1>3. /\ n \in PositionsOf(Strategies, Idx) /\ Covered(n)
      /\ n.direction = pos.direction /\ n.qty = pos.qty /\ n.margin = pos.margin
      /\ n.avgEntry = pos.avgEntry
  BY <1>1, TrailedCovers
<1>4. IInv'
  BY BarCloseStep DEF SoundInv
<1>5. CASE exit.reason = "none"
  <2>1. pos' = n /\ fills' = <<>> /\ heldBars' = Least(heldBars + 1, MaxHoldBars + 1)
    BY <1>5 DEF BarClose
  <2>2. heldBars' \in 0 .. MaxHoldBars + 1
    BY <2>1, LifecycleAssumption DEF LifecycleAssumption, SoundInv, Least
  <2> HIDE DEF n, exit, length
  <2>3. Explain(<<>>, pos, n)
    BY <1>3, NothingExplains DEF SoundInv
  <2>4. \A j \in DOMAIN fills' : FillOK(fills'[j])
    BY <2>1
  <2> QED BY <1>1, <1>2, <1>3, <1>4, <2>1, <2>2, <2>3, <2>4 DEF SoundInv
<1>6. CASE exit.reason # "none"
  <2>1. /\ pos' = ReduceBy(n, n.qty, exit.price + a, pos.gov, "close").position
        /\ fills' = ReduceBy(n, n.qty, exit.price + a, pos.gov, "close").fills
        /\ heldBars' = 0
    BY <1>6 DEF BarClose, Settle, ClosePosition
  <2>2. exit.price + a \in Int
    <3> HIDE DEF n, length
    <3> QED BY <1>3, ExitPriceType
  <2> HIDE DEF n, exit, length
  <2>3. n.qty \in Nat /\ n.qty <= n.qty /\ n.direction # "none" /\ "close" \in ClosingActions
    BY <1>1, <1>3 DEF PositionsOf, ClosingActions
  <2>4. Sound(ReduceBy(n, n.qty, exit.price + a, pos.gov, "close"), n)
    BY <1>3, <2>2, <2>3, ReduceSound
  <2>5. Explain(fills', n, pos')
    BY <2>1, <2>4 DEF Sound
  <2>6. Net(n) = Net(pos)
    BY <1>3 DEF Net
  <2>7. Explain(fills', pos, pos')
    BY <1>3, <2>5, <2>6 DEF Explain
  <2>8. 0 \in 0 .. MaxHoldBars + 1
    BY LifecycleAssumption DEF LifecycleAssumption
  <2> QED BY <1>1, <1>2, <1>4, <2>1, <2>4, <2>7, <2>8 DEF SoundInv, Sound
<1> QED BY <1>5, <1>6

LEMMA QuietBarSound ==
  ASSUME SoundInv, QuietBar
  PROVE  SoundInv' /\ Explain(fills', pos, pos')
<1>1. /\ pos' = pos /\ candles' = Least(candles + 1, Window) /\ fills' = <<>>
      /\ heldBars' = heldBars
  BY DEF QuietBar
<1>2. Least(candles + 1, Window) \in 1 .. Window
  BY LifecycleAssumption, LeastType DEF LifecycleAssumption, SoundInv
<1>3. IInv'
  BY QuietBarStep DEF SoundInv
<1>4. Explain(<<>>, pos, pos)
  BY NothingExplains DEF SoundInv
<1> QED BY <1>1, <1>2, <1>3, <1>4 DEF SoundInv

LEMMA InitSound == Init => SoundInv
<1> SUFFICES ASSUME Init PROVE SoundInv OBVIOUS
<1>1. 0 \in Idx /\ 1 \in 1 .. Window /\ 0 \in 0 .. MaxHoldBars + 1
  BY LifecycleAssumption DEF LifecycleAssumption, Idx
<1>2. FlatPosition \in PositionsOf(Strategies, Idx) /\ Covered(FlatPosition)
  BY <1>1, FlatCovers
<1> QED BY <1>1, <1>2, InitIInv DEF Init, SoundInv

LEMMA StepSound ==
  SoundInv /\ [Next]_vars => SoundInv' /\ [Explain(fills', pos, pos')]_vars
<1> SUFFICES ASSUME SoundInv, [Next]_vars
             PROVE  SoundInv' /\ [Explain(fills', pos, pos')]_vars
  OBVIOUS
<1>1. CASE \E s \in Strategies, price \in Prices, q \in Sizes : Signal(s, price, q)
  BY <1>1, SignalSound
<1>2. CASE \E bar \in Bars, atr \in Atrs, a \in Adjustments : BarClose(bar, atr, a)
  BY <1>2, BarCloseSound
<1>3. CASE QuietBar
  BY <1>3, QuietBarSound
<1>4. CASE UNCHANGED vars
  <2>1. IInv'
    BY <1>4, StutterStep DEF SoundInv
  <2> QED BY <1>4, <2>1 DEF SoundInv, vars
<1> QED BY <1>1, <1>2, <1>3, <1>4 DEF Next

\* However the strategies' entries, adds, reductions and flips and the exits of
\* the bars follow one another, the position is well-typed, its lots add up to
\* the quantity held, name exactly its contributors, and carry no margin once
\* nothing is held: what allocateAcrossLots trusts (symbol-position.ts:162-231).
THEOREM PositionIsSoundAlways == Spec => []PositionIsSound
<1>1. SoundInv => PositionIsSound
  <2> SUFFICES ASSUME SoundInv PROVE PositionIsSound OBVIOUS
  <2>1. TypeOK
    BY DEF SoundInv, PositionsOf, LotsOf, Idx, TypeOK, FillOK
  <2>2. LotsCoverPosition
    BY DEF SoundInv, Covered, PositionsOf, LotsCoverPosition
  <2> QED BY <2>1, <2>2 DEF PositionIsSound
<1> QED BY InitSound, StepSound, <1>1, PTL DEF Spec

\* The fills that are journalled for an operation explain it to the unit and the
\* cent: they replay to the change of the signed quantity and of the margin, and
\* the slices of a close add up to its one PnL, whatever lots it was spread over
\* and however each slice was rounded ("no rounding drift",
\* symbol-position.ts:166-168).
THEOREM FillsExplainAlways == Spec => FillsAccountForChange
  BY InitSound, StepSound, PTL DEF Spec, FillsAccountForChange

-----------------------------------------------------------------------------
(* The units of the lots, oldest first.                                    *)

UnitsOf(l) == [i \in 1 .. l.qty |-> l.strategyId]

LEMMA UnitsOfType ==
  ASSUME NEW Owners, NEW l \in LotsOf(Owners)
  PROVE  UnitsOf(l) \in Seq(Owners) /\ Len(UnitsOf(l)) = l.qty
  BY DEF UnitsOf, LotsOf

\* The queues of the first lots, one after the other.
Queues(acc, lots, Owners) ==
  /\ acc \in [0 .. Len(lots) -> Seq(Owners)]
  /\ acc[0] = <<>>
  /\ \A i \in 1 .. Len(lots) : acc[i] = acc[i - 1] \o UnitsOf(lots[i])

LEMMA UnitsUnroll ==
  ASSUME NEW Owners, NEW lots \in Seq(LotsOf(Owners))
  PROVE  \E acc : Queues(acc, lots, Owners) /\ Units(lots) = acc[Len(lots)]
<1> DEFINE n == Len(lots)
           S == Seq(Owners)
           IsFold(g) == g = [s \in SUBSET (1 .. n) |->
                               IF s = {} THEN <<>>
                               ELSE g[s \ {Max(s)}] \o UnitsOf(lots[Max(s)])]
           iter == CHOOSE g : IsFold(g)
           step == [p \in (1 .. n) \X S |-> p[2] \o UnitsOf(lots[p[1]])]
           acc == [i \in 0 .. n |-> iter[1 .. i]]
<1>1. Units(lots) = iter[1 .. n]
  <2>1. DOMAIN lots = 1 .. n OBVIOUS
  <2> HIDE DEF step, acc, S
  <2> QED BY <2>1 DEF Units, UnitsOf, FoldLeft, MapThenFoldSet
<1>2. n \in Nat /\ <<>> \in S /\ \A i \in 1 .. n : UnitsOf(lots[i]) \in S
  BY UnitsOfType
<1>3. step \in [(1 .. n) \X S -> S]
  BY <1>2
<1>4. \A p \in (1 .. n) \X S : step[p] = p[2] \o UnitsOf(lots[p[1]])
  OBVIOUS
<1>5. acc = [i \in 0 .. n |-> iter[1 .. i]]
  OBVIOUS
<1>6. \A a \in S, b \in S : a \o b \in S
  OBVIOUS
<1> HIDE DEF n, S, step, acc, iter, IsFold
<1>7. PICK f \in [SUBSET (1 .. n) -> S] : FoldsTo(f, n, <<>>, step)
  BY <1>2, <1>3, FoldExists
<1>8. IsFold(f)
  <2>1. ASSUME NEW s \in SUBSET (1 .. n)
        PROVE  f[s] = IF s = {} THEN <<>> ELSE f[s \ {Max(s)}] \o UnitsOf(lots[Max(s)])
    <3>1. s # {} => Max(s) \in 1 .. n /\ f[s \ {Max(s)}] \in S
      BY <1>2, MaxUpTo
    <3> QED BY <1>4, <1>7, <3>1 DEF FoldsTo
  <2> QED BY <2>1 DEF IsFold
<1>9. IsFold(iter)
  BY <1>8 DEF iter
<1>10. iter[{}] = <<>>
  <2>1. {} \in SUBSET (1 .. n) OBVIOUS
  <2> QED BY <1>9, <2>1 DEF IsFold
<1>11. \A i \in 1 .. n : iter[1 .. i] = iter[1 .. i - 1] \o UnitsOf(lots[i])
  <2> TAKE i \in 1 .. n
  <2>1. /\ 1 .. i \in SUBSET (1 .. n) /\ 1 .. i # {}
        /\ Max(1 .. i) = i /\ (1 .. i) \ {i} = 1 .. i - 1
    BY <1>2, IntervalStep
  <2>2. iter[1 .. i] = iter[(1 .. i) \ {Max(1 .. i)}] \o UnitsOf(lots[Max(1 .. i)])
    BY <1>9, <2>1 DEF IsFold
  <2> QED BY <2>1, <2>2
<1>12. \A i \in 0 .. n : iter[1 .. i] \in S
  <2>1. \A i \in 1 .. n : iter[1 .. i - 1] \in S => iter[1 .. i] \in S
    BY <1>2, <1>6, <1>11
  <2> QED BY <1>2, <1>10, <2>1, FoldReaches
<1>13. Queues(acc, lots, Owners)
  <2>1. 1 .. 0 = {} /\ 0 \in 0 .. n /\ \A i \in 1 .. n : i \in 0 .. n /\ i - 1 \in 0 .. n
    BY <1>2
  <2>2. \A i \in 0 .. n : acc[i] = iter[1 .. i]
    BY <1>5
  <2>3. acc[0] = <<>>
    BY <1>10, <2>1, <2>2
  <2>4. \A i \in 1 .. n : acc[i] = acc[i - 1] \o UnitsOf(lots[i])
    BY <1>11, <2>1, <2>2
  <2>5. acc \in [0 .. n -> S]
    BY <1>5, <1>12
  <2> QED BY <2>3, <2>4, <2>5 DEF Queues, S, n
<1>14. acc[n] = iter[1 .. n]
  BY <1>2, <1>5
<1> QED BY <1>1, <1>13, <1>14 DEF n

\* The same first lots make the same queues.
LEMMA QueuesAgree ==
  ASSUME NEW Owners, NEW lots, NEW more, Len(lots) \in Nat, Len(more) \in Nat,
         Len(lots) <= Len(more), \A i \in 1 .. Len(lots) : more[i] = lots[i],
         NEW a, Queues(a, lots, Owners), NEW b, Queues(b, more, Owners)
  PROVE  a[Len(lots)] = b[Len(lots)]
<1> DEFINE n == Len(lots)
           Good == {i \in 0 .. n : a[i] = b[i]}
<1>1. n \in Nat /\ 0 \in Good
  BY DEF Queues
<1>2. ASSUME NEW i \in 1 .. n, i - 1 \in Good PROVE i \in Good
  <2>1. a[i] = a[i - 1] \o UnitsOf(lots[i]) /\ b[i] = b[i - 1] \o UnitsOf(more[i])
    <3>1. i \in 1 .. Len(lots) /\ i \in 1 .. Len(more)
      BY <1>1
    <3> QED BY <3>1 DEF Queues
  <2>2. a[i - 1] = b[i - 1] /\ more[i] = lots[i] /\ i \in 0 .. n
    BY <1>1, <1>2
  <2> QED BY <2>1, <2>2
<1>3. \A i \in 0 .. n : i \in Good
  <2> HIDE DEF Good, n
  <2> QED BY <1>1, <1>2, InductionTo
<1> QED BY <1>1, <1>3

\* A lot more queues its units last.
LEMMA UnitsExtend ==
  ASSUME NEW Owners, NEW lots \in Seq(LotsOf(Owners)), NEW l \in LotsOf(Owners)
  PROVE  Units(lots) \in Seq(Owners) /\ Units(Append(lots, l)) = Units(lots) \o UnitsOf(l)
<1> DEFINE n == Len(lots)
           more == Append(lots, l)
<1>1. /\ n \in Nat /\ more \in Seq(LotsOf(Owners)) /\ Len(more) = n + 1
      /\ more[n + 1] = l /\ \A i \in 1 .. n : more[i] = lots[i]
  OBVIOUS
<1>2. PICK a : Queues(a, lots, Owners) /\ Units(lots) = a[n]
  BY UnitsUnroll
<1> HIDE DEF more
<1>3. PICK b : Queues(b, more, Owners) /\ Units(more) = b[n + 1]
  BY <1>1, UnitsUnroll
<1> HIDE DEF n
<1>4. a[n] = b[n]
  BY <1>1, <1>2, <1>3, QueuesAgree DEF n
<1>5. b[n + 1] = b[n] \o UnitsOf(l)
  <2>1. n + 1 \in 1 .. n + 1 /\ (n + 1) - 1 = n
    BY <1>1
  <2> QED BY <1>1, <1>3, <2>1 DEF Queues
<1>6. a[n] \in Seq(Owners)
  BY <1>1, <1>2 DEF Queues, n
<1> QED BY <1>2, <1>3, <1>4, <1>5, <1>6 DEF more

LEMMA UnitsOfNone ==
  ASSUME NEW Owners
  PROVE  Units(<<>>) = <<>>
<1>1. <<>> \in Seq(LotsOf(Owners)) /\ Len(<<>>) = 0
  OBVIOUS
<1>2. PICK a : Queues(a, <<>>, Owners) /\ Units(<<>>) = a[0]
  BY <1>1, UnitsUnroll
<1> QED BY <1>2 DEF Queues

-----------------------------------------------------------------------------
(* The units that fills close.                                             *)

\* A fill that attributes a quantity to an owner.
FillShape(Owners, F) == \A f \in F : f.strategyId \in Owners /\ f.qty \in Nat

LEMMA TakenExtend ==
  ASSUME NEW Owners, NEW F, FillShape(Owners, F), NEW fs \in Seq(F), NEW f \in F
  PROVE  /\ Taken(fs) \in Seq(Owners)
         /\ Taken(Append(fs, f)) = Taken(fs) \o UnitsOf(Lot(f.strategyId, ClosedQty(f)))
<1> DEFINE AsLot(g) == Lot(g.strategyId, ClosedQty(g))
           lots == [j \in DOMAIN fs |-> AsLot(fs[j])]
           more == [j \in DOMAIN Append(fs, f) |-> AsLot(Append(fs, f)[j])]
           n == Len(fs)
<1>1. \A g \in F : AsLot(g) \in LotsOf(Owners)
  BY DEF FillShape, Lot, LotsOf, ClosedQty
<1>2. /\ n \in Nat /\ DOMAIN fs = 1 .. n /\ DOMAIN Append(fs, f) = 1 .. n + 1
      /\ \A j \in 1 .. n : fs[j] \in F /\ Append(fs, f)[j] = fs[j]
      /\ Append(fs, f)[n + 1] = f
  OBVIOUS
<1>3. lots \in Seq(LotsOf(Owners)) /\ Len(lots) = n
  <2> HIDE DEF AsLot, n
  <2>1. lots = [j \in 1 .. n |-> AsLot(fs[j])]
    BY <1>2
  <2> HIDE DEF lots
  <2> QED BY <1>1, <1>2, <2>1
<1>4. more = Append(lots, AsLot(f))
  <2> HIDE DEF AsLot, n
  <2>1. /\ lots = [j \in 1 .. n |-> AsLot(fs[j])]
        /\ more = [j \in 1 .. n + 1 |-> AsLot(Append(fs, f)[j])]
    BY <1>2
  <2> DEFINE both == Append(lots, AsLot(f))
  <2>2. both \in Seq(LotsOf(Owners)) /\ Len(both) = n + 1
        /\ both[n + 1] = AsLot(f) /\ \A j \in 1 .. n : both[j] = lots[j]
    <3> HIDE DEF lots
    <3> QED BY <1>1, <1>3
  <2>3. \A j \in 1 .. n + 1 : more[j] = both[j]
    <3> HIDE DEF both
    <3> QED BY <1>2, <2>1, <2>2
  <2>4. both = [j \in 1 .. n + 1 |-> both[j]]
    <3> HIDE DEF both
    <3> QED BY <1>2, <2>2
  <2>5. more = [j \in 1 .. n + 1 |-> more[j]]
    <3> HIDE DEF both, lots
    <3> QED BY <2>1
  <2> HIDE DEF both, more, lots
  <2>6. more = both
    BY <2>3, <2>4, <2>5
  <2> QED BY <2>6 DEF both
<1>5. /\ Units(lots) \in Seq(Owners)
      /\ Units(Append(lots, AsLot(f))) = Units(lots) \o UnitsOf(AsLot(f))
  <2> HIDE DEF lots, AsLot
  <2> QED BY <1>1, <1>3, UnitsExtend
<1> QED BY <1>4, <1>5 DEF Taken

LEMMA TakenOfNone ==
  ASSUME NEW Owners
  PROVE  Taken(<<>>) = <<>>
<1>1. [j \in DOMAIN <<>> |-> Lot(<<>>[j].strategyId, ClosedQty(<<>>[j]))] = <<>>
  OBVIOUS
<1> QED BY <1>1, UnitsOfNone DEF Taken

-----------------------------------------------------------------------------
(* A reduction takes the oldest.                                           *)

\* What was taken and what is left are the queue u, and nothing is left while more
\* is to be taken.
SplitsQueue(acc, u) ==
  /\ Taken(acc.fills) \o Units(acc.remaining) = u
  /\ acc.toConsume > 0 => Units(acc.remaining) = <<>>

\* The units of a lot that is cut are those of its two parts.
LEMMA UnitsOfParts ==
  ASSUME NEW Owners, NEW l \in LotsOf(Owners), NEW a \in 0 .. l.qty
  PROVE  UnitsOf(Lot(l.strategyId, a)) \o UnitsOf(Lot(l.strategyId, l.qty - a)) = UnitsOf(l)
<1> DEFINE x == UnitsOf(Lot(l.strategyId, a))
           y == UnitsOf(Lot(l.strategyId, l.qty - a))
<1>1. l.qty \in Nat /\ l.strategyId \in Owners
  BY DEF LotsOf
<1>2. /\ x = [i \in 1 .. a |-> l.strategyId]
      /\ y = [i \in 1 .. l.qty - a |-> l.strategyId]
      /\ UnitsOf(l) = [i \in 1 .. l.qty |-> l.strategyId]
  BY DEF UnitsOf, Lot
<1>3. /\ x \in Seq(Owners) /\ Len(x) = a /\ y \in Seq(Owners) /\ Len(y) = l.qty - a
  <2>1. /\ Lot(l.strategyId, a) \in LotsOf(Owners) /\ Lot(l.strategyId, a).qty = a
        /\ Lot(l.strategyId, l.qty - a) \in LotsOf(Owners)
        /\ Lot(l.strategyId, l.qty - a).qty = l.qty - a
    BY <1>1 DEF Lot, LotsOf
  <2> QED BY <2>1, UnitsOfType
<1> HIDE DEF x, y
<1>4. /\ x \o y \in Seq(Owners) /\ Len(x \o y) = l.qty
      /\ \A i \in 1 .. l.qty : (x \o y)[i] = l.strategyId
  <2>1. /\ x \o y \in Seq(Owners) /\ Len(x \o y) = l.qty
        /\ \A i \in 1 .. l.qty : (x \o y)[i] = IF i <= a THEN x[i] ELSE y[i - a]
    BY <1>1, <1>3
  <2>2. \A i \in 1 .. l.qty : IF i <= a THEN i \in 1 .. a ELSE i - a \in 1 .. l.qty - a
    BY <1>1
  <2> QED BY <1>2, <2>1, <2>2
<1>5. x \o y = [i \in 1 .. l.qty |-> (x \o y)[i]]
  <2> DEFINE z == x \o y
  <2>1. z \in Seq(Owners) /\ Len(z) = l.qty
    BY <1>4
  <2> HIDE DEF z
  <2>2. z = [i \in 1 .. l.qty |-> z[i]]
    BY <1>1, <2>1
  <2> QED BY <2>2 DEF z
<1>6. x \o y = UnitsOf(l)
  BY <1>2, <1>4, <1>5
<1> QED BY <1>6 DEF x, y

LEMMA JoinAssociative ==
  \A S : \A a, b, c \in Seq(S) : (a \o b) \o c = a \o (b \o c)
  BY ConcatAssociative

LEMMA ConsumeSplits ==
  ASSUME NEW Owners, NEW cut, CutOK(cut), cut.action \in ClosingActions,
         NEW acc \in Progress(cut, Owners), NEW lot \in LotsOf(Owners),
         NEW u \in Seq(Owners), SplitsQueue(acc, u)
  PROVE  SplitsQueue(Consume(acc, lot, cut), u \o UnitsOf(lot))
<1> DEFINE next == Consume(acc, lot, cut)
           F == FillsOf(cut, Owners)
           taken == Taken(acc.fills)
           left == Units(acc.remaining)
           block == UnitsOf(lot)
<1>1. /\ acc.toConsume \in Nat /\ acc.fills \in Seq(F) /\ acc.remaining \in Seq(LotsOf(Owners))
      /\ lot.qty \in Nat /\ lot.strategyId \in Owners
  BY DEF Progress, LotsOf, CutOK
<1>2. FillShape(Owners, F)
  BY DEF FillShape, FillsOf
<1>3. next \in Progress(cut, Owners)
  BY ConsumeType
<1>4. block \in Seq(Owners) /\ taken \in Seq(Owners) /\ left \in Seq(Owners)
  <2>1. taken \in Seq(Owners)
    <3>1. F # {} => taken \in Seq(Owners)
      <4> HIDE DEF F
      <4> QED BY <1>1, <1>2, TakenExtend
    <3>2. F = {} => acc.fills = <<>>
      <4> HIDE DEF F
      <4> QED BY <1>1
    <3>3. <<>> \in Seq(Owners)
      OBVIOUS
    <3> HIDE DEF F
    <3> QED BY <3>1, <3>2, <3>3, TakenOfNone
  <2>2. left \in Seq(Owners)
    BY <1>1, UnitsExtend
  <2> QED BY <2>1, <2>2, UnitsOfType
<1>5. taken \o left = u /\ (acc.toConsume > 0 => left = <<>>)
  BY DEF SplitsQueue
<1>6. CASE acc.toConsume <= 0
  <2>1. next.fills = acc.fills /\ next.remaining = Append(acc.remaining, lot)
        /\ next.toConsume = acc.toConsume
    BY <1>1, <1>6 DEF Consume, Progress
  <2>2. Units(next.remaining) = left \o block
    BY <1>1, <2>1, UnitsExtend
  <2> HIDE DEF next, taken, left, block
  <2>3. (taken \o left) \o block = taken \o (left \o block)
    BY <1>4, JoinAssociative, SMTT(30)
  <2>4. ~(next.toConsume > 0)
    BY <1>1, <1>6, <2>1
  <2> QED BY <1>5, <2>1, <2>2, <2>3, <2>4 DEF SplitsQueue, next, taken, block
<1>7. CASE acc.toConsume > 0
  <2> DEFINE used == Least(lot.qty, acc.toConsume)
             head == UnitsOf(Lot(lot.strategyId, used))
             tail == UnitsOf(Lot(lot.strategyId, lot.qty - used))
  <2>1. used \in 0 .. lot.qty /\ used \in Nat /\ used <= acc.toConsume
        /\ (used < lot.qty => used = acc.toConsume)
    BY <1>1 DEF Least
  <2>2. /\ next.toConsume = acc.toConsume - used
        /\ next.remaining = IF lot.qty - used > 0
                            THEN Append(acc.remaining, Lot(lot.strategyId, lot.qty - used))
                            ELSE acc.remaining
        /\ \E f \in F : /\ next.fills = Append(acc.fills, f)
                        /\ f.strategyId = lot.strategyId /\ f.qty = used
                        /\ f.action = cut.action
    <3> DEFINE slice == [k \in Quantities |->
                           IF acc.toConsume - used <= 0 THEN cut.totals[k] - acc.done[k]
                           ELSE (cut.totals[k] * used) \div cut.qty]
               f == Fill(cut.action, lot.strategyId, cut.trigger, cut.dir, cut.price, used,
                         -slice["margin"], slice["pnl"], slice["fee"])
    <3>1. ~(acc.toConsume <= 0)
      BY <1>1, <1>7
    <3>2. next = [toConsume |-> acc.toConsume - used,
                  done      |-> [k \in Quantities |-> acc.done[k] + slice[k]],
                  fills     |-> Append(acc.fills, f),
                  remaining |-> IF lot.qty - used > 0
                                THEN Append(acc.remaining, Lot(lot.strategyId, lot.qty - used))
                                ELSE acc.remaining]
      BY <3>1 DEF Consume
    <3>3. f.strategyId = lot.strategyId /\ f.qty = used /\ f.action = cut.action
      BY DEF Fill
    <3> HIDE DEF next, f, used, slice
    <3>4. f \in F
      <4>1. Append(acc.fills, f) \in Seq(F)
        BY <1>3, <3>2 DEF Progress
      <4>2. Len(Append(acc.fills, f)) = Len(acc.fills) + 1
            /\ Append(acc.fills, f)[Len(acc.fills) + 1] = f
        BY <1>1
      <4> HIDE DEF F
      <4> QED BY <1>1, <4>1, <4>2
    <3> QED BY <3>2, <3>3, <3>4
  <2>3. Taken(next.fills) = taken \o head
    <3> HIDE DEF next, used
    <3>1. PICK f \in F : /\ next.fills = Append(acc.fills, f) /\ f.strategyId = lot.strategyId
                         /\ f.qty = used /\ f.action = cut.action
      BY <2>2
    <3>2. ClosedQty(f) = used
      BY <3>1 DEF ClosedQty, IsClosing
    <3> HIDE DEF F
    <3>3. Taken(Append(acc.fills, f)) = taken \o UnitsOf(Lot(f.strategyId, ClosedQty(f)))
      BY <1>1, <1>2, TakenExtend
    <3> QED BY <3>1, <3>2, <3>3
  <2>4. Units(next.remaining) = tail
    <3>1. left = <<>> /\ Lot(lot.strategyId, lot.qty - used) \in LotsOf(Owners)
      BY <1>1, <1>5, <1>7, <2>1 DEF Lot, LotsOf
    <3>2. tail \in Seq(Owners) /\ Len(tail) = lot.qty - used
      <4>1. Lot(lot.strategyId, lot.qty - used).qty = lot.qty - used
        BY DEF Lot
      <4> QED BY <3>1, <4>1, UnitsOfType
    <3> HIDE DEF next, used, tail
    <3>3. CASE lot.qty - used > 0
      <4>1. Units(next.remaining) = left \o tail
        BY <1>1, <2>2, <3>1, <3>3, UnitsExtend DEF tail
      <4> QED BY <3>1, <3>2, <4>1, ConcatEmptySeq
    <3>4. CASE ~(lot.qty - used > 0)
      <4>1. next.remaining = acc.remaining /\ lot.qty - used = 0
        BY <1>1, <2>1, <2>2, <3>4
      <4>2. tail = <<>>
        BY <3>2, <4>1
      <4> QED BY <3>1, <4>1, <4>2
    <3> QED BY <3>3, <3>4
  <2>5. head \o tail = block
    BY <2>1, UnitsOfParts
  <2>6. head \in Seq(Owners) /\ tail \in Seq(Owners)
    <3>1. /\ Lot(lot.strategyId, used) \in LotsOf(Owners)
          /\ Lot(lot.strategyId, lot.qty - used) \in LotsOf(Owners)
      BY <1>1, <2>1 DEF Lot, LotsOf
    <3> QED BY <3>1, UnitsOfType
  <2>7. next.toConsume > 0 => tail = <<>>
    <3>1. next.toConsume > 0 => lot.qty - used = 0
      BY <1>1, <2>1, <2>2
    <3>2. lot.qty - used = 0 => tail = <<>>
      <4>1. Lot(lot.strategyId, lot.qty - used).qty = lot.qty - used
        BY DEF Lot
      <4>2. lot.qty - used = 0 => 1 .. Lot(lot.strategyId, lot.qty - used).qty = {}
        BY <4>1
      <4> QED BY <4>2 DEF UnitsOf
    <3> QED BY <3>1, <3>2
  <2>8. taken = u
    BY <1>4, <1>5, <1>7, ConcatEmptySeq
  <2> HIDE DEF next, taken, left, block, head, tail, used
  <2>9. (taken \o head) \o tail = taken \o (head \o tail)
    BY <1>4, <2>6, JoinAssociative, SMTT(30)
  <2> QED BY <2>3, <2>4, <2>5, <2>7, <2>8, <2>9 DEF SplitsQueue, next, block
<1> QED BY <1>1, <1>6, <1>7

\* Two queues behind one another: the head and the tail of what they make.
LEMMA HeadAndTail ==
  ASSUME NEW S, NEW a \in Seq(S), NEW b \in Seq(S)
  PROVE  /\ a = SubSeq(a \o b, 1, Len(a))
         /\ b = SubSeq(a \o b, Len(a) + 1, Len(a \o b))
         /\ Len(a \o b) - Len(a) = Len(b) /\ b = SubSeq(b, 1, Len(b))
<1>1. /\ a \o b \in Seq(S) /\ Len(a \o b) = Len(a) + Len(b) /\ Len(a) \in Nat /\ Len(b) \in Nat
      /\ \A i \in 1 .. Len(a) : (a \o b)[i] = a[i]
      /\ \A i \in 1 .. Len(b) : (a \o b)[Len(a) + i] = b[i]
  OBVIOUS
<1> QED BY <1>1

\* What the fills take and what the lots keep are the queue of before.
SplitsLots(split, lots, Owners) ==
  /\ \E F : split.fills \in Seq(F) /\ FillShape(Owners, F)
  /\ split.remaining \in Seq(LotsOf(Owners))
  /\ Taken(split.fills) \o Units(split.remaining) = Units(lots)

LEMMA AllocationSplits ==
  ASSUME NEW Owners, NEW lots \in Seq(LotsOf(Owners)), NEW q \in Nat,
         NEW totals \in [Quantities -> Int], NEW action \in ClosingActions, NEW trigger,
         NEW dir, NEW price
  PROVE  SplitsLots(AllocateAcrossLots(lots, q, totals, action, trigger, dir, price), lots, Owners)
<1> DEFINE n == Len(lots)
           cut == CutOf(q, totals, action, trigger, dir, price)
<1>1. CutOK(cut) /\ cut.action \in ClosingActions /\ cut.qty = q
  BY DEF CutOf, CutOK
<1>2. PICK acc : /\ Steps(acc, lots, cut, Owners)
                 /\ AllocateAcrossLots(lots, q, totals, action, trigger, dir, price) = acc[n]
  BY AllocationUnrolls
<1>3. PICK units : Queues(units, lots, Owners) /\ Units(lots) = units[n]
  BY UnitsUnroll
<1>4. n \in Nat /\ \A i \in 1 .. n : lots[i] \in LotsOf(Owners) /\ i \in 0 .. n /\ i - 1 \in 0 .. n
  OBVIOUS
<1> HIDE DEF cut
<1> DEFINE Good == {i \in 0 .. n : SplitsQueue(acc[i], units[i])}
<1>5. 0 \in Good
  <2>1. acc[0] = NothingConsumed(q) /\ units[0] = <<>>
    BY <1>1, <1>2, <1>3 DEF Steps, Queues
  <2>2. acc[0].fills = <<>> /\ acc[0].remaining = <<>>
    BY <2>1 DEF NothingConsumed
  <2>3. Taken(<<>>) = <<>> /\ Units(<<>>) = <<>>
    BY TakenOfNone, UnitsOfNone
  <2>4. <<>> \o <<>> = <<>>
    OBVIOUS
  <2>5. 0 \in 0 .. n
    BY <1>4
  <2> QED BY <2>1, <2>2, <2>3, <2>4, <2>5 DEF SplitsQueue
<1>6. ASSUME NEW i \in 1 .. n, i - 1 \in Good PROVE i \in Good
  <2>1. acc[i] = Consume(acc[i - 1], lots[i], cut) /\ acc[i - 1] \in Progress(cut, Owners)
    BY <1>2, <1>4 DEF Steps
  <2>2. units[i] = units[i - 1] \o UnitsOf(lots[i]) /\ units[i - 1] \in Seq(Owners)
    BY <1>3, <1>4 DEF Queues
  <2>3. SplitsQueue(Consume(acc[i - 1], lots[i], cut), units[i - 1] \o UnitsOf(lots[i]))
    BY <1>1, <1>4, <1>6, <2>1, <2>2, ConsumeSplits
  <2> QED BY <1>4, <2>1, <2>2, <2>3
<1>7. n \in Good
  <2> HIDE DEF Good
  <2>1. \A i \in 0 .. n : i \in Good
    BY <1>4, <1>5, <1>6, InductionTo
  <2> QED BY <1>4, <2>1
<1>8. acc[n] \in Progress(cut, Owners)
  BY <1>2, <1>4 DEF Steps
<1>9. acc[n].fills \in Seq(FillsOf(cut, Owners)) /\ acc[n].remaining \in Seq(LotsOf(Owners))
  BY <1>8 DEF Progress
<1>10. FillShape(Owners, FillsOf(cut, Owners))
  BY DEF FillShape, FillsOf
<1>11. SplitsLots(acc[n], lots, Owners)
  BY <1>3, <1>7, <1>9, <1>10 DEF SplitsQueue, SplitsLots
<1> QED BY <1>2, <1>11

\* Fills of strategies with a quantity take units of strategies.
LEMMA TakenType ==
  ASSUME NEW Owners, NEW F, FillShape(Owners, F), NEW fs \in Seq(F)
  PROVE  Taken(fs) \in Seq(Owners)
<1>1. CASE fs = <<>>
  <2>1. <<>> \in Seq(Owners)
    OBVIOUS
  <2> QED BY <1>1, <2>1, TakenOfNone
<1>2. CASE fs # <<>>
  <2>1. fs[1] \in F
    BY <1>2
  <2> QED BY <2>1, TakenExtend
<1> QED BY <1>1, <1>2

\* A reduction splits the queue of the position.
SplitsPosition(r, p, Owners) ==
  \E F : /\ r.fills \in Seq(F) /\ FillShape(Owners, F)
         /\ \E kept \in Seq(Owners) :
              /\ Taken(r.fills) \o kept = Units(p.lots)
              /\ r.position.direction = p.direction => kept = Units(r.position.lots)

LEMMA ReduceSplits ==
  ASSUME NEW Owners, NEW I, NEW p \in PositionsOf(Owners, I), p.direction # "none",
         NEW q \in Nat, q <= p.qty, NEW price \in Int, NEW trigger, NEW emptied \in ClosingActions
  PROVE  SplitsPosition(ReduceBy(p, q, price, trigger, emptied), p, Owners)
<1> DEFINE totals == ReduceTotals(p, q, price)
           rest == p.qty - q
           action == IF rest <= 0 THEN emptied ELSE "reduce"
           split == AllocateAcrossLots(p.lots, q, totals, action, trigger, p.direction, price)
           n == IF rest <= 0 THEN FlatPosition
                ELSE [p EXCEPT !.qty = rest, !.margin = p.margin - totals.margin,
                               !.lots = split.remaining,
                               !.contributors = LotOwners(split.remaining)]
           r == ReduceBy(p, q, price, trigger, emptied)
<1>0. p.lots \in Seq(LotsOf(Owners)) /\ p.qty \in Nat
  BY DEF PositionsOf
<1>1. r = [position |-> n, fills |-> split.fills]
  BY DEF ReduceBy
<1>2. totals \in [Quantities -> Int]
  BY ReduceTotalsType DEF TotalsFit
<1>3. action \in ClosingActions
  BY DEF ClosingActions
<1>4. SplitsLots(split, p.lots, Owners)
  <2> HIDE DEF totals, action
  <2> QED BY <1>0, <1>2, <1>3, AllocationSplits
<1>5. /\ \E F : split.fills \in Seq(F) /\ FillShape(Owners, F)
      /\ split.remaining \in Seq(LotsOf(Owners))
      /\ Taken(split.fills) \o Units(split.remaining) = Units(p.lots)
  <2> HIDE DEF split
  <2> QED BY <1>4 DEF SplitsLots
<1>6. Units(split.remaining) \in Seq(Owners)
  <2> HIDE DEF split
  <2>1. PICK acc : Queues(acc, split.remaining, Owners)
                   /\ Units(split.remaining) = acc[Len(split.remaining)]
    BY <1>5, UnitsUnroll
  <2>2. Len(split.remaining) \in 0 .. Len(split.remaining)
    BY <1>5
  <2> QED BY <2>1, <2>2 DEF Queues
<1>7. n.direction = p.direction => n.lots = split.remaining
  <2>1. CASE rest <= 0
    BY <2>1 DEF FlatPosition
  <2>2. CASE ~(rest <= 0)
    <3> HIDE DEF split, totals
    <3> QED BY <2>2 DEF PositionsOf
  <2> QED BY <2>1, <2>2
<1>8. r.position = n /\ r.fills = split.fills
  <2> HIDE DEF n, split, r
  <2> QED BY <1>1
<1> HIDE DEF n, split, r
<1> QED BY <1>5, <1>6, <1>7, <1>8 DEF SplitsPosition, r

\* What splits the queue takes its head, and keeps its tail.
LEMMA SplitTakesOldest ==
  ASSUME NEW Owners, NEW r, NEW p, SplitsPosition(r, p, Owners)
  PROVE  TakesOldest(r.fills, p, r.position)
<1>0. PICK F : /\ r.fills \in Seq(F) /\ FillShape(Owners, F)
               /\ \E kept \in Seq(Owners) :
                    /\ Taken(r.fills) \o kept = Units(p.lots)
                    /\ r.position.direction = p.direction => kept = Units(r.position.lots)
  BY DEF SplitsPosition
<1>1. PICK kept \in Seq(Owners) :
        /\ Taken(r.fills) \o kept = Units(p.lots)
        /\ r.position.direction = p.direction => kept = Units(r.position.lots)
  BY <1>0
<1>2. Taken(r.fills) \in Seq(Owners)
  BY <1>0, TakenType
<1> DEFINE taken == Taken(r.fills)
           before == Units(p.lots)
<1> HIDE DEF taken, before
<1>3. taken \o kept = before /\ taken \in Seq(Owners)
  BY <1>1, <1>2 DEF taken, before
<1>4. /\ taken = SubSeq(before, 1, Len(taken))
      /\ kept = SubSeq(before, Len(taken) + 1, Len(before))
      /\ Len(before) - Len(taken) = Len(kept) /\ kept = SubSeq(kept, 1, Len(kept))
  BY <1>3, HeadAndTail
<1> QED BY <1>1, <1>4 DEF TakesOldest, taken, before

\* A fill that does not close takes nothing.
LEMMA OpeningTakesNothing ==
  ASSUME NEW Owners, NEW F, FillShape(Owners, F), NEW fs \in Seq(F), NEW g \in F, ~IsClosing(g)
  PROVE  Taken(Append(fs, g)) = Taken(fs)
<1>1. Taken(fs) \in Seq(Owners)
      /\ Taken(Append(fs, g)) = Taken(fs) \o UnitsOf(Lot(g.strategyId, ClosedQty(g)))
  BY TakenExtend
<1>2. UnitsOf(Lot(g.strategyId, ClosedQty(g))) = <<>>
  <2>1. Lot(g.strategyId, ClosedQty(g)).qty = 0
    BY DEF Lot, ClosedQty
  <2>2. 1 .. Lot(g.strategyId, ClosedQty(g)).qty = {}
    BY <2>1
  <2> QED BY <2>2 DEF UnitsOf
<1> QED BY <1>1, <1>2, ConcatEmptySeq

LEMMA OneTakesNothing ==
  ASSUME NEW g, FillOK(g), ~IsClosing(g)
  PROVE  Taken(<<g>>) = <<>>
<1>1. FillShape(Strategies, {g}) /\ <<>> \in Seq({g}) /\ g \in {g} /\ <<g>> = Append(<<>>, g)
  BY DEF FillShape, FillOK
<1>2. Taken(Append(<<>>, g)) = Taken(<<>>)
  BY <1>1, OpeningTakesNothing
<1> QED BY <1>1, <1>2, TakenOfNone

\* Nothing taken, and the queue kept or grown at its end.
LEMMA NothingTaken ==
  ASSUME NEW lots \in Seq(LotsOf(Strategies)), NEW p, p.lots = lots, NEW fs, Taken(fs) = <<>>,
         NEW n, n.direction = p.direction =>
           n.lots = lots \/ \E l \in LotsOf(Strategies) : n.lots = Append(lots, l)
  PROVE  TakesOldest(fs, p, n)
<1> DEFINE before == Units(lots)
<1>1. before \in Seq(Strategies)
  <2>1. PICK acc : Queues(acc, lots, Strategies) /\ Units(lots) = acc[Len(lots)]
    BY UnitsUnroll
  <2>2. Len(lots) \in 0 .. Len(lots)
    OBVIOUS
  <2> QED BY <2>1, <2>2 DEF Queues
<1>2. ASSUME n.direction = p.direction
      PROVE  \E more \in Seq(Strategies) : Units(n.lots) = before \o more
  <2>1. CASE n.lots = lots
    <3>1. before \o <<>> = before /\ <<>> \in Seq(Strategies)
      <4> HIDE DEF before
      <4> QED BY <1>1, ConcatEmptySeq
    <3> QED BY <2>1, <3>1
  <2>2. CASE \E l \in LotsOf(Strategies) : n.lots = Append(lots, l)
    <3>1. PICK l \in LotsOf(Strategies) : n.lots = Append(lots, l)
      BY <2>2
    <3>2. Units(Append(lots, l)) = before \o UnitsOf(l)
      BY UnitsExtend
    <3>3. UnitsOf(l) \in Seq(Strategies)
      BY UnitsOfType
    <3> QED BY <3>1, <3>2, <3>3
  <2> QED BY <1>2, <2>1, <2>2
<1> HIDE DEF before
<1>3. <<>> = SubSeq(before, 1, 0) /\ Len(<<>>) = 0
  OBVIOUS
<1>4. Len(before) - 0 = Len(before) /\ 0 + 1 = 1
  BY <1>1
<1>5. n.direction = p.direction =>
        SubSeq(before, 1, Len(before)) = SubSeq(Units(n.lots), 1, Len(before))
  <2> SUFFICES ASSUME n.direction = p.direction
               PROVE  SubSeq(before, 1, Len(before)) = SubSeq(Units(n.lots), 1, Len(before))
    OBVIOUS
  <2>1. PICK more \in Seq(Strategies) : Units(n.lots) = before \o more
    BY <1>2
  <2> QED BY <1>1, <2>1, HeadAndTail, SubSeqFull
<1> QED BY <1>3, <1>4, <1>5 DEF TakesOldest, before

LEMMA OpenTakesNothing ==
  ASSUME NEW p \in PositionsOf(Strategies, Idx), p.direction = "none", NEW i, OpenerOK(i),
         NEW price \in Nat, NEW q \in Nat
  PROVE  TakesOldest(Open(i, price, q, "open").fills, p, Open(i, price, q, "open").position)
<1> DEFINE o == Open(i, price, q, "open")
<1>1. PICK g : o.fills = <<g>> /\ Told(g) /\ ~IsClosing(g) /\ g.strategyId = i.strategyId
  <2>1. "open" \in {"open", "flip_open"} /\ OpensWith(o.fills, i, q, MarginOf(q * price))
    BY OpenFill
  <2> HIDE DEF o
  <2> QED BY <2>1 DEF OpensWith
<1>2. o.position.direction # p.direction
  BY DEF Open, OpenerOK, Directions
<1> HIDE DEF o
<1>3. Taken(o.fills) = <<>>
  BY <1>1, OneTakesNothing DEF FillOK, Told, OpenerOK
<1>4. p.lots \in Seq(LotsOf(Strategies))
  BY DEF PositionsOf
<1>5. TakesOldest(o.fills, p, o.position)
  BY <1>2, <1>3, <1>4, NothingTaken
<1> QED BY <1>5 DEF o

LEMMA AddTakesNothing ==
  ASSUME NEW p \in PositionsOf(Strategies, Idx), NEW i, OpenerOK(i),
         NEW price \in Nat, NEW q \in Nat
  PROVE  TakesOldest(Add(p, i, price, q).fills, p, Add(p, i, price, q).position)
<1> DEFINE r == Add(p, i, price, q)
           g == Fill("add", i.strategyId, i.strategyId, p.direction, price, q,
                     MarginOf(q * price), 0, Fee(q * price))
           l == Lot(i.strategyId, q)
<1>1. r.fills = <<g>>
  BY DEF Add
<1>2. FillOK(g) /\ ~IsClosing(g)
  BY DEF Fill, FillOK, IsClosing, ClosingActions, OpenerOK
<1>3. p.lots \in Seq(LotsOf(Strategies)) /\ l \in LotsOf(Strategies)
  BY DEF PositionsOf, Lot, LotsOf, OpenerOK
<1>4. r.position.lots = Append(p.lots, l)
  BY DEF Add, PositionsOf
<1> HIDE DEF r, g, l
<1>5. Taken(r.fills) = <<>>
  BY <1>1, <1>2, OneTakesNothing
<1>6. TakesOldest(r.fills, p, r.position)
  BY <1>3, <1>4, <1>5, NothingTaken
<1> QED BY <1>6 DEF r

LEMMA FlipTakesOldest ==
  ASSUME NEW p \in PositionsOf(Strategies, Idx), p.direction \in Directions,
         NEW i, OpenerOK(i), i.direction # p.direction,
         NEW price \in Nat, NEW q \in Nat, q >= p.qty
  PROVE  TakesOldest(Flip(p, i, price, q).fills, p, Flip(p, i, price, q).position)
<1> DEFINE c == ReduceBy(p, p.qty, price, i.strategyId, "flip_close")
           rest == q - p.qty
           o == Open(i, price, rest, "flip_open")
           r == Flip(p, i, price, q)
<1>1. p.qty \in Nat /\ rest \in Nat
  BY DEF PositionsOf
<1>2. SplitsPosition(c, p, Strategies)
  <2>1. price \in Int /\ "flip_close" \in ClosingActions /\ p.direction # "none" /\ p.qty <= p.qty
    BY <1>1 DEF ClosingActions, Directions
  <2> QED BY <1>1, <2>1, ReduceSplits
<1>3. PICK g : o.fills = <<g>> /\ Told(g) /\ ~IsClosing(g) /\ g.strategyId = i.strategyId
  <2>1. "flip_open" \in {"open", "flip_open"}
    OBVIOUS
  <2> HIDE DEF rest
  <2>2. OpensWith(o.fills, i, rest, MarginOf(rest * price))
    BY <1>1, <2>1, OpenFill
  <2> HIDE DEF o
  <2> QED BY <2>2 DEF OpensWith
<1>4. r.position.direction # p.direction
  BY DEF Flip, Open
<1>5. r.fills = c.fills \o o.fills
  BY DEF Flip
<1> HIDE DEF c, o, r, rest
<1>a. PICK F : /\ c.fills \in Seq(F) /\ FillShape(Strategies, F)
               /\ \E kept \in Seq(Strategies) : Taken(c.fills) \o kept = Units(p.lots)
  BY <1>2 DEF SplitsPosition
<1>6. PICK kept \in Seq(Strategies) : Taken(c.fills) \o kept = Units(p.lots)
  BY <1>a
<1> DEFINE all == F \union {g}
<1>7. /\ FillShape(Strategies, all) /\ c.fills \in Seq(all) /\ g \in all
      /\ r.fills = Append(c.fills, g)
  <2>1. FillShape(Strategies, all)
    BY <1>3, <1>a DEF FillShape, Told, OpenerOK
  <2>2. c.fills \in Seq(all) /\ g \in all
    BY <1>a
  <2>3. c.fills \o <<g>> = Append(c.fills, g)
    BY <1>a
  <2> HIDE DEF all
  <2> QED BY <1>3, <1>5, <2>1, <2>2, <2>3
<1> HIDE DEF all
<1>8. Taken(r.fills) = Taken(c.fills)
  BY <1>3, <1>7, OpeningTakesNothing
<1>9. /\ r.fills \in Seq(all)
      /\ Taken(r.fills) \o kept = Units(p.lots)
      /\ ~(r.position.direction = p.direction)
  <2>1. r.fills \in Seq(all)
    BY <1>7
  <2> QED BY <1>4, <1>6, <1>8, <2>1
<1>10. SplitsPosition(r, p, Strategies)
  BY <1>7, <1>9 DEF SplitsPosition
<1> QED BY <1>10, SplitTakesOldest DEF r

LEMMA SignalTakesOldest ==
  ASSUME SoundInv, NEW s \in Strategies, NEW price \in Prices, NEW q \in Sizes,
         Signal(s, price, q)
  PROVE  TakesOldest(fills', pos, pos')
<1> DEFINE i == Intent(s)
<1>1. OpenerOK(i)
  BY LifecycleAssumption DEF LifecycleAssumption, OpenerOK, Intent, Idx, SoundInv
<1>2. price \in Nat /\ q \in Nat
  BY LifecycleAssumption DEF LifecycleAssumption
<1>3. /\ pos' = ApplyIntent(pos, i, price, q).position
      /\ fills' = ApplyIntent(pos, i, price, q).fills
  BY DEF Signal, Settle
<1>4. /\ pos \in PositionsOf(Strategies, Idx) /\ pos.direction \in Directions \union {"none"}
      /\ pos.qty \in Nat
  BY DEF SoundInv, PositionsOf
<1> HIDE DEF i
<1>5. CASE pos.direction = "none"
  BY <1>1, <1>2, <1>3, <1>4, <1>5, OpenTakesNothing DEF ApplyIntent
<1>6. CASE pos.direction # "none" /\ pos.direction = i.direction
  BY <1>1, <1>2, <1>3, <1>4, <1>6, AddTakesNothing DEF ApplyIntent
<1>7. CASE pos.direction # "none" /\ pos.direction # i.direction /\ q >= pos.qty
  <2>1. ApplyIntent(pos, i, price, q) = Flip(pos, i, price, q)
    BY <1>7 DEF ApplyIntent
  <2> QED BY <1>1, <1>2, <1>3, <1>4, <1>7, <2>1, FlipTakesOldest
<1>8. CASE pos.direction # "none" /\ pos.direction # i.direction /\ ~(q >= pos.qty)
  <2>1. ApplyIntent(pos, i, price, q) = ReduceBy(pos, q, price, i.strategyId, "close")
    BY <1>8 DEF ApplyIntent
  <2>2. q <= pos.qty /\ price \in Int /\ "close" \in ClosingActions
    BY <1>2, <1>4, <1>8 DEF ClosingActions
  <2>3. SplitsPosition(ReduceBy(pos, q, price, i.strategyId, "close"), pos, Strategies)
    BY <1>2, <1>4, <1>8, <2>2, ReduceSplits
  <2> QED BY <1>3, <2>1, <2>3, SplitTakesOldest
<1> QED BY <1>5, <1>6, <1>7, <1>8

LEMMA BarCloseTakesOldest ==
  ASSUME SoundInv, NEW bar \in Bars, NEW atr \in Atrs, NEW a \in Adjustments,
         BarClose(bar, atr, a)
  PROVE  TakesOldest(fills', pos, pos')
<1> DEFINE length == Least(candles + 1, Window)
           n      == Trailed(bar, atr).position
           exit   == ExitOf(n, Trailed(bar, atr).targetDisabled, bar, length)
<1>1. /\ pos.direction # "none"
      /\ n \in PositionsOf(Strategies, Idx) /\ n.direction = pos.direction /\ n.lots = pos.lots
  BY TrailedCovers DEF BarClose
<1>2. pos.lots \in Seq(LotsOf(Strategies))
  BY DEF SoundInv, PositionsOf
<1>3. CASE exit.reason = "none"
  <2>1. pos' = n /\ fills' = <<>>
    BY <1>3 DEF BarClose
  <2> HIDE DEF n, exit, length
  <2> QED BY <1>1, <1>2, <2>1, NothingTaken, TakenOfNone
<1>4. CASE exit.reason # "none"
  <2> DEFINE r == ReduceBy(n, n.qty, exit.price + a, pos.gov, "close")
  <2>1. pos' = r.position /\ fills' = r.fills
    BY <1>4 DEF BarClose, Settle, ClosePosition
  <2>2. exit.price + a \in Int
    <3> HIDE DEF n, length
    <3> QED BY <1>1, ExitPriceType
  <2> HIDE DEF n, exit, length
  <2>3. n.qty \in Nat /\ n.qty <= n.qty /\ n.direction # "none" /\ "close" \in ClosingActions
    BY <1>1 DEF PositionsOf, ClosingActions
  <2>4. SplitsPosition(r, n, Strategies)
    BY <1>1, <2>2, <2>3, ReduceSplits
  <2> HIDE DEF r
  <2>5. TakesOldest(r.fills, n, r.position)
    BY <2>4, SplitTakesOldest
  <2> QED BY <1>1, <2>1, <2>5 DEF TakesOldest
<1> QED BY <1>3, <1>4

\* The closing fills of every operation take the oldest units of the position and
\* leave the others in their order, whatever was opened, added, reduced, flipped or
\* exited before: a strategy's part of a loss or a profit is that of the units it
\* queued (allocateAcrossLots, symbol-position.ts:162-231).
THEOREM OldestUnitsGoFirst == Spec => FifoAttribution
<1>1. SoundInv /\ [Next]_vars => [TakesOldest(fills', pos, pos')]_vars
  <2> SUFFICES ASSUME SoundInv, [Next]_vars, ~UNCHANGED vars
               PROVE  TakesOldest(fills', pos, pos')
    OBVIOUS
  <2>1. CASE \E s \in Strategies, price \in Prices, q \in Sizes : Signal(s, price, q)
    BY <2>1, SignalTakesOldest
  <2>2. CASE \E bar \in Bars, atr \in Atrs, a \in Adjustments : BarClose(bar, atr, a)
    BY <2>2, BarCloseTakesOldest
  <2>3. CASE QuietBar
    <3>1. pos' = pos /\ fills' = <<>> /\ pos.lots \in Seq(LotsOf(Strategies))
      BY <2>3 DEF QuietBar, SoundInv, PositionsOf
    <3> QED BY <3>1, NothingTaken, TakenOfNone
  <2> QED BY <2>1, <2>2, <2>3 DEF Next
<1> QED BY InitSound, StepSound, <1>1, PTL DEF Spec, FifoAttribution

\* Both together, for every operation: what the fills say was closed is what the
\* oldest lots held, and replays to the change of the position.
THEOREM FillsAreAlwaysSound == Spec => FillsAreSound
  BY FillsExplainAlways, OldestUnitsGoFirst DEF FillsAreSound
=============================================================================
