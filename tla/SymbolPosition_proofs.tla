----------------------- MODULE SymbolPosition_proofs -----------------------
(***************************************************************************)
(* The sums of the netting rules: what the fills and the lots of a         *)
(* reduction add up to, for any lots, quantity and rounding.               *)
(***************************************************************************)
EXTENDS SymbolPosition, FoldTheorems

\* TotalOf is the sum of a list.
LEMMA TotalIsSum == ASSUME NEW m PROVE TotalOf(m) = SumOf(m)
BY DEF TotalOf, SumOf

LEMMA TotalUnrolls ==
  ASSUME NEW n \in Nat, NEW m \in [1 .. n -> Int]
  PROVE  \E acc : PartialSums(acc, m, n) /\ TotalOf(m) = acc[n]
BY SumUnrolls, TotalIsSum

LEMMA TotalExtends ==
  ASSUME NEW n \in Nat, NEW m \in [1 .. n -> Int], NEW o \in [1 .. n + 1 -> Int],
         \A i \in 1 .. n : o[i] = m[i]
  PROVE  TotalOf(o) = TotalOf(m) + o[n + 1]
BY SumExtends, TotalIsSum

LEMMA TotalOfNone ==
  ASSUME NEW m, DOMAIN m = {}, m \in [1 .. 0 -> Int]
  PROVE  TotalOf(m) = 0
BY SumOfNone, TotalIsSum

LEMMA TotalType ==
  ASSUME NEW n \in Nat, NEW m \in [1 .. n -> Int]
  PROVE  TotalOf(m) \in Int
BY SumType, TotalIsSum

LEMMA TotalNegated ==
  ASSUME NEW n \in Nat, NEW m \in [1 .. n -> Int], NEW o \in [1 .. n -> Int],
         \A i \in 1 .. n : o[i] = -m[i]
  PROVE  TotalOf(o) = -TotalOf(m)
BY SumNegated, TotalIsSum

-----------------------------------------------------------------------------
(* The FIFO lots a reduction consumes.                                     *)

LotsOf(Owners) == [strategyId : Owners, qty : Nat]

\* The fills of a cut.
FillsOf(cut, Owners) ==
  [action : {cut.action}, strategyId : Owners, trigger : {cut.trigger}, direction : {cut.dir},
   price : {cut.price}, qty : Nat, marginDelta : Int, realizedPnl : Int, feeUsd : Int]

CutOK(cut) == cut.qty \in Nat /\ cut.totals \in [Quantities -> Int]

Progress(cut, Owners) ==
  [toConsume : 0 .. cut.qty, done : [Quantities -> Int], fills : Seq(FillsOf(cut, Owners)),
   remaining : Seq(LotsOf(Owners))]

\* One more lot, or one more fill: a total moves by what it carries.
LEMMA ColumnExtends ==
  ASSUME NEW R, NEW field, \A r \in R : r[field] \in Int, NEW s \in Seq(R), NEW x \in R
  PROVE  /\ TotalOf(Column(s, field)) \in Int
         /\ TotalOf(Column(Append(s, x), field)) = TotalOf(Column(s, field)) + x[field]
<1> DEFINE n == Len(s)
           m == Column(s, field)
           o == Column(Append(s, x), field)
<1>1. n \in Nat /\ m \in [1 .. n -> Int] /\ o \in [1 .. n + 1 -> Int]
  BY DEF Column
<1>2. (\A i \in 1 .. n : o[i] = m[i]) /\ o[n + 1] = x[field]
  BY DEF Column
<1> HIDE DEF n, m, o
<1>3. TotalOf(o) = TotalOf(m) + o[n + 1] /\ TotalOf(m) \in Int
  BY <1>1, <1>2, TotalExtends, TotalType
<1> QED BY <1>2, <1>3 DEF m, o

LEMMA ColumnOfNone ==
  ASSUME NEW field
  PROVE  TotalOf(Column(<<>>, field)) = 0
<1>1. DOMAIN Column(<<>>, field) = {} /\ Column(<<>>, field) \in [1 .. 0 -> Int]
  BY DEF Column
<1> QED BY <1>1, TotalOfNone

LEMMA ColumnOfOne ==
  ASSUME NEW x, NEW field, x[field] \in Int
  PROVE  TotalOf(Column(<<x>>, field)) = x[field]
<1>1. TotalOf(Column(Append(<<>>, x), field)) = TotalOf(Column(<<>>, field)) + x[field]
  BY ColumnExtends, <<>> \in Seq({x})
<1>2. Append(<<>>, x) = <<x>>
  OBVIOUS
<1> QED BY <1>1, <1>2, ColumnOfNone

\* Nothing but fills and lots of the owners comes of a lot.
LEMMA ConsumeType ==
  ASSUME NEW cut, CutOK(cut), NEW Owners, NEW acc \in Progress(cut, Owners),
         NEW lot \in LotsOf(Owners)
  PROVE  Consume(acc, lot, cut) \in Progress(cut, Owners)
<1> DEFINE used  == Least(lot.qty, acc.toConsume)
           left  == acc.toConsume - used
           slice == [k \in Quantities |-> IF left <= 0 THEN cut.totals[k] - acc.done[k]
                                          ELSE (cut.totals[k] * used) \div cut.qty]
           done == [k \in Quantities |-> acc.done[k] + slice[k]]
           fill == Fill(cut.action, lot.strategyId, cut.trigger, cut.dir, cut.price, used,
                        -slice["margin"], slice["pnl"], slice["fee"])
<1>0. /\ acc.toConsume \in 0 .. cut.qty /\ acc.done \in [Quantities -> Int]
      /\ acc.fills \in Seq(FillsOf(cut, Owners)) /\ acc.remaining \in Seq(LotsOf(Owners))
      /\ lot.qty \in Nat /\ lot.strategyId \in Owners
      /\ cut.qty \in Nat /\ cut.totals \in [Quantities -> Int]
  BY DEF Progress, LotsOf, CutOK
<1>1. CASE acc.toConsume <= 0
  <2>1. Consume(acc, lot, cut) = [acc EXCEPT !.remaining = Append(acc.remaining, lot)]
    BY <1>1 DEF Consume
  <2>2. Append(acc.remaining, lot) \in Seq(LotsOf(Owners))
    BY <1>0
  <2> QED BY <2>1, <2>2 DEF Progress
<1>2. CASE acc.toConsume > 0
  <2>1. /\ used \in Nat /\ left \in 0 .. cut.qty /\ lot.qty - used \in Nat
        /\ cut.qty \in Nat \ {0}
    BY <1>0, <1>2 DEF Least
  <2>2. slice \in [Quantities -> Int]
    <3> HIDE DEF used, left
    <3>1. ASSUME NEW k \in Quantities
          PROVE  (cut.totals[k] * used) \div cut.qty \in Int /\ cut.totals[k] - acc.done[k] \in Int
      <4>1. cut.totals[k] \in Int /\ acc.done[k] \in Int
        BY <1>0
      <4>2. cut.totals[k] * used \in Int
        BY <2>1, <4>1
      <4> QED BY <2>1, <4>1, <4>2
    <3> QED BY <3>1
  <2>3. slice["margin"] \in Int /\ slice["pnl"] \in Int /\ slice["fee"] \in Int
    <3> HIDE DEF slice
    <3> QED BY <2>2 DEF Quantities
  <2>4. fill \in FillsOf(cut, Owners)
    <3> HIDE DEF slice, used
    <3> QED BY <1>0, <2>1, <2>3 DEF Fill, FillsOf
  <2>5. done \in [Quantities -> Int]
    <3> HIDE DEF slice
    <3> QED BY <1>0, <2>2
  <2>6. Lot(lot.strategyId, lot.qty - used) \in LotsOf(Owners)
    <3> HIDE DEF used
    <3> QED BY <1>0, <2>1 DEF Lot, LotsOf
  <2>7. Consume(acc, lot, cut) =
          [toConsume |-> left, done |-> done, fills |-> Append(acc.fills, fill),
           remaining |-> IF lot.qty - used > 0
                         THEN Append(acc.remaining, Lot(lot.strategyId, lot.qty - used))
                         ELSE acc.remaining]
    BY <1>0, <1>2 DEF Consume
  <2> HIDE DEF used, left, slice, done, fill
  <2> QED BY <1>0, <2>1, <2>4, <2>5, <2>6, <2>7 DEF Progress
<1> QED BY <1>0, <1>1, <1>2

\* The sums so far, after lots of `sum' units in all.
Counted(acc, cut, sum) ==
  /\ acc.toConsume = IF sum <= cut.qty THEN cut.qty - sum ELSE 0
  /\ TotalOf(Column(acc.fills, "qty")) = cut.qty - acc.toConsume
  /\ TotalOf(Column(acc.remaining, "qty")) = sum - (cut.qty - acc.toConsume)
Shared(acc, cut) ==
  /\ TotalOf(Column(acc.fills, "realizedPnl")) = acc.done["pnl"]
  /\ TotalOf(Column(acc.fills, "feeUsd")) = acc.done["fee"]
  /\ TotalOf(Column(acc.fills, "marginDelta")) = -acc.done["margin"]
  /\ cut.qty > 0 /\ acc.toConsume = 0 => acc.done = cut.totals
  /\ cut.qty = 0 => acc.done = [k \in Quantities |-> 0]
Consumed(acc, cut, sum) == Counted(acc, cut, sum) /\ Shared(acc, cut)

\* One lot's part keeps the books: what is consumed and what remains add up,
\* and the last slice closes the gap to the totals.
LEMMA ConsumeSums ==
  ASSUME NEW cut, CutOK(cut), NEW Owners, NEW acc \in Progress(cut, Owners),
         NEW lot \in LotsOf(Owners), NEW sum \in Nat, Consumed(acc, cut, sum)
  PROVE  Consumed(Consume(acc, lot, cut), cut, sum + lot.qty)
<1> DEFINE n == Consume(acc, lot, cut)
<1>0. /\ acc.toConsume \in 0 .. cut.qty /\ acc.done \in [Quantities -> Int]
      /\ acc.fills \in Seq(FillsOf(cut, Owners)) /\ acc.remaining \in Seq(LotsOf(Owners))
      /\ lot.qty \in Nat /\ lot.strategyId \in Owners
      /\ cut.qty \in Nat /\ cut.totals \in [Quantities -> Int]
  BY DEF Progress, LotsOf, CutOK
<1>a. /\ \A r \in FillsOf(cut, Owners) : r["qty"] \in Int /\ r["realizedPnl"] \in Int
                                         /\ r["feeUsd"] \in Int /\ r["marginDelta"] \in Int
      /\ \A r \in LotsOf(Owners) : r["qty"] \in Int
  BY DEF FillsOf, LotsOf
<1>b. ASSUME NEW x \in LotsOf(Owners)
      PROVE  TotalOf(Column(Append(acc.remaining, x), "qty"))
               = TotalOf(Column(acc.remaining, "qty")) + x.qty
  BY <1>0, <1>a, ColumnExtends
<1>1. CASE acc.toConsume <= 0
  <2>1. n = [acc EXCEPT !.remaining = Append(acc.remaining, lot)]
    BY <1>1 DEF Consume
  <2>2. /\ n.toConsume = acc.toConsume /\ n.done = acc.done /\ n.fills = acc.fills
        /\ n.remaining = Append(acc.remaining, lot)
    BY <2>1 DEF Progress
  <2>3. sum >= cut.qty /\ acc.toConsume = 0
    BY <1>0, <1>1 DEF Consumed, Counted, Shared
  <2> HIDE DEF n
  <2>4. n.toConsume = IF sum + lot.qty <= cut.qty THEN cut.qty - (sum + lot.qty) ELSE 0
    BY <1>0, <2>2, <2>3
  <2>5. TotalOf(Column(n.remaining, "qty")) = sum + lot.qty - (cut.qty - n.toConsume)
    BY <1>0, <1>b, <2>2, <2>3 DEF Consumed, Counted, Shared
  <2>6. Consumed(n, cut, sum + lot.qty)
    <3>1. /\ n.done["pnl"] = acc.done["pnl"] /\ n.done["fee"] = acc.done["fee"]
          /\ n.done["margin"] = acc.done["margin"]
      BY <2>2
    <3>2. /\ cut.qty > 0 /\ n.toConsume = 0 => n.done = cut.totals
          /\ cut.qty = 0 => n.done = [k \in Quantities |-> 0]
      BY <1>0, <2>2, <2>3 DEF Consumed, Counted, Shared
    <3>3. /\ TotalOf(Column(n.fills, "qty")) = cut.qty - n.toConsume
          /\ TotalOf(Column(n.fills, "realizedPnl")) = n.done["pnl"]
          /\ TotalOf(Column(n.fills, "feeUsd")) = n.done["fee"]
          /\ TotalOf(Column(n.fills, "marginDelta")) = -n.done["margin"]
      BY <2>2, <3>1 DEF Consumed, Counted, Shared
    <3>4. Counted(n, cut, sum + lot.qty)
      BY <1>0, <2>4, <2>5, <3>3 DEF Counted
    <3>5. Shared(n, cut)
      BY <3>2, <3>3 DEF Shared
    <3> QED BY <3>4, <3>5 DEF Consumed
  <2> QED BY <2>6 DEF n
<1>2. CASE acc.toConsume > 0
  <2> DEFINE used  == Least(lot.qty, acc.toConsume)
             left  == acc.toConsume - used
             slice == [k \in Quantities |-> IF left <= 0 THEN cut.totals[k] - acc.done[k]
                                            ELSE (cut.totals[k] * used) \div cut.qty]
             done == [k \in Quantities |-> acc.done[k] + slice[k]]
             fill == Fill(cut.action, lot.strategyId, cut.trigger, cut.dir, cut.price, used,
                          -slice["margin"], slice["pnl"], slice["fee"])
             rest == Lot(lot.strategyId, lot.qty - used)
  <2>1. /\ n.toConsume = left /\ n.done = done /\ n.fills = Append(acc.fills, fill)
        /\ n.remaining = IF lot.qty - used > 0 THEN Append(acc.remaining, rest)
                         ELSE acc.remaining
    BY <1>0, <1>2, SMTT(40) DEF Consume
  <2>2. n \in Progress(cut, Owners)
    BY ConsumeType
  <2>3. Append(acc.fills, fill) \in Seq(FillsOf(cut, Owners))
    <3> HIDE DEF n, fill
    <3> QED BY <2>1, <2>2 DEF Progress
  <2>4. fill \in FillsOf(cut, Owners)
    <3> HIDE DEF fill
    <3>1. Append(acc.fills, fill)[Len(acc.fills) + 1] = fill
          /\ Len(acc.fills) + 1 \in 1 .. Len(Append(acc.fills, fill))
      BY <1>0
    <3> QED BY <2>3, <3>1
  <2>5. /\ fill.qty = used /\ fill.marginDelta = -slice["margin"]
        /\ fill.realizedPnl = slice["pnl"] /\ fill.feeUsd = slice["fee"]
    BY DEF Fill
  <2>6. /\ used \in Nat /\ used <= lot.qty /\ used <= acc.toConsume
        /\ used = lot.qty \/ used = acc.toConsume
    BY <1>0, <1>2 DEF Least
  <2>7. rest.qty = lot.qty - used /\ rest \in LotsOf(Owners)
    <3> HIDE DEF used
    <3> QED BY <1>0, <2>6 DEF Lot, LotsOf
  <2>8. \A k \in Quantities : done[k] = acc.done[k] + slice[k]
    <3> HIDE DEF slice
    <3> QED OBVIOUS
  <2>9. left <= 0 => done = cut.totals
    <3> HIDE DEF left
    <3> SUFFICES ASSUME left <= 0 PROVE done = cut.totals OBVIOUS
    <3>1. \A k \in Quantities : slice[k] = cut.totals[k] - acc.done[k]
      OBVIOUS
    <3>2. \A k \in Quantities : acc.done[k] \in Int /\ cut.totals[k] \in Int
      BY <1>0
    <3>3. \A k \in Quantities : done[k] = cut.totals[k]
      <4> HIDE DEF slice, done
      <4> QED BY <2>8, <3>1, <3>2
    <3> HIDE DEF slice
    <3> QED BY <1>0, <3>3
  <2> HIDE DEF n, slice, done, fill, rest, used, left
  <2>10. /\ TotalOf(Column(n.fills, "qty")) = TotalOf(Column(acc.fills, "qty")) + fill.qty
         /\ TotalOf(Column(n.fills, "realizedPnl"))
              = TotalOf(Column(acc.fills, "realizedPnl")) + fill.realizedPnl
         /\ TotalOf(Column(n.fills, "feeUsd"))
              = TotalOf(Column(acc.fills, "feeUsd")) + fill.feeUsd
         /\ TotalOf(Column(n.fills, "marginDelta"))
              = TotalOf(Column(acc.fills, "marginDelta")) + fill.marginDelta
    BY <1>0, <1>a, <2>1, <2>4, ColumnExtends, SMTT(40)
  <2>11. /\ done["pnl"] = acc.done["pnl"] + slice["pnl"]
         /\ done["fee"] = acc.done["fee"] + slice["fee"]
         /\ done["margin"] = acc.done["margin"] + slice["margin"]
    BY <2>8 DEF Quantities
  <2>12. slice["margin"] \in Int /\ acc.done["margin"] \in Int
    <3>1. done["margin"] \in Int
      BY <2>1, <2>2 DEF Progress, Quantities
    <3>2. acc.done["margin"] \in Int
      BY <1>0 DEF Quantities
    <3>3. fill.marginDelta \in Int
      BY <2>4 DEF FillsOf
    <3> USE DEF slice, left, used
    <3>4. slice["margin"] = IF left <= 0 THEN cut.totals["margin"] - acc.done["margin"]
                            ELSE (cut.totals["margin"] * used) \div cut.qty
      BY DEF Quantities
    <3> HIDE DEF slice, left, used
    <3>5. cut.totals["margin"] \in Int /\ cut.qty \in Nat \ {0}
      BY <1>0, <1>2 DEF Quantities
    <3>6. cut.totals["margin"] * used \in Int
      BY <2>6, <3>5
    <3> QED BY <3>2, <3>4, <3>5, <3>6
  <2>13. TotalOf(Column(n.fills, "marginDelta")) = -done["margin"]
    BY <2>5, <2>10, <2>11, <2>12 DEF Consumed, Counted, Shared
  <2>14. n.toConsume = IF sum + lot.qty <= cut.qty THEN cut.qty - (sum + lot.qty) ELSE 0
    <3>1. sum < cut.qty /\ acc.toConsume = cut.qty - sum /\ left = acc.toConsume - used
      BY <1>0, <1>2 DEF Consumed, Counted, left
    <3> QED BY <1>0, <2>1, <2>6, <3>1, SMTT(40)
  <2>15. TotalOf(Column(n.fills, "qty")) = cut.qty - n.toConsume
    BY <1>0, <2>1, <2>5, <2>6, <2>10 DEF Consumed, Counted, left
  <2>16. TotalOf(Column(n.remaining, "qty")) = TotalOf(Column(acc.remaining, "qty")) + (lot.qty - used)
    <3>1. CASE lot.qty - used > 0
      BY <1>b, <2>1, <2>7, <3>1
    <3>2. CASE ~(lot.qty - used > 0)
      <4>1. lot.qty - used = 0
        BY <1>0, <2>6, <3>2
      <4>2. TotalOf(Column(acc.remaining, "qty")) \in Int
        BY <1>0 DEF Consumed, Counted, Shared
      <4> QED BY <2>1, <3>2, <4>1, <4>2
    <3> QED BY <3>1, <3>2
  <2>17. TotalOf(Column(n.remaining, "qty")) = sum + lot.qty - (cut.qty - n.toConsume)
    <3>1. n.toConsume = acc.toConsume - used
      BY <2>1 DEF left
    <3>2. TotalOf(Column(acc.remaining, "qty")) = sum - (cut.qty - acc.toConsume)
      BY DEF Consumed, Counted, Shared
    <3> QED BY <1>0, <2>6, <2>16, <3>1, <3>2, SMTT(40)
  <2>18. /\ TotalOf(Column(n.fills, "realizedPnl")) = n.done["pnl"]
         /\ TotalOf(Column(n.fills, "feeUsd")) = n.done["fee"]
         /\ TotalOf(Column(n.fills, "marginDelta")) = -n.done["margin"]
    BY <2>1, <2>5, <2>10, <2>11, <2>13 DEF Consumed, Counted, Shared
  <2>19. n.toConsume = 0 => n.done = cut.totals
    BY <1>0, <2>1, <2>9
  <2>20. Consumed(n, cut, sum + lot.qty)
    <3>1. Counted(n, cut, sum + lot.qty)
      BY <1>0, <2>14, <2>15, <2>17 DEF Counted
    <3>2. Shared(n, cut)
      BY <1>0, <1>2, <2>18, <2>19 DEF Shared
    <3> QED BY <3>1, <3>2 DEF Consumed
  <2> QED BY <2>20 DEF n
<1> QED BY <1>0, <1>1, <1>2

\* The states of the loop over the lots, one after the other.
Steps(acc, lots, cut, Owners) ==
  /\ acc \in [0 .. Len(lots) -> Progress(cut, Owners)]
  /\ acc[0] = NothingConsumed(cut.qty)
  /\ \A i \in 1 .. Len(lots) : acc[i] = Consume(acc[i - 1], lots[i], cut)

CutOf(q, totals, action, trigger, dir, price) ==
  [qty |-> q, totals |-> totals, action |-> action, trigger |-> trigger,
   dir |-> dir, price |-> price]

LEMMA AllocationUnrolls ==
  ASSUME NEW Owners, NEW lots \in Seq(LotsOf(Owners)), NEW q \in Nat,
         NEW totals \in [Quantities -> Int], NEW action, NEW trigger, NEW dir, NEW price
  PROVE  LET cut == CutOf(q, totals, action, trigger, dir, price)
         IN  /\ CutOK(cut)
             /\ \E acc : /\ Steps(acc, lots, cut, Owners)
                         /\ AllocateAcrossLots(lots, q, totals, action, trigger, dir, price)
                              = acc[Len(lots)]
<1> DEFINE n == Len(lots)
           cut == CutOf(q, totals, action, trigger, dir, price)
           S == Progress(cut, Owners)
           none == NothingConsumed(q)
           IsFold(g) == g = [s \in SUBSET (1 .. n) |->
                               IF s = {} THEN none
                               ELSE Consume(g[s \ {Max(s)}], lots[Max(s)], cut)]
           iter == CHOOSE g : IsFold(g)
           step == [p \in (1 .. n) \X S |-> Consume(p[2], lots[p[1]], cut)]
           acc == [i \in 0 .. n |-> iter[1 .. i]]
<1>1. AllocateAcrossLots(lots, q, totals, action, trigger, dir, price) = iter[1 .. n]
  <2>1. DOMAIN lots = 1 .. n OBVIOUS
  <2> HIDE DEF step, acc, S
  <2> QED BY <2>1 DEF AllocateAcrossLots, CutOf, FoldLeft, MapThenFoldSet
<1>2. CutOK(cut) /\ cut.qty = q
  BY DEF CutOf, CutOK
<1>3. none \in S /\ none = NothingConsumed(cut.qty)
  <2>1. [k \in Quantities |-> 0] \in [Quantities -> Int] OBVIOUS
  <2>2. <<>> \in Seq(FillsOf(cut, Owners)) /\ <<>> \in Seq(LotsOf(Owners)) OBVIOUS
  <2> HIDE DEF cut
  <2> QED BY <1>2, <2>1, <2>2 DEF NothingConsumed, Progress
<1>4. acc = [i \in 0 .. n |-> iter[1 .. i]]
  OBVIOUS
<1>5. \A i \in 1 .. n : lots[i] \in LotsOf(Owners)
  OBVIOUS
<1>6. \A p \in (1 .. n) \X S : step[p] = Consume(p[2], lots[p[1]], cut)
  <2> HIDE DEF S, cut
  <2> QED OBVIOUS
<1>7. step \in [(1 .. n) \X S -> S]
  <2>1. \A p \in (1 .. n) \X S : Consume(p[2], lots[p[1]], cut) \in S
    <3> HIDE DEF cut
    <3> QED BY <1>2, <1>5, ConsumeType
  <2> HIDE DEF S, cut
  <2> QED BY <2>1
<1>a. n \in Nat
  OBVIOUS
<1> HIDE DEF n, cut, S, none, step, acc, iter, IsFold
<1>8. PICK f \in [SUBSET (1 .. n) -> S] : FoldsTo(f, n, none, step)
  BY <1>a, <1>3, <1>7, FoldExists
<1>9. IsFold(f)
  <2>1. ASSUME NEW s \in SUBSET (1 .. n)
        PROVE  f[s] = IF s = {} THEN none ELSE Consume(f[s \ {Max(s)}], lots[Max(s)], cut)
    <3>1. s # {} => Max(s) \in 1 .. n /\ f[s \ {Max(s)}] \in S
      BY <1>a, MaxUpTo
    <3> QED BY <1>6, <1>8, <3>1 DEF FoldsTo
  <2> QED BY <2>1 DEF IsFold
<1>10. IsFold(iter)
  BY <1>9 DEF iter
<1>11. iter[{}] = none
  <2>1. {} \in SUBSET (1 .. n) OBVIOUS
  <2> QED BY <1>10, <2>1 DEF IsFold
<1>12. \A i \in 1 .. n : iter[1 .. i] = Consume(iter[1 .. i - 1], lots[i], cut)
  <2> TAKE i \in 1 .. n
  <2>1. /\ 1 .. i \in SUBSET (1 .. n) /\ 1 .. i # {}
        /\ Max(1 .. i) = i /\ (1 .. i) \ {i} = 1 .. i - 1
    BY <1>a, IntervalStep
  <2>2. iter[1 .. i] = Consume(iter[(1 .. i) \ {Max(1 .. i)}], lots[Max(1 .. i)], cut)
    BY <1>10, <2>1 DEF IsFold
  <2> QED BY <2>1, <2>2
<1>13. acc[0] = none /\ \A i \in 1 .. n : acc[i] = Consume(acc[i - 1], lots[i], cut)
  <2>1. 1 .. 0 = {} /\ 0 \in 0 .. n
    BY <1>a
  <2>2. \A i \in 0 .. n : acc[i] = iter[1 .. i]
    BY <1>4
  <2>3. \A i \in 1 .. n : i \in 0 .. n /\ i - 1 \in 0 .. n
    BY <1>a
  <2> QED BY <1>11, <1>12, <2>1, <2>2, <2>3
<1>14. acc \in [0 .. n -> S]
  <2> DEFINE Good == {i \in 0 .. n : acc[i] \in S}
  <2>1. 0 \in Good
    BY <1>a, <1>3, <1>13
  <2>2. ASSUME NEW i \in 1 .. n, i - 1 \in Good PROVE i \in Good
    <3>1. acc[i] = Consume(acc[i - 1], lots[i], cut) /\ acc[i - 1] \in S
      BY <1>13, <2>2
    <3>2. Consume(acc[i - 1], lots[i], cut) \in S
      BY <1>2, <1>5, <3>1, ConsumeType DEF S
    <3> QED BY <1>a, <3>1, <3>2
  <2>3. \A i \in 0 .. n : i \in Good
    <3> HIDE DEF Good
    <3> QED BY <1>a, <2>1, <2>2, InductionTo
  <2> QED BY <1>4, <2>3
<1>15. acc[n] = iter[1 .. n]
  BY <1>a, <1>4
<1>16. Steps(acc, lots, cut, Owners)
  BY <1>3, <1>13, <1>14 DEF Steps, S, n
<1> QED BY <1>1, <1>2, <1>15, <1>16 DEF n, cut

\* allocateAcrossLots (symbol-position.ts:162-231): for every FIFO queue of lots,
\* every cut no larger than what they hold and every rounding, the fills take
\* exactly the cut, the lots keep exactly the rest, and the slices of PnL, fee and
\* margin add up to the totals -- no unit and no cent is attributed to nobody.
THEOREM AllocationAddsUp ==
  ASSUME NEW Owners, NEW lots \in Seq(LotsOf(Owners)), NEW q \in Nat,
         q <= TotalOf(Column(lots, "qty")),
         NEW totals \in [Quantities -> Int], NEW action, NEW trigger, NEW dir, NEW price
  PROVE  LET split == AllocateAcrossLots(lots, q, totals, action, trigger, dir, price)
         IN  /\ split.remaining \in Seq(LotsOf(Owners))
             /\ split.fills \in Seq(FillsOf(CutOf(q, totals, action, trigger, dir, price), Owners))
             /\ TotalOf(Column(split.fills, "qty")) = q
             /\ TotalOf(Column(split.remaining, "qty")) = TotalOf(Column(lots, "qty")) - q
             /\ TotalOf(Column(split.fills, "realizedPnl")) = IF q = 0 THEN 0 ELSE totals.pnl
             /\ TotalOf(Column(split.fills, "feeUsd")) = IF q = 0 THEN 0 ELSE totals.fee
             /\ TotalOf(Column(split.fills, "marginDelta")) = IF q = 0 THEN 0 ELSE -totals.margin
<1> DEFINE n == Len(lots)
           cut == CutOf(q, totals, action, trigger, dir, price)
           amounts == Column(lots, "qty")
<1>1. CutOK(cut) /\ cut.qty = q /\ cut.totals = totals
  BY DEF CutOf, CutOK
<1>2. PICK acc : /\ Steps(acc, lots, cut, Owners)
                 /\ AllocateAcrossLots(lots, q, totals, action, trigger, dir, price) = acc[n]
  BY AllocationUnrolls
<1>4. n \in Nat /\ DOMAIN lots = 1 .. n /\ \A i \in 1 .. n : lots[i] \in LotsOf(Owners)
  OBVIOUS
<1>3. amounts \in [1 .. n -> Int] /\ \A i \in 1 .. n : amounts[i] = lots[i].qty /\ lots[i].qty \in Nat
  <2>1. amounts = [i \in 1 .. n |-> lots[i].qty]
    BY <1>4 DEF Column
  <2>2. \A i \in 1 .. n : lots[i].qty \in Nat
    BY <1>4 DEF LotsOf
  <2> HIDE DEF amounts, n
  <2> QED BY <2>1, <2>2
<1> HIDE DEF cut, amounts
<1>5. PICK sum : PartialSums(sum, amounts, n) /\ TotalOf(amounts) = sum[n]
  BY <1>3, <1>4, TotalUnrolls
<1> DEFINE Good == {i \in 0 .. n : sum[i] \in Nat /\ Consumed(acc[i], cut, sum[i])}
<1>6. 0 \in Good
  <2>1. acc[0] = NothingConsumed(q)
    BY <1>1, <1>2 DEF Steps
  <2>2. sum[0] = 0
    BY <1>5 DEF PartialSums
  <2>3. Counted(acc[0], cut, 0)
    BY <1>1, <2>1, ColumnOfNone DEF Counted, NothingConsumed
  <2>4. Shared(acc[0], cut)
    BY <1>1, <2>1, ColumnOfNone DEF Shared, NothingConsumed, Quantities
  <2> QED BY <1>4, <2>2, <2>3, <2>4 DEF Consumed
<1>7. ASSUME NEW i \in 1 .. n, i - 1 \in Good PROVE i \in Good
  <2>1. sum[i] = sum[i - 1] + lots[i].qty /\ sum[i - 1] \in Nat /\ lots[i].qty \in Nat
    BY <1>3, <1>5, <1>7 DEF PartialSums
  <2>2. acc[i] = Consume(acc[i - 1], lots[i], cut) /\ acc[i - 1] \in Progress(cut, Owners)
    <3>1. i - 1 \in 0 .. n
      BY <1>4
    <3> QED BY <1>2, <3>1 DEF Steps
  <2>3. Consumed(Consume(acc[i - 1], lots[i], cut), cut, sum[i - 1] + lots[i].qty)
    BY <1>1, <1>4, <1>7, <2>1, <2>2, ConsumeSums
  <2> QED BY <1>4, <2>1, <2>2, <2>3
<1>8. n \in Good
  <2> HIDE DEF Good
  <2>1. \A i \in 0 .. n : i \in Good
    BY <1>4, <1>6, <1>7, InductionTo
  <2> QED BY <1>4, <2>1
<1>9. /\ Consumed(acc[n], cut, sum[n]) /\ sum[n] \in Nat /\ q <= sum[n]
      /\ sum[n] = TotalOf(Column(lots, "qty"))
  BY <1>5, <1>8 DEF amounts
<1>10. acc[n] \in Progress(cut, Owners)
  BY <1>2, <1>4 DEF Steps
<1>11. acc[n].toConsume = 0
  BY <1>1, <1>9 DEF Consumed, Counted
<1>12. /\ TotalOf(Column(acc[n].fills, "qty")) = q
       /\ TotalOf(Column(acc[n].remaining, "qty")) = sum[n] - q
  BY <1>1, <1>9, <1>11 DEF Consumed, Counted
<1>13. /\ acc[n].remaining \in Seq(LotsOf(Owners))
       /\ acc[n].fills \in Seq(FillsOf(cut, Owners))
  BY <1>10 DEF Progress
<1>14. /\ acc[n].done["pnl"] = IF q = 0 THEN 0 ELSE totals.pnl
       /\ acc[n].done["fee"] = IF q = 0 THEN 0 ELSE totals.fee
       /\ acc[n].done["margin"] = IF q = 0 THEN 0 ELSE totals.margin
  <2>1. acc[n].done = IF q = 0 THEN [k \in Quantities |-> 0] ELSE totals
    BY <1>1, <1>9, <1>11 DEF Consumed, Shared
  <2>2. totals.margin = totals["margin"] /\ totals.pnl = totals["pnl"] /\ totals.fee = totals["fee"]
    OBVIOUS
  <2>3. {"pnl", "fee", "margin"} = Quantities
    BY DEF Quantities
  <2> QED BY <2>1, <2>2, <2>3
<1>15. /\ TotalOf(Column(acc[n].fills, "realizedPnl")) = acc[n].done["pnl"]
       /\ TotalOf(Column(acc[n].fills, "feeUsd")) = acc[n].done["fee"]
       /\ TotalOf(Column(acc[n].fills, "marginDelta")) = -acc[n].done["margin"]
  BY <1>9 DEF Consumed, Shared
<1> QED BY <1>2, <1>9, <1>12, <1>13, <1>14, <1>15 DEF cut

-----------------------------------------------------------------------------
(* The position and its lots.                                              *)

PositionsOf(Owners, Idx) ==
  [direction : Directions \union {"none"}, qty : Nat, avgEntry : Int, margin : Nat,
   gov : Owners \union {NoOne}, stop : Int, target : Int, liq : Int, entryIdx : Idx,
   contributors : SUBSET Owners, lots : Seq(LotsOf(Owners)),
   trailing : [phase : Phases, extreme : Int]]

\* The lots add up to the position and name its contributors, and nothing held
\* carries no margin.
Covered(p) ==
  /\ TotalOf(Column(p.lots, "qty")) = p.qty
  /\ p.contributors = LotOwners(p.lots)
  /\ p.qty = 0 => p.margin = 0
  /\ p.direction = "none" => p.qty = 0

\* A proportional share of an amount is at most the amount, and all of it for all.
LEMMA ShareBound ==
  ASSUME NEW m \in Nat, NEW q \in Nat, NEW d \in Nat \ {0}, q <= d
  PROVE  /\ (m * q) \div d \in 0 .. m
         /\ q = d => (m * q) \div d = m
<1> DEFINE k == (m * q) \div d
<1>1. m * q \in Nat /\ m * q <= m * d /\ m * d \in Nat
  OBVIOUS
<1>2. k \in Int /\ d * k <= m * q /\ m * q < d * k + d
  <2> DEFINE x == m * q
  <2>1. x \in Nat BY <1>1
  <2> HIDE DEF x
  <2>2. x \div d \in Int /\ d * (x \div d) <= x /\ x < d * (x \div d) + d
    BY <2>1
  <2> QED BY <2>2 DEF x
<1> HIDE DEF k
<1>3. k >= 0
  <2> SUFFICES ASSUME k <= -1 PROVE FALSE BY <1>2
  <2>1. d * k <= -d BY <1>2
  <2> QED BY <1>1, <1>2, <2>1
<1>4. k <= m
  <2> SUFFICES ASSUME k >= m + 1 PROVE FALSE BY <1>2
  <2>1. d * k >= d * (m + 1) BY <1>2
  <2>2. d * (m + 1) = m * d + d OBVIOUS
  <2> QED BY <1>1, <1>2, <2>1, <2>2
<1>5. q = d => k = m
  <2> SUFFICES ASSUME q = d, k <= m - 1 PROVE FALSE BY <1>2, <1>4
  <2>1. d * k <= d * (m - 1) BY <1>2
  <2>2. d * (m - 1) = m * d - d OBVIOUS
  <2> QED BY <1>1, <1>2, <2>1, <2>2
<1> QED BY <1>2, <1>3, <1>4, <1>5 DEF k

LEMMA LotType ==
  ASSUME NEW Owners, NEW s \in Owners, NEW q \in Nat
  PROVE  Lot(s, q) \in LotsOf(Owners) /\ Lot(s, q).qty = q /\ Lot(s, q).strategyId = s
  BY DEF Lot, LotsOf

LEMMA OwnersType ==
  ASSUME NEW Owners, NEW lots \in Seq(LotsOf(Owners))
  PROVE  LotOwners(lots) \in SUBSET Owners
<1>1. \A i \in DOMAIN lots : lots[i] \in LotsOf(Owners)
  OBVIOUS
<1>2. \A i \in DOMAIN lots : lots[i].strategyId \in Owners
  BY <1>1 DEF LotsOf
<1> QED BY <1>2 DEF LotOwners

LEMMA FeeType ==
  ASSUME NEW notional \in Int
  PROVE  Fee(notional) \in Int /\ (notional = 0 => Fee(notional) = 0)
  BY PositionAssumption DEF PositionAssumption, Fee

LEMMA MarginType ==
  ASSUME NEW notional \in Nat
  PROVE  MarginOf(notional) \in Nat /\ (notional = 0 => MarginOf(notional) = 0)
  BY PositionAssumption DEF PositionAssumption, MarginOf

LEMMA FlatCovers ==
  ASSUME NEW Owners, NEW Idx, 0 \in Idx
  PROVE  FlatPosition \in PositionsOf(Owners, Idx) /\ Covered(FlatPosition)
<1>1. FlatPosition \in PositionsOf(Owners, Idx)
  BY DEF FlatPosition, PositionsOf, NoTrail, Phases
<1>2. LotOwners(<<>>) = {}
  BY DEF LotOwners
<1> QED BY <1>1, <1>2, ColumnOfNone DEF FlatPosition, Covered

\* The opener's position holds one lot, its own.
LEMMA OpenCovers ==
  ASSUME NEW Owners, NEW Idx, NEW i, i.strategyId \in Owners, i.direction \in Directions,
         i.entryIdx \in Idx, NEW price \in Nat, NEW q \in Nat, NEW action
  PROVE  LET n == Open(i, price, q, action).position
         IN  n \in PositionsOf(Owners, Idx) /\ Covered(n)
<1> DEFINE n == Open(i, price, q, action).position
           lot == Lot(i.strategyId, q)
           trailing == IF i.trailing THEN InitTrailingState(price) ELSE NoTrail
<1>1. n = [direction |-> i.direction, qty |-> q, avgEntry |-> price, margin |-> MarginOf(q * price),
           gov |-> i.strategyId, stop |-> Ahead(i.direction, price, -StopTicks),
           target |-> Ahead(i.direction, price, TargetTicks),
           liq |-> Ahead(i.direction, price, -LiqTicks),
           entryIdx |-> i.entryIdx, contributors |-> {i.strategyId},
           lots |-> <<lot>>, trailing |-> trailing]
  BY DEF Open
<1>2. trailing \in [phase : Phases, extreme : Int]
  BY DEF InitTrailingState, NoTrail, Phases
<1>3. /\ Ahead(i.direction, price, -StopTicks) \in Int
      /\ Ahead(i.direction, price, TargetTicks) \in Int
      /\ Ahead(i.direction, price, -LiqTicks) \in Int
  BY PositionAssumption DEF Ahead, PositionAssumption
<1>4. MarginOf(q * price) \in Nat /\ (q = 0 => MarginOf(q * price) = 0)
  <2> DEFINE notional == q * price
  <2>1. notional \in Nat /\ (q = 0 => notional = 0)
    OBVIOUS
  <2> HIDE DEF notional
  <2>2. MarginOf(notional) \in Nat /\ (q = 0 => MarginOf(notional) = 0)
    BY <2>1, MarginType
  <2> QED BY <2>2 DEF notional
<1>5. lot \in LotsOf(Owners) /\ lot.qty = q /\ lot.strategyId = i.strategyId
  BY LotType
<1>6. /\ n.direction = i.direction /\ n.qty = q /\ n.margin = MarginOf(q * price)
      /\ n.lots = <<lot>> /\ n.contributors = {i.strategyId}
  BY <1>1
<1> HIDE DEF n, lot, trailing
<1>7. <<lot>> \in Seq(LotsOf(Owners))
  BY <1>5
<1>8. n \in PositionsOf(Owners, Idx)
  BY <1>1, <1>2, <1>3, <1>4, <1>7 DEF PositionsOf
<1>9. TotalOf(Column(<<lot>>, "qty")) = q
  BY <1>5, ColumnOfOne
<1>10. LotOwners(<<lot>>) = {i.strategyId}
  BY <1>5 DEF LotOwners
<1>11. Covered(n)
  BY <1>4, <1>6, <1>9, <1>10 DEF Covered, Directions
<1> QED BY <1>8, <1>11 DEF n

\* An add queues a lot of its own.
LEMMA AddCovers ==
  ASSUME NEW Owners, NEW Idx, NEW p \in PositionsOf(Owners, Idx), Covered(p),
         p.direction # "none", NEW i, i.strategyId \in Owners,
         NEW price \in Nat, NEW q \in Nat \ {0}
  PROVE  LET n == Add(p, i, price, q).position
         IN  n \in PositionsOf(Owners, Idx) /\ Covered(n)
<1> DEFINE n == Add(p, i, price, q).position
           lot == Lot(i.strategyId, q)
           total == p.qty * p.avgEntry + q * price
           margin == MarginOf(q * price)
           avg == total \div (p.qty + q)
<1>0. /\ p.qty \in Nat /\ p.avgEntry \in Int /\ p.margin \in Nat
      /\ p.lots \in Seq(LotsOf(Owners)) /\ p.contributors \in SUBSET Owners
  BY DEF PositionsOf
<1>1. margin \in Nat
  <2> DEFINE notional == q * price
  <2>1. notional \in Nat
    OBVIOUS
  <2> HIDE DEF notional
  <2>2. MarginOf(notional) \in Nat
    BY <2>1, MarginType
  <2> QED BY <2>2 DEF notional
<1>2. avg \in Int
  <2>1. total \in Int /\ p.qty + q \in Nat \ {0}
    BY <1>0
  <2> HIDE DEF total
  <2> QED BY <2>1
<1>3. lot \in LotsOf(Owners) /\ lot.qty = q /\ lot.strategyId = i.strategyId
  BY LotType
<1>4. n = [p EXCEPT !.qty = p.qty + q, !.avgEntry = avg, !.margin = p.margin + margin,
                    !.contributors = p.contributors \union {i.strategyId},
                    !.lots = Append(p.lots, lot)]
  BY DEF Add
<1> HIDE DEF n, lot, total, margin, avg
<1>5. Append(p.lots, lot) \in Seq(LotsOf(Owners))
  BY <1>0, <1>3
<1>6. n \in PositionsOf(Owners, Idx)
  <2>1. p.qty + q \in Nat /\ p.margin + margin \in Nat
    BY <1>0, <1>1
  <2> QED BY <1>2, <1>4, <1>5, <2>1 DEF PositionsOf
<1>7. /\ n.qty = p.qty + q /\ n.lots = Append(p.lots, lot) /\ n.direction = p.direction
      /\ n.contributors = p.contributors \union {i.strategyId}
  BY <1>4 DEF PositionsOf
<1>8. TotalOf(Column(n.lots, "qty")) = p.qty + q
  <2>1. \A r \in LotsOf(Owners) : r["qty"] \in Int
    BY DEF LotsOf
  <2> QED BY <1>0, <1>3, <1>7, <2>1, ColumnExtends DEF Covered
<1>9. LotOwners(Append(p.lots, lot)) = LotOwners(p.lots) \union {i.strategyId}
  <2> DEFINE more == Append(p.lots, lot)
             k == Len(p.lots)
  <2>1. /\ k \in Nat /\ DOMAIN p.lots = 1 .. k /\ DOMAIN more = 1 .. k + 1
        /\ (\A j \in 1 .. k : more[j] = p.lots[j]) /\ more[k + 1] = lot
    BY <1>0
  <2> HIDE DEF more, k
  <2>2. LotOwners(more) = LotOwners(p.lots) \union {i.strategyId}
    BY <1>3, <2>1 DEF LotOwners
  <2> QED BY <2>2 DEF more
<1>10. Covered(n)
  BY <1>0, <1>7, <1>8, <1>9 DEF Covered
<1> QED BY <1>6, <1>10 DEF n

\* What a reduction frees and gains in all.
TotalsFit(totals, p, q, price) ==
  /\ totals \in [Quantities -> Int]
  /\ totals.pnl = Gain(p.direction, p.avgEntry, price) * q - Fee(q * price)
  /\ totals.margin \in 0 .. p.margin
  /\ q = p.qty /\ q # 0 => totals.margin = p.margin

LEMMA ReduceTotalsType ==
  ASSUME NEW Owners, NEW Idx, NEW p \in PositionsOf(Owners, Idx), NEW q \in Nat, q <= p.qty,
         NEW price \in Int
  PROVE  TotalsFit(ReduceTotals(p, q, price), p, q, price)
<1> DEFINE fee == Fee(q * price)
           gain == Gain(p.direction, p.avgEntry, price)
           margin == IF p.qty = 0 THEN 0 ELSE (p.margin * q) \div p.qty
<1>0. p.qty \in Nat /\ p.avgEntry \in Int /\ p.margin \in Nat
  BY DEF PositionsOf
<1>1. fee \in Int
  <2> DEFINE notional == q * price
  <2>1. notional \in Int
    OBVIOUS
  <2> HIDE DEF notional
  <2>2. Fee(notional) \in Int
    BY <2>1, FeeType
  <2> QED BY <2>2 DEF notional
<1>2. gain \in Int
  BY <1>0 DEF Gain
<1>3. margin \in 0 .. p.margin /\ (q = p.qty /\ q # 0 => margin = p.margin)
  BY <1>0, ShareBound
<1>4. ReduceTotals(p, q, price) = Totals(gain * q - fee, fee, margin)
  BY DEF ReduceTotals
<1> HIDE DEF fee, gain, margin
<1>5. gain * q - fee \in Int /\ margin \in Int
  BY <1>0, <1>1, <1>2, <1>3
<1>6. Totals(gain * q - fee, fee, margin) \in [Quantities -> Int]
  BY <1>1, <1>5 DEF Totals, Quantities
<1>7. /\ Totals(gain * q - fee, fee, margin).pnl = gain * q - fee
      /\ Totals(gain * q - fee, fee, margin).margin = margin
  BY DEF Totals
<1> QED BY <1>3, <1>4, <1>6, <1>7 DEF TotalsFit, gain, fee

\* A reduction takes lots off the position: what is left is covered, and the fills
\* carry its quantity, its one PnL and the margin it frees.
LeavesCovered(r, p, q, price, emptied, Owners, Idx) ==
  /\ r.position \in PositionsOf(Owners, Idx) /\ Covered(r.position)
  /\ r.position.qty = p.qty - q
  /\ \E cut : /\ cut.action = (IF q = p.qty THEN emptied ELSE "reduce")
              /\ cut.dir = p.direction /\ cut.price = price
              /\ r.fills \in Seq(FillsOf(cut, Owners))
  /\ TotalOf(Column(r.fills, "qty")) = q
  /\ TotalOf(Column(r.fills, "realizedPnl"))
       = Gain(p.direction, p.avgEntry, price) * q - Fee(q * price)
  /\ TotalOf(Column(r.fills, "marginDelta")) = r.position.margin - p.margin

LEMMA ReduceCovers ==
  ASSUME NEW Owners, NEW Idx, 0 \in Idx, NEW p \in PositionsOf(Owners, Idx), Covered(p),
         NEW q \in Nat, q <= p.qty, NEW price \in Int, NEW trigger, NEW emptied
  PROVE  LeavesCovered(ReduceBy(p, q, price, trigger, emptied), p, q, price, emptied, Owners, Idx)
<1> DEFINE totals == ReduceTotals(p, q, price)
           rest == p.qty - q
           action == IF rest <= 0 THEN emptied ELSE "reduce"
           split == AllocateAcrossLots(p.lots, q, totals, action, trigger, p.direction, price)
           cut == CutOf(q, totals, action, trigger, p.direction, price)
           n == IF rest <= 0 THEN FlatPosition
                ELSE [p EXCEPT !.qty = rest, !.margin = p.margin - totals.margin,
                               !.lots = split.remaining,
                               !.contributors = LotOwners(split.remaining)]
<1>0. /\ p.qty \in Nat /\ p.avgEntry \in Int /\ p.margin \in Nat /\ rest \in Nat
      /\ p.lots \in Seq(LotsOf(Owners)) /\ TotalOf(Column(p.lots, "qty")) = p.qty
  BY DEF PositionsOf, Covered
<1>1. ReduceBy(p, q, price, trigger, emptied) = [position |-> n, fills |-> split.fills]
  BY DEF ReduceBy
<1>2. action = IF q = p.qty THEN emptied ELSE "reduce"
  BY <1>0
<1>3. /\ totals \in [Quantities -> Int] /\ totals.margin \in 0 .. p.margin
      /\ totals.pnl = Gain(p.direction, p.avgEntry, price) * q - Fee(q * price)
      /\ q = p.qty /\ q # 0 => totals.margin = p.margin
  <2>1. TotalsFit(totals, p, q, price)
    BY ReduceTotalsType
  <2> HIDE DEF totals
  <2> QED BY <2>1 DEF TotalsFit
<1>4. cut.action = action /\ cut.dir = p.direction /\ cut.price = price
  BY DEF CutOf
<1> HIDE DEF totals, action
<1>5. /\ split.remaining \in Seq(LotsOf(Owners))
      /\ split.fills \in Seq(FillsOf(cut, Owners))
      /\ TotalOf(Column(split.fills, "qty")) = q
      /\ TotalOf(Column(split.remaining, "qty")) = p.qty - q
      /\ TotalOf(Column(split.fills, "realizedPnl")) = IF q = 0 THEN 0 ELSE totals.pnl
      /\ TotalOf(Column(split.fills, "marginDelta")) = IF q = 0 THEN 0 ELSE -totals.margin
  <2>1. q <= TotalOf(Column(p.lots, "qty"))
    BY <1>0
  <2>2. p.lots \in Seq(LotsOf(Owners)) /\ totals \in [Quantities -> Int]
    BY <1>0, <1>3
  <2>3. /\ split.remaining \in Seq(LotsOf(Owners))
        /\ split.fills \in Seq(FillsOf(cut, Owners))
        /\ TotalOf(Column(split.fills, "qty")) = q
        /\ TotalOf(Column(split.remaining, "qty")) = TotalOf(Column(p.lots, "qty")) - q
        /\ TotalOf(Column(split.fills, "realizedPnl")) = IF q = 0 THEN 0 ELSE totals.pnl
        /\ TotalOf(Column(split.fills, "marginDelta")) = IF q = 0 THEN 0 ELSE -totals.margin
    BY <2>1, <2>2, AllocationAddsUp
  <2> QED BY <1>0, <2>3
<1> HIDE DEF split, cut
<1>6. TotalOf(Column(split.fills, "realizedPnl"))
        = Gain(p.direction, p.avgEntry, price) * q - Fee(q * price)
  <2>1. CASE q = 0
    <3>1. Gain(p.direction, p.avgEntry, price) \in Int
      BY <1>0 DEF Gain
    <3>2. q * price = 0 /\ Gain(p.direction, p.avgEntry, price) * q = 0
      BY <2>1, <3>1
    <3>3. Fee(q * price) = 0
      BY <3>2, FeeType
    <3> QED BY <1>5, <2>1, <3>2, <3>3
  <2>2. CASE q # 0
    BY <1>3, <1>5, <2>2
  <2> QED BY <2>1, <2>2
<1>7. CASE q = p.qty
  <2>1. n = FlatPosition
    BY <1>0, <1>7
  <2>2. n.margin = 0 /\ n.qty = 0
    BY <2>1 DEF FlatPosition
  <2>3. TotalOf(Column(split.fills, "marginDelta")) = n.margin - p.margin
    <3>1. q = 0 => p.margin = 0
      BY <1>7 DEF Covered
    <3>2. q # 0 => totals.margin = p.margin
      BY <1>3, <1>7
    <3> QED BY <1>0, <1>5, <2>2, <3>1, <3>2
  <2>4. n \in PositionsOf(Owners, Idx) /\ Covered(n)
    BY <2>1, FlatCovers
  <2> HIDE DEF n
  <2>5. n.qty = p.qty - q
    BY <1>0, <1>7, <2>2
  <2> QED BY <1>1, <1>2, <1>4, <1>5, <1>6, <2>3, <2>4, <2>5 DEF LeavesCovered
<1>8. CASE q < p.qty
  <2> DEFINE margin == p.margin - totals.margin
             lots == split.remaining
             owners == LotOwners(lots)
  <2>1. n = [p EXCEPT !.qty = rest, !.margin = margin, !.lots = lots, !.contributors = owners]
    BY <1>0, <1>8
  <2>2. margin \in Nat /\ lots \in Seq(LotsOf(Owners)) /\ rest \in Nat \ {0}
    <3>1. p.margin - totals.margin \in Nat
      BY <1>0, <1>3
    <3> QED BY <1>0, <1>5, <1>8, <3>1
  <2>3. owners \in SUBSET Owners
    BY <2>2, OwnersType
  <2>4. p.direction # "none"
    BY <1>8, <1>0 DEF Covered
  <2> HIDE DEF n, margin, lots, owners, rest
  <2>5. n \in PositionsOf(Owners, Idx)
    BY <2>1, <2>2, <2>3 DEF PositionsOf
  <2>6. /\ n.qty = rest /\ n.margin = margin /\ n.lots = lots /\ n.contributors = owners
        /\ n.direction = p.direction
    BY <2>1 DEF PositionsOf
  <2>7. Covered(n)
    BY <1>5, <2>2, <2>4, <2>6 DEF Covered, lots, owners, rest
  <2>8. TotalOf(Column(split.fills, "marginDelta")) = n.margin - p.margin
    <3>1. totals.margin \in Int /\ (q = 0 => totals.margin = 0)
      <4>1. q = 0 => totals.margin = 0
        <5> SUFFICES ASSUME q = 0 PROVE totals.margin = 0 OBVIOUS
        <5>1. totals.margin = (p.margin * q) \div p.qty
          BY <1>0, <1>8 DEF totals, ReduceTotals, Totals
        <5>2. p.margin * q = 0 /\ p.qty > 0
          BY <1>0, <1>8
        <5> QED BY <1>0, <5>1, <5>2
      <4> QED BY <1>3, <4>1
    <3> QED BY <1>0, <1>5, <2>6, <3>1 DEF margin
  <2>9. n.qty = p.qty - q
    BY <2>6 DEF rest
  <2> QED BY <1>1, <1>2, <1>4, <1>5, <1>6, <2>5, <2>7, <2>8, <2>9 DEF LeavesCovered
<1> QED BY <1>0, <1>7, <1>8
=============================================================================
