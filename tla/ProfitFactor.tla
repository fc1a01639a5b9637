---------------------------- MODULE ProfitFactor ----------------------------
(***************************************************************************)
(* rollingPf (src/paper-trading/circuit-breaker.ts): gross profit over     *)
(* gross loss of a sequence of closed trades.  The factor is a fraction,   *)
(* so it is only ever compared with another, num / den, by cross           *)
(* multiplication; without losses it is infinite, or 0 if nothing was      *)
(* earned either.                                                          *)
(***************************************************************************)
EXTENDS Integers, SequencesExt

SumPnl(seq) == FoldLeft(LAMBDA sum, t : sum + t.pnl, 0, seq)
GrossProfit(seq) == SumPnl(SelectSeq(seq, LAMBDA t : t.pnl > 0))
GrossLoss(seq) == -SumPnl(SelectSeq(seq, LAMBDA t : t.pnl <= 0))

PfBelow(seq, num, den) ==
  IF GrossLoss(seq) > 0 THEN GrossProfit(seq) * den < num * GrossLoss(seq)
  ELSE GrossProfit(seq) = 0 /\ num > 0

PfAbove(seq, num, den) ==
  IF GrossLoss(seq) > 0 THEN GrossProfit(seq) * den > num * GrossLoss(seq)
  ELSE GrossProfit(seq) > 0

\* seq.slice(-n)
LastN(seq, n) == SubSeq(seq, (IF Len(seq) > n THEN Len(seq) - n ELSE 0) + 1, Len(seq))
=============================================================================
