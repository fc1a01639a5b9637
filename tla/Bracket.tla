------------------------------ MODULE Bracket ------------------------------
(***************************************************************************)
(* The exit of a position with an optional stop and an optional target, as *)
(* both paper ledgers decide it (paper-trading/brokerage.ts markToMarket   *)
(* and exchange/paper-trading.ts markToMarket): the stop first.            *)
(***************************************************************************)
EXTENDS Integers, SequencesExt

CONSTANT None   \* no stop, no target, or not closed

Sign(direction) == IF direction = "long" THEN 1 ELSE -1

HitsStop(p, price) == p.stop # None /\ Sign(p.direction) * (price - p.stop) <= 0
HitsTarget(p, price) == p.target # None /\ Sign(p.direction) * (price - p.target) >= 0

IsOpen(p) == p.closed = None

\* "none" if the position stays open at this price.
ExitReason(p, price) ==
  IF ~IsOpen(p) THEN "none"
  ELSE IF HitsStop(p, price) THEN "stop"
  ELSE IF HitsTarget(p, price) THEN "target" ELSE "none"

ClosedAt(p, price, reason) == [p EXCEPT !.closed = price, !.reason = reason]

Pnl(p, price) == Sign(p.direction) * (price - p.entry) * p.qty

\* What a position has brought in so far, and what a list of amounts comes to.
Result(p) == IF IsOpen(p) THEN 0 ELSE Pnl(p, p.closed)
Total(amounts) == FoldLeft(LAMBDA sum, x : sum + x, 0, amounts)
=============================================================================
