------------------------------ MODULE Trackers ------------------------------
(***************************************************************************)
(* The three paper ledgers beside the live runner: shadow signals          *)
(* (shadow-signal-tracker.ts), funding arbitrage (funding-arb.ts) and      *)
(* pairs arbitrage (pairs-arb.ts).  Each is a loop of ticks over its       *)
(* candidates; a tick awaits its market data candidate by candidate, keeps *)
(* positions in memory, appends to a journal at once and saves the state   *)
(* file only when it ends.                                                 *)
(*                                                                         *)
(* Prices, z-scores and rates are inputs, reduced to what they decide.     *)
(* Time is an integer; the funding of period k is paid between the         *)
(* instants k * Interval - 1 and k * Interval, so that a tick is never at  *)
(* the very millisecond of a payment.                                      *)
(***************************************************************************)
EXTENDS Integers, Sequences, FiniteSets, SequencesExt

CONSTANTS
  Candidates,   \* sequence of the candidates' ids
  MaxHold,      \* maxHoldMs, maxHoldBars
  Interval,     \* EIGHT_H
  None,
  MaxTime, MaxOpens, MaxCrashes

Ids == ToSet(Candidates)

\* A position; the shadow ledger and the pairs leave the fields of the other at 0.
Position == [openedAt : Nat, lastFundingCheckAt : Nat, accrued : Seq(Nat), bars : Nat]

TrackersAssumption ==
  /\ Candidates \in Seq(Ids) /\ Candidates # <<>>
  /\ Interval \in Nat \ {0}
  /\ None \notin Position

VARIABLES
  kind,      \* which of the trackers: "shadow", "funding" or "pairs"
  state,     \* id -> its position in memory, or None
  file,      \* the state file
  journal,   \* sequence of [type, id]
  next,      \* index of the tick's candidate, 0 between two ticks
  awaits,    \* what the tick waits for: "quote", "rates" or "spot"
  now,       \* the time the tick took when it began
  clock,
  crashes

vars == <<kind, state, file, journal, next, awaits, now, clock, crashes>>

Journalled(type, id) == Cardinality({i \in DOMAIN journal : journal[i] = [type |-> type, id |-> id]})

Init ==
  /\ kind \in {"shadow", "funding", "pairs"}
  /\ state = [id \in Ids |-> None]
  /\ file = state
  /\ journal = <<>>
  /\ next = 0
  /\ awaits = "quote"
  /\ now = 0
  /\ clock = 0
  /\ crashes = 0

-----------------------------------------------------------------------------
(* One candidate.                                                          *)

Id == Candidates[next]
Held == state[Id]

\* What fundings a request from one instant to another returns.
Payments(from, to) == [n \in 1..(to \div Interval - from \div Interval) |-> from \div Interval + n]

\* The loop goes on to the next candidate; after the last one, saveState.
Continue(after) ==
  /\ state' = after
  /\ awaits' = "quote"
  /\ IF next < Len(Candidates)
     THEN next' = next + 1 /\ UNCHANGED file
     ELSE next' = 0 /\ file' = after

Skip == Continue(state) /\ UNCHANGED journal

Close ==
  /\ Continue([state EXCEPT ![Id] = None])
  /\ journal' = Append(journal, [type |-> "close", id |-> Id])

Open(since) ==
  /\ Len(SelectSeq(journal, LAMBDA e : e.type = "open")) < MaxOpens
  /\ Continue([state EXCEPT ![Id] = [openedAt |-> since, lastFundingCheckAt |-> since, accrued |-> <<>>, bars |-> 0]])
  /\ journal' = Append(journal, [type |-> "open", id |-> Id])

Await(what, after) ==
  /\ awaits' = what
  /\ state' = after
  /\ UNCHANGED <<next, file, journal>>

\* Shadow: the price of a held position; checkFire, then the price, of a free one.
TimedOut(pos, at) == at - pos.openedAt >= MaxHold

ShadowQuote ==
  IF Held # None
  THEN \E answer \in {"error", "between", "stop", "target"} :
         IF \/ answer \in {"stop", "target"}
            \/ answer = "between" /\ TimedOut(Held, clock)
         THEN Close ELSE Skip
  ELSE \E fires \in BOOLEAN : IF fires THEN Await("spot", state) ELSE Skip

ShadowFill == \E answer \in {"error", "price"} : IF answer = "price" THEN Open(clock) ELSE Skip

\* Funding: the perpetual's statistics; what a held position was paid since the
\* last look; the spot price, on the way out and on the way in.
Leaves == {"normalized", "extreme"}

OutOrOn(after, rate) ==
  IF TimedOut(Held, now) \/ rate = "normalized"
  THEN Await("spot", after)
  ELSE Continue(after) /\ UNCHANGED journal

FundingQuote ==
  \/ Skip                                                   \* the request fails
  \/ /\ Held = None
     /\ \E rate \in Leaves : IF rate = "extreme" THEN Await("spot", state) ELSE Skip
  \/ /\ Held # None
     /\ IF now \div Interval > Held.lastFundingCheckAt \div Interval
        THEN Await("rates", state)
        ELSE \E rate \in Leaves : OutOrOn(state, rate)

\* Mutant: what was accrued counts up to the clock, not to the tick.
AccruedToTheClock(pos) ==
  [pos EXCEPT !.accrued = @ \o Payments(pos.lastFundingCheckAt, now), !.lastFundingCheckAt = clock]

Accrued(pos) ==
  [pos EXCEPT !.accrued = @ \o Payments(pos.lastFundingCheckAt, now), !.lastFundingCheckAt = now]

FundingRates == \E rate \in Leaves : OutOrOn([state EXCEPT ![Id] = Accrued(Held)], rate)

FundingSpot ==
  \/ Skip                                                   \* the request fails
  \/ IF Held # None THEN Close ELSE Open(now)

\* Pairs: the z-score of the last bar; a held position counts its ticks as bars.
PairsQuote ==
  \/ Skip                                                   \* no data, or no z-score
  \/ /\ Held # None
     /\ \E z \in {"inside", "between", "beyond"} :
          IF z # "between" \/ Held.bars + 1 > MaxHold
          THEN Close
          ELSE Continue([state EXCEPT ![Id].bars = @ + 1]) /\ UNCHANGED journal
  \/ Held = None /\ Open(clock)

-----------------------------------------------------------------------------
(* The loop.                                                               *)

StartTick ==
  /\ next = 0
  /\ next' = 1
  /\ awaits' = "quote"
  /\ now' = clock
  /\ UNCHANGED <<kind, state, file, journal, clock, crashes>>

Ticking == next > 0 /\ UNCHANGED <<kind, now, clock, crashes>>

Quote ==
  /\ Ticking /\ awaits = "quote"
  /\ \/ kind = "shadow" /\ ShadowQuote
     \/ kind = "funding" /\ FundingQuote
     \/ kind = "pairs" /\ PairsQuote

Rates == Ticking /\ awaits = "rates" /\ FundingRates

Spot ==
  /\ Ticking /\ awaits = "spot"
  /\ \/ kind = "shadow" /\ ShadowFill
     \/ kind = "funding" /\ FundingSpot

\* fetchFundingRates throws: the tick ends without saving, and start catches it.
RatesFail ==
  /\ Ticking /\ awaits = "rates"
  /\ next' = 0
  /\ awaits' = "quote"
  /\ UNCHANGED <<state, file, journal>>

TimePasses == clock < MaxTime /\ clock' = clock + 1 /\ UNCHANGED <<kind, state, file, journal, next, awaits, now, crashes>>

\* The process dies and comes back with what the file holds.
Crash ==
  /\ crashes < MaxCrashes
  /\ crashes' = crashes + 1
  /\ state' = file
  /\ next' = 0
  /\ awaits' = "quote"
  /\ UNCHANGED <<kind, file, journal, now, clock>>

Next == StartTick \/ Quote \/ Rates \/ RatesFail \/ Spot \/ TimePasses \/ Crash

Spec == Init /\ [][Next]_vars

\* The loop goes on.  A request made again and again is not failed each time:
\* neither one about a position whose time is up, nor the funding rates of any
\* position, whose failure cuts the tick off for the candidates after it.
Answers(id, Request) ==
  /\ next > 0 /\ Id = id /\ Held # None
  /\ TimedOut(Held, IF kind = "funding" THEN now ELSE clock)
  /\ Request
  /\ awaits' # "quote" \/ journal' # journal

FairSpec ==
  /\ Spec
  /\ WF_vars(StartTick) /\ WF_vars(Quote \/ Spot) /\ WF_vars(Rates \/ RatesFail)
  /\ \A id \in Ids : SF_vars(next > 0 /\ Id = id /\ Rates)
  /\ \A id \in Ids : SF_vars(Answers(id, Quote)) /\ SF_vars(Answers(id, Spot))

-----------------------------------------------------------------------------
(* Properties.                                                             *)

\* The journal's openings less its closings of a candidate are what is held,
\* but for one booking lost or repeated at each crash.
JournalFollowsState ==
  \A id \in Ids :
    LET open == Journalled("open", id) - Journalled("close", id)
        held == IF state[id] = None THEN 0 ELSE 1
    IN  open - held \in -crashes..crashes

\* A position is credited each funding paid between its opening and its last
\* look, once each, whatever ticks fail and whenever the process restarts.
FundingIsCountedOnce ==
  kind = "funding" =>
    \A id \in Ids : state[id] # None =>
      state[id].accrued = Payments(state[id].openedAt, state[id].lastFundingCheckAt)

\* A position whose time is up is closed.
Overdue(id) == state[id] # None /\ kind # "pairs" /\ clock - state[id].openedAt >= MaxHold
OverdueIsClosed == \A id \in Ids : Overdue(id) ~> ~Overdue(id)

=============================================================================
