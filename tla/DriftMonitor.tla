---------------------------- MODULE DriftMonitor ----------------------------
(***************************************************************************)
(* DriftMonitor (drift-monitor.ts): every so many closed trades it         *)
(* compares each strategy's live results with its backtest, and at every   *)
(* call the basis between two exchanges with a threshold; it alerts when a *)
(* comparison turns bad and is armed again when it turns good.             *)
(*                                                                         *)
(* A comparison awaits a message for each alert, so the journal grows      *)
(* while it runs; the state file is written when it ends.  A line of the   *)
(* journal is a closed trade, won or lost; a comparison is bad when fewer  *)
(* than half of a strategy's trades were won.                              *)
(***************************************************************************)
EXTENDS Integers, Sequences, FiniteSets, SequencesExt

CONSTANTS
  Strategies,
  Basis,                \* what stands for the one symbol's basis
  MinTrades,            \* minTradesPerStrategy
  CheckEveryNTrades,
  MaxTrades, MaxVerdicts, MaxCrashes

DriftAssumption ==
  /\ MinTrades \in Nat \ {0} /\ CheckEveryNTrades \in Nat \ {0}
  /\ Basis \notin Strategies

Watched == Strategies \cup {Basis}

VARIABLES
  journal,     \* sequence of [strategy, won]
  at,          \* "idle", "basis" or "strategies"
  trades,      \* how many trades the running check has read
  todo,        \* the strategies it has still to compare
  state,       \* lastCheckedTotalTrades and what is flagged
  file,        \* the same, saved
  log,         \* sequence of [of, bad, alert]: the comparisons made
  crashes

vars == <<journal, at, trades, todo, state, file, log, crashes>>

Init ==
  /\ journal = <<>>
  /\ at = "idle"
  /\ trades = 0
  /\ todo = {}
  /\ state = [last |-> 0, flagged |-> {}]
  /\ file = state
  /\ log = <<>>
  /\ crashes = 0

-----------------------------------------------------------------------------

\* Of the first n trades, by number: those of a strategy, and those it won.
TradesOf(s, n) == {i \in 1..n : journal[i].strategy = s}
Wins(s, n) == {i \in TradesOf(s, n) : journal[i].won}
Evaluable(n) == {s \in Strategies : Cardinality(TradesOf(s, n)) >= MinTrades}
Drifting(s, n) == 2 * Cardinality(Wins(s, n)) < Cardinality(TradesOf(s, n))

\* A comparison: the alert, if it turned bad, and the flag, which a good one clears.
Judge(of, bad) ==
  /\ log' = Append(log, [of |-> of, bad |-> bad, alert |-> bad /\ of \notin state.flagged])
  /\ state' = [state EXCEPT !.flagged = IF bad THEN @ \cup {of} ELSE @ \ {of}]

\* check: reads the journal; the basis comes first.
StartCheck ==
  /\ at = "idle"
  /\ Len(log) < MaxVerdicts
  /\ at' = "basis"
  /\ trades' = Len(journal)
  /\ UNCHANGED <<journal, todo, state, file, log, crashes>>

\* checkBasisDrift, with enough records or not; then the trades, if there are enough
\* new ones.  If not, the flags of the basis are saved.
Enough == trades - state.last >= CheckEveryNTrades

CheckBasis ==
  /\ at = "basis"
  /\ \/ \E bad \in BOOLEAN : Judge(Basis, bad)
     \/ UNCHANGED <<state, log>>
  /\ IF Enough
     THEN at' = "strategies" /\ todo' = Evaluable(trades) /\ UNCHANGED file
     ELSE at' = "idle" /\ file' = state' /\ UNCHANGED todo
  /\ UNCHANGED <<journal, trades, crashes>>

\* One strategy; its message, if any, is awaited before the next.
Compare(s) ==
  /\ at = "strategies"
  /\ s \in todo
  /\ Judge(s, Drifting(s, trades))
  /\ todo' = todo \ {s}
  /\ UNCHANGED <<journal, at, trades, file, crashes>>

\* What the comparisons were made over is remembered, and saved with the flags.
Ends(n) ==
  /\ at = "strategies"
  /\ todo = {}
  /\ state' = [state EXCEPT !.last = n]
  /\ file' = state'
  /\ at' = "idle"
  /\ UNCHANGED <<journal, trades, todo, log, crashes>>

EndCheck == Ends(trades)

Close(s, won) ==
  /\ Len(journal) < MaxTrades
  /\ journal' = Append(journal, [strategy |-> s, won |-> won])
  /\ UNCHANGED <<at, trades, todo, state, file, log, crashes>>

Crash ==
  /\ crashes < MaxCrashes
  /\ crashes' = crashes + 1
  /\ at' = "idle"
  /\ todo' = {}
  /\ state' = file
  /\ UNCHANGED <<journal, trades, file, log>>

Next ==
  \/ StartCheck \/ CheckBasis \/ EndCheck \/ Crash
  \/ \E s \in Strategies : Compare(s) \/ \E won \in BOOLEAN : Close(s, won)

Spec == Init /\ [][Next]_vars

-----------------------------------------------------------------------------
(* Properties.                                                             *)

\* Between two alerts of the same thing it was found good, or the process died.
AlertsOf(w) == Cardinality({n \in 1..Len(log) : log[n].of = w /\ log[n].alert})
LastWasBad(w, n) ==
  \E m \in 1..n - 1 : log[m].of = w /\ log[m].bad /\ \A k \in m + 1..n - 1 : log[k].of # w
Recoveries(w) ==
  Cardinality({n \in 1..Len(log) : log[n].of = w /\ ~log[n].bad /\ LastWasBad(w, n)})
OneAlertPerDrift == \A w \in Watched : AlertsOf(w) <= 1 + Recoveries(w) + crashes

\* Between two checks, the flags say of every strategy what the trades counted as
\* compared say, though trades were closed while the comparison ran.
FlagsAreOfTheComparedTrades ==
  at = "idle" => \A s \in Evaluable(state.last) : s \in state.flagged <=> Drifting(s, state.last)
=============================================================================
