------------------------------ MODULE Notifiers ------------------------------
(***************************************************************************)
(* Two readers of the runner's journal that send messages: FillNotifier    *)
(* (notifier.ts), one for every fill, and ReadinessMonitor (readiness.ts), *)
(* one for every strategy, and one for the pool, that crosses the bar.     *)
(*                                                                         *)
(* The daemon calls both from the runner's tick callback, which is not     *)
(* awaited: calls may overlap, and fills made outside a tick wait for the  *)
(* next tick that has some.  A line of the journal is a closed trade, won  *)
(* or lost; what the messages say is left out.                             *)
(***************************************************************************)
EXTENDS Integers, Sequences, FiniteSets, SequencesExt

CONSTANTS
  Strategies,
  Portfolio,          \* what stands for the pool among the announcements
  MinTrades,
  MaxTrades, MaxNotifying, MaxChecking, MaxCrashes

NotifiersAssumption ==
  /\ IsFiniteSet(Strategies) /\ Portfolio \notin Strategies
  /\ MinTrades \in Nat \ {0} /\ MaxChecking \in Nat \ {0}

VARIABLES
  monitor,     \* which of the two this is: "fills" or "readiness"
  journal,     \* sequence of [strategy, won]
  due,         \* a tick with fills has ended and the callback has not run
  calls,       \* the running calls, each a sequence of what it has still to say
  memory,      \* lastLineCount, notifiedStrategyIds and portfolioNotified
  file,        \* the same, saved
  said,        \* sequence of [what, at]: what was sent or logged, and the journal's length then
  crashes,
  excused      \* history: what two calls at a time took on, or a crash kept from being saved

vars == <<monitor, journal, due, calls, memory, file, said, crashes, excused>>

\* lines: how many lines were looked at; known: what was announced.
Nothing == [lines |-> 0, known |-> {}]

Init ==
  /\ monitor \in {"fills", "readiness"}
  /\ journal = <<>>
  /\ due = FALSE
  /\ calls = <<>>
  /\ memory = Nothing
  /\ file = Nothing
  /\ said = <<>>
  /\ crashes = 0
  /\ excused = {}

-----------------------------------------------------------------------------
(* What the journal says.                                                  *)

TradesOf(s, trades) == SelectSeq(trades, LAMBDA t : t.strategy = s)
Wins(trades) == Len(SelectSeq(trades, LAMBDA t : t.won))
Evaluable(trades) == {s \in Strategies : Len(TradesOf(s, trades)) >= MinTrades}

\* computeStrategyReadiness, assessReadiness: profitable over enough trades.
ReadyOnes(trades) == {s \in Evaluable(trades) : 2 * Wins(TradesOf(s, trades)) > Len(TradesOf(s, trades))}
PoolIsReady(trades) ==
  /\ Evaluable(trades) # {}
  /\ 2 * Cardinality(ReadyOnes(trades)) > Cardinality(Evaluable(trades))
Ready(trades) == ReadyOnes(trades) \cup (IF PoolIsReady(trades) THEN {Portfolio} ELSE {})

\* The pool comes last.
InOrder(things) == SetToSeq(things \cap Strategies) \o SetToSeq(things \cap {Portfolio})

-----------------------------------------------------------------------------
(* Calls.                                                                  *)

Message(what) == [what |-> what, at |-> Len(journal)]

Begin(todo) == calls' = Append(calls, todo)

\* Mutant: the lines are claimed when they are sent.
ClaimLater ==
  /\ monitor = "fills" /\ due
  /\ due' = FALSE
  /\ Len(calls) < MaxNotifying
  /\ Len(journal) > memory.lines
  /\ Begin([n \in 1..(Len(journal) - memory.lines) |-> memory.lines + n])
  /\ memory' = [memory EXCEPT !.lines = Len(journal)]
  /\ UNCHANGED <<monitor, journal, file, said, crashes, excused>>

\* checkAndNotify: the lines are claimed, and the claim saved, before any is sent.
CheckAndNotify ==
  /\ monitor = "fills" /\ due
  /\ due' = FALSE
  /\ Len(calls) < MaxNotifying
  /\ Len(journal) > memory.lines
  /\ Begin([n \in 1..(Len(journal) - memory.lines) |-> memory.lines + n])
  /\ memory' = [memory EXCEPT !.lines = Len(journal)]
  /\ file' = memory'
  /\ UNCHANGED <<monitor, journal, said, crashes, excused>>

\* A message goes out, or is lost: either way it is not tried again.
SendFill(i) ==
  /\ monitor = "fills"
  /\ calls[i] # <<>>
  /\ said' \in {said, Append(said, Message(Head(calls[i])))}
  /\ calls' = [calls EXCEPT ![i] = Tail(@)]
  /\ UNCHANGED <<monitor, journal, due, memory, file, crashes, excused>>

NewlyReady == Ready(journal) \ memory.known

\* A call under way has the thing still to say.
TakenOn(id) == \E i \in DOMAIN calls : \E k \in DOMAIN calls[i] : calls[i][k] = id

\* ReadinessMonitor.check: what is newly ready is settled when the call begins.
CheckReadiness ==
  /\ monitor = "readiness" /\ due
  /\ due' = FALSE
  /\ Len(calls) < MaxChecking
  /\ NewlyReady # {} /\ Begin(InOrder(NewlyReady))
  /\ excused' = excused \cup {id \in NewlyReady : TakenOn(id)}
  /\ UNCHANGED <<monitor, journal, memory, file, said, crashes>>

\* The callback runs and there is nothing new to say.
NothingNew ==
  /\ due
  /\ due' = FALSE
  /\ IF monitor = "fills" THEN Len(journal) <= memory.lines ELSE Ready(journal) \subseteq memory.known
  /\ UNCHANGED <<monitor, journal, calls, memory, file, said, crashes, excused>>

Mark(id) == [memory EXCEPT !.known = @ \cup {id}]

Announce(i) ==
  /\ monitor = "readiness"
  /\ calls[i] # <<>>
  /\ memory' = Mark(Head(calls[i]))
  /\ said' = Append(said, Message(Head(calls[i])))
  /\ calls' = [calls EXCEPT ![i] = Tail(@)]
  /\ UNCHANGED <<monitor, journal, due, file, crashes, excused>>

\* The last message was answered; the readiness monitor saves what it announced.
Returns(i) ==
  /\ calls[i] = <<>>
  /\ calls' = RemoveAt(calls, i)
  /\ file' = IF monitor = "readiness" THEN memory ELSE file
  /\ UNCHANGED <<monitor, journal, due, memory, said, crashes, excused>>

-----------------------------------------------------------------------------
(* The runner, and the process.                                            *)

\* A fill made in a tick has the callback run; one made on a stream's event has not.
Fill(s, won, inTick) ==
  /\ Len(journal) < MaxTrades
  /\ journal' = Append(journal, [strategy |-> s, won |-> won])
  /\ due' = (due \/ inTick)
  /\ UNCHANGED <<monitor, calls, memory, file, said, crashes, excused>>

Crash ==
  /\ crashes < MaxCrashes
  /\ crashes' = crashes + 1
  /\ excused' = excused \cup (memory.known \ file.known)
  /\ due' = FALSE
  /\ calls' = <<>>
  /\ memory' = file
  /\ UNCHANGED <<monitor, journal, file, said>>

Next ==
  \/ CheckAndNotify \/ CheckReadiness \/ NothingNew
  \/ \E i \in DOMAIN calls : SendFill(i) \/ Announce(i) \/ Returns(i)
  \/ \E s \in Strategies, won, inTick \in BOOLEAN : Fill(s, won, inTick)
  \/ Crash

Spec == Init /\ [][Next]_vars

-----------------------------------------------------------------------------
(* Properties.                                                             *)

Times(thing) == Cardinality({n \in DOMAIN said : said[n].what = thing})

\* A fill is notified at most once, though calls overlap and the process restarts
\* between the claim of a line and its message.
NotifiedAtMostOnce == monitor = "fills" => \A line \in 1..Len(journal) : Times(line) <= 1

\* A strategy, and the pool, is announced once, "tracked in a state file so restarts
\* don't re-fire".  The code does so only while checks do not overlap (one that begins
\* while another has the thing still to say announces it too) and unless the process
\* dies between an announcement and the save at the end of its check.
RestartsDoNotRefire ==
  monitor = "readiness" =>
    \A id \in (Strategies \cup {Portfolio}) \ excused : Times(id) <= 1
=============================================================================
