------------------------------ MODULE Reviewers ------------------------------
(***************************************************************************)
(* The two readers of the runner's journal that ask a model for an         *)
(* opinion: TradeEvaluator (trade-evaluator.ts), one review for every      *)
(* entry and exit line, and TradeAnalyst (trade-analyst.ts), a summary     *)
(* over all closed trades at most once an hour.                            *)
(*                                                                         *)
(* Both wait for the model while the journal grows, and both keep what     *)
(* they have seen in a file.  The runner writes position_fill lines only   *)
(* (live-runner.ts:347); lines of type entry and exit are those of a       *)
(* journal begun before it did.                                            *)
(***************************************************************************)
EXTENDS Integers, Sequences, FiniteSets, SequencesExt

CONSTANTS
  Strategies,
  MinNew,                        \* minNewTradesToAnalyze
  Interval,                      \* minIntervalMs
  MaxDigest,                     \* maxSummaryEntries
  None,
  MaxLines, MaxTime, MaxCrashes

ReviewersAssumption ==
  /\ MinNew \in Nat \ {0} /\ Interval \in Nat \ {0} /\ MaxDigest \in Nat /\ MaxLines \in Nat
  /\ None \notin Nat /\ None \notin {"text", "arrow"}

VARIABLES
  journal,     \* sequence of [type, strategy, closes]
  time,
  \* TradeEvaluator
  scanned,     \* lastLineCount: saved by every scan
  queue,       \* lines, by number, waiting
  processing,  \* the line the model is asked about, or None
  recent,      \* recentByStrategy: the entry last reviewed of each strategy, or None
  log,         \* the evaluations: sequence of [line, of], of the entry it was given
  \* TradeAnalyst
  analysed,    \* lastAnalyzedTradeCount and lastAnalysisTime, saved
  asking,      \* what the analysis under way was begun on, or None
  analyses,    \* what the requests came to; those kept in more than the state are learningsFile
  digest,      \* summaryFile: the latest of them, the newest first
  crashes

evaluator == <<scanned, queue, processing, recent, log>>
analyst == <<analysed, asking, analyses, digest>>
vars == <<journal, time, evaluator, analyst, crashes>>

Line == [type : {"entry", "exit", "position_fill"}, strategy : Strategies, closes : BOOLEAN]

Init ==
  /\ \E n \in 0..MaxLines - 1 :
       journal \in [1..n -> {l \in Line : l.type # "position_fill" /\ ~l.closes}]
  /\ time = 1
  /\ scanned = 0 /\ queue = <<>> /\ processing = None
  /\ recent = [s \in Strategies |-> None]
  /\ log = <<>>
  /\ analysed = [count |-> 0, at |-> 0]
  /\ asking = None
  /\ analyses = <<>> /\ digest = <<>>
  /\ crashes = 0

\* The runner's fill; the daemon's journal gets no other line.
Fill(s, closes) ==
  /\ Len(journal) < MaxLines
  /\ journal' = Append(journal, [type |-> "position_fill", strategy |-> s, closes |-> closes])
  /\ UNCHANGED <<time, evaluator, analyst, crashes>>

Tick ==
  /\ time < MaxTime
  /\ time' = time + 1
  /\ UNCHANGED <<journal, evaluator, analyst, crashes>>

-----------------------------------------------------------------------------
(* TradeEvaluator.                                                         *)

Reviewed(n) == journal[n].type \in {"entry", "exit"}

\* Those to review join the queue, one after the other.
Queued(lines) ==
  FoldLeft(LAMBDA waiting, n : IF Reviewed(n) THEN Append(waiting, n) ELSE waiting, queue, lines)

\* scanForNewEvents: the count is saved before the queue, which is in memory,
\* gets the lines.
Scan ==
  /\ Len(journal) > scanned
  /\ scanned' = Len(journal)
  /\ queue' = Queued([n \in 1..Len(journal) - scanned |-> scanned + n])
  /\ UNCHANGED <<journal, time, processing, recent, log, analyst, crashes>>

\* Mutant: the line is looked at and taken off when it is reviewed.
TakeLeaving ==
  /\ processing = None
  /\ queue # <<>>
  /\ processing' = Head(queue)
  /\ UNCHANGED <<queue, journal, time, scanned, recent, log, analyst, crashes>>

\* The loop of start takes one line, then waits for its review.
Take ==
  /\ processing = None
  /\ queue # <<>>
  /\ processing' = Head(queue)
  /\ queue' = Tail(queue)
  /\ UNCHANGED <<journal, time, scanned, recent, log, analyst, crashes>>

\* buildExitPrompt: the entry an exit is shown with, if one is on record.
EntryShown(line) == IF line.type = "entry" THEN None ELSE recent[line.strategy]

\* processOne: an entry is remembered for the exit of its strategy, which forgets it.
Evaluated ==
  /\ processing # None
  /\ LET line == journal[processing]
         isEntry == line.type = "entry"
     IN  /\ log' = Append(log, [line |-> processing, of |-> EntryShown(line)])
         /\ recent' = [recent EXCEPT ![line.strategy] = IF isEntry THEN processing ELSE None]
  /\ processing' = None
  /\ UNCHANGED <<journal, time, scanned, queue, analyst, crashes>>

\* The model cannot be asked: the line is logged with the error, and that is all.
EvaluationFails ==
  /\ processing # None
  /\ log' = Append(log, [line |-> processing, of |-> None])
  /\ processing' = None
  /\ UNCHANGED <<journal, time, scanned, queue, recent, analyst, crashes>>

-----------------------------------------------------------------------------
(* TradeAnalyst.                                                           *)

\* reconstructClosedTrades: the fills that closed something.
ClosedTrades == {i \in DOMAIN journal : journal[i].type = "position_fill" /\ journal[i].closes}
Closed == Cardinality(ClosedTrades)

\* buildPrompt: the trades of each strategy that has any.
ByStrategy ==
  [s \in {journal[i].strategy : i \in ClosedTrades} |->
     Cardinality({i \in ClosedTrades : journal[i].strategy = s})]

\* maybeAnalyze up to the request.
Analyse ==
  /\ asking = None
  /\ Closed > 0
  /\ time - analysed.at >= Interval
  /\ analysed.at = 0 \/ Closed - analysed.count >= MinNew
  /\ asking' = [count |-> Closed, begun |-> time, of |-> ByStrategy]
  /\ UNCHANGED <<journal, time, evaluator, analysed, analyses, digest, crashes>>

\* updateSummaryMarkdown: the entries are read back from a comment of the file, which an
\* arrow (-->) in one of them ends too soon: then they are lost.
Recorded(entry) ==
  LET kept == IF \E i \in DOMAIN digest : digest[i].summary = "arrow" THEN <<>> ELSE digest
      all == <<entry>> \o kept
  IN  SubSeq(all, 1, IF Len(all) > MaxDigest THEN MaxDigest ELSE Len(all))

\* What comes of the request: kept is the last of the files that hold it.
Analysis(summary, kept) ==
  [nr |-> Len(analyses) + 1, from |-> analysed.count, to |-> asking.count,
   begun |-> asking.begun, at |-> time, of |-> asking.of, summary |-> summary, kept |-> kept]

\* Answered or not, the trades of the request count as analysed; the state, the log and
\* the digest are written in this order.
Summarised(summary) ==
  /\ asking # None
  /\ analysed' = [count |-> asking.count, at |-> time]
  /\ analyses' = Append(analyses, Analysis(summary, "digest"))
  /\ digest' = Recorded(Analysis(summary, "digest"))
  /\ asking' = None
  /\ UNCHANGED <<journal, time, evaluator, crashes>>

\* getLatestSummary: of the log.
LatestSummary ==
  LET answered == {i \in DOMAIN analyses : analyses[i].summary # None /\ analyses[i].kept # "state"}
  IN  IF answered = {} THEN None
      ELSE analyses[CHOOSE i \in answered : \A j \in answered : j <= i]

-----------------------------------------------------------------------------
\* Only the counts, and what was written, are in files.
Restart ==
  /\ crashes < MaxCrashes
  /\ crashes' = crashes + 1
  /\ queue' = <<>> /\ processing' = None
  /\ recent' = [s \in Strategies |-> None]
  /\ asking' = None
  /\ UNCHANGED <<journal, time, scanned, log>>

Crash == Restart /\ UNCHANGED <<analysed, analyses, digest>>

\* The process dies between two of the writes of an answer: the trades count as analysed.
CrashInSummary(summary, kept) ==
  /\ asking # None
  /\ analysed' = [count |-> asking.count, at |-> time]
  /\ analyses' = Append(analyses, Analysis(summary, kept))
  /\ Restart
  /\ UNCHANGED digest

Next ==
  \/ \E s \in Strategies, closes \in BOOLEAN : Fill(s, closes)
  \/ Tick
  \/ Scan \/ Take \/ Evaluated \/ EvaluationFails
  \/ Analyse
  \/ \E summary \in {"text", "arrow", None} :
       Summarised(summary) \/ \E kept \in {"state", "log"} : CrashInSummary(summary, kept)
  \/ Crash

Spec == Init /\ [][Next]_vars

-----------------------------------------------------------------------------
(* Properties.                                                             *)

\* Lines are reviewed in the order of the journal, each at most once, whatever
\* scans, failures and restarts come between; and an exit is reviewed with an
\* entry of its own strategy that came before it.
ReviewsFollowTheJournal ==
  /\ \A i, j \in 1..Len(log) : i < j => log[i].line < log[j].line
  /\ \A i \in 1..Len(log) : LET x == log[i] IN
       x.of # None => /\ x.of < x.line
                      /\ journal[x.of].type = "entry" /\ journal[x.line].type = "exit"
                      /\ journal[x.of].strategy = journal[x.line].strategy

\* An analysis starts from the trades the one before was asked about, not from
\* those that had closed when its answer came: no trade falls between two
\* analyses, none is in both, and two requests are an interval apart.  What an analysis
\* came to is lost to the log or the digest only if the process died between saving the
\* counts and writing it: one by each crash, and its trades are not analysed again.
NoTradeIsOverlooked ==
  /\ \A i \in 1..Len(analyses) - 1 : LET x == analyses[i]
                                        y == analyses[i + 1]
       IN  x.to = y.from /\ y.to - y.from >= MinNew /\ y.begun - x.at >= Interval
  /\ analysed.count = IF analyses = <<>> THEN 0 ELSE Last(analyses).to
  /\ Cardinality({i \in 1..Len(analyses) : analyses[i].kept # "digest"}) <= crashes

\* The digest is the latest of the analyses that reached it, without a gap, and as many
\* as there is room for unless an arrow has cut it, which leaves nothing of it nor of
\* what is older; the summary the dashboard shows is in the digest, was cut off before
\* it got there, or is older than all of it.
DigestIsTheLatest ==
  LET digested == {i \in 1..Len(analyses) : analyses[i].kept = "digest"}
      arrows == {i \in digested : analyses[i].summary = "arrow"}
      shown == {digest[i].nr : i \in 1..Len(digest)}
  IN  /\ Len(digest) <= MaxDigest
      /\ \A i \in 1..Len(digest) : digest[i].nr \in digested /\ digest[i] = analyses[digest[i].nr]
      /\ \A i, j \in 1..Len(digest) : i < j => digest[i].nr > digest[j].nr
      /\ \A i \in digested, j \in shown : i > j => i \in shown
      /\ arrows = {} => digested \subseteq shown \/ Len(digest) = MaxDigest
      /\ \A i \in arrows, j \in digested : i < j => \A k \in shown : i < k
      /\ LatestSummary # None =>
           \/ LatestSummary.kept = "log" \/ LatestSummary.nr \in shown
           \/ \A i \in 1..Len(digest) : digest[i].summary = None

ReviewsAreSound == ReviewsFollowTheJournal /\ NoTradeIsOverlooked /\ DigestIsTheLatest
=============================================================================
