------------------------------ MODULE Learning ------------------------------
(***************************************************************************)
(* What the coding agent learns (learning/): every finished turn is an     *)
(* episode; the LearningEngine grades it, asks a model for lessons,        *)
(* absorbs them in the LessonStore, promotes the lessons with enough       *)
(* evidence into skill files, and withdraws a skill that does badly.  The  *)
(* SkillsRegistry (skills/) read the catalog of skills once, at the start. *)
(*                                                                         *)
(* Episodes are processed one after the other, in the background: turns go *)
(* on meanwhile.  Confidences are in thousandths, rounded down; a lesson   *)
(* has one topic, and a topic one skill.                                   *)
(***************************************************************************)
EXTENDS Integers, Sequences, FiniteSets, SequencesExt

CONSTANTS
  Skills,
  Lessons,
  SkillOf,                        \* the skill of each lesson's first tag
  Traces,                         \* tool traces of the turns
  ReflectSuccessEveryN,
  MinEvidence, MinConfidence,     \* PROMOTE_MIN_EVIDENCE, PROMOTE_MIN_CONFIDENCE
  MinUses, MinSuccessPct,         \* MIN_USES_BEFORE_JUDGING, DEMOTE_BELOW_SUCCESS_RATE
  MaxLessonsPerSkill,
  MaxLessons,                     \* of one reflection
  None,
  MaxEpisodes, MaxWeeks, MaxStarts

VARIABLES
  turn,        \* the skills the current turn was given, or None
  ended,       \* how many episodes have ended
  pending,     \* the inFlight chain: sequence of [id, good, empty]
  reflecting,  \* the episode whose lessons are asked for, or None
  successes,   \* successCounter
  episodes,    \* those in the store
  dropped,     \* those whose processing failed, or that a restart cut off
  lessons,     \* the store: evidence, confidence, promoted and old, of each lesson
  files,       \* the lessons in the file of each skill, or None
  catalog,     \* the skills the registry found at the start
  usage,       \* how often each skill was used, and how often the turn went well
  weeks, starts,
  torn         \* history: the skills a run left with a new file, or none, and the store as it was

turns == <<turn, ended, usage>>
vars == <<turns, pending, reflecting, successes, episodes, dropped, lessons, files, catalog, weeks, starts, torn>>

Unknown == [evidence |-> 0, confidence |-> 0, promoted |-> FALSE, old |-> FALSE]

Init ==
  /\ turn = None /\ ended = 0
  /\ pending = <<>> /\ reflecting = None
  /\ successes = 0
  /\ episodes = {} /\ dropped = {}
  /\ lessons = [l \in Lessons |-> Unknown]
  /\ files = [s \in Skills |-> None]
  /\ catalog = {}
  /\ usage = [s \in Skills |-> [uses |-> 0, wins |-> 0]]
  /\ weeks = 0 /\ starts = 1
  /\ torn = {}

-----------------------------------------------------------------------------
(* gradeEpisode, from the trace alone.  Scores are in 600ths.              *)

\* Of errors, only one that escapes the workspace counts for more than the others.
Event == [name : {"test", "other"}, result : {"ok", "escape", "error"}]
Terminals == {"answered", "loop_abort", "turn_budget", "error"}   \* user_cancel is never used

Least(a, b) == IF a < b THEN a ELSE b

Errors(events) == Len(SelectSeq(events, LAMBDA e : e.result # "ok"))
Escapes(events) == Len(SelectSeq(events, LAMBDA e : e.result = "escape"))
Tests(events) == SelectSeq(events, LAMBDA e : e.name = "test")

\* The longest run of a tool that fails the same way again and again.
Repeats(events, i, n) == \A j \in i..i + n : events[j] = events[i] /\ events[i].result # "ok"
RetriedMax(events) ==
  LET lengths == {0} \cup {n \in 1..Len(events) - 1 : \E i \in 1..Len(events) - n : Repeats(events, i, n)}
  IN  CHOOSE n \in lengths : \A m \in lengths : m <= n

\* The last test run is the one that counts.
OfTests(events) == IF Tests(events) = <<>> THEN 0 ELSE IF Last(Tests(events)).result = "ok" THEN 60 ELSE -180

Score(terminal, events) ==
  600 - (CASE terminal \in {"loop_abort", "error"} -> 360
           [] terminal = "turn_budget" -> 240
           [] OTHER -> 0)
      - Least(180, (360 * Errors(events)) \div (IF events = <<>> THEN 1 ELSE Len(events)))
      - Least(120, 60 * Escapes(events))
      - Least(120, 30 * RetriedMax(events))
      + OfTests(events)

IsSuccess(terminal, events) == Score(terminal, events) >= 450

-----------------------------------------------------------------------------
(* Turns.                                                                  *)

\* runUserMessage: the skills come from the catalog of the start and their
\* content from the files; if a file is gone the turn throws here, and nothing
\* is changed.
StartTurn(skills) ==
  /\ turn = None
  /\ ended < MaxEpisodes
  /\ skills \subseteq catalog
  /\ \A s \in skills : files[s] # None
  /\ turn' = skills
  /\ UNCHANGED <<ended, usage, pending, reflecting, successes, episodes, dropped, lessons, files, catalog, weeks, starts, torn>>

\* onEpisodeEnd puts the episode at the end of the chain; recordSkillUse.
EndTurn(terminal, events) ==
  /\ turn # None
  /\ turn' = None
  /\ ended' = ended + 1
  /\ pending' = Append(pending, [id |-> ended + 1, good |-> IsSuccess(terminal, events), empty |-> events = <<>>])
  /\ usage' = [s \in Skills |->
                 IF s \in turn
                 THEN [uses |-> usage[s].uses + 1,
                       wins |-> usage[s].wins + IF terminal # "error" THEN 1 ELSE 0]
                 ELSE usage[s]]
  /\ UNCHANGED <<reflecting, successes, episodes, dropped, lessons, files, catalog, weeks, starts, torn>>

-----------------------------------------------------------------------------
(* LearningEngine.process.                                                 *)

\* The episode is stored; every failed one, and every Nth good one, is reflected on.
Record ==
  /\ pending # <<>> /\ reflecting = None
  /\ LET episode == Head(pending)
         count == successes + IF episode.good THEN 1 ELSE 0
     IN  /\ episodes' = episodes \cup {episode.id}
         /\ successes' = count
         /\ reflecting' = IF (episode.good => count % ReflectSuccessEveryN = 0) /\ ~episode.empty
                          THEN episode ELSE None
  /\ pending' = Tail(pending)
  /\ UNCHANGED <<turns, dropped, lessons, files, catalog, weeks, starts, torn>>

\* Mutant: nothing catches it, and what was chained to it never runs.
RecordFailsForAll ==
  /\ pending # <<>> /\ reflecting = None
  /\ dropped' = dropped \cup {Head(pending).id}
  /\ pending' = <<>>
  /\ UNCHANGED <<turns, reflecting, successes, episodes, lessons, files, catalog, weeks, starts, torn>>

\* The store throws: the error is caught, and the next episode has its turn.
RecordFails ==
  /\ pending # <<>> /\ reflecting = None
  /\ dropped' = dropped \cup {Head(pending).id}
  /\ pending' = Tail(pending)
  /\ UNCHANGED <<turns, reflecting, successes, episodes, lessons, files, catalog, weeks, starts, torn>>

\* absorb: a lesson found twice in one episode is one more piece of evidence,
\* but raises the confidence twice.
Raised(confidence, weight) == confidence + ((1000 - confidence) * weight) \div 1000
Absorbed(book, found, weight) ==
  [l \in Lessons |->
     LET hits == SelectSeq(found, LAMBDA x : x = l)
     IN  IF hits = <<>> THEN book[l]
         ELSE [book[l] EXCEPT !.evidence = @ + 1, !.old = FALSE,
                              !.confidence = FoldLeft(LAMBDA c, x : Raised(c, weight), @, hits)]]

\* prune: the skills to withdraw, by all that is known of their use.
Poor == {s \in Skills : usage[s].uses >= MinUses /\ 100 * usage[s].wins < MinSuccessPct * usage[s].uses}

Demoted(book, withdrawn) ==
  [l \in Lessons |->
     IF SkillOf[l] \in withdrawn /\ book[l].promoted
     THEN [book[l] EXCEPT !.promoted = FALSE, !.confidence = @ \div 2] ELSE book[l]]

Promotable(book) ==
  {l \in Lessons : ~book[l].promoted /\ book[l].evidence >= MinEvidence /\ book[l].confidence >= MinConfidence}
Topics(book) == {SkillOf[l] : l \in Promotable(book)}

\* The best of the lessons promoted before and now.
Entries(book, s) ==
  LET all == {l \in Lessons : SkillOf[l] = s /\ (book[l].promoted \/ l \in Promotable(book))}
      size == Least(MaxLessonsPerSkill, Cardinality(all))
  IN  CHOOSE E \in SUBSET all :
        Cardinality(E) = size /\ \A l \in E, k \in all \ E : book[l].confidence >= book[k].confidence

Promoted(book, topics) ==
  [l \in Lessons |-> [book[l] EXCEPT !.promoted = @ \/ (l \in Promotable(book) /\ SkillOf[l] \in topics)]]

\* sweep, which runs if a skill was written or withdrawn.
Swept(book) ==
  [l \in Lessons |->
     LET c == IF book[l].old THEN (book[l].confidence * 9) \div 10 ELSE book[l].confidence
     IN  IF book[l].promoted THEN book[l] ELSE IF c < 100 THEN Unknown ELSE [book[l] EXCEPT !.confidence = c]]

Learnt(found, withdrawn) ==
  Demoted(Absorbed(lessons, found, IF reflecting.good THEN 400 ELSE 250), withdrawn)

Written(book, withdrawn, written) ==
  [s \in Skills |->
     IF s \in written THEN Entries(book, s) ELSE IF s \in withdrawn THEN None ELSE files[s]]

\* There is nothing to learn, or the model cannot be asked.
NothingFound ==
  /\ reflecting # None
  /\ reflecting' = None
  /\ UNCHANGED <<turns, pending, successes, episodes, dropped, lessons, files, catalog, weeks, starts, torn>>

\* The answer is in: absorb, prune, synthesize and sweep follow without a pause.
Reflect(found) ==
  /\ reflecting # None /\ found # <<>>
  /\ reflecting' = None
  /\ LET pruned == Learnt(found, Poor)
         topics == Topics(pruned)
         book == Promoted(pruned, topics)
     IN  /\ files' = Written(pruned, Poor, topics)
         /\ lessons' = IF topics # {} \/ Poor # {} THEN Swept(book) ELSE book
         /\ torn' = torn \ (topics \cup Poor)
  /\ UNCHANGED <<turns, pending, successes, episodes, dropped, catalog, weeks, starts>>

\* The run goes no further than some of the skills to withdraw, or all and some of those
\* to write; of one more the file may have been removed or written, maybe in part, while
\* its lessons are not marked.
Stopped(found, withdrawn) ==
  /\ reflecting # None /\ found # <<>>
  /\ LET pruned == Learnt(found, withdrawn)
         topics == IF withdrawn = Poor THEN Topics(pruned) ELSE {}
     IN  \E written \in SUBSET topics :
           LET done == Written(pruned, withdrawn, written)
               next == ((Poor \ withdrawn) \X {None})
                         \cup UNION {{s} \X SUBSET Entries(pruned, s) : s \in topics \ written}
           IN  /\ lessons' = Promoted(pruned, written)
               /\ \/ /\ files' = done
                     /\ torn' = torn \ (withdrawn \cup written)
                  \/ \E half \in next :
                       /\ files' = [done EXCEPT ![half[1]] = half[2]]
                       /\ torn' = (torn \ (withdrawn \cup written)) \cup {half[1]}

\* A file cannot be removed or written, or the store throws: the error is caught.
ReflectFails(found, withdrawn) ==
  /\ Stopped(found, withdrawn)
  /\ reflecting' = None
  /\ UNCHANGED <<turns, pending, successes, episodes, dropped, catalog, weeks, starts>>

-----------------------------------------------------------------------------
(* Around it.                                                              *)

\* DECAY_AFTER_MS goes by.
WeekPasses ==
  /\ weeks < MaxWeeks
  /\ weeks' = weeks + 1
  /\ lessons' = [l \in Lessons |-> [lessons[l] EXCEPT !.old = lessons[l].evidence > 0]]
  /\ UNCHANGED <<turns, pending, reflecting, successes, episodes, dropped, files, catalog, starts, torn>>

\* Someone takes an entry out of a skill's file.
DeleteEntry(s, l) ==
  /\ files[s] # None /\ l \in files[s]
  /\ files' = [files EXCEPT ![s] = @ \ {l}]
  /\ UNCHANGED <<turns, pending, reflecting, successes, episodes, dropped, lessons, catalog, weeks, starts, torn>>

\* The process starts again: the catalog is read, what was in memory is gone.
Restarted ==
  /\ starts < MaxStarts
  /\ starts' = starts + 1
  /\ turn' = None
  /\ dropped' = dropped \cup {pending[i].id : i \in DOMAIN pending}
  /\ pending' = <<>> /\ reflecting' = None
  /\ successes' = 0
  /\ catalog' = {s \in Skills : files'[s] # None}
  /\ UNCHANGED <<ended, usage, episodes, weeks>>

Restart ==
  /\ UNCHANGED <<lessons, files, torn>>
  /\ Restarted

CrashInReflect(found, withdrawn) ==
  /\ Stopped(found, withdrawn)
  /\ Restarted

Next ==
  \/ \E skills \in SUBSET Skills : StartTurn(skills)
  \/ \E terminal \in Terminals, events \in Traces : EndTurn(terminal, events)
  \/ Record \/ RecordFails
  \/ NothingFound
  \/ \E found \in SeqOf(Lessons, MaxLessons) :
       \/ Reflect(found)
       \/ \E withdrawn \in SUBSET Poor : ReflectFails(found, withdrawn) \/ CrashInReflect(found, withdrawn)
  \/ WeekPasses
  \/ \E l \in Lessons : DeleteEntry(SkillOf[l], l)
  \/ Restart

Spec == Init /\ [][Next]_vars

-----------------------------------------------------------------------------
(* Properties.                                                             *)

\* The reward is "from hard signals only": a turn that was aborted, that failed or
\* that ran out of its budget is never a success, nor is one whose last test run
\* failed, whatever its other calls did.
GradesAreHonest ==
  \A terminal \in Terminals, events \in SeqOf(Event, 3) :
    IsSuccess(terminal, events) =>
      /\ terminal = "answered"
      /\ Tests(events) # <<>> => Last(Tests(events)).result = "ok"

\* No error in one episode's processing costs another its record.
EpisodesAreRecorded ==
  /\ 1..ended = episodes \cup dropped \cup {pending[i].id : i \in DOMAIN pending}
  /\ Cardinality(dropped) <= ended - Cardinality(episodes)

\* The files and the store agree, though they are written one after the other: a
\* lesson is promoted only to a skill that has a file, a file has entries of
\* promoted lessons only, and a skill without promoted lessons has no file.  The code
\* holds to it only for skills no run was stopped at between its file and its lessons,
\* or that a later one has written or withdrawn.
SkillsFollowLessons ==
  \A s \in Skills \ torn :
    LET backing == {l \in Lessons : SkillOf[l] = s /\ lessons[l].promoted}
    IN  /\ (files[s] = None) <=> (backing = {})
        /\ files[s] # None => files[s] \subseteq backing

\* They hold together; grades do not depend on the state, and are looked at in
\* the first one.
LearningIsSound ==
  /\ ended = 0 /\ starts = 1 => GradesAreHonest
  /\ EpisodesAreRecorded
  /\ SkillsFollowLessons

\* What a run withdraws for doing badly it does not promote again: before it promotes
\* anything it has withdrawn all of it.
WithdrawnStaysOut ==
  [][reflecting # None /\ reflecting' = None =>
       \A l \in Lessons : lessons[l].promoted /\ SkillOf[l] \in Poor /\ lessons'[l].promoted =>
         \A k \in Lessons : lessons'[k].promoted => lessons[k].promoted]_vars
=============================================================================
