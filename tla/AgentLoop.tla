----------------------------- MODULE AgentLoop -----------------------------
(***************************************************************************)
(* Runs of the coding agent (cli/agent.ts, runUserMessage) over one shared *)
(* conversation (cli/agent-conversation.ts), loop detector                 *)
(* (orchestrator/loop-detector.ts), episode recorder                       *)
(* (learning/episode-recorder.ts) and session file (runtime/session.ts).   *)
(* There may be several runs at a time: the terminal starts one beside     *)
(* another (tui/app-input.ts), and the steps of a plan run concurrently    *)
(* through AgentStepRunner (orchestrator/agent-planner.ts).                *)
(*                                                                         *)
(* A message is the run that pushed it; what the model says and what a     *)
(* tool returns are inputs.  The tools chosen for a turn and    *)
(* the routing of the request are left out.                                *)
(***************************************************************************)
EXTENDS Integers, Sequences, FiniteSets, SequencesExt

CONSTANTS
  Runs,            \* ids of the runs, 1 .. n in the order they start
  MaxToolTurns, MaxMessages, Recent,
  MaxConsecutiveFailures,
  MaxCalls,        \* bound on the tool calls of a reply
  Errors,          \* signatures of failing calls, with their error
  MaxDisturbances, \* bound on crashes and on other conversations while a run is under way
  None

LoopAssumption ==
  /\ Runs \subseteq Nat \ {0}
  /\ Recent \in Nat \ {0} /\ MaxMessages \in Nat /\ Recent + 2 <= MaxMessages
  /\ MaxToolTurns \in Nat \ {0} /\ MaxConsecutiveFailures \in Nat \ {0}
  /\ None \notin Errors /\ None \notin Runs /\ None \notin [goal : Runs, events : SUBSET Runs]

VARIABLES
  messages,          \* of the conversation
  run,               \* run -> [at, turn, calls]
  detector,          \* [last, repeatCount]
  current,           \* the episode being recorded: [goal, events], None without one
  episodes,          \* history: what end() returned, and for which run
  session,           \* the session file, None without one
  disturbances,
  overlapped,        \* history: runs that were under way beside another one,
  replaced,          \* and those under way when the conversation was replaced
  lastEnd            \* history: the run that ended last

history == <<overlapped, replaced, lastEnd>>
vars == <<messages, run, detector, current, episodes, session, disturbances, history>>

NewRun == [at |-> "new", turn |-> 0, calls |-> 0]
NoFailures == [last |-> None, repeatCount |-> 0]

Init ==
  /\ messages = <<>> /\ session = None
  /\ run = [r \in Runs |-> NewRun]
  /\ detector = NoFailures
  /\ current = None /\ episodes = <<>>
  /\ disturbances = 0
  /\ overlapped = {} /\ replaced = {} /\ lastEnd = None

System == 0     \* the system prompt
Summary == -1   \* what is left of the messages that were pruned

Active == {r \in Runs : run[r].at \in {"turn", "chatting", "tool"}}

-----------------------------------------------------------------------------
(* The conversation.                                                       *)

\* init, or refreshSystemPrompt.
WithSystemPrompt(ms) ==
  IF ms # <<>> /\ ms[1] = System THEN ms ELSE <<System>> \o ms

\* Mutant: the head of the transcript goes with the middle.
PrunedToRecent(ms) ==
  IF Len(ms) <= MaxMessages THEN ms
  ELSE <<Summary>> \o SubSeq(ms, Len(ms) - Recent + 1, Len(ms))

\* pruneContext
Pruned(ms) ==
  IF Len(ms) <= MaxMessages THEN ms
  ELSE <<ms[1], Summary>> \o SubSeq(ms, Len(ms) - Recent + 1, Len(ms))

-----------------------------------------------------------------------------
(* A run.                                                                  *)

\* runUserMessage up to the first turn, with the skills it activates.
Start(r, skills) ==
  /\ run[r].at = "new" /\ \A q \in Runs : q < r => run[q].at # "new"
  /\ messages' = WithSystemPrompt(messages) \o [i \in 1 .. skills |-> r] \o <<r>>
  /\ current' = [goal |-> r, events |-> {}]
  /\ run' = [run EXCEPT ![r].at = "turn"]
  /\ overlapped' = IF Active = {} THEN overlapped ELSE overlapped \union Active \union {r}
  /\ UNCHANGED <<detector, episodes, session, disturbances, replaced, lastEnd>>

\* A turn prunes the conversation, selects tools and sends it to the model.
BeginTurn(r) ==
  /\ run[r].at = "turn"
  /\ messages' = Pruned(messages)
  /\ run' = [run EXCEPT ![r].at = "chatting"]
  /\ UNCHANGED <<detector, current, episodes, session, disturbances, history>>

\* The transcript is saved however the run ends.
Saved(terminal, ms) == ms

\* onEpisodeEnd: end() returns the episode of the moment, null without one.
Kept(r, terminal, episode) ==
  IF episode = None THEN episodes
  ELSE Append(episodes, [of |-> r, goal |-> episode.goal, events |-> episode.events])

\* finish(): ends the episode that is being recorded, whoever began it.
Finish(r, terminal, ms, episode) ==
  /\ run' = [run EXCEPT ![r].at = terminal]
  /\ messages' = ms /\ session' = Saved(terminal, ms)
  /\ episodes' = Kept(r, terminal, episode)
  /\ current' = None
  /\ lastEnd' = r /\ UNCHANGED <<overlapped, replaced>>

\* Mutant: a reply without calls does not count as a turn.
GoOnUncounted(r, ms, calls, episode) ==
  /\ run' = [run EXCEPT ![r] = IF calls > 0 THEN [@ EXCEPT !.calls = calls]
                               ELSE [@ EXCEPT !.at = "turn", !.calls = 0]]
  /\ messages' = ms /\ current' = episode
  /\ UNCHANGED <<episodes, session, history>>

\* The next call of the reply, or the next turn.
GoOn(r, ms, calls, episode) ==
  /\ run' = [run EXCEPT ![r] = IF calls > 0 THEN [@ EXCEPT !.calls = calls]
                               ELSE [at |-> "turn", turn |-> @.turn + 1, calls |-> 0]]
  /\ messages' = ms /\ current' = episode
  /\ UNCHANGED <<episodes, session, history>>

LastTurn(r) == run[r].turn = MaxToolTurns - 1

\* The reply of the model, with so many tool calls.
Reply(r, calls, hasContent) ==
  LET said == Append(messages, r)
  IN  /\ run[r].at = "chatting"
      /\ \/ /\ calls > 0
            /\ run' = [run EXCEPT ![r].at = "tool", ![r].calls = calls]
            /\ messages' = said
            /\ UNCHANGED <<episodes, current, session, history>>
         \/ calls = 0 /\ ~hasContent /\ ~LastTurn(r) /\ GoOn(r, Append(said, r), 0, current)
         \/ calls = 0 /\ (hasContent \/ LastTurn(r)) /\ Finish(r, "answered", said, current)
      /\ UNCHANGED <<detector, disturbances>>

\* The request fails; the error is thrown on.
ChatFails(r) ==
  /\ run[r].at = "chatting"
  /\ Finish(r, "error", messages, current)
  /\ UNCHANGED <<detector, disturbances>>

\* LoopDetector.record; a call that succeeds is not recorded.
Recorded(e) ==
  [last |-> e, repeatCount |-> IF detector.last = e THEN detector.repeatCount + 1 ELSE 0]
LoopDetected(d) == d.repeatCount >= MaxConsecutiveFailures - 1

\* onToolResult of the recorder, for the episode of the moment.
Observed(r) == IF current = None THEN None ELSE [current EXCEPT !.events = @ \union {r}]

\* A tool call returns: a result, an error, or an escape from the workspace (an
\* error too, which does not look at the budget).  Calls that are left when the
\* run ends stay unanswered in the transcript.
ToolReturns(r, error, escaped) ==
  LET told == Append(messages, r) \o IF escaped THEN <<r>> ELSE <<>>
      looped == error # None /\ LoopDetected(Recorded(error))
      left == run[r].calls - 1
      spent == LastTurn(r) /\ (~escaped \/ left = 0)
  IN  /\ run[r].at = "tool" /\ (escaped => error # None)
      /\ detector' = IF error = None THEN detector ELSE Recorded(error)
      /\ \/ looped /\ Finish(r, "loop_abort", told, Observed(r))
         \/ ~looped /\ spent /\ Finish(r, "turn_budget", told, Observed(r))
         \/ ~looped /\ ~spent /\ GoOn(r, told, left, Observed(r))
      /\ UNCHANGED disturbances

-----------------------------------------------------------------------------
(* The process is killed; the conversation is reset, or replaced by the    *)
(* saved one, by the user, who does not wait for the runs under way.       *)

Crash ==
  /\ disturbances < MaxDisturbances
  /\ disturbances' = disturbances + 1
  /\ run' = [r \in Runs |-> IF r \in Active THEN [run[r] EXCEPT !.at = "killed"] ELSE run[r]]
  /\ messages' = <<>> /\ detector' = NoFailures /\ current' = None
  /\ UNCHANGED <<episodes, session, history>>

\* The runs under way go on in another conversation.
Replace(ms) ==
  /\ messages # ms /\ messages' = ms
  /\ Active # {} => disturbances < MaxDisturbances
  /\ disturbances' = IF Active = {} THEN disturbances ELSE disturbances + 1
  /\ replaced' = replaced \union Active
  /\ UNCHANGED <<run, detector, current, episodes, overlapped, lastEnd>>

\* resetContext, which deletes the saved transcript, and setModel, which does not.
ResetContext == Replace(<<>>) /\ session' = None
SetModel == Replace(<<>>) /\ UNCHANGED session

ResumeSession == session # None /\ Replace(session) /\ UNCHANGED session

Next ==
  \/ \E r \in Runs, skills \in 0 .. 1 : Start(r, skills)
  \/ \E r \in Runs : BeginTurn(r) \/ ChatFails(r)
  \/ \E r \in Runs, calls \in 0 .. MaxCalls, hasContent \in BOOLEAN : Reply(r, calls, hasContent)
  \/ \E r \in Runs, e \in Errors \union {None}, escaped \in BOOLEAN : ToolReturns(r, e, escaped)
  \/ Crash
  \/ ResetContext \/ SetModel \/ ResumeSession

Spec == Init /\ [][Next]_vars

\* Requests and tools come back (they have timeouts), and the loop goes on.
Fairness ==
  \A r \in Runs :
    /\ WF_vars(BeginTurn(r))
    /\ WF_vars(ChatFails(r) \/ \E calls \in 0 .. MaxCalls, c \in BOOLEAN : Reply(r, calls, c))
    /\ WF_vars(\E e \in Errors \union {None}, escaped \in BOOLEAN : ToolReturns(r, e, escaped))

FairSpec == Spec /\ Fairness

-----------------------------------------------------------------------------
(* Properties.                                                             *)

Ended == {r \in Runs : run[r].at \in {"answered", "loop_abort", "turn_budget", "error"}}

\* What the model is asked with starts with the system prompt, over nudges, long
\* turns, prunings and resumed sessions, unless the conversation of the run was
\* replaced; and it is bounded, unless another run spoke after the pruning too.
RequestsAreBounded ==
  \A r \in Runs : run[r].at = "chatting" /\ r \notin replaced =>
    /\ messages[1] = System
    /\ r \notin overlapped => Len(messages) <= MaxMessages

\* A run that has ended has one episode, the one it began, with its own tool calls
\* only. The recorder has room for one, so of runs that overlapped some take what
\* another began, or have none ("Builds one Episode per runUserMessage call",
\* episode-recorder.ts:6); no run has two, and no episode is kept twice.
OneEpisodePerRun ==
  /\ \A i \in DOMAIN episodes : episodes[i].of \notin overlapped =>
       episodes[i].goal = episodes[i].of /\ episodes[i].events \subseteq {episodes[i].of}
  /\ \A r \in Ended \ overlapped : \E i \in DOMAIN episodes : episodes[i].of = r
  /\ \A i, j \in DOMAIN episodes :
       episodes[i].of = episodes[j].of \/ episodes[i].goal = episodes[j].goal => i = j

\* The end of the run that ended last is on disk however it ended, so a process
\* killed in the next one resumes behind it; so is never the middle of a run. A run
\* whose request failed saves what others have left there.
SessionIsOfTheLastEnd ==
  session # None =>
    \/ lastEnd \in overlapped \union replaced /\ run[lastEnd].at = "error"
    \/ lastEnd # None /\ session # <<>> /\ Last(session) = lastEnd

\* A call that keeps failing the same way does not run the whole budget: every
\* run ends, and ends by its own budget at the latest.
RunsEnd == Active # {} ~> Active = {}
=============================================================================
