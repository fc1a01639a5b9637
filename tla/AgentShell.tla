----------------------------- MODULE AgentShell -----------------------------
(***************************************************************************)
(* The terminal shell around the coding agent (tui/): the runs it starts,  *)
(* the bridge that turns the agent's callbacks into events, the store that *)
(* reduces them (runtime/store.ts), the throttled display, the model and   *)
(* tier switches, and the commands (tui/app-command-effects.ts) that start *)
(* runs of their own or change the conversation.                           *)
(*                                                                         *)
(* Enter starts a run whether or not another is under way.  A handler      *)
(* publishes its events, and the store's listeners hear them, at once, so  *)
(* a handler is one step; what it shows is decided by Render.  A behaviour *)
(* is about one part: runs with their calls and the display, models, or    *)
(* what is said, where a run is only what it says and the display is left  *)
(* out.  An approval or a plan is published by nobody and is left out.     *)
(***************************************************************************)
EXTENDS Integers, Sequences, FiniteSets, SequencesExt

CONSTANTS
  Runs, Tools, Models, Tiers,
  Usable,            \* the models that answer
  Sessions,          \* transcripts an earlier process may have saved
  None,
  MaxCalls, MaxSwitches

Spoken(l) == l.role \in {"user", "assistant"}

ShellAssumption ==
  /\ Runs \subseteq Nat /\ None \notin Tools
  /\ \A s \in Sessions :
       /\ s \in Seq([role : {"system", "user", "assistant", "tool"}, run : Nat \ Runs])
       /\ \A i, j \in DOMAIN s : s[i] = s[j] /\ Spoken(s[i]) => i = j

VARIABLES
  part,        \* which of the three this behaviour is about
  \* runs and their calls
  run,         \* of each run: "none", "on", "over", or "speaking" once it has shown text
  wait,        \* the call each run waits for, or 0
  open,        \* openCalls: of each tool, the calls without a result
  calls,       \* toolCalls: sequence of [tool, status, result], in the order of their ids
  busy, mode, streaming, activeTool,
  overlapped,  \* two runs were under way at once
  \* display
  stale,       \* the store has changed since the last render
  timer,       \* a trailing flush is scheduled
  recent,      \* less than RENDER_THROTTLE_MS since the last
  \* models
  agentModel, shownModel, tier,
  validating,  \* sequence of [model, previous]
  overlay,     \* the model switcher is open
  loading,     \* the tier whose models are being listed, or None
  models,      \* the tier whose models the cache lists, or None
  switches,
  raced,       \* a model was set while another was being validated
  \* conversation: sequences of [role, run]
  talk,        \* on the screen
  context,     \* the transcript the model is given
  session,     \* session.json, or None
  cleared,     \* what the user has cleared off the screen
  interrupted  \* a session was resumed while a run was under way

work == <<run, wait, open, calls, busy, mode, streaming, activeTool, overlapped>>
display == <<stale, timer, recent>>
model == <<agentModel, shownModel, tier, validating, overlay, loading, models, switches, raced>>
said == <<talk, context, session, cleared, interrupted>>
vars == <<part, work, display, model, said>>

Init ==
  /\ part \in {"runs", "models", "talk"}
  /\ run = [r \in Runs |-> "none"] /\ wait = [r \in Runs |-> 0]
  /\ open = [t \in Tools |-> <<>>]
  /\ calls = <<>>
  /\ busy = FALSE /\ mode = "idle" /\ streaming = FALSE /\ activeTool = None
  /\ overlapped = FALSE
  /\ stale = FALSE /\ timer = FALSE /\ recent = FALSE
  /\ agentModel \in Usable /\ shownModel = agentModel
  /\ tier \in Tiers
  /\ validating = <<>> /\ overlay = FALSE /\ loading = None /\ models = None
  /\ switches = 0 /\ raced = FALSE
  /\ talk = <<>> /\ context = <<>> /\ cleared = {} /\ interrupted = FALSE
  /\ session \in IF part = "talk" THEN Sessions \union {None} ELSE {None}

-----------------------------------------------------------------------------
(* useRuntimeState: the first change after a quiet time is shown at once,  *)
(* the others together when the time is over.                              *)

\* Mutant: what comes soon after a render is dropped.
Dropped(many) ==
  /\ stale' = (stale \/ recent \/ many)
  /\ timer' = FALSE
  /\ recent' = TRUE

\* Many: the handler publishes more than one event.
Render(many) ==
  IF timer THEN stale' = TRUE /\ UNCHANGED <<timer, recent>>
  ELSE /\ recent' = TRUE
       /\ timer' = (recent \/ many)
       /\ stale' = timer'

Flush ==
  /\ timer
  /\ timer' = FALSE /\ stale' = FALSE /\ recent' = TRUE
  /\ UNCHANGED <<part, work, model, said>>

QuietTime ==
  /\ recent /\ ~timer
  /\ recent' = FALSE
  /\ UNCHANGED <<part, work, stale, timer, model, said>>

-----------------------------------------------------------------------------
(* Runs.                                                                   *)

UnderWay == {r \in Runs : run[r] \in {"on", "speaking"}}

\* submitPrompt and runAgentTask up to the await.
Submit(r) ==
  /\ part = "runs"
  /\ run[r] = "none"
  /\ overlapped' = (overlapped \/ UnderWay # {})
  /\ run' = [run EXCEPT ![r] = "on"]
  /\ busy' = TRUE
  /\ mode' = "streaming"
  /\ Render(TRUE)
  /\ UNCHANGED <<part, wait, open, calls, streaming, activeTool, model, said>>

Free(r) == part = "runs" /\ run[r] = "on" /\ wait[r] = 0

\* onAssistantText.
Text(r) ==
  /\ Free(r)
  /\ streaming' = TRUE
  /\ Render(TRUE)
  /\ UNCHANGED <<part, run, wait, open, calls, busy, mode, activeTool, overlapped, model, said>>

\* onToolCall: tool.started and conversation.tool_call.
Call(r, t) ==
  /\ Free(r)
  /\ Len(calls) < MaxCalls
  /\ wait' = [wait EXCEPT ![r] = Len(calls) + 1]
  /\ open' = [open EXCEPT ![t] = Append(@, Len(calls) + 1)]
  /\ calls' = Append(calls, [tool |-> t, status |-> "running", result |-> None])
  /\ activeTool' = t
  /\ Render(TRUE)
  /\ UNCHANGED <<part, run, busy, mode, streaming, overlapped, model, said>>

Settled(id, result, failed) ==
  LET after == [calls EXCEPT ![id].status = IF failed THEN "failed" ELSE "completed", ![id].result = result]
  IN  /\ calls' = after
      /\ activeTool' = IF \E i \in DOMAIN after : after[i].status = "running" THEN activeTool ELSE None

\* Mutant: the newest open call gets the result, and all are closed.
ResultClosesAll(r, failed) ==
  /\ wait[r] # 0
  /\ LET t == calls[wait[r]].tool
     IN  IF open[t] = <<>> THEN UNCHANGED <<open, calls, activeTool>>
         ELSE Settled(Last(open[t]), wait[r], failed) /\ open' = [open EXCEPT ![t] = <<>>]
  /\ wait' = [wait EXCEPT ![r] = 0]
  /\ Render(TRUE)
  /\ UNCHANGED <<part, run, busy, mode, streaming, overlapped, model, said>>

\* onToolResult: the result goes to the oldest open call of the tool.  A tool that
\* throws has a result too (tools/registry.ts, invoke).
Result(r, failed) ==
  /\ wait[r] # 0
  /\ LET t == calls[wait[r]].tool
     IN  Settled(Head(open[t]), wait[r], failed) /\ open' = [open EXCEPT ![t] = Tail(@)]
  /\ wait' = [wait EXCEPT ![r] = 0]
  /\ Render(TRUE)
  /\ UNCHANGED <<part, run, busy, mode, streaming, overlapped, model, said>>

\* The finally of runAgentTask, whether the run returned or threw.
End(r) ==
  /\ Free(r)
  /\ run' = [run EXCEPT ![r] = "over"]
  /\ busy' = FALSE /\ streaming' = FALSE /\ mode' = "idle"
  /\ Render(TRUE)
  /\ UNCHANGED <<part, wait, open, calls, activeTool, overlapped, model, said>>

-----------------------------------------------------------------------------
(* Models and tiers.                                                       *)

\* handleSetModel, up to the answer of the model.
SetModel(m) ==
  /\ part = "models"
  /\ switches < MaxSwitches
  /\ m # shownModel
  /\ switches' = switches + 1
  /\ raced' = (raced \/ validating # <<>>)
  /\ agentModel' = m /\ shownModel' = m
  /\ validating' = Append(validating, [model |-> m, previous |-> shownModel])
  /\ Render(TRUE)
  /\ UNCHANGED <<part, work, tier, overlay, loading, models, said>>

\* It answered, or it is replaced by the one before it.
Validated(i) ==
  /\ validating' = RemoveAt(validating, i)
  /\ LET v == validating[i]
     IN  IF v.model \in Usable THEN UNCHANGED <<agentModel, shownModel>>
         ELSE agentModel' = v.previous /\ shownModel' = v.previous
  /\ Render(TRUE)
  /\ UNCHANGED <<part, work, tier, overlay, loading, models, switches, raced, said>>

\* handleSetTier: a slash command, so not while the switcher has the keys.
SetTier(t) ==
  /\ part = "models"
  /\ switches < MaxSwitches
  /\ ~overlay /\ t # tier
  /\ switches' = switches + 1
  /\ tier' = t
  /\ models' = None
  /\ Render(TRUE)
  /\ UNCHANGED <<part, work, agentModel, shownModel, validating, overlay, loading, raced, said>>

\* useModelList: opening the switcher loads the list, unless it is there;
\* closing it cancels the load.
OpenSwitcher ==
  /\ part = "models" /\ ~overlay
  /\ overlay' = TRUE
  /\ loading' = IF models = None THEN tier ELSE None
  /\ UNCHANGED <<part, work, display, agentModel, shownModel, tier, validating, models, switches, raced, said>>

CloseSwitcher ==
  /\ overlay
  /\ overlay' = FALSE
  /\ loading' = None
  /\ UNCHANGED <<part, work, display, agentModel, shownModel, tier, validating, models, switches, raced, said>>

Listed ==
  /\ loading # None
  /\ models' = loading
  /\ loading' = None
  /\ UNCHANGED <<part, work, display, agentModel, shownModel, tier, validating, overlay, switches, raced, said>>

-----------------------------------------------------------------------------
(* What is said.                                                           *)

Line(role, r) == [role |-> role, run |-> r]
Replayed(transcript) ==
  FoldLeft(LAMBDA lines, l : IF Spoken(l) THEN Append(lines, l) ELSE lines, <<>>, transcript)
Shown(line) == IF line \in ToSet(talk) THEN talk ELSE Append(talk, line)
others == <<part, wait, open, calls, busy, mode, streaming, activeTool, display, model>>

\* A prompt is shown, and runUserMessage pushes what its first request needs.
Ask(r) ==
  /\ part = "talk"
  /\ run[r] = "none" /\ \A q \in Runs : q < r => run[q] # "none"
  /\ run' = [run EXCEPT ![r] = "on"]
  /\ overlapped' = (overlapped \/ UnderWay # {})
  /\ talk' = Append(talk, Line("user", r))
  /\ context' = Append(IF context = <<>> THEN <<Line("system", 0)>> ELSE context, Line("user", r))
  /\ UNCHANGED <<others, session, cleared, interrupted>>

\* handleRunShell asks for any command, and handleInitWorkspace for AGENTS.md where
\* there is none, whether or not a run is under way.
RunShell(r) == Ask(r)
InitWorkspace(r) == Ask(r)

\* onAssistantText
Speak(r) ==
  /\ part = "talk" /\ r \in UnderWay
  /\ run' = [run EXCEPT ![r] = "speaking"]
  /\ talk' = Shown(Line("assistant", r))
  /\ UNCHANGED <<others, overlapped, context, session, cleared, interrupted>>

\* What a run answered joins the transcript, unless it failed; the transcript is saved.
Answer(r, failed) ==
  /\ part = "talk" /\ r \in UnderWay
  /\ run' = [run EXCEPT ![r] = "over"]
  /\ context' = IF failed \/ run[r] = "on" THEN context ELSE Append(context, Line("assistant", r))
  /\ session' = context'
  /\ UNCHANGED <<others, overlapped, talk, cleared, interrupted>>

\* handleResumeSession: the transcript is the saved one, and its lines, if it has any,
\* are replayed.
ResumeSession ==
  /\ part = "talk" /\ session # None
  /\ context' = session
  /\ IF session = <<>> THEN UNCHANGED <<talk, cleared, interrupted>>
     ELSE /\ talk' = Replayed(session) /\ cleared' = {}
          /\ interrupted' = (interrupted \/ UnderWay # {})
  /\ UNCHANGED <<others, run, overlapped, session>>

ClearConversation ==
  /\ part = "talk"
  /\ talk' = <<>> /\ cleared' = cleared \union ToSet(talk)
  /\ UNCHANGED <<others, run, overlapped, context, session, interrupted>>

\* handleResetContext, or a new model, whose transcript starts empty: the screen
\* keeps what the model forgets.
Forget(onDisk) ==
  /\ part = "talk"
  /\ context' = <<>> /\ session' = IF onDisk THEN None ELSE session
  /\ UNCHANGED <<others, run, overlapped, talk, cleared, interrupted>>

Next ==
  \/ Flush \/ QuietTime
  \/ \E r \in Runs :
       \/ Submit(r) \/ Text(r) \/ End(r)
       \/ \E t \in Tools : Call(r, t)
       \/ \E failed \in BOOLEAN : Result(r, failed)
  \/ \E m \in Models : SetModel(m)
  \/ \E i \in DOMAIN validating : Validated(i)
  \/ \E t \in Tiers : SetTier(t)
  \/ \E r \in Runs :
       \/ Ask(r) \/ RunShell(r) \/ InitWorkspace(r) \/ Speak(r)
       \/ \E failed \in BOOLEAN : Answer(r, failed)
  \/ ResumeSession \/ ClearConversation
  \/ \E onDisk \in BOOLEAN : Forget(onDisk)
  \/ OpenSwitcher \/ CloseSwitcher \/ Listed

Spec == Init /\ [][Next]_vars

\* Timers fire.
FairSpec == Spec /\ WF_vars(Flush)

-----------------------------------------------------------------------------
(* Properties.                                                             *)

\* Whatever the order in which overlapping runs end, once none is left the shell
\* is idle; while a run is on alone, it shows so.
IdleWhenDone ==
  /\ UnderWay = {} => ~busy /\ ~streaming /\ mode = "idle"
  /\ part = "runs" /\ UnderWay # {} /\ ~overlapped => busy /\ mode = "streaming"

\* Overlapping runs may exchange the results of their calls, but for each tool as
\* many calls are shown running as are under way; and with one run at a time each
\* call gets its own result.
RunningOf(t) == {i \in DOMAIN calls : calls[i].tool = t /\ calls[i].status = "running"}
WaitedFor(t) == {i \in DOMAIN calls : calls[i].tool = t /\ \E r \in Runs : wait[r] = i}
CallsAreCounted ==
  /\ \A t \in Tools : Cardinality(RunningOf(t)) = Cardinality(WaitedFor(t))
  /\ ~overlapped => \A i \in DOMAIN calls : calls[i].result \in {None, i}
  /\ \A i \in DOMAIN calls : calls[i].result # None => calls[calls[i].result].tool = calls[i].tool
  /\ activeTool = None <=> \A i \in DOMAIN calls : calls[i].status # "running"

\* A model that does not answer is not kept, in the agent or on the screen, unless
\* another switch came before its answer; and the list of the switcher is that of
\* the tier in use.
ModelsAreInUse ==
  /\ agentModel = shownModel
  /\ validating = <<>> /\ ~raced => agentModel \in Usable
  /\ models \in {None, tier} /\ (overlay => loading \in {None, tier})

\* What the user and the model have said and the model remembers is on the screen
\* once, in its order where runs do not overlap, but for what the user cleared and
\* what a run said before a session was resumed under it.
ScreenShowsTheContext ==
  LET Kept == {i \in DOMAIN context : Spoken(context[i]) /\ context[i] \notin cleared}
  IN  /\ IsInjective(talk)
      /\ ~interrupted => \A i \in Kept : \E n \in DOMAIN talk : talk[n] = context[i]
      /\ ~interrupted /\ ~overlapped =>
           \A i, j \in Kept, n, k \in DOMAIN talk :
             talk[n] = context[i] /\ talk[k] = context[j] => (n < k <=> i < j)

ShellIsConsistent == ScreenShowsTheContext /\ IdleWhenDone /\ CallsAreCounted /\ ModelsAreInUse

\* What the store holds is on the screen in the end.
ShowsTheLatest == stale ~> ~stale
=============================================================================
