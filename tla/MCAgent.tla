------------------------------ MODULE MCAgent ------------------------------
(* The orchestrator of a plan of two chained steps and one beside them, to   *)
(* which the planner may add two more, the second out of order without the   *)
(* first; and the parts below it: the loop of the coding agent, its shell    *)
(* tool, its terminal and the store behind that. Each is modelled against    *)
(* any behaviour of the others, so a behaviour runs one of them, the others  *)
(* staying as they began.                                                    *)
EXTENDS Orchestrator

CONSTANTS
  None,
  LoopRuns, LoopMaxToolTurns, LoopMaxMessages, LoopRecent, LoopMaxFailures, LoopMaxCalls,
  LoopErrors, LoopMaxDisturbances,
  ScreenRuns, ScreenTools, ScreenModels, ScreenTiers, ScreenUsable, ScreenSessions,
  ScreenMaxCalls, ScreenMaxSwitches,
  StoreIds, StoreTools, StoreMaxConversation, StoreMaxToolCalls, StoreMaxEvents

MCSteps == {"a", "b", "c", "d", "e"}
MCInitialSteps == {"a", "b", "c"}
MCDeps == [s \in MCSteps |-> CASE s = "b" -> {"a"} [] s = "d" -> {"c"} [] s = "e" -> {"d"}
                               [] OTHER -> {}]
MCRuns == 1 .. 2

\* A transcript of an earlier process.
MCSession == [n \in 1 .. 4 |->
  [role |-> <<"system", "user", "tool", "assistant">>[n], run |-> 0]]
MCSessions == {MCSession}

VARIABLE component  \* the one that runs

\* Messages of a session, one after the other or beside each other.
VARIABLES
  loopMessages, loopRun, loopDetector, loopCurrent, loopEpisodes, loopSession,
  loopDisturbances, loopOverlapped, loopReplaced, loopLastEnd
loopVars == <<
  loopMessages, loopRun, loopDetector, loopCurrent, loopEpisodes, loopSession,
  loopDisturbances, loopOverlapped, loopReplaced, loopLastEnd>>
Loop == INSTANCE AgentLoop WITH
  Runs <- LoopRuns, MaxToolTurns <- LoopMaxToolTurns,
  MaxMessages <- LoopMaxMessages, Recent <- LoopRecent,
  MaxConsecutiveFailures <- LoopMaxFailures, MaxCalls <- LoopMaxCalls,
  Errors <- LoopErrors, MaxDisturbances <- LoopMaxDisturbances,
  None <- None, messages <- loopMessages, run <- loopRun, detector <- loopDetector,
  current <- loopCurrent, episodes <- loopEpisodes, session <- loopSession,
  disturbances <- loopDisturbances, overlapped <- loopOverlapped, replaced <- loopReplaced,
  lastEnd <- loopLastEnd

\* Two commands in their containers.
VARIABLES
  shellProbe, shellCall, shellContainer, shellMisled
shellVars == <<
  shellProbe, shellCall, shellContainer, shellMisled>>
Shell == INSTANCE ShellTool WITH
  Calls <- {"c1", "c2"}, None <- None, probe <- shellProbe, call <- shellCall,
  container <- shellContainer, misled <- shellMisled

\* The terminal.
VARIABLES
  screenPart, screenRun, screenWait, screenOpen, screenCalls, screenBusy, screenMode,
  screenStreaming, screenActiveTool, screenOverlapped, screenStale, screenTimer,
  screenRecent, screenAgentModel, screenShownModel, screenTier, screenValidating,
  screenOverlay, screenLoading, screenModels, screenSwitches, screenRaced, screenTalk,
  screenContext, screenSession, screenCleared,
  screenInterrupted
screenVars == <<
  screenPart, screenRun, screenWait, screenOpen, screenCalls, screenBusy, screenMode,
  screenStreaming, screenActiveTool, screenOverlapped, screenStale, screenTimer,
  screenRecent, screenAgentModel, screenShownModel, screenTier, screenValidating,
  screenOverlay, screenLoading, screenModels, screenSwitches, screenRaced, screenTalk,
  screenContext, screenSession, screenCleared,
  screenInterrupted>>
Screen == INSTANCE AgentShell WITH
  Runs <- ScreenRuns, Tools <- ScreenTools, Models <- ScreenModels,
  Tiers <- ScreenTiers, Usable <- ScreenUsable, Sessions <- ScreenSessions,
  None <- None, MaxCalls <- ScreenMaxCalls, MaxSwitches <- ScreenMaxSwitches, part <- screenPart, run <- screenRun, wait <- screenWait,
  open <- screenOpen, calls <- screenCalls, busy <- screenBusy, mode <- screenMode,
  streaming <- screenStreaming, activeTool <- screenActiveTool,
  overlapped <- screenOverlapped, stale <- screenStale, timer <- screenTimer,
  recent <- screenRecent, agentModel <- screenAgentModel,
  shownModel <- screenShownModel, tier <- screenTier, validating <- screenValidating,
  overlay <- screenOverlay, loading <- screenLoading, models <- screenModels,
  switches <- screenSwitches, raced <- screenRaced, talk <- screenTalk,
  context <- screenContext, session <- screenSession, cleared <- screenCleared,
  interrupted <- screenInterrupted

\* The store of the terminal.
VARIABLES
  storePart, storeConversation, storeToolCalls, storeTasks, storeSteps, storeCurrent,
  storeActiveTool, storeApproval, storeMode, storeActors, storeEvents, storeAnswered,
  storeCreated
storeVars == <<
  storePart, storeConversation, storeToolCalls, storeTasks, storeSteps, storeCurrent,
  storeActiveTool, storeApproval, storeMode, storeActors, storeEvents, storeAnswered,
  storeCreated>>
Store == INSTANCE RuntimeStore WITH
  Ids <- StoreIds, Tools <- StoreTools, None <- None,
  MaxConversation <- StoreMaxConversation, MaxToolCalls <- StoreMaxToolCalls,
  MaxEvents <- StoreMaxEvents, part <- storePart,
  conversation <- storeConversation, toolCalls <- storeToolCalls, tasks <- storeTasks,
  steps <- storeSteps, current <- storeCurrent, activeTool <- storeActiveTool,
  approval <- storeApproval, mode <- storeMode, actors <- storeActors,
  events <- storeEvents, answered <- storeAnswered, created <- storeCreated

-----------------------------------------------------------------------------
ASSUME BundleAssumption == Loop!LoopAssumption /\ Screen!ShellAssumption /\ Store!StoreAssumption

bundle == <<component, vars, loopVars, shellVars, screenVars, storeVars>>

BundleInit ==
  /\ component \in {"orchestrator", "loop", "shell", "screen", "store"}
  /\ Init
  /\ Loop!Init
  /\ Shell!Init
  /\ component # "screen" =>
       /\ screenPart = "runs"
       /\ screenAgentModel = CHOOSE m \in ScreenUsable : TRUE
       /\ screenTier = CHOOSE t \in ScreenTiers : TRUE
  /\ Screen!Init
  /\ component # "store" => storePart = "talk"
  /\ Store!Init

BundleNext ==
  \/ component = "orchestrator" /\ Next
     /\ UNCHANGED <<component, loopVars, shellVars, screenVars, storeVars>>
  \/ component = "loop" /\ Loop!Next
     /\ UNCHANGED <<component, vars, shellVars, screenVars, storeVars>>
  \/ component = "shell" /\ Shell!Next
     /\ UNCHANGED <<component, vars, loopVars, screenVars, storeVars>>
  \/ component = "screen" /\ Screen!Next
     /\ UNCHANGED <<component, vars, loopVars, shellVars, storeVars>>
  \/ component = "store" /\ Store!Next
     /\ UNCHANGED <<component, vars, loopVars, shellVars, screenVars>>

BundleSpec ==
  /\ BundleInit /\ [][BundleNext]_bundle
  /\ WF_vars(component = "orchestrator" /\ Next /\ pc \notin {"dead", "aborted"} /\ pc' # "dead")
  /\ \A r \in LoopRuns : WF_loopVars(component = "loop" /\ Loop!BeginTurn(r))
  /\ \A r \in LoopRuns :
       WF_loopVars(component = "loop"
         /\ (Loop!ChatFails(r) \/ \E n \in 0 .. LoopMaxCalls, c \in BOOLEAN : Loop!Reply(r, n, c)))
  /\ \A r \in LoopRuns :
       WF_loopVars(component = "loop"
         /\ \E e \in LoopErrors \union {None}, out \in BOOLEAN : Loop!ToolReturns(r, e, out))
  /\ \A c \in {"c1", "c2"} :
       WF_shellVars(component = "shell" /\ \E up \in BOOLEAN : Shell!Probed(c, up))
  /\ \A c \in {"c1", "c2"} :
       /\ WF_shellVars(component = "shell" /\ Shell!Closes(c))
       /\ WF_shellVars(component = "shell" /\ Shell!TimesOut(c))
  /\ \A c \in {"c1", "c2"}, why \in {"overflow", "timeout"} :
       WF_shellVars(component = "shell"
         /\ \E fails \in BOOLEAN : Shell!Escalates(c, why, fails))
  /\ WF_screenVars(component = "screen" /\ Screen!Flush)

-----------------------------------------------------------------------------
\* A request to the model starts with the system prompt and is bounded, a run has one
\* episode with the calls of that run, and the session on disk ends with the last run
\* that ended, however it ended: of any number of runs under way, but for what the code
\* does to a run that another overlapped or whose conversation was replaced.
LoopIsAccountedFor ==
  component = "loop" =>
    Loop!RequestsAreBounded /\ Loop!OneEpisodePerRun /\ Loop!SessionIsOfTheLastEnd

\* The terminal shows idle when the last run ends and no earlier for a single run,
\* gives each result to the call it is of, and shows the model the agent uses; its
\* store keeps one entry for a call, task or step, in any order of events.
ShellIsConsistent ==
  /\ component = "screen" => Screen!ShellIsConsistent
  /\ component = "store" => Store!StoreIsConsistent

\* A planned run ends whatever fails, a run of the loop ends by its own budget at the
\* latest, and a command is answered once.
EveryRunEnds ==
  (component = "orchestrator" => RunEnds) /\ Loop!RunsEnd /\ Shell!CallsAreAnswered

\* A container whose command printed too much or overran its time does not stay,
\* though a kill may fail, unless docker's inspect or rm fails too.
KilledIsGone == Shell!KilledIsGone

\* What was published is shown in the end, though renders are put off, and an event
\* that comes late undoes nothing: no task that is over, no approval that is not its
\* own.
ShowsTheLatest == Screen!ShowsTheLatest /\ Store!ReportsUndoNothing

=============================================================================
