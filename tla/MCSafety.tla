------------------------------ MODULE MCSafety ------------------------------
(* The circuit breaker, and parts whose promises are all safety: the         *)
(* notifiers, the drift monitor, the reviewers, the providers, the learning  *)
(* and the prompt of the terminal. Each is modelled against any input, so    *)
(* they share nothing and a behaviour runs one of them, the others staying   *)
(* as they began.                                                            *)
EXTENDS CircuitBreaker

CONSTANTS
  None,
  NotesMinTrades, NotesTrades, NotesMaxNotifying, NotesMaxChecking, NotesCrashes,
  DriftMinTrades, DriftEvery, DriftTrades, DriftVerdicts, DriftCrashes,
  ReviewsMinNew, ReviewsInterval, ReviewsDigest, ReviewsLines, ReviewsTime, ReviewsCrashes,
  ProviderRequests, ProviderKeys, ProviderListed, ProviderCapabilities

MCStrategies == {"A", "B"}
MCPnls == {-1, 1}
MCMarks == {-1, 0}

Model(name, tier, caps) == [name |-> name, tier |-> tier, caps |-> caps]
MCListed == [local |-> <<Model("see", "local", {"vision"}), Model("look", "local", {"vision"})>>,
             cloud |-> <<Model("big", "cloud", {"vision", "tools"})>>]

MCCommand(type, arg) == [type |-> type, arg |-> arg]
MCRegistry == (<<"a">> :> MCCommand("open-overlay", "help")) @@ (<<"a", "a">> :> MCCommand("quit", None))
MCChords == "ctrl-g" :> MCCommand("focus-view", "git")
MCBareKeys == ("q" :> MCCommand("quit", None)) @@ ("?" :> MCCommand("open-overlay", "help"))
NoFiles == [json |-> <<>>, legacy |-> <<>>]
MCSaved == {NoFiles, [json |-> <<<<"a">>, <<"b">>>>, legacy |-> <<<<"b", "\n", "a">>>>]}

VARIABLE component  \* the one that runs

\* The fill notifier and the readiness monitor.
VARIABLES
  notesMonitor, notesJournal, notesDue, notesCalls, notesMemory, notesFile, notesSaid,
  notesCrashes, notesExcused
notesVars == <<
  notesMonitor, notesJournal, notesDue, notesCalls, notesMemory, notesFile, notesSaid,
  notesCrashes, notesExcused>>
Notes == INSTANCE Notifiers WITH
  Portfolio <- "portfolio", MinTrades <- NotesMinTrades, MaxTrades <- NotesTrades,
  MaxNotifying <- NotesMaxNotifying, MaxChecking <- NotesMaxChecking,
  MaxCrashes <- NotesCrashes, monitor <- notesMonitor,
  journal <- notesJournal, due <- notesDue, calls <- notesCalls,
  memory <- notesMemory, file <- notesFile, said <- notesSaid,
  crashes <- notesCrashes, excused <- notesExcused

\* The drift monitor of the strategies and their basis.
VARIABLES
  driftJournal, driftAt, driftTrades, driftTodo, driftState, driftFile, driftLog,
  driftCrashes
driftVars == <<
  driftJournal, driftAt, driftTrades, driftTodo, driftState, driftFile, driftLog,
  driftCrashes>>
Drift == INSTANCE DriftMonitor WITH
  Basis <- "basis", MinTrades <- DriftMinTrades, CheckEveryNTrades <- DriftEvery,
  MaxTrades <- DriftTrades, MaxVerdicts <- DriftVerdicts, MaxCrashes <- DriftCrashes,
  journal <- driftJournal, at <- driftAt, trades <- driftTrades, todo <- driftTodo,
  state <- driftState, file <- driftFile, log <- driftLog, crashes <- driftCrashes

\* The trade evaluator and the trade analyst over one journal.
VARIABLES
  reviewsJournal, reviewsTime, reviewsScanned, reviewsQueue, reviewsProcessing,
  reviewsRecent, reviewsLog, reviewsAnalysed, reviewsAsking, reviewsAnalyses,
  reviewsDigest, reviewsCrashes
reviewsVars == <<
  reviewsJournal, reviewsTime, reviewsScanned, reviewsQueue, reviewsProcessing,
  reviewsRecent, reviewsLog, reviewsAnalysed, reviewsAsking, reviewsAnalyses,
  reviewsDigest, reviewsCrashes>>
Reviews == INSTANCE Reviewers WITH
  MinNew <- ReviewsMinNew, Interval <- ReviewsInterval, MaxDigest <- ReviewsDigest,
  MaxLines <- ReviewsLines, MaxTime <- ReviewsTime, MaxCrashes <- ReviewsCrashes,
  journal <- reviewsJournal, time <- reviewsTime,
  scanned <- reviewsScanned, queue <- reviewsQueue, processing <- reviewsProcessing,
  recent <- reviewsRecent, log <- reviewsLog, analysed <- reviewsAnalysed,
  asking <- reviewsAsking, analyses <- reviewsAnalyses, digest <- reviewsDigest,
  crashes <- reviewsCrashes

\* Episodes of one skill with two lessons.
VARIABLES
  learnTurn, learnEnded, learnPending, learnReflecting, learnSuccesses, learnEpisodes,
  learnDropped, learnLessons, learnFiles, learnCatalog, learnUsage, learnWeeks,
  learnStarts, learnTorn
learnVars == <<
  learnTurn, learnEnded, learnPending, learnReflecting, learnSuccesses, learnEpisodes,
  learnDropped, learnLessons, learnFiles, learnCatalog, learnUsage, learnWeeks,
  learnStarts, learnTorn>>
Learn == INSTANCE Learning WITH
  Skills <- {"x"}, Lessons <- {"l1", "l2"}, SkillOf <- [l1 |-> "x", l2 |-> "x"],
  Traces <- {<<>>, <<[name |-> "other", result |-> "ok"]>>},
  ReflectSuccessEveryN <- 2, MinEvidence <- 2, MinConfidence <- 600, MinUses <- 1,
  MinSuccessPct <- 40, MaxLessonsPerSkill <- 1, MaxLessons <- 2, None <- None,
  MaxEpisodes <- 4, MaxWeeks <- 1, MaxStarts <- 2, turn <- learnTurn,
  ended <- learnEnded, pending <- learnPending, reflecting <- learnReflecting,
  successes <- learnSuccesses, episodes <- learnEpisodes, dropped <- learnDropped,
  lessons <- learnLessons, files <- learnFiles, catalog <- learnCatalog,
  usage <- learnUsage, weeks <- learnWeeks, starts <- learnStarts,
  torn <- learnTorn

\* Two requests on a provider of two keys, with two local models and one of the cloud.
VARIABLES
  providerKeyIndex, providerRefresh, providerCatalog, providerReq
providerVars == <<
  providerKeyIndex, providerRefresh, providerCatalog, providerReq>>
Provider == INSTANCE ProviderPool WITH
  Requests <- ProviderRequests, MaxAtATime <- 1, NKeys <- ProviderKeys,
  Listed <- ProviderListed, Capabilities <- ProviderCapabilities, keyIndex <- providerKeyIndex,
  refresh <- providerRefresh, catalog <- providerCatalog, req <- providerReq

\* The prompt: one letter, one paste, two slash commands, what earlier sessions left.
VARIABLES
  promptPrompt, promptCompletion, promptStart, promptBurst, promptClock, promptPaste,
  promptHistory, promptFiles, promptUi, promptApproval, promptRunning, promptSubmits,
  promptMeant, promptEcho, promptTorn
promptVars == <<
  promptPrompt, promptCompletion, promptStart, promptBurst, promptClock, promptPaste,
  promptHistory, promptFiles, promptUi, promptApproval, promptRunning, promptSubmits,
  promptMeant, promptEcho, promptTorn>>
Prompt == INSTANCE Prompt WITH
  Letters <- {"a"}, Pastes <- {<<"a", "\n", "a">>}, Registry <- MCRegistry,
  Chords <- MCChords, BareKeys <- MCBareKeys, Views <- <<"conversation", "git">>,
  Saved <- MCSaved, MaxHistory <- 2, MaxTyped <- 3, MaxText <- 5, MaxSubmits <- 1,
  None <- None, prompt <- promptPrompt, completion <- promptCompletion,
  start <- promptStart, burst <- promptBurst, clock <- promptClock,
  paste <- promptPaste, history <- promptHistory, files <- promptFiles,
  ui <- promptUi, approval <- promptApproval, running <- promptRunning,
  submits <- promptSubmits, meant <- promptMeant, echo <- promptEcho,
  torn <- promptTorn

-----------------------------------------------------------------------------
ASSUME BundleAssumption ==
  /\ Provider!PoolAssumption /\ Prompt!PromptAssumption /\ Reviews!ReviewersAssumption
  /\ Drift!DriftAssumption /\ Notes!NotifiersAssumption

bundle == <<component, vars, notesVars, driftVars, reviewsVars, learnVars, providerVars,
            promptVars>>

BundleInit ==
  /\ component \in {"breaker", "notes", "drift", "reviews", "learning", "provider", "prompt"}
  /\ Init
  /\ component # "notes" => notesMonitor = "fills"
  /\ Notes!Init
  /\ Drift!Init
  /\ component # "reviews" => reviewsJournal = <<>>
  /\ Reviews!Init
  /\ Learn!Init
  /\ Provider!Init
  /\ component # "prompt" => promptFiles = NoFiles
  /\ Prompt!Init

BundleNext ==
  \/ component = "breaker" /\ Next
     /\ UNCHANGED <<component, notesVars, driftVars, reviewsVars, learnVars, providerVars,
          promptVars>>
  \/ component = "notes" /\ Notes!Next
     /\ UNCHANGED <<component, vars, driftVars, reviewsVars, learnVars, providerVars,
          promptVars>>
  \/ component = "drift" /\ Drift!Next
     /\ UNCHANGED <<component, vars, notesVars, reviewsVars, learnVars, providerVars,
          promptVars>>
  \/ component = "reviews" /\ Reviews!Next
     /\ UNCHANGED <<component, vars, notesVars, driftVars, learnVars, providerVars, promptVars>>
  \/ component = "learning" /\ Learn!Next
     /\ UNCHANGED <<component, vars, notesVars, driftVars, reviewsVars, providerVars,
          promptVars>>
  \/ component = "provider" /\ Provider!Next
     /\ UNCHANGED <<component, vars, notesVars, driftVars, reviewsVars, learnVars, promptVars>>
  \/ component = "prompt" /\ Prompt!Next
     /\ UNCHANGED <<component, vars, notesVars, driftVars, reviewsVars, learnVars,
          providerVars>>
  \/ component \in {"notes", "drift", "reviews", "learning", "provider"}  \* what may stop
     /\ UNCHANGED bundle

BundleSpec ==
  /\ BundleInit /\ [][BundleNext]_bundle

-----------------------------------------------------------------------------
\* A fill is announced at most once over overlapping calls and restarts, a strategy
\* that becomes ready too unless checks overlapped over it or a crash cut its check
\* off; a drift is alerted once until it is over, and its flag is of the trades that
\* were compared.
ToldOnce ==
  /\ component = "notes" => Notes!NotifiedAtMostOnce /\ Notes!RestartsDoNotRefire
  /\ component = "drift" => Drift!OneAlertPerDrift /\ Drift!FlagsAreOfTheComparedTrades

\* Closings are reviewed in the order of the journal, each at most once and with an
\* entry of its own strategy; no closed trade falls between two analyses, whatever
\* requests fail and whenever the process restarts, though a crash between the writes
\* of an answer keeps it from the log or the digest.
ReviewsAreSound == component = "reviews" => Reviews!ReviewsAreSound

\* A chat is given up as rate limited only after every key was tried, a routed request
\* only after an error no model would mend or after every candidate failed, and the
\* cloud is asked only after the local ones.
RequestsAreCarriedThrough == []Provider!GivesUpLast /\ Provider!EveryKeyIsTried

\* Only a turn that was answered, with passing tests, is graded a success; one bad
\* episode costs no other its record; skill files and promoted lessons agree, unless a
\* stop fell between the two, and what a run withdraws for doing badly it does not
\* promote again.
LearningIsSound ==
  [](component = "learning" => Learn!LearningIsSound) /\ Learn!WithdrawnStaysOut

\* Whatever the prompt takes for a paste, labels, completes or recalls, its text and
\* what is submitted are what the user put in, but for the last piece of a paste, which
\* the code puts in twice; a key reaches the overlay that is open
\* and no approval from a prompt with text; and the history survives a restart.
WhatIsTypedIsKept ==
  [](component = "prompt" => Prompt!PromptIsSound) /\ Prompt!SentAsMeant
  /\ Prompt!KeysReachTheirOwner /\ Prompt!HistorySurvives

=============================================================================
