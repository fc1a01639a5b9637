----------------------------- MODULE MCResearch -----------------------------
(* The writers of the strategy pool, the other parts that keep paper         *)
(* positions (the futures agent, the trackers and the positions of the       *)
(* chat). They share nothing, so a behaviour runs one of them, the others    *)
(* staying as they began.                                                    *)
EXTENDS StrategyPool

CONSTANTS
  None,
  PaperSymbols, PaperPrices, PaperCallers, PaperOffset, PaperMaxPositions,
  AgentSymbols, AgentPrices, AgentCalls, AgentKeys, AgentQuantities, AgentCapital,
  AgentLeverage, AgentRiskPct, AgentStopPct, AgentUtilizationPct, AgentCommissionPct,
  AgentOffset, AgentMaxPositions,
  TrackersCandidates, TrackersMaxHold, TrackersInterval, TrackersMaxTime, TrackersMaxOpens,
  TrackersMaxCrashes

MCSignals == {"a", "b", "c"}
MCInitialSignals == <<"a">>
MCPnls == {-1, 1}

MCCandidates == <<"x", "y">>

VARIABLE component  \* the one that runs

\* The chat's paper positions: one symbol, two calls at once.
VARIABLES
  paperLatest, paperOpening, paperPositions
paperVars == <<
  paperLatest, paperOpening, paperPositions>>
Paper == INSTANCE PaperTrading WITH
  Symbols <- PaperSymbols, Prices <- PaperPrices, Callers <- PaperCallers,
  Offset <- PaperOffset, MaxPositions <- PaperMaxPositions, None <- None, latest <- paperLatest, opening <- paperOpening,
  positions <- paperPositions

\* The futures agent on its paper brokerage, two ticks at once.
VARIABLES
  agentFsm, agentTick, agentBalance, agentOrderCounter, agentCash, agentRealizedPnl,
  agentPositions, agentProcessedKeys, agentUndercut
agentVars == <<
  agentFsm, agentTick, agentBalance, agentOrderCounter, agentCash, agentRealizedPnl,
  agentPositions, agentProcessedKeys, agentUndercut>>
Agent == INSTANCE AutonomousAgent WITH
  Symbols <- AgentSymbols, Prices <- AgentPrices, Calls <- AgentCalls, Keys <- AgentKeys,
  Quantities <- AgentQuantities, InitialCapital <- AgentCapital, Leverage <- AgentLeverage,
  RiskPct <- AgentRiskPct, StopPct <- AgentStopPct, UtilizationPct <- AgentUtilizationPct,
  CommissionPct <- AgentCommissionPct, Offset <- AgentOffset,
  MaxPositions <- AgentMaxPositions, None <- None, fsm <- agentFsm, tick <- agentTick, balance <- agentBalance,
  orderCounter <- agentOrderCounter, cash <- agentCash,
  realizedPnl <- agentRealizedPnl, positions <- agentPositions,
  processedKeys <- agentProcessedKeys, undercut <- agentUndercut

\* A tracker of two candidates: shadow signals, funding arbitrage or pairs.
VARIABLES
  trackersKind, trackersState, trackersFile, trackersJournal, trackersNext,
  trackersAwaits, trackersNow, trackersClock, trackersCrashes
trackersVars == <<
  trackersKind, trackersState, trackersFile, trackersJournal, trackersNext,
  trackersAwaits, trackersNow, trackersClock, trackersCrashes>>
Trackers == INSTANCE Trackers WITH
  Candidates <- TrackersCandidates, MaxHold <- TrackersMaxHold, Interval <- TrackersInterval,
  None <- None, MaxTime <- TrackersMaxTime, MaxOpens <- TrackersMaxOpens,
  MaxCrashes <- TrackersMaxCrashes, kind <- trackersKind, state <- trackersState,
  file <- trackersFile, journal <- trackersJournal, next <- trackersNext,
  awaits <- trackersAwaits, now <- trackersNow, clock <- trackersClock,
  crashes <- trackersCrashes

-----------------------------------------------------------------------------
ASSUME BundleAssumption ==
  Paper!PaperAssumption /\ Agent!AgentAssumption /\ Trackers!TrackersAssumption

bundle == <<component, vars, paperVars, agentVars, trackersVars>>

BundleInit ==
  /\ component \in {"pool", "paper", "agent", "trackers"}
  /\ Init
  /\ Paper!Init
  /\ Agent!Init
  /\ component # "trackers" => trackersKind = "pairs"
  /\ Trackers!Init

BundleNext ==
  \/ component = "pool" /\ Next
     /\ UNCHANGED <<component, paperVars, agentVars, trackersVars>>
  \/ component = "paper" /\ Paper!Next
     /\ UNCHANGED <<component, vars, agentVars, trackersVars>>
  \/ component = "agent" /\ Agent!Next
     /\ UNCHANGED <<component, vars, paperVars, trackersVars>>
  \/ component = "trackers" /\ Trackers!Next
     /\ UNCHANGED <<component, vars, paperVars, agentVars>>

BundleSpec ==
  /\ BundleInit /\ [][BundleNext]_bundle
  /\ WF_vars(component = "pool" /\ AdaptorRead)
  /\ WF_vars(component = "pool" /\ (AdaptorDecide \/ AdaptorSave \/ AdaptorWrite))
  /\ WF_vars(component = "pool" /\ ((\E signal \in Signals : Promote(signal)) \/ ResearchWrite))
  /\ WF_vars(component = "pool" /\ AdaptorNotified)
  /\ WF_vars(component = "pool" /\ ResearchNotified)
  /\ \A c \in AgentCalls :
       /\ WF_agentVars(component = "agent" /\ Agent!Size(c))
       /\ WF_agentVars(component = "agent" /\ Agent!Placed(c))
  /\ WF_trackersVars(component = "trackers" /\ Trackers!StartTick)
  /\ WF_trackersVars(component = "trackers" /\ (Trackers!Quote \/ Trackers!Spot))
  /\ WF_trackersVars(component = "trackers" /\ (Trackers!Rates \/ Trackers!RatesFail))
  /\ \A id \in Trackers!Ids :
       SF_trackersVars(component = "trackers"
         /\ trackersNext > 0 /\ Trackers!Id = id /\ Trackers!Rates)
  /\ \A id \in Trackers!Ids :
       SF_trackersVars(component = "trackers" /\ Trackers!Answers(id, Trackers!Quote))
  /\ \A id \in Trackers!Ids :
       SF_trackersVars(component = "trackers" /\ Trackers!Answers(id, Trackers!Spot))

-----------------------------------------------------------------------------
\* The cash of the futures agent is its capital with the gains and fees of its
\* positions, one tick at a time trades, and an order it sized is one its balance
\* covers, unless another client's fees came between the balance and the order.
BooksBalance ==
  component = "agent" =>
    Agent!BooksBalance /\ Agent!OneTickAtATime /\ Agent!SizedOrdersAreFilled

\* The journal of a tracker follows its state but for a booking cut off by a crash,
\* and a position is credited each funding payment of its time once.
TrackersKeepTheirBooks ==
  component = "trackers" => Trackers!JournalFollowsState /\ Trackers!FundingIsCountedOnce

\* The record of a closed paper position never changes, and what a stop or a target
\* closed lies at or past it.
ResultsAreFinal == Paper!ResultsAreFinal

\* A tracked position whose time is up is closed, and the futures agent comes back to
\* its idle state.
PositionsEnd == Trackers!OverdueIsClosed /\ Agent!ComesBack

=============================================================================
