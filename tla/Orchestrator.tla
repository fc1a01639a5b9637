---------------------------- MODULE Orchestrator ----------------------------
(***************************************************************************)
(* The plan executor of the agent (src/orchestrator/orchestrator.ts) with  *)
(* its checkpoint (runtime/checkpoint.ts) and the resumption of a plan     *)
(* that was cut off (resumePlannedTask of cli/agent.ts).                   *)
(*                                                                         *)
(* run() works in rounds: all steps whose dependencies are completed run   *)
(* concurrently, and what comes next is decided when all have settled.     *)
(* Nothing else is awaited but the planner and each rollback command.      *)
(*                                                                         *)
(* The stages of a step between two awaits (analyzing to implementing,     *)
(* testing to completed) are one status here: a checkpoint that holds any  *)
(* of the others is resumed as "pending" all the same.                     *)
(***************************************************************************)
EXTENDS Integers, SequencesExt, FiniteSets

CONSTANTS
  Steps,        \* the ids a plan and its revisions may use
  Deps,         \* the dependencies of each
  Reversible,   \* the steps with a rollbackCommand
  InitialSteps, \* the plan run() is given
  MaxRetries, MaxReplans,
  MaxResumes,   \* bound on resumptions
  NoCheckpoint

ASSUME OrchestratorAssumption ==
  /\ Deps \in [Steps -> SUBSET Steps]
  /\ Reversible \subseteq Steps /\ InitialSteps \subseteq Steps
  /\ MaxRetries \in Nat /\ MaxReplans \in Nat /\ MaxResumes \in Nat

VARIABLES
  plan,         \* this.steps: status and retryCount of each step of the plan
  pc,           \* where run() is
  inFlight,     \* the steps of the round that have not settled
  replanNeeded, \* one of the round has failed for good
  replans,      \* replanCount
  executed,     \* executedOrder
  undoing,      \* the steps rollbackAll has yet to roll back
  checkpoint,   \* the checkpoint file
  resumes,
  attempts,     \* history: runs of each step since it was planned
  finished,     \* history: the steps that ever completed
  effects,      \* history: the completed steps that have not been rolled back
  torn          \* history: the steps undone by rollbacks that were cut off

history == <<attempts, finished, effects, torn>>
vars == <<plan, pc, inFlight, replanNeeded, replans, executed, undoing, checkpoint, resumes, history>>

Status == {"pending", "implementing", "completed", "failed", "skipped"}
With(status) == {s \in DOMAIN plan : plan[s].status = status}
Ended == {"done", "aborted", "dead"}

Pending == [status |-> "pending", retryCount |-> 0]

\* topologicalOrder throws on an unknown dependency and on a cycle: a set of
\* steps each of which depends on another of the set.
Orderable(ids) ==
  /\ \A s \in ids : Deps[s] \subseteq ids
  /\ \A cycle \in SUBSET ids : cycle # {} => \E s \in cycle : Deps[s] \intersect cycle = {}

Init ==
  /\ plan = [s \in InitialSteps |-> Pending]
  /\ pc = IF Orderable(InitialSteps) THEN "rounds" ELSE "aborted"
  /\ inFlight = {} /\ replanNeeded = FALSE /\ replans = 0
  /\ executed = <<>> /\ undoing = <<>>
  /\ checkpoint = NoCheckpoint
  /\ resumes = 0
  /\ attempts = [s \in Steps |-> 0]
  /\ finished = {} /\ effects = {} /\ torn = {}

-----------------------------------------------------------------------------
(* Rounds.                                                                 *)

\* Mutant: a skipped dependency counts as satisfied.
ReadyOnSkipped ==
  {s \in With("pending") : Deps[s] \subseteq With("completed") \union With("skipped")}

Ready == {s \in With("pending") : Deps[s] \subseteq With("completed")}

StartRound ==
  /\ pc = "rounds" /\ Ready # {}
  /\ plan' = [s \in DOMAIN plan |->
                IF s \in Ready THEN [plan[s] EXCEPT !.status = "implementing"] ELSE plan[s]]
  /\ checkpoint' = plan'
  /\ inFlight' = Ready
  /\ replanNeeded' = FALSE
  /\ attempts' = [s \in Steps |-> IF s \in Ready THEN attempts[s] + 1 ELSE attempts[s]]
  /\ pc' = "round"
  /\ UNCHANGED <<replans, executed, undoing, resumes, finished, effects, torn>>

Counted == replans + 1

\* A step has settled, and leaves the plan revised: when it is the last of its
\* round, on to the next round or to the planner, or to an error when there were
\* too many re-plans.
Settled(s, needed, revised) ==
  LET over   == inFlight = {s}
      replan == over /\ needed
  IN  /\ pc = "round" /\ s \in inFlight
      /\ inFlight' = inFlight \ {s}
      /\ replanNeeded' = needed
      /\ replans' = IF replan THEN Counted ELSE replans
      /\ pc' = IF ~over THEN pc ELSE IF ~needed THEN "rounds"
               ELSE IF replans' > MaxReplans THEN "aborted" ELSE "replan"
      /\ plan' = revised /\ checkpoint' = revised
      /\ UNCHANGED <<undoing, resumes, attempts, torn>>

\* Mutant: what succeeds beside a failure is not recorded.
RecordedUnlessFailing(s) == IF replanNeeded THEN executed ELSE Append(executed, s)
Recorded(s) == Append(executed, s)

StepSucceeds(s) ==
  /\ Settled(s, replanNeeded, [plan EXCEPT ![s].status = "completed"])
  /\ executed' = Recorded(s)
  /\ finished' = finished \union {s} /\ effects' = effects \union {s}

MayRetry(s) == plan[s].retryCount < MaxRetries

StepRetries(s) ==
  /\ s \in inFlight /\ MayRetry(s)
  /\ Settled(s, replanNeeded,
             [plan EXCEPT ![s] = [status |-> "pending", retryCount |-> @.retryCount + 1]])
  /\ UNCHANGED <<executed, finished, effects>>

\* cascadeFailure: the pending steps that depend on the failed one, directly or
\* through others of them.
Cascade(failed) ==
  LET pending == With("pending")
      Closed(X) == \A s \in pending : Deps[s] \intersect ({failed} \union X) # {} => s \in X
  IN  {s \in pending : \A X \in SUBSET pending : Closed(X) => s \in X}

\* A blocking failure, or a retryable one when the retries are used up.
StepFails(s) ==
  /\ Settled(s, TRUE, [t \in DOMAIN plan |->
                         IF t = s THEN [plan[t] EXCEPT !.status = "failed"]
                         ELSE IF t \in Cascade(s) THEN [plan[t] EXCEPT !.status = "skipped"]
                         ELSE plan[t]])
  /\ UNCHANGED <<executed, finished, effects>>

\* The planner's answer: steps to do anew or in place of others, none of them
\* one that has completed.
Replan(revised) ==
  /\ pc = "replan"
  /\ revised \intersect With("completed") = {}
  /\ plan' = [s \in DOMAIN plan \union revised |-> IF s \in revised THEN Pending ELSE plan[s]]
  /\ checkpoint' = plan'
  /\ attempts' = [s \in Steps |-> IF s \in revised THEN 0 ELSE attempts[s]]
  /\ pc' = IF Orderable(DOMAIN plan') THEN "rounds" ELSE "aborted"
  /\ UNCHANGED <<inFlight, replanNeeded, replans, executed, undoing, resumes, finished, effects, torn>>

\* The planner throws, and run() with it.
PlannerFails ==
  /\ pc = "replan"
  /\ pc' = "aborted"
  /\ UNCHANGED <<plan, inFlight, replanNeeded, replans, executed, undoing, checkpoint, resumes, history>>

-----------------------------------------------------------------------------
(* The end of a run.                                                       *)

\* The steps that can be undone, the latest first.
UndoFirst(undo, s) == IF s \in Reversible THEN <<s>> \o undo ELSE undo
UndoOrder(done) == FoldLeft(UndoFirst, <<>>, done)

\* Nothing is ready: undo what this run did if a step has failed.
Finish ==
  /\ pc = "rounds" /\ Ready = {}
  /\ IF With("failed") # {}
     THEN pc' = "rollback" /\ undoing' = UndoOrder(executed) /\ UNCHANGED checkpoint
     ELSE pc' = "done" /\ checkpoint' = NoCheckpoint /\ UNCHANGED undoing
  /\ UNCHANGED <<plan, inFlight, replanNeeded, replans, executed, resumes, history>>

\* A rollback command that fails is logged, and the next one is run.
RollBack(succeeds) ==
  /\ pc = "rollback" /\ undoing # <<>>
  /\ undoing' = Tail(undoing)
  /\ effects' = IF succeeds THEN effects \ {Head(undoing)} ELSE effects
  /\ UNCHANGED <<plan, pc, inFlight, replanNeeded, replans, executed, checkpoint, resumes,
                 attempts, finished, torn>>

RolledBack ==
  /\ pc = "rollback" /\ undoing = <<>>
  /\ pc' = "done"
  /\ checkpoint' = NoCheckpoint
  /\ UNCHANGED <<plan, inFlight, replanNeeded, replans, executed, undoing, resumes, history>>

-----------------------------------------------------------------------------
(* Crash and resumption.                                                   *)

\* The process dies while it awaits steps, the planner or a rollback.
Crash ==
  /\ pc \in {"round", "replan", "rollback"}
  /\ pc' = "dead"
  /\ torn' = IF pc = "rollback" THEN torn \union (finished \ effects) ELSE torn
  /\ UNCHANGED <<plan, inFlight, replanNeeded, replans, executed, undoing, checkpoint, resumes,
                 attempts, finished, effects>>

\* Mutant: a resumed plan starts all over.
AllPending(p) == [s \in DOMAIN p |-> [p[s] EXCEPT !.status = "pending"]]
\* sanitizeResumedSteps: only a completed step is taken at its word.
Sanitized(p) ==
  [s \in DOMAIN p |-> IF p[s].status = "completed" THEN p[s] ELSE [p[s] EXCEPT !.status = "pending"]]

\* resumePlannedTask builds a new orchestrator from the steps of the checkpoint.
Resume ==
  /\ pc \in {"dead", "aborted"} /\ checkpoint # NoCheckpoint
  /\ resumes < MaxResumes
  /\ resumes' = resumes + 1
  /\ plan' = Sanitized(checkpoint)
  /\ pc' = IF Orderable(DOMAIN plan') THEN "rounds" ELSE "aborted"
  /\ inFlight' = {} /\ replanNeeded' = FALSE /\ replans' = 0
  /\ executed' = <<>> /\ undoing' = <<>>
  /\ UNCHANGED <<checkpoint, history>>

Next ==
  \/ StartRound
  \/ \E s \in Steps : StepSucceeds(s) \/ StepRetries(s) \/ StepFails(s)
  \/ \E revised \in SUBSET Steps : Replan(revised)
  \/ PlannerFails
  \/ Finish \/ \E succeeds \in BOOLEAN : RollBack(succeeds)
  \/ RolledBack
  \/ Crash \/ Resume

Spec == Init /\ [][Next]_vars

\* The agent answers or throws at each step, planner and rollback alike.
Fairness == WF_vars(Next /\ pc \notin {"dead", "aborted"} /\ pc' # "dead")

FairSpec == Spec /\ Fairness

-----------------------------------------------------------------------------
(* Properties.                                                             *)

\* run() waits for exactly the steps that are being implemented, and rolls back
\* only steps that completed.
TypeOK ==
  /\ DOMAIN plan \subseteq Steps
  /\ \A s \in DOMAIN plan :
       plan[s].status \in Status /\ plan[s].retryCount \in 0 .. MaxRetries
  /\ pc \in {"rounds", "round", "replan", "rollback"} \union Ended
  /\ pc # "dead" => inFlight = With("implementing")
  /\ pc = "round" => inFlight # {}
  /\ replanNeeded \in BOOLEAN /\ replans \in 0 .. MaxReplans + 1
  /\ Range(executed) \subseteq With("completed") /\ IsInjective(executed)
  /\ Range(undoing) \subseteq Range(executed)
  /\ checkpoint = NoCheckpoint \/ DOMAIN checkpoint = DOMAIN plan
  /\ effects \subseteq finished

\* "A crashed run resumes without re-running completed steps"
\* (docs/E2E-SYSTEM-REFERENCE.md:93): whatever fails, is re-planned or crashes, a
\* step that completed is not started again.
CompletedNotRerun == [][(inFlight' \ inFlight) \intersect finished = {}]_vars

\* A step runs on top of its dependencies: they have completed and have not been
\* rolled back since, by a rollback that ran to its end.
RunsOnItsDependencies ==
  \A s \in inFlight : Deps[s] \subseteq effects \union torn

\* A step is tried MaxRetries times again at most before it counts as failed,
\* and once more for each resumption (retryCount is part of the checkpoint).
RetriesAreCapped == \A s \in Steps : attempts[s] <= 1 + MaxRetries + resumes

\* No step is rolled back while a step that depends on it, and could be rolled
\* back, is still in effect ("reverse chronological order" of rollbackAll),
\* unless its own rollback was tried and failed.
DependentsUndoneFirst ==
  [][\A s \in effects \ effects' : \A t \in effects \intersect Range(undoing') :
       s \notin Deps[t]]_vars

\* A run that was never cut off and ends with a failed step has tried to undo
\* everything it did that can be undone: nothing is left out, re-plans or not.
FailedRunIsUndone ==
  [][pc' = "rollback" /\ pc # "rollback" /\ resumes = 0
       => Range(undoing') = effects \intersect Reversible]_vars

\* A step runs, and stays done, only on dependencies that are done, and is tried a
\* bounded number of times over retries, re-plans and resumptions.
PlanIsSound == TypeOK /\ RunsOnItsDependencies /\ RetriesAreCapped

\* A run that fails undoes all it did that can be undone, and no step before the
\* steps that stand on it.
RollbackIsComplete == DependentsUndoneFirst /\ FailedRunIsUndone

\* The run ends, whatever fails: retries and re-plans are bounded (the comment
\* "aborting to avoid an unbounded loop").
RunEnds == <>[](pc \in Ended)
=============================================================================
