------------------------ MODULE Orchestrator_proofs ------------------------
(***************************************************************************)
(* A step that completed is never started again, for every plan, every     *)
(* revision by the planner, every order in which the steps of a round      *)
(* settle and any number of crashes and resumptions. A step runs only on   *)
(* dependencies that are done and is retried a bounded number of times,    *)
(* and a run that fails undoes what it completed in the order of its plan. *)
(* Of the parts checked beside it: the loop of the coding agent keeps one  *)
(* episode for each message, and saves the transcript of the last; the     *)
(* terminal shows what the model remembers and counts what runs, and the   *)
(* store behind it lists every call, task and step once.                   *)
(***************************************************************************)
EXTENDS MCAgent, FoldTheorems, FiniteSetTheorems

StepState == [status : Status, retryCount : Int]
IsPlan(p) == p = [s \in DOMAIN p |-> p[s]] /\ \A s \in DOMAIN p : p[s] \in StepState

\* A plan in which every step of a set has completed.
Keeps(p, done) == IsPlan(p) /\ \A s \in done : s \in DOMAIN p /\ p[s].status = "completed"

\* What has ever completed is completed in memory and in the checkpoint, and is
\* not being run.
KeptInv ==
  /\ Keeps(plan, finished)
  /\ checkpoint # NoCheckpoint => Keeps(checkpoint, finished)
  /\ inFlight \subseteq DOMAIN plan
  /\ inFlight \intersect finished = {}

-----------------------------------------------------------------------------

\* Nothing has completed when a plan starts.
LEMMA InitKeeps == Init => KeptInv
<1> SUFFICES ASSUME Init PROVE KeptInv OBVIOUS
<1>1. IsPlan(plan)
  BY DEF Init, IsPlan, Pending, StepState, Status
<1> QED BY <1>1 DEF Init, KeptInv, Keeps

\* A round starts pending steps only.
LEMMA StartKeeps ==
  ASSUME KeptInv, StartRound
  PROVE  KeptInv'
<1>1. DOMAIN plan' = DOMAIN plan
  BY DEF StartRound
<1>2. \A s \in DOMAIN plan : plan[s] \in StepState
  BY DEF KeptInv, Keeps, IsPlan
<1>3. \A s \in DOMAIN plan : plan'[s] \in StepState
  BY <1>2 DEF StartRound, StepState, Status
<1>4. Ready \subseteq DOMAIN plan /\ Ready \intersect finished = {}
  BY DEF Ready, With, KeptInv, Keeps
<1>5. \A s \in finished : s \in DOMAIN plan' /\ plan'[s].status = "completed"
  BY <1>1, <1>4 DEF StartRound, KeptInv, Keeps
<1>6. Keeps(plan', finished)
  BY <1>1, <1>3, <1>5 DEF Keeps, IsPlan, StartRound
<1> QED BY <1>1, <1>4, <1>6 DEF StartRound, KeptInv

\* A step that settles leaves the plan as a whole to be kept, the checkpoint
\* with it, and one step less in flight.
LEMMA SettledKeeps ==
  ASSUME KeptInv, NEW s \in Steps, NEW needed, NEW revised,
         Settled(s, needed, revised),
         DOMAIN revised = DOMAIN plan, Keeps(revised, finished'),
         finished' \subseteq finished \union {s}
  PROVE  KeptInv'
<1>1. plan' = revised /\ checkpoint' = revised /\ inFlight' = inFlight \ {s}
  BY DEF Settled
<1> QED BY <1>1 DEF KeptInv

\* The success of a step is in the plan and in the checkpoint.
LEMMA SuccessKeeps ==
  ASSUME KeptInv, NEW s \in Steps, StepSucceeds(s)
  PROVE  KeptInv'
<1> DEFINE revised == [plan EXCEPT ![s].status = "completed"]
<1>1. s \in inFlight /\ s \in DOMAIN plan /\ finished' = finished \union {s}
  BY DEF StepSucceeds, Settled, KeptInv
<1>2. plan[s] \in StepState
  BY <1>1 DEF KeptInv, Keeps, IsPlan
<1>3. revised[s] \in StepState /\ revised[s].status = "completed"
  BY <1>1, <1>2 DEF StepState, Status
<1>4. DOMAIN revised = DOMAIN plan /\ \A t \in DOMAIN plan : t # s => revised[t] = plan[t]
  OBVIOUS
<1>5. revised = [t \in DOMAIN revised |-> revised[t]]
  OBVIOUS
<1>6. Keeps(revised, finished')
  <2> HIDE DEF revised
  <2> QED BY <1>1, <1>3, <1>4, <1>5 DEF KeptInv, Keeps, IsPlan
<1> QED
  <2> HIDE DEF revised
  <2>1. Settled(s, replanNeeded, revised)
    BY DEF StepSucceeds, revised
  <2> QED BY <1>1, <1>4, <1>6, <2>1, SettledKeeps

\* A step that is tried again was in flight: it had not completed.
LEMMA RetryKeeps ==
  ASSUME KeptInv, NEW s \in Steps, StepRetries(s)
  PROVE  KeptInv'
<1> DEFINE again == [status |-> "pending", retryCount |-> plan[s].retryCount + 1]
           revised == [plan EXCEPT ![s] = again]
<1>1. s \in inFlight /\ s \in DOMAIN plan /\ s \notin finished /\ finished' = finished
  BY DEF StepRetries, KeptInv
<1>2. again \in StepState
  BY <1>1 DEF KeptInv, Keeps, IsPlan, StepState, Status
<1>3. DOMAIN revised = DOMAIN plan /\ revised[s] = again
      /\ \A t \in DOMAIN plan : t # s => revised[t] = plan[t]
  BY <1>1
<1>4. revised = [t \in DOMAIN revised |-> revised[t]]
  OBVIOUS
<1>5. Keeps(revised, finished')
  <2> HIDE DEF revised, again
  <2> QED BY <1>1, <1>2, <1>3, <1>4 DEF KeptInv, Keeps, IsPlan
<1> QED
  <2> HIDE DEF revised
  <2>1. Settled(s, replanNeeded, revised)
    BY DEF StepRetries, revised
  <2> QED BY <1>1, <1>3, <1>5, <2>1, SettledKeeps

\* A failure skips pending steps only.
LEMMA FailureKeeps ==
  ASSUME KeptInv, NEW s \in Steps, StepFails(s)
  PROVE  KeptInv'
<1> DEFINE after(t) == IF t = s THEN [plan[t] EXCEPT !.status = "failed"]
                       ELSE IF t \in Cascade(s) THEN [plan[t] EXCEPT !.status = "skipped"]
                       ELSE plan[t]
           revised == [t \in DOMAIN plan |-> after(t)]
<1>1. s \in inFlight /\ s \notin finished /\ finished' = finished
  BY DEF StepFails, Settled, KeptInv
<1>2. Cascade(s) \subseteq With("pending")
  BY DEF Cascade
<1>3. \A t \in finished : t \in DOMAIN plan /\ t # s /\ t \notin Cascade(s)
  BY <1>1, <1>2 DEF With, KeptInv, Keeps
<1>4. \A t \in DOMAIN plan : plan[t] \in StepState
  BY DEF KeptInv, Keeps, IsPlan
<1>5. \A t \in DOMAIN plan : after(t) \in StepState
  BY <1>4 DEF StepState, Status
<1>6. \A t \in finished : after(t) = plan[t]
  BY <1>3
<1>7. Keeps(revised, finished')
  <2> HIDE DEF after
  <2> QED BY <1>1, <1>3, <1>5, <1>6 DEF KeptInv, Keeps, IsPlan
<1> QED
  <2>1. Settled(s, TRUE, revised)
    BY DEF StepFails
  <2>2. DOMAIN revised = DOMAIN plan
    OBVIOUS
  <2> HIDE DEF revised
  <2> QED BY <1>1, <1>7, <2>1, <2>2, SettledKeeps

\* The planner replaces no completed step.
LEMMA ReplanKeeps ==
  ASSUME KeptInv, NEW changed \in SUBSET Steps, Replan(changed)
  PROVE  KeptInv'
<1>1. Pending \in StepState
  BY DEF Pending, StepState, Status
<1>2. \A s \in DOMAIN plan : plan[s] \in StepState
  BY DEF KeptInv, Keeps, IsPlan
<1>3. plan' = [s \in DOMAIN plan \union changed |-> IF s \in changed THEN Pending ELSE plan[s]]
  BY DEF Replan
<1>4. \A s \in finished : s \in DOMAIN plan /\ s \notin changed
  BY DEF Replan, With, KeptInv, Keeps
<1>5. Keeps(plan', finished)
  BY <1>1, <1>2, <1>3, <1>4 DEF Keeps, IsPlan, KeptInv
<1>6. DOMAIN plan \subseteq DOMAIN plan'
  BY <1>3
<1> QED BY <1>5, <1>6 DEF Replan, KeptInv

\* A resumed plan takes completed steps at their word, and nothing is in flight.
LEMMA ResumeKeeps ==
  ASSUME KeptInv, Resume
  PROVE  KeptInv'
<1>1. Keeps(checkpoint, finished)
  BY DEF Resume, KeptInv
<1>2. plan' = [s \in DOMAIN checkpoint |->
                 IF checkpoint[s].status = "completed" THEN checkpoint[s]
                 ELSE [checkpoint[s] EXCEPT !.status = "pending"]]
  BY DEF Resume, Sanitized
<1>3. \A s \in DOMAIN checkpoint : plan'[s] \in StepState
  BY <1>1, <1>2 DEF Keeps, IsPlan, StepState, Status
<1>4. Keeps(plan', finished)
  BY <1>1, <1>2, <1>3 DEF Keeps, IsPlan
<1> QED BY <1>1, <1>4 DEF Resume, KeptInv, history

\* Every step keeps what has completed.
LEMMA StepKeeps == KeptInv /\ [Next]_vars => KeptInv'
<1> SUFFICES ASSUME KeptInv, [Next]_vars PROVE KeptInv' OBVIOUS
<1>1. CASE Finish
  BY <1>1 DEF Finish, KeptInv, history
<1>2. ASSUME NEW succeeds \in BOOLEAN, RollBack(succeeds) PROVE KeptInv'
  BY <1>2 DEF RollBack, KeptInv
<1>3. CASE RolledBack
  BY <1>3 DEF RolledBack, KeptInv, history
<1>4. CASE Crash
  BY <1>4 DEF Crash, KeptInv
<1>5. CASE PlannerFails
  BY <1>5 DEF PlannerFails, KeptInv, history
<1>6. CASE UNCHANGED vars
  BY <1>6 DEF vars, history, KeptInv
<1> QED
  BY <1>1, <1>2, <1>3, <1>4, <1>5, <1>6, StartKeeps, SuccessKeeps, RetryKeeps, FailureKeeps,
     ReplanKeeps, ResumeKeeps DEF Next

\* What comes in flight in a step was pending before it.
LEMMA OnlyPendingStart ==
  ASSUME KeptInv, [Next]_vars
  PROVE  (inFlight' \ inFlight) \intersect finished = {}
<1>1. CASE StartRound
  BY <1>1 DEF StartRound, Ready, With, KeptInv, Keeps
<1>2. CASE inFlight' \subseteq inFlight
  BY <1>2
<1>3. ASSUME NEW s \in Steps, StepSucceeds(s) \/ StepRetries(s) \/ StepFails(s)
      PROVE  inFlight' \subseteq inFlight
  BY <1>3 DEF StepSucceeds, StepRetries, StepFails, Settled
<1> QED
  BY <1>1, <1>2, <1>3 DEF Next, Replan, PlannerFails, Finish, RollBack, RolledBack, Crash, Resume, vars

\* "A crashed run resumes without re-running completed steps": in every
\* behaviour a step that completed once is never started again (saveCheckpoint
\* at each transition, sanitizeResumedSteps on resumption).
THEOREM CompletedNeverRerun == Spec => CompletedNotRerun
<1>1. KeptInv /\ [Next]_vars => [(inFlight' \ inFlight) \intersect finished = {}]_vars
  BY OnlyPendingStart
<1> QED BY <1>1, InitKeeps, StepKeeps, PTL DEF Spec, CompletedNotRerun

-----------------------------------------------------------------------------
(* The order of a rollback.                                                *)

\* No step of an execution order is a dependency of an earlier one, and none of an
\* undo order one of a later one.
Chronological(list) ==
  \A i, j \in DOMAIN list : i < j => list[j] \notin Deps[list[i]] /\ list[j] # list[i]
ReverseChronological(list) ==
  \A i, j \in DOMAIN list : i < j => list[i] \notin Deps[list[j]]

\* The undo order after each step that was executed.
Undos(acc, list) ==
  /\ acc \in [0 .. Len(list) -> Seq(Steps)]
  /\ acc[0] = <<>>
  /\ \A i \in 1 .. Len(list) : acc[i] = UndoFirst(acc[i - 1], list[i])

LEMMA UndoUnrolls ==
  ASSUME NEW list \in Seq(Steps)
  PROVE  \E acc : Undos(acc, list) /\ UndoOrder(list) = acc[Len(list)]
<1> DEFINE n == Len(list)
           S == Seq(Steps)
           none == <<>>
           IsFold(g) == g = [s \in SUBSET (1 .. n) |->
                               IF s = {} THEN none ELSE UndoFirst(g[s \ {Max(s)}], list[Max(s)])]
           iter == CHOOSE g : IsFold(g)
           step == [p \in (1 .. n) \X S |-> UndoFirst(p[2], list[p[1]])]
           acc == [i \in 0 .. n |-> iter[1 .. i]]
<1>1. UndoOrder(list) = iter[1 .. n]
  <2>1. DOMAIN list = 1 .. n OBVIOUS
  <2> HIDE DEF step, acc, S
  <2> QED BY <2>1 DEF UndoOrder, FoldLeft, MapThenFoldSet
<1>2. n \in Nat /\ none \in S /\ \A i \in 1 .. n : list[i] \in Steps
  OBVIOUS
<1>3. acc = [i \in 0 .. n |-> iter[1 .. i]]
  OBVIOUS
<1>4. step = [p \in (1 .. n) \X S |-> UndoFirst(p[2], list[p[1]])]
  OBVIOUS
<1>5. \A undo \in S, s \in Steps : UndoFirst(undo, s) \in S
  BY DEF UndoFirst
<1> HIDE DEF n, S, none, step, acc, iter, IsFold
<1>6. step \in [(1 .. n) \X S -> S]
  <2>1. \A p \in (1 .. n) \X S : UndoFirst(p[2], list[p[1]]) \in S
    BY <1>2, <1>5
  <2> QED BY <1>4, <2>1
<1>7. PICK f \in [SUBSET (1 .. n) -> S] : FoldsTo(f, n, none, step)
  BY <1>2, <1>6, FoldExists
<1>8. IsFold(f)
  <2>1. ASSUME NEW s \in SUBSET (1 .. n)
        PROVE  f[s] = IF s = {} THEN none ELSE UndoFirst(f[s \ {Max(s)}], list[Max(s)])
    <3>1. s # {} => Max(s) \in 1 .. n /\ f[s \ {Max(s)}] \in S
      BY <1>2, MaxUpTo
    <3> QED BY <1>4, <1>7, <3>1 DEF FoldsTo
  <2> QED BY <2>1 DEF IsFold
<1>9. IsFold(iter)
  BY <1>8 DEF iter
<1>10. iter[{}] = none
  <2>1. {} \in SUBSET (1 .. n) OBVIOUS
  <2> QED BY <1>9, <2>1 DEF IsFold
<1>11. \A i \in 1 .. n : iter[1 .. i] = UndoFirst(iter[1 .. i - 1], list[i])
  <2> TAKE i \in 1 .. n
  <2>1. /\ 1 .. i \in SUBSET (1 .. n) /\ 1 .. i # {}
        /\ Max(1 .. i) = i /\ (1 .. i) \ {i} = 1 .. i - 1
    BY <1>2, IntervalStep
  <2>2. iter[1 .. i] = UndoFirst(iter[(1 .. i) \ {Max(1 .. i)}], list[Max(1 .. i)])
    BY <1>9, <2>1 DEF IsFold
  <2> QED BY <2>1, <2>2
<1>12. acc[0] = none /\ \A i \in 1 .. n : acc[i] = UndoFirst(acc[i - 1], list[i])
  <2>1. 1 .. 0 = {} /\ 0 \in 0 .. n
    BY <1>2
  <2>2. \A i \in 0 .. n : acc[i] = iter[1 .. i]
    BY <1>3
  <2>3. \A i \in 1 .. n : i \in 0 .. n /\ i - 1 \in 0 .. n
    BY <1>2
  <2> QED BY <1>10, <1>11, <2>1, <2>2, <2>3
<1>13. acc \in [0 .. n -> S]
  <2> DEFINE Good == {i \in 0 .. n : acc[i] \in S}
  <2>1. 0 \in Good
    BY <1>2, <1>12
  <2>2. ASSUME NEW i \in 1 .. n, i - 1 \in Good PROVE i \in Good
    BY <1>2, <1>5, <1>12, <2>2
  <2>3. \A i \in 0 .. n : i \in Good
    <3> HIDE DEF Good
    <3> QED BY <1>2, <2>1, <2>2, InductionTo
  <2> QED BY <1>3, <2>3
<1>14. acc[n] = iter[1 .. n]
  BY <1>2, <1>3
<1> QED BY <1>1, <1>12, <1>13, <1>14 DEF Undos, n, S, none

\* rollbackAll (orchestrator.ts) goes over what was executed from the latest to the
\* first: it undoes exactly the reversible steps, each before what it depends on.
LEMMA UndoIsReverse ==
  ASSUME NEW list \in Seq(Steps), Chronological(list)
  PROVE  /\ UndoOrder(list) \in Seq(Steps)
         /\ Range(UndoOrder(list)) = Range(list) \intersect Reversible
         /\ ReverseChronological(UndoOrder(list))
<1> DEFINE n == Len(list)
<1>1. PICK acc : Undos(acc, list) /\ UndoOrder(list) = acc[n]
  BY UndoUnrolls
<1>2. n \in Nat /\ DOMAIN list = 1 .. n
  OBVIOUS
<1> DEFINE Done(i) == {list[j] : j \in 1 .. i}
           Good == {i \in 0 .. n : /\ Range(acc[i]) = Done(i) \intersect Reversible
                                   /\ ReverseChronological(acc[i])}
<1>3. 0 \in Good
  <2>1. acc[0] = <<>> /\ Done(0) = {}
    BY <1>1 DEF Undos
  <2> QED BY <1>2, <2>1 DEF ReverseChronological, Range
<1>4. ASSUME NEW i \in 1 .. n, i - 1 \in Good PROVE i \in Good
  <2> DEFINE undo == acc[i - 1]
             s == list[i]
  <2>1. acc[i] = UndoFirst(undo, s) /\ undo \in Seq(Steps) /\ s \in Steps
    <3>1. i - 1 \in 0 .. n /\ i \in 1 .. n /\ s \in Steps
      BY <1>2
    <3>2. acc \in [0 .. n -> Seq(Steps)] /\ \A j \in 1 .. n : acc[j] = UndoFirst(acc[j - 1], list[j])
      BY <1>1 DEF Undos
    <3> HIDE DEF n
    <3> QED BY <3>1, <3>2
  <2>2. Done(i) = Done(i - 1) \union {s}
    BY <1>2
  <2>3. \A t \in Done(i - 1) : s \notin Deps[t]
    <3>1. \A j \in 1 .. i - 1 : list[i] \notin Deps[list[j]]
      BY <1>2 DEF Chronological
    <3> QED BY <3>1
  <2>4. Range(undo) = Done(i - 1) \intersect Reversible /\ ReverseChronological(undo)
    BY <1>4
  <2> HIDE DEF undo, s, Done
  <2>5. CASE s \notin Reversible
    BY <2>1, <2>2, <2>4, <2>5 DEF UndoFirst
  <2>6. CASE s \in Reversible
    <3> DEFINE more == <<s>> \o undo
    <3>1. acc[i] = more
      BY <2>1, <2>6 DEF UndoFirst
    <3>2. /\ DOMAIN undo = 1 .. Len(undo) /\ DOMAIN more = 1 .. Len(undo) + 1 /\ Len(undo) \in Nat
          /\ more[1] = s /\ \A j \in 1 .. Len(undo) : more[j + 1] = undo[j]
      BY <2>1
    <3> HIDE DEF more
    <3>3. \A j \in DOMAIN more : j = 1 \/ (j - 1 \in DOMAIN undo /\ more[j] = undo[j - 1])
      BY <3>2
    <3>4. Range(more) = Range(undo) \union {s}
      BY <3>2, <3>3 DEF Range
    <3>5. ReverseChronological(more)
      <4> SUFFICES ASSUME NEW a \in DOMAIN more, NEW b \in DOMAIN more, a < b
                   PROVE  more[a] \notin Deps[more[b]]
        BY DEF ReverseChronological
      <4>1. b - 1 \in DOMAIN undo /\ more[b] = undo[b - 1]
        BY <3>2, <3>3
      <4>2. CASE a = 1
        <5>1. more[b] \in Done(i - 1)
          BY <2>4, <4>1 DEF Range
        <5> QED BY <2>3, <3>2, <4>2, <5>1
      <4>3. CASE a # 1
        <5>1. a - 1 \in DOMAIN undo /\ more[a] = undo[a - 1] /\ a - 1 < b - 1
          BY <3>2, <3>3, <4>3
        <5> QED BY <2>4, <4>1, <5>1 DEF ReverseChronological
      <4> QED BY <4>2, <4>3
    <3> QED BY <2>2, <2>4, <2>6, <3>1, <3>4, <3>5
  <2> QED BY <2>5, <2>6
<1>5. n \in Good
  <2> HIDE DEF Good
  <2>1. \A i \in 0 .. n : i \in Good
    BY <1>2, <1>3, <1>4, InductionTo
  <2> QED BY <1>2, <2>1
<1>6. Done(n) = Range(list)
  BY <1>2 DEF Range
<1>7. acc[n] \in Seq(Steps)
  BY <1>1, <1>2 DEF Undos
<1> QED BY <1>1, <1>5, <1>6, <1>7

-----------------------------------------------------------------------------
(* Rounds.                                                                 *)

In(p, status) == {s \in DOMAIN p : p[s].status = status}
PlanOK(p, done) ==
  /\ p = [s \in DOMAIN p |-> p[s]] /\ DOMAIN p \subseteq Steps
  /\ \A s \in DOMAIN p : p[s] \in [status : Status, retryCount : 0 .. MaxRetries]
  /\ In(p, "completed") \subseteq done

\* What run() is at and what it waits for go together; what is in flight stands on
\* completed steps, and all that completed is in effect but for what a rollback
\* takes back or took back before it was cut off.
RoundInv ==
  /\ PlanOK(plan, finished)
  /\ checkpoint # NoCheckpoint =>
       PlanOK(checkpoint, finished) /\ DOMAIN checkpoint = DOMAIN plan
  /\ pc \in {"rounds", "round", "replan", "rollback", "done", "aborted", "dead"}
  /\ inFlight = In(plan, "implementing")
  /\ pc \notin {"round", "dead"} => inFlight = {}
  /\ pc = "round" => inFlight # {}
  /\ replanNeeded \in BOOLEAN
  /\ replans \in 0 .. MaxReplans + 1 /\ (replans = MaxReplans + 1 => pc = "aborted")
  /\ effects \subseteq finished
  /\ pc \notin {"rollback", "done"} => finished \subseteq effects \union torn
  /\ \A s \in inFlight : Deps[s] \subseteq In(plan, "completed")

LEMMA InitRound == Init => RoundInv
<1> SUFFICES ASSUME Init PROVE RoundInv OBVIOUS
<1>1. /\ \A s \in InitialSteps : plan[s] = Pending
      /\ plan = [s \in InitialSteps |-> Pending]
  BY DEF Init
<1>2. Pending \in [status : Status, retryCount : 0 .. MaxRetries] /\ Pending.status = "pending"
  BY OrchestratorAssumption DEF OrchestratorAssumption, Pending, Status
<1>3. In(plan, "completed") = {} /\ In(plan, "implementing") = {}
  BY <1>1, <1>2 DEF In
<1>4. PlanOK(plan, finished)
  BY <1>1, <1>2, <1>3, OrchestratorAssumption DEF PlanOK, OrchestratorAssumption
<1>5. 0 \in 0 .. MaxReplans + 1 /\ 0 # MaxReplans + 1
  BY OrchestratorAssumption DEF OrchestratorAssumption
<1> QED BY <1>3, <1>4, <1>5 DEF Init, RoundInv

LEMMA StartRoundKept ==
  ASSUME RoundInv, StartRound
  PROVE  RoundInv'
<1>1. /\ plan' = [s \in DOMAIN plan |-> IF s \in Ready THEN [plan[s] EXCEPT !.status = "implementing"]
                                      ELSE plan[s]]
      /\ checkpoint' = plan' /\ inFlight' = Ready /\ Ready # {} /\ pc' = "round" /\ pc = "rounds"
      /\ finished' = finished /\ effects' = effects /\ torn' = torn /\ replans' = replans
      /\ replanNeeded' = FALSE
  BY DEF StartRound
<1>2. Ready = {s \in In(plan, "pending") : Deps[s] \subseteq In(plan, "completed")}
  BY DEF Ready, With, In
<1>3. \A s \in DOMAIN plan : plan[s] \in [status : Status, retryCount : 0 .. MaxRetries]
  BY DEF RoundInv, PlanOK
<1>4. DOMAIN plan' = DOMAIN plan /\ plan' = [s \in DOMAIN plan' |-> plan'[s]]
  BY <1>1
<1>5. \A s \in DOMAIN plan : /\ plan'[s] \in [status : Status, retryCount : 0 .. MaxRetries]
                             /\ plan'[s].status = IF s \in Ready THEN "implementing"
                                                  ELSE plan[s].status
  BY <1>1, <1>3 DEF Status
<1>6. In(plan', "completed") = In(plan, "completed")
  BY <1>2, <1>4, <1>5 DEF In
<1>7. In(plan, "implementing") = {} /\ finished \subseteq effects \union torn
  BY <1>1 DEF RoundInv
<1>8. In(plan', "implementing") = Ready
  BY <1>2, <1>4, <1>5, <1>7 DEF In
<1>9. PlanOK(plan', finished')
  BY <1>1, <1>3, <1>4, <1>5, <1>6 DEF PlanOK, RoundInv
<1>10. \A s \in inFlight' : Deps[s] \subseteq In(plan', "completed")
  BY <1>1, <1>2, <1>6
<1> QED BY <1>1, <1>4, <1>7, <1>8, <1>9, <1>10 DEF RoundInv

LEMMA SettledRound ==
  ASSUME RoundInv, NEW s \in Steps, NEW needed \in BOOLEAN, NEW revised,
         Settled(s, needed, revised), DOMAIN revised = DOMAIN plan,
         PlanOK(revised, finished'),
         In(revised, "implementing") = In(plan, "implementing") \ {s},
         In(plan, "completed") \subseteq In(revised, "completed"),
         \/ finished' = finished /\ effects' = effects
         \/ finished' = finished \union {s} /\ effects' = effects \union {s}
  PROVE  RoundInv'
<1>1. /\ plan' = revised /\ checkpoint' = revised /\ inFlight' = inFlight \ {s}
      /\ replanNeeded' = needed /\ torn' = torn /\ pc = "round" /\ s \in inFlight
      /\ replans' = IF inFlight = {s} /\ needed THEN replans + 1 ELSE replans
      /\ pc' = IF inFlight # {s} THEN pc ELSE IF ~needed THEN "rounds"
               ELSE IF replans' > MaxReplans THEN "aborted" ELSE "replan"
  BY DEF Settled, Counted
<1>2. inFlight' = In(plan', "implementing")
  BY <1>1 DEF RoundInv
<1>3. /\ pc' \in {"rounds", "round", "replan", "aborted"}
      /\ pc' # "round" => inFlight' = {}
      /\ pc' = "round" => inFlight' # {}
  BY <1>1
<1>4. replans' \in 0 .. MaxReplans + 1 /\ (replans' = MaxReplans + 1 => pc' = "aborted")
  <2>1. replans \in 0 .. MaxReplans /\ MaxReplans \in Nat
    BY <1>1, OrchestratorAssumption DEF RoundInv, OrchestratorAssumption
  <2> QED BY <1>1, <2>1
<1>5. effects' \subseteq finished' /\ finished' \subseteq effects' \union torn'
  BY <1>1 DEF RoundInv
<1>6. \A t \in inFlight' : Deps[t] \subseteq In(plan', "completed")
  BY <1>1 DEF RoundInv
<1> QED BY <1>1, <1>2, <1>3, <1>4, <1>5, <1>6 DEF RoundInv

\* What a step that settles becomes.
LEMMA SettlingStep ==
  ASSUME RoundInv, NEW s \in inFlight
  PROVE  /\ s \in DOMAIN plan /\ plan[s].status = "implementing"
         /\ plan[s].retryCount \in 0 .. MaxRetries
         /\ plan[s] \in [status : Status, retryCount : 0 .. MaxRetries]
<1>1. s \in DOMAIN plan /\ plan[s].status = "implementing"
  BY DEF RoundInv, In
<1> QED BY <1>1 DEF RoundInv, PlanOK

LEMMA SuccessRound ==
  ASSUME RoundInv, NEW s \in Steps, StepSucceeds(s)
  PROVE  RoundInv'
<1> DEFINE revised == [plan EXCEPT ![s].status = "completed"]
<1>1. s \in inFlight /\ finished' = finished \union {s} /\ effects' = effects \union {s}
  BY DEF StepSucceeds, Settled
<1>2. /\ s \in DOMAIN plan /\ plan[s].status = "implementing"
      /\ plan[s] \in [status : Status, retryCount : 0 .. MaxRetries]
  BY <1>1, SettlingStep
<1>3. /\ DOMAIN revised = DOMAIN plan /\ revised = [t \in DOMAIN revised |-> revised[t]]
      /\ revised[s] = [plan[s] EXCEPT !.status = "completed"]
      /\ \A t \in DOMAIN plan : t # s => revised[t] = plan[t]
  BY <1>2
<1>4. revised[s] \in [status : Status, retryCount : 0 .. MaxRetries] /\ revised[s].status = "completed"
  BY <1>2 DEF Status
<1>a. Settled(s, replanNeeded, revised) /\ replanNeeded \in BOOLEAN
  BY DEF StepSucceeds, RoundInv
<1> HIDE DEF revised
<1>5. /\ In(revised, "implementing") = In(plan, "implementing") \ {s}
      /\ In(revised, "completed") = In(plan, "completed") \union {s}
  BY <1>2, <1>3, <1>4 DEF In
<1>6. PlanOK(revised, finished')
  BY <1>1, <1>3, <1>4, <1>5 DEF PlanOK, RoundInv
<1> QED BY <1>1, <1>3, <1>5, <1>6, <1>a, SettledRound

LEMMA RetryRound ==
  ASSUME RoundInv, NEW s \in Steps, StepRetries(s)
  PROVE  RoundInv'
<1> DEFINE again == [status |-> "pending", retryCount |-> plan[s].retryCount + 1]
           revised == [plan EXCEPT ![s] = again]
<1>1. /\ s \in inFlight /\ finished' = finished /\ effects' = effects
      /\ plan[s].retryCount < MaxRetries
  BY DEF StepRetries, MayRetry
<1>2. /\ s \in DOMAIN plan /\ plan[s].status = "implementing"
      /\ plan[s].retryCount \in 0 .. MaxRetries
  BY <1>1, SettlingStep
<1>3. /\ DOMAIN revised = DOMAIN plan /\ revised = [t \in DOMAIN revised |-> revised[t]]
      /\ revised[s] = again
      /\ \A t \in DOMAIN plan : t # s => revised[t] = plan[t]
  BY <1>2
<1>4. again \in [status : Status, retryCount : 0 .. MaxRetries] /\ again.status = "pending"
  BY <1>1, <1>2, OrchestratorAssumption DEF Status, OrchestratorAssumption
<1>a. Settled(s, replanNeeded, revised) /\ replanNeeded \in BOOLEAN
  BY DEF StepRetries, RoundInv
<1> HIDE DEF revised, again
<1>5. /\ In(revised, "implementing") = In(plan, "implementing") \ {s}
      /\ In(revised, "completed") = In(plan, "completed")
  BY <1>2, <1>3, <1>4 DEF In
<1>6. PlanOK(revised, finished')
  BY <1>1, <1>3, <1>4, <1>5 DEF PlanOK, RoundInv
<1> QED BY <1>1, <1>3, <1>5, <1>6, <1>a, SettledRound

LEMMA FailureRound ==
  ASSUME RoundInv, NEW s \in Steps, StepFails(s)
  PROVE  RoundInv'
<1> DEFINE after(t) == IF t = s THEN [plan[t] EXCEPT !.status = "failed"]
                       ELSE IF t \in Cascade(s) THEN [plan[t] EXCEPT !.status = "skipped"]
                       ELSE plan[t]
           revised == [t \in DOMAIN plan |-> after(t)]
<1>1. s \in inFlight /\ finished' = finished /\ effects' = effects
  BY DEF StepFails, Settled
<1>2. s \in DOMAIN plan /\ plan[s].status = "implementing"
  BY <1>1, SettlingStep
<1>3. \A t \in DOMAIN plan : plan[t] \in [status : Status, retryCount : 0 .. MaxRetries]
  BY DEF RoundInv, PlanOK
<1>4. \A t \in Cascade(s) : t \in DOMAIN plan /\ plan[t].status = "pending"
  BY DEF Cascade, With
<1>5. \A t \in DOMAIN plan :
        /\ after(t) \in [status : Status, retryCount : 0 .. MaxRetries]
        /\ after(t).status = IF t = s THEN "failed" ELSE IF t \in Cascade(s) THEN "skipped"
                             ELSE plan[t].status
  BY <1>3 DEF Status
<1>6. /\ DOMAIN revised = DOMAIN plan /\ revised = [t \in DOMAIN revised |-> revised[t]]
      /\ \A t \in DOMAIN plan : revised[t] = after(t)
  OBVIOUS
<1>a. Settled(s, TRUE, revised) /\ TRUE \in BOOLEAN
  BY DEF StepFails
<1> HIDE DEF revised, after
<1>7. /\ In(revised, "implementing") = In(plan, "implementing") \ {s}
      /\ In(revised, "completed") = In(plan, "completed")
  BY <1>2, <1>4, <1>5, <1>6 DEF In
<1>8. PlanOK(revised, finished')
  BY <1>1, <1>5, <1>6, <1>7 DEF PlanOK, RoundInv
<1> QED BY <1>1, <1>6, <1>7, <1>8, <1>a, SettledRound

LEMMA ReplanRound ==
  ASSUME RoundInv, NEW changed \in SUBSET Steps, Replan(changed)
  PROVE  RoundInv'
<1>1. /\ pc = "replan" /\ changed \intersect In(plan, "completed") = {}
      /\ plan' = [s \in DOMAIN plan \union changed |-> IF s \in changed THEN Pending ELSE plan[s]]
      /\ checkpoint' = plan' /\ pc' \in {"rounds", "aborted"}
      /\ inFlight' = inFlight /\ replanNeeded' = replanNeeded /\ replans' = replans
      /\ finished' = finished /\ effects' = effects /\ torn' = torn
  BY DEF Replan, With, In
<1>2. Pending \in [status : Status, retryCount : 0 .. MaxRetries] /\ Pending.status = "pending"
  BY OrchestratorAssumption DEF OrchestratorAssumption, Pending, Status
<1>3. \A s \in DOMAIN plan : plan[s] \in [status : Status, retryCount : 0 .. MaxRetries]
  BY DEF RoundInv, PlanOK
<1>4. /\ DOMAIN plan' = DOMAIN plan \union changed
      /\ plan' = [s \in DOMAIN plan' |-> plan'[s]]
      /\ \A s \in DOMAIN plan' : plan'[s] = IF s \in changed THEN Pending ELSE plan[s]
  BY <1>1
<1>5. \A s \in DOMAIN plan' : plan'[s] \in [status : Status, retryCount : 0 .. MaxRetries]
  BY <1>2, <1>3, <1>4
<1>6. In(plan, "implementing") = {} /\ inFlight = {}
  BY <1>1 DEF RoundInv
<1>7. /\ In(plan', "implementing") = {}
      /\ In(plan', "completed") = In(plan, "completed")
  BY <1>1, <1>2, <1>4, <1>6 DEF In
<1>8. PlanOK(plan', finished')
  BY <1>1, <1>4, <1>5, <1>7 DEF PlanOK, RoundInv
<1> QED BY <1>1, <1>6, <1>7, <1>8 DEF RoundInv

LEMMA ResumeRound ==
  ASSUME RoundInv, Resume
  PROVE  RoundInv'
<1>1. /\ pc \in {"dead", "aborted"} /\ checkpoint # NoCheckpoint
      /\ plan' = Sanitized(checkpoint) /\ pc' \in {"rounds", "aborted"}
      /\ inFlight' = {} /\ replanNeeded' = FALSE /\ replans' = 0
      /\ checkpoint' = checkpoint /\ finished' = finished /\ effects' = effects /\ torn' = torn
  BY DEF Resume, history
<1>2. PlanOK(checkpoint, finished)
  BY <1>1 DEF RoundInv
<1>3. /\ DOMAIN plan' = DOMAIN checkpoint /\ plan' = [s \in DOMAIN plan' |-> plan'[s]]
      /\ \A s \in DOMAIN checkpoint :
           plan'[s] = IF checkpoint[s].status = "completed" THEN checkpoint[s]
                      ELSE [checkpoint[s] EXCEPT !.status = "pending"]
  BY <1>1 DEF Sanitized
<1>4. \A s \in DOMAIN plan' :
        /\ plan'[s] \in [status : Status, retryCount : 0 .. MaxRetries]
        /\ plan'[s].status = IF checkpoint[s].status = "completed" THEN "completed" ELSE "pending"
  BY <1>2, <1>3 DEF PlanOK, Status
<1>5. In(plan', "implementing") = {} /\ In(plan', "completed") = In(checkpoint, "completed")
  BY <1>3, <1>4 DEF In
<1>6. PlanOK(plan', finished')
  BY <1>1, <1>2, <1>3, <1>4, <1>5 DEF PlanOK
<1>7. 0 \in 0 .. MaxReplans + 1 /\ 0 # MaxReplans + 1
  BY OrchestratorAssumption DEF OrchestratorAssumption
<1> QED BY <1>1, <1>2, <1>3, <1>5, <1>6, <1>7 DEF RoundInv

LEMMA StepRound == RoundInv /\ [Next]_vars => RoundInv'
<1> SUFFICES ASSUME RoundInv, [Next]_vars PROVE RoundInv' OBVIOUS
<1>1. CASE Finish
  BY <1>1 DEF Finish, RoundInv, history
<1>2. ASSUME NEW succeeds \in BOOLEAN, RollBack(succeeds) PROVE RoundInv'
  BY <1>2 DEF RollBack, RoundInv
<1>3. CASE RolledBack
  BY <1>3 DEF RolledBack, RoundInv, history
<1>4. CASE Crash
  BY <1>4, OrchestratorAssumption DEF Crash, RoundInv, OrchestratorAssumption
<1>5. CASE PlannerFails
  BY <1>5 DEF PlannerFails, RoundInv, history
<1>6. CASE UNCHANGED vars
  BY <1>6 DEF vars, history, RoundInv
<1> QED
  BY <1>1, <1>2, <1>3, <1>4, <1>5, <1>6, StartRoundKept, SuccessRound, RetryRound, FailureRound,
     ReplanRound, ResumeRound DEF Next

-----------------------------------------------------------------------------
(* How often a step is tried.                                              *)

\* A step has been tried once for each retry counted in the plan and each
\* resumption, and once more unless it waits to be tried.
AttemptInv ==
  /\ attempts \in [Steps -> Nat] /\ resumes \in Nat
  /\ \A s \in Steps : s \notin DOMAIN plan => attempts[s] = 0
  /\ \A s \in DOMAIN plan :
       attempts[s] <= plan[s].retryCount + resumes + (IF plan[s].status = "pending" THEN 0 ELSE 1)
  /\ checkpoint # NoCheckpoint =>
       \A s \in DOMAIN checkpoint : attempts[s] <= checkpoint[s].retryCount + resumes + 1

LEMMA InitAttempts == Init => AttemptInv
<1> SUFFICES ASSUME Init PROVE AttemptInv OBVIOUS
<1>1. /\ plan = [s \in InitialSteps |-> Pending] /\ checkpoint = NoCheckpoint
      /\ resumes = 0 /\ attempts = [s \in Steps |-> 0]
  BY DEF Init
<1>2. Pending.status = "pending" /\ Pending.retryCount = 0
  BY DEF Pending
<1>3. InitialSteps \subseteq Steps
  BY OrchestratorAssumption DEF OrchestratorAssumption
<1>4. \A s \in DOMAIN plan : attempts[s] = 0 /\ plan[s] = Pending
  BY <1>1, <1>3
<1> QED BY <1>1, <1>2, <1>4 DEF AttemptInv

\* The bound on the plan is one on the checkpoint written from it.
LEMMA PlanBoundsCheckpoint ==
  ASSUME RoundInv', attempts' \in [Steps -> Nat], resumes' \in Nat, checkpoint' = plan',
         \A s \in DOMAIN plan' :
           attempts'[s] <= plan'[s].retryCount + resumes'
                             + (IF plan'[s].status = "pending" THEN 0 ELSE 1),
         \A s \in Steps : s \notin DOMAIN plan' => attempts'[s] = 0
  PROVE  AttemptInv'
<1>1. \A s \in DOMAIN plan' : attempts'[s] \in Nat /\ plan'[s].retryCount \in Nat
  <2>1. \A s \in DOMAIN plan' : plan'[s] \in [status : Status, retryCount : 0 .. MaxRetries]
    BY DEF RoundInv, PlanOK
  <2>2. \A s \in DOMAIN plan' : plan'[s].retryCount \in 0 .. MaxRetries /\ s \in Steps
    BY <2>1 DEF RoundInv, PlanOK
  <2> QED BY <2>2
<1>2. \A s \in DOMAIN plan' : attempts'[s] <= plan'[s].retryCount + resumes' + 1
  BY <1>1
<1> QED BY <1>1, <1>2 DEF AttemptInv

LEMMA PlanTyped ==
  ASSUME RoundInv
  PROVE  \A s \in DOMAIN plan : s \in Steps /\ plan[s].retryCount \in Nat
                                /\ plan[s].retryCount <= MaxRetries
<1>1. \A s \in DOMAIN plan : plan[s] \in [status : Status, retryCount : 0 .. MaxRetries]
  BY DEF RoundInv, PlanOK
<1>2. \A s \in DOMAIN plan : plan[s].retryCount \in 0 .. MaxRetries /\ s \in Steps
  BY <1>1 DEF RoundInv, PlanOK
<1> QED BY <1>2, OrchestratorAssumption DEF OrchestratorAssumption

LEMMA StartAttempts ==
  ASSUME RoundInv, RoundInv', AttemptInv, StartRound
  PROVE  AttemptInv'
<1>1. /\ plan' = [s \in DOMAIN plan |-> IF s \in Ready THEN [plan[s] EXCEPT !.status = "implementing"]
                                      ELSE plan[s]]
      /\ attempts' = [s \in Steps |-> IF s \in Ready THEN attempts[s] + 1 ELSE attempts[s]]
      /\ checkpoint' = plan' /\ resumes' = resumes
  BY DEF StartRound
<1>2. \A s \in Ready : s \in DOMAIN plan /\ plan[s].status = "pending"
  BY DEF Ready, With
<1>3. attempts \in [Steps -> Nat] /\ resumes \in Nat
  BY DEF AttemptInv
<1>4. attempts' \in [Steps -> Nat]
  BY <1>1, <1>3
<1>5. \A s \in DOMAIN plan : plan[s] \in [status : Status, retryCount : 0 .. MaxRetries]
  BY DEF RoundInv, PlanOK
<1>6. ASSUME NEW s \in DOMAIN plan
      PROVE  attempts'[s] <= plan'[s].retryCount + resumes'
                               + (IF plan'[s].status = "pending" THEN 0 ELSE 1)
  <2>1. attempts[s] <= plan[s].retryCount + resumes + (IF plan[s].status = "pending" THEN 0 ELSE 1)
    BY DEF AttemptInv
  <2>2. s \in Steps /\ plan[s].retryCount \in Nat /\ attempts[s] \in Nat
    BY <1>3, PlanTyped
  <2>3. CASE s \in Ready
    <3>1. plan'[s].retryCount = plan[s].retryCount /\ plan'[s].status = "implementing"
      BY <1>1, <1>5, <2>3
    <3>2. attempts'[s] = attempts[s] + 1
      BY <1>1, <2>2, <2>3
    <3> QED BY <1>1, <1>2, <1>3, <2>1, <2>2, <2>3, <3>1, <3>2
  <2>4. CASE s \notin Ready
    <3>1. plan'[s] = plan[s] /\ attempts'[s] = attempts[s]
      BY <1>1, <2>2, <2>4
    <3> QED BY <1>1, <2>1, <3>1
  <2> QED BY <2>3, <2>4
<1>7. DOMAIN plan' = DOMAIN plan
  BY <1>1
<1>8. \A s \in Steps : s \notin DOMAIN plan' => attempts'[s] = 0
  BY <1>1, <1>2, <1>7 DEF AttemptInv
<1> QED BY <1>1, <1>3, <1>4, <1>6, <1>7, <1>8, PlanBoundsCheckpoint

\* A step that settles is not waiting, and counts its retry if it is to wait again;
\* what is skipped was waiting.
LEMMA SettledAttempts ==
  ASSUME RoundInv, RoundInv', AttemptInv, NEW s \in Steps, NEW needed, NEW revised,
         Settled(s, needed, revised), DOMAIN revised = DOMAIN plan,
         \A t \in DOMAIN plan :
           \/ revised[t].retryCount = plan[t].retryCount
              /\ (plan[t].status = "pending" \/ revised[t].status # "pending")
           \/ revised[t].retryCount = plan[t].retryCount + 1
  PROVE  AttemptInv'
<1>1. plan' = revised /\ checkpoint' = revised /\ attempts' = attempts /\ resumes' = resumes
  BY DEF Settled
<1>2. attempts \in [Steps -> Nat] /\ resumes \in Nat
  BY DEF AttemptInv
<1>3. ASSUME NEW t \in DOMAIN plan
      PROVE  attempts[t] <= revised[t].retryCount + resumes
                              + (IF revised[t].status = "pending" THEN 0 ELSE 1)
  <2>1. attempts[t] <= plan[t].retryCount + resumes + (IF plan[t].status = "pending" THEN 0 ELSE 1)
    BY DEF AttemptInv
  <2>2. t \in Steps /\ plan[t].retryCount \in Nat /\ attempts[t] \in Nat
    BY <1>2, PlanTyped
  <2> QED BY <1>2, <2>1, <2>2
<1>4. \A t \in Steps : t \notin DOMAIN revised => attempts[t] = 0
  BY DEF AttemptInv
<1> QED BY <1>1, <1>2, <1>3, <1>4, PlanBoundsCheckpoint

LEMMA SuccessAttempts ==
  ASSUME RoundInv, RoundInv', AttemptInv, NEW s \in Steps, StepSucceeds(s)
  PROVE  AttemptInv'
<1> DEFINE revised == [plan EXCEPT ![s].status = "completed"]
<1>1. Settled(s, replanNeeded, revised) /\ s \in inFlight
  BY DEF StepSucceeds, Settled
<1>2. s \in DOMAIN plan /\ plan[s] \in [status : Status, retryCount : 0 .. MaxRetries]
  BY <1>1, SettlingStep
<1>3. /\ DOMAIN revised = DOMAIN plan
      /\ revised[s] = [plan[s] EXCEPT !.status = "completed"]
      /\ \A t \in DOMAIN plan : t # s => revised[t] = plan[t]
  BY <1>2
<1>4. revised[s].status = "completed" /\ revised[s].retryCount = plan[s].retryCount
  BY <1>2, <1>3
<1> HIDE DEF revised
<1>5. \A t \in DOMAIN plan :
        \/ revised[t].retryCount = plan[t].retryCount
           /\ (plan[t].status = "pending" \/ revised[t].status # "pending")
        \/ revised[t].retryCount = plan[t].retryCount + 1
  BY <1>3, <1>4
<1> QED BY <1>1, <1>3, <1>5, SettledAttempts

LEMMA RetryAttempts ==
  ASSUME RoundInv, RoundInv', AttemptInv, NEW s \in Steps, StepRetries(s)
  PROVE  AttemptInv'
<1> DEFINE again == [status |-> "pending", retryCount |-> plan[s].retryCount + 1]
           revised == [plan EXCEPT ![s] = again]
<1>1. Settled(s, replanNeeded, revised) /\ s \in inFlight
  BY DEF StepRetries
<1>2. s \in DOMAIN plan
  BY <1>1, SettlingStep
<1>3. /\ DOMAIN revised = DOMAIN plan /\ revised[s] = again
      /\ \A t \in DOMAIN plan : t # s => revised[t] = plan[t]
  BY <1>2
<1>4. again.retryCount = plan[s].retryCount + 1
  OBVIOUS
<1> HIDE DEF revised, again
<1>5. \A t \in DOMAIN plan :
        \/ revised[t].retryCount = plan[t].retryCount
           /\ (plan[t].status = "pending" \/ revised[t].status # "pending")
        \/ revised[t].retryCount = plan[t].retryCount + 1
  BY <1>3, <1>4
<1> QED BY <1>1, <1>3, <1>5, SettledAttempts

LEMMA FailureAttempts ==
  ASSUME RoundInv, RoundInv', AttemptInv, NEW s \in Steps, StepFails(s)
  PROVE  AttemptInv'
<1> DEFINE after(t) == IF t = s THEN [plan[t] EXCEPT !.status = "failed"]
                       ELSE IF t \in Cascade(s) THEN [plan[t] EXCEPT !.status = "skipped"]
                       ELSE plan[t]
           revised == [t \in DOMAIN plan |-> after(t)]
<1>1. Settled(s, TRUE, revised)
  BY DEF StepFails
<1>2. \A t \in DOMAIN plan : plan[t] \in [status : Status, retryCount : 0 .. MaxRetries]
  BY DEF RoundInv, PlanOK
<1>3. \A t \in DOMAIN plan :
        /\ after(t).retryCount = plan[t].retryCount
        /\ plan[t].status = "pending" \/ after(t).status # "pending"
  BY <1>2
<1>4. DOMAIN revised = DOMAIN plan /\ \A t \in DOMAIN plan : revised[t] = after(t)
  OBVIOUS
<1> HIDE DEF revised, after
<1>5. \A t \in DOMAIN plan :
        \/ revised[t].retryCount = plan[t].retryCount
           /\ (plan[t].status = "pending" \/ revised[t].status # "pending")
        \/ revised[t].retryCount = plan[t].retryCount + 1
  BY <1>3, <1>4
<1> QED BY <1>1, <1>4, <1>5, SettledAttempts

LEMMA ReplanAttempts ==
  ASSUME RoundInv, RoundInv', AttemptInv, NEW changed \in SUBSET Steps, Replan(changed)
  PROVE  AttemptInv'
<1>1. /\ plan' = [s \in DOMAIN plan \union changed |-> IF s \in changed THEN Pending ELSE plan[s]]
      /\ attempts' = [s \in Steps |-> IF s \in changed THEN 0 ELSE attempts[s]]
      /\ checkpoint' = plan' /\ resumes' = resumes
  BY DEF Replan
<1>2. attempts \in [Steps -> Nat] /\ resumes \in Nat
  BY DEF AttemptInv
<1>3. attempts' \in [Steps -> Nat]
  BY <1>1, <1>2
<1>4. ASSUME NEW s \in DOMAIN plan'
      PROVE  attempts'[s] <= plan'[s].retryCount + resumes'
                               + (IF plan'[s].status = "pending" THEN 0 ELSE 1)
  <2>1. CASE s \in changed
    BY <1>1, <1>2, <2>1 DEF Pending
  <2>2. CASE s \notin changed
    <3>1. s \in DOMAIN plan /\ s \in Steps
      BY <1>1, <2>2, PlanTyped
    <3>2. plan'[s] = plan[s] /\ attempts'[s] = attempts[s]
      BY <1>1, <2>2, <3>1
    <3> QED BY <1>1, <3>1, <3>2 DEF AttemptInv
  <2> QED BY <2>1, <2>2
<1>5. \A s \in Steps : s \notin DOMAIN plan' => attempts'[s] = 0
  BY <1>1 DEF AttemptInv
<1> QED BY <1>1, <1>2, <1>3, <1>4, <1>5, PlanBoundsCheckpoint

\* A resumption adds one to what the counted retries allow, and all that has not
\* completed waits again.
LEMMA ResumeAttempts ==
  ASSUME RoundInv, RoundInv', AttemptInv, Resume
  PROVE  AttemptInv'
<1>1. /\ checkpoint # NoCheckpoint /\ plan' = Sanitized(checkpoint)
      /\ checkpoint' = checkpoint /\ attempts' = attempts /\ resumes' = resumes + 1
  BY DEF Resume, history
<1>2. attempts \in [Steps -> Nat] /\ resumes \in Nat
  BY DEF AttemptInv
<1>3. /\ DOMAIN checkpoint = DOMAIN plan /\ DOMAIN checkpoint \subseteq Steps
      /\ \A s \in DOMAIN checkpoint :
           checkpoint[s] \in [status : Status, retryCount : 0 .. MaxRetries]
  BY <1>1 DEF RoundInv, PlanOK
<1>4. ASSUME NEW s \in DOMAIN checkpoint
      PROVE  /\ plan'[s].retryCount = checkpoint[s].retryCount
             /\ checkpoint[s].retryCount \in Nat /\ attempts[s] \in Nat
             /\ attempts[s] <= checkpoint[s].retryCount + resumes + 1
  <2>1. checkpoint[s].retryCount \in 0 .. MaxRetries
    BY <1>3
  <2>2. plan'[s].retryCount = checkpoint[s].retryCount
    BY <1>1, <1>3 DEF Sanitized
  <2> QED BY <1>1, <1>2, <1>3, <2>1, <2>2 DEF AttemptInv
<1>5. DOMAIN plan' = DOMAIN checkpoint
  BY <1>1 DEF Sanitized
<1>6. \A s \in DOMAIN plan' :
        attempts'[s] <= plan'[s].retryCount + resumes' + (IF plan'[s].status = "pending" THEN 0 ELSE 1)
  BY <1>1, <1>2, <1>4, <1>5
<1>7. \A s \in DOMAIN checkpoint' : attempts'[s] <= checkpoint'[s].retryCount + resumes' + 1
  BY <1>1, <1>2, <1>4
<1>8. \A s \in Steps : s \notin DOMAIN plan' => attempts'[s] = 0
  BY <1>1, <1>3, <1>5 DEF AttemptInv
<1> QED BY <1>1, <1>2, <1>6, <1>7, <1>8 DEF AttemptInv

LEMMA StepAttempts ==
  ASSUME RoundInv, RoundInv', AttemptInv, [Next]_vars
  PROVE  AttemptInv'
<1>1. CASE Finish
  BY <1>1 DEF Finish, AttemptInv, history
<1>2. ASSUME NEW succeeds \in BOOLEAN, RollBack(succeeds) PROVE AttemptInv'
  BY <1>2 DEF RollBack, AttemptInv
<1>3. CASE RolledBack
  BY <1>3 DEF RolledBack, AttemptInv, history
<1>4. CASE Crash
  BY <1>4 DEF Crash, AttemptInv
<1>5. CASE PlannerFails
  BY <1>5 DEF PlannerFails, AttemptInv, history
<1>6. CASE UNCHANGED vars
  BY <1>6 DEF vars, history, AttemptInv
<1> QED
  BY <1>1, <1>2, <1>3, <1>4, <1>5, <1>6, StartAttempts, SuccessAttempts, RetryAttempts,
     FailureAttempts, ReplanAttempts, ResumeAttempts DEF Next

-----------------------------------------------------------------------------
(* The order in which steps were executed, and are undone.                 *)

\* What a run has executed stands on completed steps, in an order in which no step
\* precedes one it depends on; a rollback goes through it the other way round.
OrderInv ==
  /\ executed \in Seq(Steps) /\ undoing \in Seq(Steps) /\ resumes \in Nat
  /\ \A i \in DOMAIN executed :
       executed[i] \in In(plan, "completed") /\ Deps[executed[i]] \subseteq In(plan, "completed")
  /\ Chronological(executed)
  /\ Range(undoing) \subseteq Range(executed)
  /\ ReverseChronological(undoing)
  /\ resumes = 0 /\ pc \in {"rounds", "round", "replan", "aborted"} => Range(executed) = effects

LEMMA InitOrder == Init => OrderInv
  BY DEF Init, OrderInv, Chronological, ReverseChronological, Range

\* As long as completed steps stay completed and nothing is executed or undone, the
\* order stands.
LEMMA OrderStays ==
  ASSUME OrderInv, In(plan, "completed") \subseteq In(plan', "completed"),
         executed' = executed, undoing' = undoing, resumes' = resumes,
         pc' \in {"rounds", "round", "replan", "aborted"} =>
           pc \in {"rounds", "round", "replan", "aborted"} /\ effects' = effects
  PROVE  OrderInv'
  BY DEF OrderInv

LEMMA StartOrder ==
  ASSUME RoundInv, OrderInv, StartRound
  PROVE  OrderInv'
<1>1. plan' = [s \in DOMAIN plan |-> IF s \in Ready THEN [plan[s] EXCEPT !.status = "implementing"]
                                     ELSE plan[s]]
  BY DEF StartRound
<1>2. \A s \in Ready : plan[s].status = "pending"
  BY DEF Ready, With
<1>3. In(plan, "completed") \subseteq In(plan', "completed")
  BY <1>1, <1>2 DEF In
<1> QED BY <1>3, OrderStays DEF StartRound

\* A completed step joins the order after everything that completed before it.
LEMMA SuccessOrder ==
  ASSUME RoundInv, OrderInv, NEW s \in Steps, StepSucceeds(s)
  PROVE  OrderInv'
<1>1. /\ s \in inFlight /\ plan' = [plan EXCEPT ![s].status = "completed"]
      /\ executed' = Append(executed, s) /\ effects' = effects \union {s}
      /\ undoing' = undoing /\ resumes' = resumes /\ pc = "round"
  BY DEF StepSucceeds, Settled, Recorded
<1>2. /\ s \in DOMAIN plan /\ plan[s].status = "implementing"
      /\ plan[s] \in [status : Status, retryCount : 0 .. MaxRetries]
  BY <1>1, SettlingStep
<1>3. /\ DOMAIN plan' = DOMAIN plan
      /\ plan'[s] = [plan[s] EXCEPT !.status = "completed"]
      /\ \A t \in DOMAIN plan : t # s => plan'[t] = plan[t]
  BY <1>1, <1>2
<1>4. plan'[s].status = "completed"
  BY <1>2, <1>3
<1>5. /\ In(plan', "completed") = In(plan, "completed") \union {s}
      /\ s \notin In(plan, "completed") /\ Deps[s] \subseteq In(plan, "completed")
  BY <1>1, <1>2, <1>3, <1>4 DEF In, RoundInv
<1> DEFINE n == Len(executed)
<1>6. /\ executed \in Seq(Steps) /\ executed' \in Seq(Steps) /\ n \in Nat
      /\ DOMAIN executed = 1 .. n /\ DOMAIN executed' = 1 .. n + 1
      /\ executed'[n + 1] = s /\ \A i \in 1 .. n : executed'[i] = executed[i]
  BY <1>1 DEF OrderInv
<1> HIDE DEF n
<1>7. \A i \in 1 .. n :
        executed[i] \in In(plan, "completed") /\ Deps[executed[i]] \subseteq In(plan, "completed")
  BY <1>6 DEF OrderInv
<1>8. \A i \in DOMAIN executed' : i = n + 1 \/ i \in 1 .. n
  BY <1>6
<1>9. \A i \in DOMAIN executed' :
        executed'[i] \in In(plan', "completed") /\ Deps[executed'[i]] \subseteq In(plan', "completed")
  BY <1>5, <1>6, <1>7, <1>8
<1>10. Chronological(executed')
  <2> SUFFICES ASSUME NEW i \in DOMAIN executed', NEW j \in DOMAIN executed', i < j
               PROVE  executed'[j] \notin Deps[executed'[i]] /\ executed'[j] # executed'[i]
    BY DEF Chronological
  <2>1. i \in 1 .. n /\ executed'[i] = executed[i]
    BY <1>6
  <2>2. CASE j = n + 1
    BY <1>5, <1>6, <1>7, <2>1, <2>2
  <2>3. CASE j \in 1 .. n
    BY <1>6, <2>1, <2>3 DEF OrderInv, Chronological
  <2> QED BY <1>8, <2>2, <2>3
<1>11. Range(executed') = Range(executed) \union {s}
  BY <1>6, <1>8 DEF Range
<1>12. resumes' = 0 => Range(executed') = effects'
  BY <1>1, <1>11 DEF OrderInv
<1> QED BY <1>1, <1>6, <1>9, <1>10, <1>11, <1>12 DEF OrderInv

LEMMA RetryOrder ==
  ASSUME RoundInv, OrderInv, NEW s \in Steps, StepRetries(s)
  PROVE  OrderInv'
<1>1. /\ s \in inFlight
      /\ plan' = [plan EXCEPT ![s] = [status |-> "pending", retryCount |-> @.retryCount + 1]]
  BY DEF StepRetries, Settled
<1>2. s \in DOMAIN plan /\ plan[s].status = "implementing"
  BY <1>1, SettlingStep
<1>3. In(plan, "completed") \subseteq In(plan', "completed")
  BY <1>1, <1>2 DEF In
<1> QED BY <1>3, OrderStays DEF StepRetries, Settled

LEMMA FailureOrder ==
  ASSUME RoundInv, OrderInv, NEW s \in Steps, StepFails(s)
  PROVE  OrderInv'
<1>1. /\ s \in inFlight
      /\ plan' = [t \in DOMAIN plan |->
                    IF t = s THEN [plan[t] EXCEPT !.status = "failed"]
                    ELSE IF t \in Cascade(s) THEN [plan[t] EXCEPT !.status = "skipped"]
                    ELSE plan[t]]
  BY DEF StepFails, Settled
<1>2. s \in DOMAIN plan /\ plan[s].status = "implementing"
  BY <1>1, SettlingStep
<1>3. \A t \in Cascade(s) : plan[t].status = "pending"
  BY DEF Cascade, With
<1>4. In(plan, "completed") \subseteq In(plan', "completed")
  BY <1>1, <1>2, <1>3 DEF In
<1> QED BY <1>4, OrderStays DEF StepFails, Settled

LEMMA ReplanOrder ==
  ASSUME RoundInv, OrderInv, NEW changed \in SUBSET Steps, Replan(changed)
  PROVE  OrderInv'
<1>1. /\ changed \intersect In(plan, "completed") = {}
      /\ plan' = [s \in DOMAIN plan \union changed |-> IF s \in changed THEN Pending ELSE plan[s]]
  BY DEF Replan, With, In
<1>2. In(plan, "completed") \subseteq In(plan', "completed")
  BY <1>1 DEF In
<1> QED BY <1>2, OrderStays DEF Replan

\* A run that failed starts to undo all it executed.
LEMMA FinishOrder ==
  ASSUME OrderInv, Finish
  PROVE  OrderInv'
<1>1. CASE undoing' = UndoOrder(executed) /\ pc' = "rollback"
  <2>1. /\ UndoOrder(executed) \in Seq(Steps)
        /\ Range(UndoOrder(executed)) = Range(executed) \intersect Reversible
        /\ ReverseChronological(UndoOrder(executed))
    BY UndoIsReverse DEF OrderInv
  <2> QED BY <1>1, <2>1 DEF Finish, OrderInv, history
<1>2. CASE undoing' = undoing /\ pc' = "done"
  BY <1>2, OrderStays DEF Finish, history
<1> QED BY <1>1, <1>2 DEF Finish

\* What is left of an undo order is one.
LEMMA TailOfOrder ==
  ASSUME NEW list \in Seq(Steps), list # <<>>, ReverseChronological(list)
  PROVE  /\ Tail(list) \in Seq(Steps) /\ Range(Tail(list)) \subseteq Range(list)
         /\ ReverseChronological(Tail(list))
         /\ Head(list) \in Range(list)
         /\ \A t \in Range(Tail(list)) : Head(list) \notin Deps[t]
<1> DEFINE n == Len(list)
           rest == Tail(list)
<1>1. /\ n \in Nat /\ n > 0 /\ DOMAIN list = 1 .. n /\ DOMAIN rest = 1 .. n - 1
      /\ rest \in Seq(Steps) /\ Head(list) = list[1]
      /\ \A i \in 1 .. n - 1 : rest[i] = list[i + 1]
  OBVIOUS
<1> HIDE DEF n, rest
<1>2. \A i \in 1 .. n - 1 : i + 1 \in 1 .. n /\ 1 \in 1 .. n /\ 1 < i + 1
  BY <1>1
<1>3. Range(rest) \subseteq Range(list)
  BY <1>1, <1>2 DEF Range
<1>4. ReverseChronological(rest)
  <2> SUFFICES ASSUME NEW i \in 1 .. n - 1, NEW j \in 1 .. n - 1, i < j
               PROVE  rest[i] \notin Deps[rest[j]]
    BY <1>1 DEF ReverseChronological
  <2>1. i + 1 \in DOMAIN list /\ j + 1 \in DOMAIN list /\ i + 1 < j + 1
    BY <1>1, <1>2
  <2> QED BY <1>1, <2>1 DEF ReverseChronological
<1>5. \A t \in Range(rest) : list[1] \notin Deps[t]
  BY <1>1, <1>2 DEF Range, ReverseChronological
<1>6. list[1] \in Range(list)
  BY <1>1 DEF Range
<1> QED BY <1>1, <1>3, <1>4, <1>5, <1>6 DEF rest

LEMMA RollBackOrder ==
  ASSUME OrderInv, NEW succeeds \in BOOLEAN, RollBack(succeeds)
  PROVE  OrderInv'
<1>1. /\ Tail(undoing) \in Seq(Steps) /\ Range(Tail(undoing)) \subseteq Range(undoing)
      /\ ReverseChronological(Tail(undoing))
  BY TailOfOrder DEF OrderInv, RollBack
<1> QED BY <1>1 DEF RollBack, OrderInv

LEMMA ResumeOrder ==
  ASSUME OrderInv, Resume
  PROVE  OrderInv'
<1>1. executed' = <<>> /\ undoing' = <<>> /\ resumes' \in Nat /\ resumes' # 0
  BY DEF OrderInv, Resume
<1> QED BY <1>1 DEF OrderInv, Chronological, ReverseChronological, Range

LEMMA StepOrder ==
  ASSUME RoundInv, OrderInv, [Next]_vars
  PROVE  OrderInv'
<1>1. CASE RolledBack
  BY <1>1, OrderStays DEF RolledBack, history
<1>2. CASE Crash
  BY <1>2, OrderStays DEF Crash
<1>3. CASE PlannerFails
  BY <1>3, OrderStays DEF PlannerFails, history
<1>4. CASE UNCHANGED vars
  BY <1>4, OrderStays DEF vars, history
<1> QED
  BY <1>1, <1>2, <1>3, <1>4, StartOrder, SuccessOrder, RetryOrder, FailureOrder,
     ReplanOrder, FinishOrder, RollBackOrder, ResumeOrder DEF Next

-----------------------------------------------------------------------------
(* What the agent may rely on.                                             *)

PlanInv == RoundInv /\ AttemptInv /\ OrderInv

LEMMA PlanInvariant == Spec => []PlanInv
<1>1. Init => PlanInv
  BY InitRound, InitAttempts, InitOrder DEF PlanInv
<1>2. PlanInv /\ [Next]_vars => PlanInv'
  BY StepRound, StepAttempts, StepOrder DEF PlanInv
<1> QED BY <1>1, <1>2, PTL DEF Spec

LEMMA SoundPlan ==
  ASSUME PlanInv
  PROVE  PlanIsSound
<1>1. RoundInv /\ AttemptInv /\ OrderInv
  BY DEF PlanInv
<1>2. \A s \in DOMAIN plan : plan[s].status \in Status /\ plan[s].retryCount \in 0 .. MaxRetries
  <2>1. \A s \in DOMAIN plan : plan[s] \in [status : Status, retryCount : 0 .. MaxRetries]
    BY <1>1 DEF RoundInv, PlanOK
  <2> QED BY <2>1
<1>3. With("implementing") = In(plan, "implementing") /\ With("completed") = In(plan, "completed")
  BY DEF With, In
<1>4. Range(executed) \subseteq With("completed")
  BY <1>1, <1>3 DEF OrderInv, Range
<1>5. IsInjective(executed)
  <2> SUFFICES ASSUME NEW i \in DOMAIN executed, NEW j \in DOMAIN executed,
                      executed[i] = executed[j], i # j
               PROVE  FALSE
    BY DEF IsInjective
  <2>1. i \in Nat /\ j \in Nat
    BY <1>1 DEF OrderInv
  <2>2. i < j \/ j < i
    BY <2>1
  <2> QED BY <1>1, <2>2 DEF OrderInv, Chronological
<1>6. TypeOK
  BY <1>1, <1>2, <1>3, <1>4, <1>5 DEF TypeOK, RoundInv, PlanOK, OrderInv, Ended
<1>7. RunsOnItsDependencies
  <2> SUFFICES ASSUME NEW s \in inFlight PROVE Deps[s] \subseteq effects \union torn
    BY DEF RunsOnItsDependencies
  <2>1. Deps[s] \subseteq In(plan, "completed") /\ In(plan, "completed") \subseteq finished
    BY <1>1 DEF RoundInv, PlanOK
  <2>2. pc \notin {"rollback", "done"}
    BY <1>1 DEF RoundInv
  <2> QED BY <1>1, <2>1, <2>2 DEF RoundInv
<1>8. RetriesAreCapped
  <2> SUFFICES ASSUME NEW s \in Steps PROVE attempts[s] <= 1 + MaxRetries + resumes
    BY DEF RetriesAreCapped
  <2>1. attempts[s] \in Nat /\ resumes \in Nat /\ MaxRetries \in Nat
    BY <1>1, OrchestratorAssumption DEF AttemptInv, OrchestratorAssumption
  <2>2. CASE s \notin DOMAIN plan
    BY <1>1, <2>1, <2>2 DEF AttemptInv
  <2>3. CASE s \in DOMAIN plan
    <3>1. plan[s].retryCount \in Nat /\ plan[s].retryCount <= MaxRetries
      BY <1>1, <2>3, PlanTyped
    <3>2. attempts[s] <= plan[s].retryCount + resumes + (IF plan[s].status = "pending" THEN 0 ELSE 1)
      BY <1>1, <2>3 DEF AttemptInv
    <3> QED BY <2>1, <3>1, <3>2
  <2> QED BY <2>2, <2>3
<1> QED BY <1>6, <1>7, <1>8 DEF PlanIsSound

\* run() of the orchestrator: for every plan, what is waited for is what is being
\* implemented, a step runs only on dependencies that are done, and is tried at most
\* MaxRetries times again and once more for each resumption.
THEOREM PlanIsAlwaysSound == Spec => []PlanIsSound
  BY PlanInvariant, SoundPlan, PTL

\* A step of the system undoes a step only by a rollback, whose order puts no step
\* before one that depends on it.
LEMMA UndoneInOrder ==
  ASSUME PlanInv, [Next]_vars
  PROVE  \A s \in effects \ effects' : \A t \in effects \intersect Range(undoing') : s \notin Deps[t]
<1>1. ASSUME NEW succeeds \in BOOLEAN, RollBack(succeeds)
      PROVE  \A s \in effects \ effects' : \A t \in Range(undoing') : s \notin Deps[t]
  <2>1. /\ undoing \in Seq(Steps) /\ undoing # <<>> /\ ReverseChronological(undoing)
        /\ undoing' = Tail(undoing) /\ effects \ effects' \subseteq {Head(undoing)}
    BY <1>1 DEF PlanInv, OrderInv, RollBack
  <2> QED BY <2>1, TailOfOrder
<1>2. CASE effects \subseteq effects'
  BY <1>2
<1>3. ASSUME NEW s \in Steps, StepSucceeds(s) \/ StepRetries(s) \/ StepFails(s)
      PROVE  effects \subseteq effects'
  BY <1>3 DEF StepSucceeds, StepRetries, StepFails
<1> QED
  BY <1>1, <1>2, <1>3
  DEF Next, StartRound, Replan, PlannerFails, Finish, RolledBack, Crash, Resume, vars, history

\* A rollback starts with all that is in effect and can be undone.
LEMMA AllIsUndone ==
  ASSUME PlanInv, [Next]_vars, pc' = "rollback", pc # "rollback", resumes = 0
  PROVE  Range(undoing') = effects \intersect Reversible
<1>1. Finish
  <2>1. ASSUME NEW s \in Steps, StepSucceeds(s) \/ StepRetries(s) \/ StepFails(s)
        PROVE  pc' # "rollback"
    BY <2>1 DEF StepSucceeds, StepRetries, StepFails, Settled
  <2> QED BY <2>1
      DEF Next, StartRound, Replan, PlannerFails, RollBack, RolledBack, Crash, Resume, vars
<1>2. undoing' = UndoOrder(executed) /\ pc = "rounds"
  BY <1>1 DEF Finish
<1>3. Range(executed) = effects
  BY <1>2 DEF PlanInv, OrderInv
<1>4. Range(UndoOrder(executed)) = Range(executed) \intersect Reversible
  BY UndoIsReverse DEF PlanInv, OrderInv
<1> QED BY <1>2, <1>3, <1>4

\* rollbackAll: in every behaviour a run that fails goes over all it did that can be
\* undone, re-plans or not, and undoes no step before the steps that stand on it.
THEOREM RollbackIsAlwaysComplete == Spec => RollbackIsComplete
<1>1. PlanInv /\ [Next]_vars =>
        [\A s \in effects \ effects' : \A t \in effects \intersect Range(undoing') :
           s \notin Deps[t]]_vars
  BY UndoneInOrder
<1>2. PlanInv /\ [Next]_vars =>
        [pc' = "rollback" /\ pc # "rollback" /\ resumes = 0
           => Range(undoing') = effects \intersect Reversible]_vars
  BY AllIsUndone
<1>3. Spec => DependentsUndoneFirst
  BY <1>1, PlanInvariant, PTL DEF Spec, DependentsUndoneFirst
<1>4. Spec => FailedRunIsUndone
  BY <1>2, PlanInvariant, PTL DEF Spec, FailedRunIsUndone
<1> QED BY <1>3, <1>4 DEF RollbackIsComplete

-----------------------------------------------------------------------------
(* The loop of the coding agent.                                           *)

LEMMA LoopAssumed ==
  /\ LoopRuns \subseteq Nat \ {0} /\ LoopRecent \in Nat \ {0}
  /\ LoopMaxMessages \in Nat /\ LoopRecent + 2 <= LoopMaxMessages
  /\ None \notin LoopRuns /\ None \notin [goal : LoopRuns, events : SUBSET LoopRuns]
BY BundleAssumption DEF Loop!LoopAssumption

\* A message is of a run, the system prompt, or what is left of older ones.
Message == LoopRuns \union {Loop!System, Loop!Summary}

Headed(ms) == ms # <<>> /\ ms[1] = Loop!System
EndsWith(ms, r) == ms # <<>> /\ ms[Len(ms)] = r

At(r) == loopRun[r].at
On(r) == r \in LoopRuns /\ At(r) \in {"turn", "chatting", "tool"}
Over(r) == r \in LoopRuns /\ At(r) \in {"answered", "loop_abort", "turn_budget", "error"}
Alone(r) == r \notin loopOverlapped
Undisturbed(r) == r \notin loopOverlapped \union loopReplaced

RunState ==
  [at : {"new", "turn", "chatting", "tool", "answered", "loop_abort", "turn_budget", "error", "killed"},
   turn : Nat, calls : Int]
Episode == [goal : LoopRuns, events : SUBSET LoopRuns]
OwnEpisode(r) == [goal : {r}, events : SUBSET {r}]

\* Two runs at work overlap; one that has not begun does not yet.
TurnsInv ==
  /\ loopRun \in [LoopRuns -> RunState]
  /\ \A q, r \in LoopRuns : On(q) /\ On(r) /\ Alone(q) => q = r
  /\ \A r \in LoopRuns : At(r) = "new" => Undisturbed(r)

\* What is said goes behind the system prompt, and what is asked is bounded, for a run
\* whose conversation is its own.
TalkInv ==
  /\ loopMessages \in Seq(Message)
  /\ \A r \in LoopRuns : On(r) /\ r \notin loopReplaced => Headed(loopMessages)
  /\ \A r \in LoopRuns : On(r) /\ Undisturbed(r) => EndsWith(loopMessages, r)
  /\ \A r \in LoopRuns : At(r) = "chatting" /\ Undisturbed(r) => Len(loopMessages) <= LoopMaxMessages

\* The episode being recorded is that of the run at work, when it works alone; those
\* kept were taken by runs that have ended, each once.
EpisodesInv ==
  /\ loopCurrent = None \/ loopCurrent \in Episode
  /\ \A r \in LoopRuns : On(r) /\ Alone(r) => loopCurrent \in OwnEpisode(r)
  /\ loopCurrent # None => At(loopCurrent.goal) # "new"
  /\ loopEpisodes \in Seq([of : LoopRuns, goal : LoopRuns, events : SUBSET LoopRuns])
  /\ \A i \in 1 .. Len(loopEpisodes) :
       /\ Alone(loopEpisodes[i].of) =>
            /\ loopEpisodes[i].goal = loopEpisodes[i].of
            /\ loopEpisodes[i].events \subseteq {loopEpisodes[i].of}
       /\ Over(loopEpisodes[i].of) /\ At(loopEpisodes[i].goal) # "new"
       /\ loopCurrent # None => loopCurrent.goal # loopEpisodes[i].goal
  /\ \A i, j \in 1 .. Len(loopEpisodes) :
       loopEpisodes[i].of = loopEpisodes[j].of \/ loopEpisodes[i].goal = loopEpisodes[j].goal => i = j
  /\ \A r \in LoopRuns : Over(r) /\ Alone(r) => \E i \in 1 .. Len(loopEpisodes) : loopEpisodes[i].of = r

\* What is saved is the transcript of the run that ended last.
SavedInv ==
  loopSession # None =>
    /\ loopSession \in Seq(Message) /\ Over(loopLastEnd)
    /\ \/ ~Undisturbed(loopLastEnd) /\ At(loopLastEnd) = "error"
       \/ EndsWith(loopSession, loopLastEnd)

LoopInv == TurnsInv /\ TalkInv /\ EpisodesInv /\ SavedInv

-----------------------------------------------------------------------------
\* A message behind others.
LEMMA Said ==
  ASSUME NEW ms \in Seq(Message), NEW m \in Message
  PROVE  /\ Append(ms, m) \in Seq(Message) /\ EndsWith(Append(ms, m), m)
         /\ Headed(ms) => Headed(Append(ms, m))
<1>1. PICK s : s = Append(ms, m)
  OBVIOUS
<1>2. /\ s \in Seq(Message) /\ Len(s) = Len(ms) + 1 /\ s[Len(s)] = m /\ s # <<>>
      /\ ms # <<>> => s[1] = ms[1]
  BY <1>1
<1> QED BY <1>1, <1>2 DEF Headed, EndsWith

\* Two transcripts, the second of one run's messages.
LEMMA SaidAll ==
  ASSUME NEW ms \in Seq(Message), NEW t \in Seq(Message), NEW r, EndsWith(t, r)
  PROVE  ms \o t \in Seq(Message) /\ EndsWith(ms \o t, r) /\ (Headed(ms) => Headed(ms \o t))
<1>1. PICK s : s = ms \o t
  OBVIOUS
<1>2. Len(ms) \in Nat /\ Len(t) \in Nat /\ Len(t) > 0
  BY DEF EndsWith
<1>3. /\ s \in Seq(Message) /\ Len(s) = Len(ms) + Len(t) /\ s # <<>>
      /\ s[Len(s)] = t[Len(t)]
      /\ ms # <<>> => s[1] = ms[1]
  BY <1>1, <1>2
<1> QED BY <1>1, <1>2, <1>3 DEF Headed, EndsWith

LEMMA Prompted ==
  ASSUME NEW ms \in Seq(Message)
  PROVE  Loop!WithSystemPrompt(ms) \in Seq(Message) /\ Headed(Loop!WithSystemPrompt(ms))
<1>1. CASE Headed(ms)
  BY <1>1 DEF Headed, Loop!WithSystemPrompt
<1>2. CASE ~Headed(ms)
  <2>1. PICK h : h = <<Loop!System>>
    OBVIOUS
  <2>2. h \in Seq(Message) /\ Len(h) = 1 /\ h[1] = Loop!System
    BY <2>1 DEF Message
  <2>3. Loop!WithSystemPrompt(ms) = h \o ms
    BY <1>2, <2>1 DEF Headed, Loop!WithSystemPrompt
  <2>4. h \o ms \in Seq(Message) /\ h \o ms # <<>> /\ (h \o ms)[1] = h[1]
    <3>1. PICK k \in Nat : k = Len(ms)
      OBVIOUS
    <3>2. h \o ms \in Seq(Message)
      BY <2>2
    <3>3. Len(h \o ms) = Len(h) + Len(ms)
      BY <2>2, OneAfterOther
    <3>4. Len(h \o ms) > 0
      BY <2>2, <3>1, <3>3
    <3>5. (h \o ms)[1] = h[1]
      BY <2>2, OneAfterOther
    <3> QED BY <3>2, <3>4, <3>5
  <2> QED BY <2>2, <2>3, <2>4 DEF Headed
<1> QED BY <1>1, <1>2

\* Pruning keeps the system prompt and the last messages, within the bound.
LEMMA PruningKeeps ==
  ASSUME NEW ms \in Seq(Message)
  PROVE  /\ Loop!Pruned(ms) \in Seq(Message) /\ Len(Loop!Pruned(ms)) <= LoopMaxMessages
         /\ Headed(ms) => Headed(Loop!Pruned(ms))
         /\ \A r : EndsWith(ms, r) => EndsWith(Loop!Pruned(ms), r)
<1>1. Len(ms) \in Nat
  OBVIOUS
<1>2. CASE Len(ms) <= LoopMaxMessages
  BY <1>2 DEF Loop!Pruned
<1>3. CASE ~(Len(ms) <= LoopMaxMessages)
  <2>1. PICK h, t : /\ h = <<ms[1], Loop!Summary>>
                    /\ t = SubSeq(ms, Len(ms) - LoopRecent + 1, Len(ms))
    OBVIOUS
  <2>2. /\ Len(ms) > LoopMaxMessages /\ LoopRecent + 2 <= LoopMaxMessages
        /\ LoopRecent >= 1 /\ LoopRecent \in Nat /\ LoopMaxMessages \in Nat
    BY <1>1, <1>3, LoopAssumed
  <2>3. ms[1] \in Message /\ Loop!Summary \in Message
    <3>1. 1 \in 1 .. Len(ms)
      BY <1>1, <2>2
    <3> QED BY <1>1, <3>1 DEF Message
  <2>4. h \in Seq(Message) /\ Len(h) = 2 /\ h # <<>> /\ h[1] = ms[1]
    BY <2>1, <2>3
  <2>5. /\ t \in Seq(Message) /\ Len(t) = LoopRecent /\ t[Len(t)] = ms[Len(ms)] /\ t # <<>>
    <3>1. PICK k : k = Len(ms) - LoopRecent
      OBVIOUS
    <3>2. k \in Nat /\ k + LoopRecent = Len(ms) /\ k + 1 = Len(ms) - LoopRecent + 1
      BY <1>1, <2>2, <3>1
    <3>3. t = SubSeq(ms, k + 1, Len(ms))
      BY <2>1, <3>2
    <3>4. \A i \in k + 1 .. Len(ms) : ms[i] \in Message
      BY <1>1, <3>2
    <3>5. t \in Seq(Message) /\ Len(t) = LoopRecent
      BY <1>1, <2>2, <3>2, <3>3, <3>4
    <3>6. t[LoopRecent] = ms[k + LoopRecent]
      BY <1>1, <2>2, <3>2, <3>3
    <3> QED BY <2>2, <3>2, <3>5, <3>6
  <2>6. PICK last : last = ms[Len(ms)]
    OBVIOUS
  <2>7. EndsWith(t, last)
    BY <2>5, <2>6 DEF EndsWith
  <2>8. h \o t \in Seq(Message) /\ EndsWith(h \o t, last) /\ (Headed(h) => Headed(h \o t))
    BY <2>4, <2>5, <2>7, SaidAll
  <2>9. Len(h \o t) = 2 + LoopRecent
    <3>1. Len(h \o t) = Len(h) + Len(t)
      BY <2>4, <2>5, OneAfterOther
    <3> QED BY <2>4, <2>5, <3>1
  <2>10. Loop!Pruned(ms) = h \o t
    BY <1>3, <2>1 DEF Loop!Pruned
  <2>11. \A r : EndsWith(ms, r) => r = last
    BY <2>6 DEF EndsWith
  <2>12. Headed(ms) => Headed(h)
    BY <2>4 DEF Headed
  <2> QED BY <2>2, <2>8, <2>9, <2>10, <2>11, <2>12
<1> QED BY <1>2, <1>3

LEMMA LoopStarts == BundleInit => LoopInv
<1> SUFFICES ASSUME Loop!Init PROVE LoopInv
  BY DEF BundleInit
<1>1. /\ loopMessages = <<>> /\ loopSession = None /\ loopEpisodes = <<>> /\ loopCurrent = None
      /\ loopRun = [r \in LoopRuns |-> [at |-> "new", turn |-> 0, calls |-> 0]]
      /\ loopOverlapped = {} /\ loopReplaced = {}
  BY DEF Loop!Init, Loop!NewRun
<1>2. \A r \in LoopRuns : At(r) = "new" /\ ~On(r) /\ ~Over(r)
  BY <1>1 DEF At, On, Over
<1>3. TurnsInv
  BY <1>1, <1>2 DEF TurnsInv, RunState, Undisturbed
<1>4. TalkInv
  BY <1>1, <1>2 DEF TalkInv
<1>5. EpisodesInv
  BY <1>1, <1>2 DEF EpisodesInv
<1>6. SavedInv
  BY <1>1 DEF SavedInv
<1> QED BY <1>3, <1>4, <1>5, <1>6 DEF LoopInv

-----------------------------------------------------------------------------
\* The state of one run changes.
LEMMA OneRunMoves ==
  ASSUME TurnsInv, NEW r \in LoopRuns, NEW new \in RunState,
         loopRun' = [loopRun EXCEPT ![r] = new]
  PROVE  /\ loopRun' \in [LoopRuns -> RunState]
         /\ At(r)' = new.at /\ \A q \in LoopRuns : q # r => At(q)' = At(q)
         /\ \A q \in LoopRuns : q # r => (On(q)' <=> On(q)) /\ (Over(q)' <=> Over(q))
<1>1. loopRun'[r] = new /\ \A q \in LoopRuns : q # r => loopRun'[q] = loopRun[q]
  BY DEF TurnsInv
<1> QED BY <1>1 DEF TurnsInv, At, On, Over

\* What a run at work makes of the episode that is being recorded.
Goes(episode, r) ==
  /\ episode = None \/ episode \in Episode
  /\ episode # None => loopCurrent # None /\ episode.goal = loopCurrent.goal
  /\ Alone(r) => episode \in OwnEpisode(r)

LEMMA EpisodeOf ==
  ASSUME LoopInv, NEW r \in LoopRuns, On(r)
  PROVE  Goes(loopCurrent, r)
BY DEF Goes, LoopInv, EpisodesInv

\* What is known of an episode that was kept.
LEMMA EpisodeKept ==
  ASSUME LoopInv, NEW i \in 1 .. Len(loopEpisodes)
  PROVE  /\ loopEpisodes[i].of \in LoopRuns /\ loopEpisodes[i].goal \in LoopRuns
         /\ Over(loopEpisodes[i].of) /\ At(loopEpisodes[i].goal) # "new"
         /\ Alone(loopEpisodes[i].of) =>
              /\ loopEpisodes[i].goal = loopEpisodes[i].of
              /\ loopEpisodes[i].events \subseteq {loopEpisodes[i].of}
<1>1. loopEpisodes \in Seq([of : LoopRuns, goal : LoopRuns, events : SUBSET LoopRuns])
  BY DEF LoopInv, EpisodesInv
<1>2. loopEpisodes[i] \in [of : LoopRuns, goal : LoopRuns, events : SUBSET LoopRuns]
  <2>1. PICK T : T = [of : LoopRuns, goal : LoopRuns, events : SUBSET LoopRuns]
    OBVIOUS
  <2>2. loopEpisodes \in Seq(T)
    BY <1>1, <2>1
  <2>3. loopEpisodes[i] \in T
    BY <2>2
  <2> QED BY <2>1, <2>3
<1>3. loopEpisodes[i].of \in LoopRuns /\ loopEpisodes[i].goal \in LoopRuns
  BY <1>2
<1>4. /\ Over(loopEpisodes[i].of) /\ At(loopEpisodes[i].goal) # "new"
      /\ Alone(loopEpisodes[i].of) =>
           /\ loopEpisodes[i].goal = loopEpisodes[i].of
           /\ loopEpisodes[i].events \subseteq {loopEpisodes[i].of}
  <2>1. \A k \in 1 .. Len(loopEpisodes) :
          /\ Over(loopEpisodes[k].of) /\ At(loopEpisodes[k].goal) # "new"
          /\ Alone(loopEpisodes[k].of) =>
               /\ loopEpisodes[k].goal = loopEpisodes[k].of
               /\ loopEpisodes[k].events \subseteq {loopEpisodes[k].of}
    BY Zenon DEF LoopInv, EpisodesInv
  <2> QED BY <2>1
<1> QED BY <1>3, <1>4

\* Episodes are kept for the runs that have ended, whoever goes on.
LEMMA EpisodesStay ==
  ASSUME LoopInv, UNCHANGED loopEpisodes,
         \A q \in LoopRuns : (Over(q)' <=> Over(q)) /\ (At(q)' = "new" => At(q) = "new"),
         \A q \in LoopRuns : Over(q) => (Alone(q)' <=> Alone(q)),
         loopCurrent' = None \/ loopCurrent' \in Episode,
         \A q \in LoopRuns : On(q)' /\ Alone(q)' => loopCurrent' \in OwnEpisode(q),
         loopCurrent' # None =>
           /\ At(loopCurrent.goal)' # "new"
           /\ \A i \in 1 .. Len(loopEpisodes) : loopCurrent'.goal # loopEpisodes[i].goal
  PROVE  EpisodesInv'
<1>1. ASSUME NEW i \in 1 .. Len(loopEpisodes)
      PROVE  /\ loopEpisodes[i].of \in LoopRuns /\ loopEpisodes[i].goal \in LoopRuns
             /\ Over(loopEpisodes[i].of) /\ At(loopEpisodes[i].goal) # "new"
             /\ Alone(loopEpisodes[i].of) =>
                  /\ loopEpisodes[i].goal = loopEpisodes[i].of
                  /\ loopEpisodes[i].events \subseteq {loopEpisodes[i].of}
  BY EpisodeKept
<1>2. ASSUME NEW i \in 1 .. Len(loopEpisodes), NEW o, o = loopEpisodes[i].of,
             NEW g, g = loopEpisodes[i].goal
      PROVE  Over(o)' /\ At(g)' # "new" /\ (Alone(o)' => Alone(o))
  BY <1>1, <1>2
<1>3. ASSUME NEW i \in 1 .. Len(loopEpisodes')
      PROVE  /\ (Alone(loopEpisodes[i].of) =>
                  /\ loopEpisodes[i].goal = loopEpisodes[i].of
                  /\ loopEpisodes[i].events \subseteq {loopEpisodes[i].of})'
             /\ (Over(loopEpisodes[i].of) /\ At(loopEpisodes[i].goal) # "new")'
  BY <1>1, <1>2
<1>4. \A q \in LoopRuns : (Over(q) /\ Alone(q))' => Over(q) /\ Alone(q)
  OBVIOUS
<1> QED BY <1>3, <1>4 DEF LoopInv, EpisodesInv

\* What is saved stays, while the run that ended last is as it was.
LEMMA SavedStays ==
  ASSUME LoopInv, UNCHANGED loopLastEnd, loopSession' = loopSession \/ loopSession' = None,
         \A q \in LoopRuns : Over(q) => /\ At(q)' = At(q)
                                        /\ ~Undisturbed(q) => ~Undisturbed(q)'
  PROVE  SavedInv'
<1>1. ASSUME loopSession # None
      PROVE  /\ loopSession \in Seq(Message) /\ Over(loopLastEnd) /\ loopLastEnd \in LoopRuns
             /\ \/ ~Undisturbed(loopLastEnd) /\ At(loopLastEnd) = "error"
                \/ EndsWith(loopSession, loopLastEnd)
  BY <1>1 DEF LoopInv, SavedInv, Over
<1>2. ASSUME loopSession # None, NEW e, e = loopLastEnd
      PROVE  Over(e)' /\ (~Undisturbed(e) /\ At(e) = "error" => (~Undisturbed(e) /\ At(e) = "error")')
  BY <1>1, <1>2 DEF Over
<1>3. ASSUME loopSession # None
      PROVE  /\ Over(loopLastEnd)'
             /\ \/ (~Undisturbed(loopLastEnd) /\ At(loopLastEnd) = "error")'
                \/ EndsWith(loopSession, loopLastEnd)
  <2>1. PICK e : e = loopLastEnd
    OBVIOUS
  <2>2. Over(e)' /\ (~Undisturbed(e) /\ At(e) = "error" => (~Undisturbed(e) /\ At(e) = "error")')
    BY <1>2, <1>3, <2>1
  <2> QED BY <1>1, <1>3, <2>1, <2>2
<1> QED BY <1>1, <1>3 DEF SavedInv, EndsWith

\* A run at work stays at work.
LEMMA GoesOn ==
  ASSUME LoopInv, NEW r \in LoopRuns, On(r), NEW new \in RunState,
         new.at \in {"turn", "chatting", "tool"},
         loopRun' = [loopRun EXCEPT ![r] = new],
         loopMessages' \in Seq(Message), Headed(loopMessages) => Headed(loopMessages'),
         Undisturbed(r) => EndsWith(loopMessages', r),
         new.at = "chatting" => Len(loopMessages') <= LoopMaxMessages,
         NEW episode, Goes(episode, r), loopCurrent' = episode,
         UNCHANGED <<loopEpisodes, loopSession, loopOverlapped, loopReplaced, loopLastEnd>>
  PROVE  LoopInv'
<1>1. /\ loopRun' \in [LoopRuns -> RunState]
      /\ At(r)' = new.at /\ \A q \in LoopRuns : q # r => At(q)' = At(q)
      /\ \A q \in LoopRuns : q # r => (On(q)' <=> On(q)) /\ (Over(q)' <=> Over(q))
  BY OneRunMoves DEF LoopInv
<1>2. On(r)' /\ ~Over(r)' /\ ~Over(r) /\ At(r)' # "new"
  BY <1>1 DEF On, Over
<1>3. \A q \in LoopRuns : (On(q)' <=> On(q)) /\ (Over(q)' <=> Over(q))
                          /\ (At(q)' = "new" => At(q) = "new")
                          /\ (Alone(q)' <=> Alone(q)) /\ (Undisturbed(q)' <=> Undisturbed(q))
  BY <1>1, <1>2 DEF Alone, Undisturbed
<1>4. \A q \in LoopRuns : On(q) /\ Alone(q) => q = r
  BY DEF LoopInv, TurnsInv
<1>5. TurnsInv'
  BY <1>1, <1>3 DEF LoopInv, TurnsInv
<1>6. TalkInv'
  <2>1. \A q \in LoopRuns : On(q)' /\ q \notin loopReplaced' => Headed(loopMessages')
    BY <1>3 DEF LoopInv, TalkInv
  <2>2. \A q \in LoopRuns : On(q)' /\ Undisturbed(q)' => EndsWith(loopMessages', q)
    BY <1>3, <1>4 DEF Undisturbed, Alone
  <2>3. \A q \in LoopRuns :
          At(q)' = "chatting" /\ Undisturbed(q)' => Len(loopMessages') <= LoopMaxMessages
    BY <1>1, <1>3, <1>4 DEF Undisturbed, Alone, On
  <2> QED BY <2>1, <2>2, <2>3 DEF TalkInv, Headed, EndsWith
<1>7. EpisodesInv'
  <2>1. \A q \in LoopRuns : On(q)' /\ Alone(q)' => loopCurrent' \in OwnEpisode(q)
    BY <1>3, <1>4 DEF Goes
  <2>2. ASSUME episode # None
        PROVE  /\ episode.goal \in LoopRuns /\ At(episode.goal) # "new"
               /\ \A i \in 1 .. Len(loopEpisodes) : episode.goal # loopEpisodes[i].goal
    BY <2>2 DEF Goes, Episode, LoopInv, EpisodesInv
  <2>3. ASSUME episode # None, NEW g, g = episode.goal PROVE At(g)' # "new"
    BY <1>3, <2>2, <2>3
  <2>4. loopCurrent' # None =>
          /\ At(loopCurrent.goal)' # "new"
          /\ \A i \in 1 .. Len(loopEpisodes) : loopCurrent'.goal # loopEpisodes[i].goal
    BY <2>2, <2>3
  <2>5. loopCurrent' = None \/ loopCurrent' \in Episode
    BY DEF Goes
  <2> QED BY <1>3, <2>1, <2>4, <2>5, EpisodesStay
<1>8. SavedInv'
  BY <1>1, <1>2, <1>3, SavedStays
<1> QED BY <1>5, <1>6, <1>7, <1>8 DEF LoopInv

\* A run ends: the episode of the moment is kept, and the transcript saved.
LEMMA Finishes ==
  ASSUME LoopInv, NEW r \in LoopRuns, On(r),
         NEW terminal \in {"answered", "loop_abort", "turn_budget", "error"},
         NEW ms \in Seq(Message), Headed(loopMessages) => Headed(ms),
         EndsWith(ms, r) \/ (terminal = "error" /\ ~Undisturbed(r)),
         NEW episode, Goes(episode, r),
         Loop!Finish(r, terminal, ms, episode)
  PROVE  LoopInv'
<1>1. /\ loopRun' = [loopRun EXCEPT ![r] = [loopRun[r] EXCEPT !.at = terminal]]
      /\ loopMessages' = ms /\ loopSession' = ms /\ loopCurrent' = None
      /\ loopEpisodes' = Loop!Kept(r, terminal, episode)
      /\ loopLastEnd' = r /\ UNCHANGED <<loopOverlapped, loopReplaced>>
  BY DEF Loop!Finish, Loop!Saved
<1>2. PICK new : new = [loopRun[r] EXCEPT !.at = terminal]
  OBVIOUS
<1>3. new \in RunState /\ new.at = terminal
  <2>1. loopRun[r] \in RunState
    BY DEF LoopInv, TurnsInv
  <2> QED BY <1>2, <2>1 DEF RunState
<1>4. /\ loopRun' \in [LoopRuns -> RunState]
      /\ At(r)' = terminal /\ \A q \in LoopRuns : q # r => At(q)' = At(q)
      /\ \A q \in LoopRuns : q # r => (On(q)' <=> On(q)) /\ (Over(q)' <=> Over(q))
  BY <1>1, <1>2, <1>3, OneRunMoves DEF LoopInv
<1>5. ~On(r)' /\ Over(r)' /\ ~Over(r)
  BY <1>4 DEF On, Over
<1>6. \A q \in LoopRuns : /\ On(q)' <=> On(q) /\ q # r
                          /\ Over(q)' <=> Over(q) \/ q = r
                          /\ At(q)' = "new" => At(q) = "new"
                          /\ Alone(q)' <=> Alone(q)
                          /\ Undisturbed(q)' <=> Undisturbed(q)
  BY <1>1, <1>4, <1>5 DEF Alone, Undisturbed
<1>7. \A q \in LoopRuns : ~(On(q)' /\ Alone(q)')
  BY <1>6 DEF LoopInv, TurnsInv
<1>8. TurnsInv'
  BY <1>4, <1>6 DEF LoopInv, TurnsInv
<1>9. TalkInv'
  <2>1. \A q \in LoopRuns : On(q)' /\ q \notin loopReplaced' => Headed(loopMessages')
    BY <1>1, <1>6 DEF LoopInv, TalkInv
  <2>2. \A q \in LoopRuns : ~(On(q)' /\ Undisturbed(q)') /\ (At(q)' = "chatting" => On(q)')
    BY <1>7 DEF Undisturbed, Alone, On
  <2> QED BY <1>1, <2>1, <2>2 DEF TalkInv, Headed
<1>10. EpisodesInv'
  <2>1. CASE episode = None
    <3>1. UNCHANGED loopEpisodes /\ ~Alone(r)
      <4>1. None \notin OwnEpisode(r)
        <5>1. OwnEpisode(r) \subseteq [goal : LoopRuns, events : SUBSET LoopRuns]
          BY DEF OwnEpisode
        <5> QED BY <5>1, LoopAssumed
      <4> QED BY <1>1, <2>1, <4>1 DEF Loop!Kept, Goes
    <3>2. ASSUME NEW i \in 1 .. Len(loopEpisodes)
          PROVE  /\ loopEpisodes[i].of \in LoopRuns /\ loopEpisodes[i].goal \in LoopRuns
                 /\ Over(loopEpisodes[i].of) /\ At(loopEpisodes[i].goal) # "new"
                 /\ Alone(loopEpisodes[i].of) =>
                      /\ loopEpisodes[i].goal = loopEpisodes[i].of
                      /\ loopEpisodes[i].events \subseteq {loopEpisodes[i].of}
      BY EpisodeKept
    <3>3. ASSUME NEW i \in 1 .. Len(loopEpisodes), NEW o, o = loopEpisodes[i].of,
                 NEW g, g = loopEpisodes[i].goal
          PROVE  Over(o)' /\ At(g)' # "new" /\ (Alone(o)' => Alone(o))
      BY <1>6, <3>2, <3>3
    <3>4. ASSUME NEW i \in 1 .. Len(loopEpisodes')
          PROVE  /\ (Alone(loopEpisodes[i].of) =>
                      /\ loopEpisodes[i].goal = loopEpisodes[i].of
                      /\ loopEpisodes[i].events \subseteq {loopEpisodes[i].of})'
                 /\ (Over(loopEpisodes[i].of) /\ At(loopEpisodes[i].goal) # "new")'
      BY <3>1, <3>2, <3>3
    <3>5. \A q \in LoopRuns : (Over(q) /\ Alone(q))' => Over(q) /\ Alone(q)
      BY <1>6, <3>1
    <3> QED BY <1>1, <1>7, <3>1, <3>4, <3>5 DEF LoopInv, EpisodesInv
  <2>2. CASE episode # None
    <3>1. PICK e : e = [of |-> r, goal |-> episode.goal, events |-> episode.events]
      OBVIOUS
    <3>2. /\ e \in [of : LoopRuns, goal : LoopRuns, events : SUBSET LoopRuns]
          /\ e.of = r /\ e.goal = episode.goal /\ e.events = episode.events
          /\ Alone(r) => e.goal = r /\ e.events \subseteq {r}
      BY <2>2, <3>1 DEF Goes, Episode, OwnEpisode
    <3>3. /\ At(e.goal) # "new" /\ e.goal \in LoopRuns
          /\ \A i \in 1 .. Len(loopEpisodes) : e.goal # loopEpisodes[i].goal
      BY <2>2, <3>2 DEF Goes, LoopInv, EpisodesInv
    <3>4. PICK n \in Nat : n = Len(loopEpisodes)
      BY DEF LoopInv, EpisodesInv
    <3>5. loopEpisodes \in Seq([of : LoopRuns, goal : LoopRuns, events : SUBSET LoopRuns])
      BY DEF LoopInv, EpisodesInv
    <3>6. loopEpisodes' = Append(loopEpisodes, e)
      BY <1>1, <2>2, <3>1 DEF Loop!Kept
    <3>7. /\ loopEpisodes' \in Seq([of : LoopRuns, goal : LoopRuns, events : SUBSET LoopRuns])
          /\ Len(loopEpisodes') = n + 1 /\ loopEpisodes'[n + 1] = e
          /\ \A i \in 1 .. n : loopEpisodes'[i] = loopEpisodes[i]
      BY <3>2, <3>4, <3>5, <3>6
    <3>8. /\ \A i : i \in 1 .. n + 1 <=> i \in 1 .. n \/ i = n + 1
          /\ n + 1 \notin 1 .. n
      BY <3>4
    <3>9. \A i \in 1 .. n : /\ loopEpisodes[i].of \in LoopRuns /\ loopEpisodes[i].goal \in LoopRuns
                            /\ Over(loopEpisodes[i].of) /\ At(loopEpisodes[i].goal) # "new"
                            /\ Alone(loopEpisodes[i].of) =>
                                 /\ loopEpisodes[i].goal = loopEpisodes[i].of
                                 /\ loopEpisodes[i].events \subseteq {loopEpisodes[i].of}
                            /\ loopEpisodes[i].of # r
      BY <1>5, <3>4, EpisodeKept
    <3>10. ASSUME NEW i \in 1 .. n + 1, NEW o, o = loopEpisodes'[i].of,
                  NEW g, g = loopEpisodes'[i].goal
           PROVE  /\ Alone(o)' => g = o /\ loopEpisodes'[i].events \subseteq {o}
                  /\ Over(o)' /\ At(g)' # "new"
      <4>1. CASE i \in 1 .. n
        BY <1>6, <3>7, <3>9, <3>10, <4>1
      <4>2. CASE i = n + 1
        BY <1>6, <3>2, <3>3, <3>7, <3>10, <4>2
      <4> QED BY <3>8, <4>1, <4>2
    <3>11. \A i \in 1 .. Len(loopEpisodes') :
             (/\ Alone(loopEpisodes[i].of) =>
                  /\ loopEpisodes[i].goal = loopEpisodes[i].of
                  /\ loopEpisodes[i].events \subseteq {loopEpisodes[i].of}
              /\ Over(loopEpisodes[i].of) /\ At(loopEpisodes[i].goal) # "new")'
      BY <3>7, <3>10
    <3>12. \A i, j \in 1 .. n + 1 :
             loopEpisodes'[i].of = loopEpisodes'[j].of \/ loopEpisodes'[i].goal = loopEpisodes'[j].goal
               => i = j
      <4>1. \A i, j \in 1 .. n :
              loopEpisodes[i].of = loopEpisodes[j].of \/ loopEpisodes[i].goal = loopEpisodes[j].goal
                => i = j
        BY <3>4 DEF LoopInv, EpisodesInv
      <4>2. \A i \in 1 .. n : loopEpisodes[i].of # e.of /\ loopEpisodes[i].goal # e.goal
        BY <3>2, <3>3, <3>4, <3>9
      <4> QED BY <3>7, <3>8, <4>1, <4>2
    <3>13. ASSUME NEW q \in LoopRuns, Over(q)', Alone(q)'
           PROVE  \E i \in 1 .. n + 1 : loopEpisodes'[i].of = q
      <4>1. CASE q = r
        BY <3>2, <3>7, <3>8, <4>1
      <4>2. CASE q # r
        <5>1. PICK i \in 1 .. n : loopEpisodes[i].of = q
          BY <1>6, <3>4, <3>13, <4>2 DEF LoopInv, EpisodesInv
        <5> QED BY <3>7, <3>8, <5>1
      <4> QED BY <4>1, <4>2
    <3> QED BY <1>1, <1>7, <3>7, <3>11, <3>12, <3>13 DEF EpisodesInv
  <2> QED BY <2>1, <2>2
<1>11. SavedInv'
  <2>1. Over(r)' /\ ((~Undisturbed(r) /\ At(r) = "error")' \/ EndsWith(ms, r))
    BY <1>4, <1>5, <1>6
  <2> QED BY <1>1, <2>1 DEF SavedInv, EndsWith
<1> QED BY <1>8, <1>9, <1>10, <1>11 DEF LoopInv

LEMMA StartOfRun ==
  ASSUME LoopInv, NEW r \in LoopRuns, NEW skills \in 0 .. 1, Loop!Start(r, skills)
  PROVE  LoopInv'
<1>1. /\ At(r) = "new"
      /\ loopMessages' = Loop!WithSystemPrompt(loopMessages) \o [i \in 1 .. skills |-> r] \o <<r>>
      /\ loopCurrent' = [goal |-> r, events |-> {}]
      /\ loopRun' = [loopRun EXCEPT ![r] = [loopRun[r] EXCEPT !.at = "turn"]]
      /\ loopOverlapped' = IF Loop!Active = {} THEN loopOverlapped
                           ELSE loopOverlapped \union Loop!Active \union {r}
      /\ UNCHANGED <<loopEpisodes, loopSession, loopReplaced, loopLastEnd>>
  BY DEF Loop!Start, At
<1>2. \A q \in LoopRuns : q \in Loop!Active <=> On(q)
  BY DEF Loop!Active, On, At
<1>3. PICK new : new = [loopRun[r] EXCEPT !.at = "turn"]
  OBVIOUS
<1>4. new \in RunState /\ new.at = "turn"
  <2>1. loopRun[r] \in RunState
    BY DEF LoopInv, TurnsInv
  <2> QED BY <1>3, <2>1 DEF RunState
<1>5. /\ loopRun' \in [LoopRuns -> RunState]
      /\ At(r)' = "turn" /\ \A q \in LoopRuns : q # r => At(q)' = At(q)
      /\ \A q \in LoopRuns : q # r => (On(q)' <=> On(q)) /\ (Over(q)' <=> Over(q))
  BY <1>1, <1>3, <1>4, OneRunMoves DEF LoopInv
<1>6. On(r)' /\ ~Over(r)' /\ ~Over(r) /\ ~On(r)
  BY <1>1, <1>5 DEF On, Over
<1>7. \A q \in LoopRuns : /\ On(q)' <=> On(q) \/ q = r
                          /\ Over(q)' <=> Over(q)
                          /\ At(q)' = "new" => At(q) = "new" /\ q # r
                          /\ Alone(q)' => Alone(q)
                          /\ ~Undisturbed(q) => ~Undisturbed(q)'
  BY <1>1, <1>5, <1>6 DEF Alone, Undisturbed
<1>8. \A q \in LoopRuns : ~On(q) /\ q # r => (Alone(q)' <=> Alone(q)) /\ (Undisturbed(q)' <=> Undisturbed(q))
  BY <1>1, <1>2 DEF Alone, Undisturbed
<1>9. \A q \in LoopRuns : On(q)' /\ Alone(q)' => q = r
  BY <1>1, <1>2, <1>7 DEF Alone
<1>20. ASSUME Alone(r)' PROVE \A q \in LoopRuns : ~On(q)
  BY <1>1, <1>2, <1>20 DEF Alone
<1>10. TurnsInv'
  <2>1. \A p, q \in LoopRuns : (On(p) /\ On(q) /\ Alone(p))' => p = q
    BY <1>7, <1>9, <1>20
  <2>2. \A q \in LoopRuns : At(q)' = "new" => Undisturbed(q)'
    <3>1. \A q \in LoopRuns : At(q)' = "new" => Undisturbed(q) /\ ~On(q) /\ q # r
      BY <1>7 DEF LoopInv, TurnsInv, On
    <3> QED BY <1>8, <3>1
  <2> QED BY <1>5, <2>1, <2>2 DEF TurnsInv
<1>11. loopMessages' \in Seq(Message) /\ Headed(loopMessages') /\ EndsWith(loopMessages', r)
  <2>1. PICK ms, s : ms = Loop!WithSystemPrompt(loopMessages) /\ s = [i \in 1 .. skills |-> r]
    OBVIOUS
  <2>2. ms \in Seq(Message) /\ Headed(ms)
    BY <2>1, Prompted DEF LoopInv, TalkInv
  <2>3. s \in Seq(Message) /\ Len(s) = skills /\ r \in Message
    BY <2>1 DEF Message
  <2>4. ms \o s \in Seq(Message) /\ Headed(ms \o s)
    <3>1. /\ ms \o s \in Seq(Message) /\ Len(ms \o s) = Len(ms) + skills
          /\ ms # <<>> => (ms \o s)[1] = ms[1]
      BY <2>2, <2>3
    <3>2. ms # <<>> /\ Len(ms) > 0
      BY <2>2 DEF Headed
    <3>3. ms \o s # <<>>
      BY <2>3, <3>1, <3>2
    <3> QED BY <2>2, <3>1, <3>2, <3>3 DEF Headed
  <2>5. PICK one : one = <<r>>
    OBVIOUS
  <2>6. one \in Seq(Message) /\ EndsWith(one, r)
    BY <2>3, <2>5 DEF EndsWith
  <2>7. (ms \o s) \o one \in Seq(Message) /\ EndsWith((ms \o s) \o one, r) /\ Headed((ms \o s) \o one)
    BY <2>4, <2>6, SaidAll
  <2> QED BY <1>1, <2>1, <2>5, <2>7
<1>12. TalkInv'
  <2>1. \A q \in LoopRuns : On(q)' /\ Undisturbed(q)' => q = r
    BY <1>9 DEF Undisturbed, Alone
  <2>2. \A q \in LoopRuns : At(q)' = "chatting" => On(q)' /\ q # r
    BY <1>5 DEF On
  <2> QED BY <1>11, <2>1, <2>2 DEF TalkInv, Headed, EndsWith
<1>13. EpisodesInv'
  <2>1. \A q \in LoopRuns : Over(q) => (Alone(q)' <=> Alone(q))
    BY <1>6, <1>8 DEF On, Over
  <2>2. loopCurrent' \in Episode /\ loopCurrent' \in OwnEpisode(r) /\ loopCurrent'.goal = r
    BY <1>1 DEF Episode, OwnEpisode
  <2>3. \A q \in LoopRuns : On(q)' /\ Alone(q)' => loopCurrent' \in OwnEpisode(q)
    BY <1>9, <2>2
  <2>4. \A g : g = loopCurrent'.goal => At(g)' # "new"
    BY <1>5, <2>2
  <2>5. \A i \in 1 .. Len(loopEpisodes) : loopCurrent'.goal # loopEpisodes[i].goal
    BY <1>1, <2>2 DEF LoopInv, EpisodesInv
  <2>6. loopCurrent' # None =>
          /\ At(loopCurrent.goal)' # "new"
          /\ \A i \in 1 .. Len(loopEpisodes) : loopCurrent'.goal # loopEpisodes[i].goal
    BY <2>4, <2>5
  <2> QED BY <1>1, <1>7, <2>1, <2>2, <2>3, <2>6, EpisodesStay
<1>14. SavedInv'
  <2>1. \A q \in LoopRuns : Over(q) => At(q)' = At(q) /\ (~Undisturbed(q) => ~Undisturbed(q)')
    BY <1>5, <1>6, <1>7
  <2> QED BY <1>1, <2>1, SavedStays
<1> QED BY <1>10, <1>12, <1>13, <1>14 DEF LoopInv

-----------------------------------------------------------------------------
LEMMA TurnBegins ==
  ASSUME LoopInv, NEW r \in LoopRuns, Loop!BeginTurn(r)
  PROVE  LoopInv'
<1>1. /\ At(r) = "turn" /\ loopMessages' = Loop!Pruned(loopMessages)
      /\ loopRun' = [loopRun EXCEPT ![r] = [loopRun[r] EXCEPT !.at = "chatting"]]
      /\ UNCHANGED <<loopCurrent, loopEpisodes, loopSession, loopOverlapped, loopReplaced, loopLastEnd>>
  BY DEF Loop!BeginTurn, Loop!history, At
<1>2. PICK new : new = [loopRun[r] EXCEPT !.at = "chatting"]
  OBVIOUS
<1>3. new \in RunState /\ new.at = "chatting"
  <2>1. loopRun[r] \in RunState
    BY DEF LoopInv, TurnsInv
  <2> QED BY <1>2, <2>1 DEF RunState
<1>4. On(r)
  BY <1>1 DEF On
<1>5. /\ loopMessages' \in Seq(Message) /\ (Headed(loopMessages) => Headed(loopMessages'))
      /\ Undisturbed(r) => EndsWith(loopMessages', r)
      /\ Len(loopMessages') <= LoopMaxMessages
  BY <1>1, <1>4, PruningKeeps DEF LoopInv, TalkInv
<1>6. PICK episode : episode = loopCurrent
  OBVIOUS
<1>7. Goes(episode, r) /\ loopCurrent' = episode
  BY <1>1, <1>4, <1>6, EpisodeOf
<1> QED BY <1>1, <1>2, <1>3, <1>4, <1>5, <1>7, GoesOn

\* The next call of a reply, or the next turn.
LEMMA NextCall ==
  ASSUME LoopInv, NEW r \in LoopRuns, On(r), NEW calls \in Int,
         At(r) = "tool" \/ calls = 0,
         NEW ms \in Seq(Message), Headed(loopMessages) => Headed(ms), EndsWith(ms, r),
         NEW episode, Goes(episode, r), Loop!GoOn(r, ms, calls, episode)
  PROVE  LoopInv'
<1>1. PICK new : new = IF calls > 0 THEN [loopRun[r] EXCEPT !.calls = calls]
                       ELSE [at |-> "turn", turn |-> loopRun[r].turn + 1, calls |-> 0]
  OBVIOUS
<1>2. /\ loopRun' = [loopRun EXCEPT ![r] = new]
      /\ loopMessages' = ms /\ loopCurrent' = episode
      /\ UNCHANGED <<loopEpisodes, loopSession, loopOverlapped, loopReplaced, loopLastEnd>>
  BY <1>1 DEF Loop!GoOn, Loop!history
<1>3. new \in RunState /\ new.at \in {"turn", "tool"}
  <2>1. loopRun[r] \in RunState
    BY DEF LoopInv, TurnsInv
  <2>2. CASE calls > 0
    <3>1. loopRun[r].at = "tool"
      BY <2>2 DEF At
    <3> QED BY <1>1, <2>1, <2>2, <3>1 DEF RunState
  <2>3. CASE ~(calls > 0)
    BY <1>1, <2>1, <2>3 DEF RunState
  <2> QED BY <2>2, <2>3
<1>4. loopMessages' \in Seq(Message) /\ (Headed(loopMessages) => Headed(loopMessages'))
      /\ EndsWith(loopMessages', r)
  BY <1>2 DEF Headed, EndsWith
<1> QED BY <1>2, <1>3, <1>4, GoesOn

LEMMA ModelReplies ==
  ASSUME LoopInv, NEW r \in LoopRuns, NEW calls \in 0 .. LoopMaxCalls, NEW hasContent \in BOOLEAN,
         Loop!Reply(r, calls, hasContent)
  PROVE  LoopInv'
<1>1. At(r) = "chatting" /\ On(r)
  BY DEF Loop!Reply, At, On
<1>2. PICK said, episode : said = Append(loopMessages, r) /\ episode = loopCurrent
  OBVIOUS
<1>3. /\ said \in Seq(Message) /\ EndsWith(said, r) /\ (Headed(loopMessages) => Headed(said))
      /\ r \in Message /\ Goes(episode, r)
  BY <1>1, <1>2, Said, EpisodeOf DEF LoopInv, TalkInv, Message
<1>4. calls \in Int
  OBVIOUS
<1>5. CASE /\ calls > 0
           /\ loopRun' = [loopRun EXCEPT ![r].at = "tool", ![r].calls = calls]
           /\ loopMessages' = said
           /\ UNCHANGED <<loopEpisodes, loopCurrent, loopSession, loopOverlapped, loopReplaced, loopLastEnd>>
  <2>1. PICK new : new = [loopRun[r] EXCEPT !.at = "tool", !.calls = calls]
    OBVIOUS
  <2>2. new \in RunState /\ new.at = "tool"
    <3>1. loopRun[r] \in RunState
      BY DEF LoopInv, TurnsInv
    <3> QED BY <1>4, <2>1, <3>1 DEF RunState
  <2>3. loopRun' = [loopRun EXCEPT ![r] = new]
    BY <1>5, <2>1 DEF LoopInv, TurnsInv
  <2>4. loopMessages' \in Seq(Message) /\ (Headed(loopMessages) => Headed(loopMessages'))
        /\ EndsWith(loopMessages', r)
    BY <1>3, <1>5 DEF Headed, EndsWith
  <2> QED BY <1>1, <1>2, <1>3, <1>5, <2>2, <2>3, <2>4, GoesOn
<1>6. CASE calls = 0 /\ Loop!GoOn(r, Append(said, r), 0, loopCurrent)
  <2>1. PICK ms : ms = Append(said, r)
    OBVIOUS
  <2>2. ms \in Seq(Message) /\ EndsWith(ms, r) /\ (Headed(loopMessages) => Headed(ms))
    BY <1>3, <2>1, Said
  <2>3. Loop!GoOn(r, ms, 0, episode)
    BY <1>2, <1>6, <2>1
  <2> QED BY <1>1, <1>3, <2>2, <2>3, NextCall
<1>7. CASE Loop!Finish(r, "answered", said, loopCurrent)
  <2>1. Loop!Finish(r, "answered", said, episode)
    BY <1>2, <1>7
  <2> QED BY <1>1, <1>3, <2>1, Finishes
<1>8. \/ /\ calls > 0
         /\ loopRun' = [loopRun EXCEPT ![r].at = "tool", ![r].calls = calls]
         /\ loopMessages' = said
         /\ UNCHANGED <<loopEpisodes, loopCurrent, loopSession, loopOverlapped, loopReplaced, loopLastEnd>>
      \/ calls = 0 /\ Loop!GoOn(r, Append(said, r), 0, loopCurrent)
      \/ Loop!Finish(r, "answered", said, loopCurrent)
  BY <1>2 DEF Loop!Reply, Loop!history
<1> QED BY <1>5, <1>6, <1>7, <1>8

LEMMA RequestFails ==
  ASSUME LoopInv, NEW r \in LoopRuns, Loop!ChatFails(r)
  PROVE  LoopInv'
<1>1. On(r) /\ Loop!Finish(r, "error", loopMessages, loopCurrent)
  BY DEF Loop!ChatFails, At, On
<1>2. PICK ms, episode : ms = loopMessages /\ episode = loopCurrent
  OBVIOUS
<1>3. /\ ms \in Seq(Message) /\ (Headed(loopMessages) => Headed(ms)) /\ Goes(episode, r)
      /\ Loop!Finish(r, "error", ms, episode)
      /\ EndsWith(ms, r) \/ ~Undisturbed(r)
  BY <1>1, <1>2, EpisodeOf DEF LoopInv, TalkInv
<1> QED BY <1>1, <1>3, Finishes

LEMMA ToolAnswers ==
  ASSUME LoopInv, NEW r \in LoopRuns, NEW error, NEW escaped \in BOOLEAN,
         Loop!ToolReturns(r, error, escaped)
  PROVE  LoopInv'
<1>1. At(r) = "tool" /\ On(r)
  BY DEF Loop!ToolReturns, At, On
<1>2. PICK told, left, episode :
        /\ told = Append(loopMessages, r) \o (IF escaped THEN <<r>> ELSE <<>>)
        /\ left = loopRun[r].calls - 1 /\ episode = Loop!Observed(r)
  OBVIOUS
<1>3. \/ Loop!Finish(r, "loop_abort", told, episode)
      \/ Loop!Finish(r, "turn_budget", told, episode)
      \/ Loop!GoOn(r, told, left, episode)
  BY <1>2 DEF Loop!ToolReturns
<1>4. left \in Int
  <2>1. loopRun[r] \in RunState
    BY DEF LoopInv, TurnsInv
  <2> QED BY <1>2, <2>1 DEF RunState
<1>5. Goes(episode, r)
  <2>1. Goes(loopCurrent, r)
    BY <1>1, EpisodeOf
  <2>2. CASE loopCurrent = None
    <3>1. episode = loopCurrent
      BY <1>2, <2>2 DEF Loop!Observed
    <3> QED BY <2>1, <3>1
  <2>3. CASE loopCurrent # None
    <3>1. episode = [loopCurrent EXCEPT !.events = @ \union {r}]
      BY <1>2, <2>3 DEF Loop!Observed
    <3>2. loopCurrent \in Episode
      BY <2>1, <2>3 DEF Goes
    <3>3. episode \in Episode /\ episode.goal = loopCurrent.goal
      BY <3>1, <3>2 DEF Episode
    <3>4. Alone(r) => episode \in OwnEpisode(r)
      BY <2>1, <3>1 DEF Goes, OwnEpisode
    <3> QED BY <2>3, <3>3, <3>4 DEF Goes
  <2> QED BY <2>2, <2>3
<1>6. told \in Seq(Message) /\ EndsWith(told, r) /\ (Headed(loopMessages) => Headed(told))
  <2>1. PICK ms : ms = Append(loopMessages, r)
    OBVIOUS
  <2>2. /\ ms \in Seq(Message) /\ EndsWith(ms, r) /\ (Headed(loopMessages) => Headed(ms))
        /\ r \in Message
    BY <2>1, Said DEF LoopInv, TalkInv, Message
  <2>3. CASE escaped
    <3>1. PICK one : one = <<r>>
      OBVIOUS
    <3>2. one \in Seq(Message) /\ EndsWith(one, r)
      BY <2>2, <3>1 DEF EndsWith
    <3>3. told = ms \o one
      BY <1>2, <2>1, <2>3, <3>1
    <3> QED BY <2>2, <3>2, <3>3, SaidAll
  <2>4. CASE ~escaped
    <3>1. told = ms \o <<>>
      BY <1>2, <2>1, <2>4
    <3>2. told = ms
      BY <2>2, <3>1
    <3> QED BY <2>2, <3>2
  <2> QED BY <2>3, <2>4
<1>7. CASE Loop!Finish(r, "loop_abort", told, episode)
  BY <1>1, <1>5, <1>6, <1>7, Finishes
<1>8. CASE Loop!Finish(r, "turn_budget", told, episode)
  BY <1>1, <1>5, <1>6, <1>8, Finishes
<1>9. CASE Loop!GoOn(r, told, left, episode)
  BY <1>1, <1>4, <1>5, <1>6, <1>9, NextCall
<1> QED BY <1>3, <1>7, <1>8, <1>9

\* The process dies: no run is at work, and none has ended that had not.
LEMMA ProcessDies ==
  ASSUME LoopInv, Loop!Crash
  PROVE  LoopInv'
<1>1. /\ loopRun' = [r \in LoopRuns |-> IF r \in Loop!Active THEN [loopRun[r] EXCEPT !.at = "killed"]
                                        ELSE loopRun[r]]
      /\ loopMessages' = <<>> /\ loopCurrent' = None
      /\ UNCHANGED <<loopEpisodes, loopSession, loopOverlapped, loopReplaced, loopLastEnd>>
  BY DEF Loop!Crash, Loop!history
<1>2. \A r \in LoopRuns : r \in Loop!Active <=> On(r)
  BY DEF Loop!Active, On, At
<1>3. \A r \in LoopRuns : loopRun[r] \in RunState
  BY DEF LoopInv, TurnsInv
<1>4. ASSUME NEW r \in LoopRuns
      PROVE  loopRun'[r] \in RunState /\ loopRun'[r].at = IF On(r) THEN "killed" ELSE At(r)
  BY <1>1, <1>2, <1>3 DEF RunState, At
<1>5. loopRun' \in [LoopRuns -> RunState]
  BY <1>1, <1>4
<1>6. \A r \in LoopRuns : At(r)' = IF On(r) THEN "killed" ELSE At(r)
  BY <1>4 DEF At
<1>7. \A r \in LoopRuns : /\ ~On(r)' /\ (Over(r)' <=> Over(r)) /\ At(r)' # "chatting"
                          /\ At(r)' = "new" => At(r) = "new"
                          /\ Over(r) => At(r)' = At(r)
                          /\ Alone(r)' <=> Alone(r)
                          /\ Undisturbed(r)' <=> Undisturbed(r)
  BY <1>1, <1>6 DEF On, Over, Alone, Undisturbed
<1>8. TurnsInv'
  BY <1>5, <1>7 DEF LoopInv, TurnsInv
<1>9. TalkInv'
  BY <1>1, <1>7 DEF TalkInv
<1>10. EpisodesInv'
  BY <1>1, <1>7, EpisodesStay
<1>11. SavedInv'
  BY <1>1, <1>7, SavedStays
<1> QED BY <1>8, <1>9, <1>10, <1>11 DEF LoopInv

\* The runs at work go on in another conversation.
LEMMA ConversationReplaced ==
  ASSUME LoopInv, NEW ms \in Seq(Message), Loop!Replace(ms),
         loopSession' = loopSession \/ loopSession' = None
  PROVE  LoopInv'
<1>1. /\ loopMessages' = ms /\ loopReplaced' = loopReplaced \union Loop!Active
      /\ UNCHANGED <<loopRun, loopCurrent, loopEpisodes, loopOverlapped, loopLastEnd>>
  BY DEF Loop!Replace
<1>2. \A r \in LoopRuns : r \in Loop!Active <=> On(r)
  BY DEF Loop!Active, On, At
<1>3. \A r \in LoopRuns : /\ (On(r)' <=> On(r)) /\ (Over(r)' <=> Over(r)) /\ At(r)' = At(r)
                          /\ Alone(r)' <=> Alone(r)
                          /\ On(r) => r \in loopReplaced' /\ ~Undisturbed(r)'
                          /\ ~On(r) => (Undisturbed(r)' <=> Undisturbed(r))
                          /\ ~Undisturbed(r) => ~Undisturbed(r)'
  BY <1>1, <1>2 DEF On, Over, At, Alone, Undisturbed
<1>4. TurnsInv'
  <2>1. \A r \in LoopRuns : At(r)' = "new" => Undisturbed(r)'
    <3>1. \A r \in LoopRuns : At(r) = "new" => Undisturbed(r) /\ ~On(r)
      BY DEF LoopInv, TurnsInv, On
    <3> QED BY <1>3, <3>1
  <2> QED BY <1>1, <1>3, <2>1 DEF LoopInv, TurnsInv
<1>5. TalkInv'
  <2>1. \A r \in LoopRuns : At(r)' = "chatting" => On(r)'
    BY DEF On
  <2> QED BY <1>1, <1>3, <2>1 DEF TalkInv
<1>6. EpisodesInv'
  <2>1. loopCurrent = None \/ loopCurrent \in Episode
    BY DEF LoopInv, EpisodesInv
  <2>2. ASSUME loopCurrent # None, NEW g, g = loopCurrent.goal PROVE At(g)' # "new"
    BY <1>3, <2>1, <2>2 DEF LoopInv, EpisodesInv, Episode
  <2>3. \A q \in LoopRuns : On(q)' /\ Alone(q)' => loopCurrent' \in OwnEpisode(q)
    BY <1>1, <1>3 DEF LoopInv, EpisodesInv
  <2>4. loopCurrent' # None =>
          /\ At(loopCurrent.goal)' # "new"
          /\ \A i \in 1 .. Len(loopEpisodes) : loopCurrent'.goal # loopEpisodes[i].goal
    BY <1>1, <2>2 DEF LoopInv, EpisodesInv
  <2> QED BY <1>1, <1>3, <2>1, <2>3, <2>4, EpisodesStay
<1>7. SavedInv'
  BY <1>1, <1>3, SavedStays
<1> QED BY <1>4, <1>5, <1>6, <1>7 DEF LoopInv

LEMMA LoopStep == LoopInv /\ [Loop!Next]_loopVars => LoopInv'
<1> SUFFICES ASSUME LoopInv, [Loop!Next]_loopVars PROVE LoopInv'
  OBVIOUS
<1>1. ASSUME NEW r \in LoopRuns, NEW skills \in 0 .. 1, Loop!Start(r, skills) PROVE LoopInv'
  BY <1>1, StartOfRun
<1>2. ASSUME NEW r \in LoopRuns, Loop!BeginTurn(r) \/ Loop!ChatFails(r) PROVE LoopInv'
  BY <1>2, TurnBegins, RequestFails
<1>3. ASSUME NEW r \in LoopRuns, NEW calls \in 0 .. LoopMaxCalls, NEW hasContent \in BOOLEAN,
             Loop!Reply(r, calls, hasContent)
      PROVE  LoopInv'
  BY <1>3, ModelReplies
<1>4. ASSUME NEW r \in LoopRuns, NEW e, NEW escaped \in BOOLEAN, Loop!ToolReturns(r, e, escaped)
      PROVE  LoopInv'
  BY <1>4, ToolAnswers
<1>5. CASE Loop!Crash
  BY <1>5, ProcessDies
<1>6. CASE Loop!ResetContext \/ Loop!SetModel
  <2>1. PICK ms : ms = <<>>
    OBVIOUS
  <2>2. ms \in Seq(Message) /\ Loop!Replace(ms) /\ (loopSession' = loopSession \/ loopSession' = None)
    BY <1>6, <2>1 DEF Loop!ResetContext, Loop!SetModel
  <2> QED BY <2>2, ConversationReplaced
<1>7. CASE Loop!ResumeSession
  <2>1. PICK ms : ms = loopSession
    OBVIOUS
  <2>2. ms \in Seq(Message) /\ Loop!Replace(ms) /\ loopSession' = loopSession
    BY <1>7, <2>1 DEF Loop!ResumeSession, LoopInv, SavedInv
  <2> QED BY <2>2, ConversationReplaced
<1>8. CASE UNCHANGED loopVars
  BY <1>8 DEF loopVars, LoopInv, TurnsInv, TalkInv, EpisodesInv, SavedInv, On, Over, At, Alone,
              Undisturbed, Headed, EndsWith
<1> QED BY <1>1, <1>2, <1>3, <1>4, <1>5, <1>6, <1>7, <1>8 DEF Loop!Next

LEMMA LoopAccounts ==
  ASSUME LoopInv
  PROVE  Loop!RequestsAreBounded /\ Loop!OneEpisodePerRun /\ Loop!SessionIsOfTheLastEnd
<1>1. Loop!RequestsAreBounded
  <2>1. SUFFICES ASSUME NEW r \in LoopRuns, At(r) = "chatting", r \notin loopReplaced
                 PROVE  /\ loopMessages[1] = Loop!System
                        /\ r \notin loopOverlapped => Len(loopMessages) <= LoopMaxMessages
    BY DEF Loop!RequestsAreBounded, At
  <2>2. On(r)
    BY <2>1 DEF On
  <2> QED BY <2>1, <2>2 DEF LoopInv, TalkInv, Undisturbed, Headed
<1>2. \A r : r \in Loop!Ended <=> Over(r)
  BY DEF Loop!Ended, Over, At
<1>3. Loop!OneEpisodePerRun
  <2>1. DOMAIN loopEpisodes = 1 .. Len(loopEpisodes)
    BY DEF LoopInv, EpisodesInv
  <2>2. \A r \in Loop!Ended \ loopOverlapped : \E i \in DOMAIN loopEpisodes : loopEpisodes[i].of = r
    BY <1>2, <2>1 DEF LoopInv, EpisodesInv, Over, Alone
  <2> QED BY <2>1, <2>2 DEF Loop!OneEpisodePerRun, LoopInv, EpisodesInv, Alone
<1>4. Loop!SessionIsOfTheLastEnd
  <2>1. SUFFICES ASSUME loopSession # None
                 PROVE  \/ /\ loopLastEnd \in loopOverlapped \union loopReplaced
                           /\ loopRun[loopLastEnd].at = "error"
                        \/ /\ loopLastEnd # None /\ loopSession # <<>>
                           /\ Loop!Last(loopSession) = loopLastEnd
    BY DEF Loop!SessionIsOfTheLastEnd
  <2>2. /\ Over(loopLastEnd)
        /\ \/ ~Undisturbed(loopLastEnd) /\ At(loopLastEnd) = "error"
           \/ EndsWith(loopSession, loopLastEnd)
    BY <2>1 DEF LoopInv, SavedInv
  <2>3. loopLastEnd # None
    BY <2>2, LoopAssumed DEF Over
  <2> QED BY <2>2, <2>3 DEF Undisturbed, At, EndsWith, Loop!Last
<1> QED BY <1>1, <1>3, <1>4

\* A request to the model starts with the system prompt, unless the conversation of the
\* run was replaced, and is bounded, unless another run was at work beside it; a run that
\* has ended alone has one episode, with its own calls, and no run has two; the session on
\* disk ends with the run that ended last: for any number of runs beside each other, any
\* replies, tool results, failures, crashes, resets and resumptions (agent.ts
\* runUserMessage, agent-conversation.ts pruneContext, episode-recorder.ts).
THEOREM LoopIsAlwaysAccountedFor == BundleSpec => []LoopIsAccountedFor
<1>1. [BundleNext]_bundle => [Loop!Next]_loopVars
  BY DEF BundleNext, bundle
<1>2. LoopInv /\ [BundleNext]_bundle => LoopInv'
  BY <1>1, LoopStep
<1>3. LoopInv => LoopIsAccountedFor
  BY LoopAccounts DEF LoopIsAccountedFor
<1> QED BY <1>2, <1>3, LoopStarts, PTL DEF BundleSpec

\* A list of some entries of another, in their order.
Sifted(acc, s, keep, T) ==
  /\ acc \in [0 .. Len(s) -> Seq(T)] /\ acc[0] = <<>>
  /\ \A i \in 1 .. Len(s) : acc[i] = IF i \in keep THEN Append(acc[i - 1], s[i]) ELSE acc[i - 1]
Embeds(at, q, s, keep) ==
  /\ at \in [1 .. Len(q) -> keep]
  /\ \A k \in 1 .. Len(q) : q[k] = s[at[k]]
  /\ \A k, l \in 1 .. Len(q) : k < l => at[k] < at[l]
  /\ \A i \in keep : \E k \in 1 .. Len(q) : at[k] = i

LEMMA EmbedsOneMore ==
  ASSUME NEW T, NEW s \in Seq(T), NEW i \in 1 .. Len(s), NEW keep \in SUBSET (1 .. i - 1),
         NEW q \in Seq(T), NEW at, Embeds(at, q, s, keep)
  PROVE  \E to : Embeds(to, Append(q, s[i]), s, keep \union {i})
<1> DEFINE now == Append(q, s[i])
           to == [k \in 1 .. Len(q) + 1 |-> IF k = Len(q) + 1 THEN i ELSE at[k]]
<1>1. /\ now \in Seq(T) /\ Len(q) \in Nat /\ Len(now) = Len(q) + 1 /\ now[Len(q) + 1] = s[i]
      /\ \A k \in 1 .. Len(q) : now[k] = q[k]
  OBVIOUS
<1>2. \A k \in 1 .. Len(q) : k # Len(q) + 1 /\ k \in 1 .. Len(q) + 1 /\ at[k] \in keep
  BY <1>1 DEF Embeds
<1>3. \A k \in 1 .. Len(q) + 1 : k \in 1 .. Len(q) \/ k = Len(q) + 1
  BY <1>1
<1>4. (\A k \in 1 .. Len(q) : to[k] = at[k]) /\ to[Len(q) + 1] = i
  BY <1>1, <1>2
<1>5. DOMAIN to = 1 .. Len(q) + 1
  OBVIOUS
<1>6. to \in [1 .. Len(q) + 1 -> keep \union {i}]
  BY <1>2, <1>3
<1> HIDE DEF to, now
<1>7. \A k \in 1 .. Len(q) + 1 : now[k] = s[to[k]]
  BY <1>1, <1>3, <1>4 DEF Embeds
<1>8. ASSUME NEW k \in 1 .. Len(q) + 1, NEW l \in 1 .. Len(q) + 1, k < l PROVE to[k] < to[l]
  <2>1. k \in 1 .. Len(q) /\ at[k] \in 1 .. i - 1
    <3>1. k \in 1 .. Len(q)
      BY <1>1, <1>8
    <3>2. at[k] \in keep
      BY <1>2, <3>1
    <3> QED BY <3>1, <3>2
  <2>2. CASE l \in 1 .. Len(q)
    BY <1>4, <1>8, <2>1, <2>2 DEF Embeds
  <2>3. CASE l = Len(q) + 1
    BY <1>4, <2>1, <2>3
  <2> QED BY <1>3, <2>2, <2>3
<1>9. ASSUME NEW j \in keep \union {i} PROVE \E k \in 1 .. Len(q) + 1 : to[k] = j
  <2>1. CASE j \in keep
    <3>1. PICK k \in 1 .. Len(q) : at[k] = j
      BY <2>1 DEF Embeds
    <3> QED BY <1>2, <1>4, <3>1
  <2>2. CASE j = i
    BY <1>1, <1>4, <2>2
  <2> QED BY <2>1, <2>2
<1>10. Embeds(to, now, s, keep \union {i})
  BY <1>1, <1>6, <1>7, <1>8, <1>9 DEF Embeds
<1> QED BY <1>10 DEF now

LEMMA SiftedEmbeds ==
  ASSUME NEW T, NEW s \in Seq(T), NEW keep \in SUBSET (1 .. Len(s)), NEW acc, Sifted(acc, s, keep, T)
  PROVE  acc[Len(s)] \in Seq(T) /\ \E at : Embeds(at, acc[Len(s)], s, keep)
<1> DEFINE n == Len(s)
           To(i) == keep \intersect (1 .. i)
           Good == {i \in 0 .. n : \E at : Embeds(at, acc[i], s, To(i))}
<1>1. n \in Nat /\ acc \in [0 .. n -> Seq(T)] /\ acc[0] = <<>>
  BY DEF Sifted
<1>2. 0 \in Good
  <2>1. To(0) = {} /\ 1 .. Len(acc[0]) = {}
    BY <1>1
  <2>2. Embeds(<<>>, acc[0], s, To(0))
    <3>1. <<>> \in [{} -> {}]
      OBVIOUS
    <3> QED BY <2>1, <3>1 DEF Embeds
  <2> QED BY <2>2, <1>1
<1>3. ASSUME NEW i \in 1 .. n, i - 1 \in Good PROVE i \in Good
  <2>1. i - 1 \in 0 .. n /\ i \in 0 .. n /\ i \in 1 .. Len(s) /\ acc[i - 1] \in Seq(T)
    BY <1>1
  <2>2. PICK at : Embeds(at, acc[i - 1], s, To(i - 1))
    BY <1>3
  <2>3. CASE i \in keep
    <3>1. To(i) = To(i - 1) \union {i} /\ To(i - 1) \in SUBSET (1 .. i - 1)
      BY <1>1, <2>3
    <3>2. acc[i] = Append(acc[i - 1], s[i])
      BY <2>1, <2>3 DEF Sifted
    <3>3. PICK to : Embeds(to, Append(acc[i - 1], s[i]), s, To(i - 1) \union {i})
      <4> DEFINE was == acc[i - 1]
                 some == To(i - 1)
      <4>1. some \in SUBSET (1 .. i - 1) /\ was \in Seq(T) /\ Embeds(at, was, s, some)
        BY <2>1, <2>2, <3>1
      <4> HIDE DEF was, some
      <4>2. \E to : Embeds(to, Append(was, s[i]), s, some \union {i})
        BY <2>1, <4>1, EmbedsOneMore
      <4> QED BY <4>2 DEF was, some
    <3>4. Embeds(to, acc[i], s, To(i))
      BY <3>1, <3>2, <3>3
    <3> QED BY <2>1, <3>4
  <2>4. CASE i \notin keep
    <3>1. To(i) = To(i - 1)
      BY <1>1, <2>4
    <3>2. acc[i] = acc[i - 1]
      BY <2>1, <2>4 DEF Sifted
    <3> QED BY <2>1, <2>2, <3>1, <3>2
  <2> QED BY <2>3, <2>4
<1>4. \A i \in 0 .. n : i \in Good
  <2> HIDE DEF Good, n
  <2> QED BY <1>1, <1>2, <1>3, InductionTo
<1>5. n \in Good /\ To(n) = keep
  <2>1. n \in 0 .. n
    BY <1>1
  <2>3. keep \intersect (1 .. n) = keep
    OBVIOUS
  <2> HIDE DEF Good
  <2>2. n \in Good
    BY <1>4, <2>1
  <2> QED BY <2>2, <2>3
<1> QED BY <1>1, <1>5

-----------------------------------------------------------------------------
(* The store behind the terminal.                                          *)

StoreKinds == {"text", "decision", "diff_preview", "test_result", "tool_call", "card"}
StoreEntry == [kind : StoreKinds, id : StoreIds \union {None, "assistant", "thinking"},
               status : Store!CallStatuses \union {"done", "open"}]
StoreCall == [id : StoreIds, tool : StoreTools, status : Store!CallStatuses]
StoreTask == [id : StoreIds, status : Store!TaskStatuses]
StoreStep == [id : StoreIds, status : Store!StepStatuses]

\* Each list has its entries, no two tool calls of the conversation, no two tasks and no
\* two steps have one id.
ConversationOK(c) ==
  /\ c \in Seq(StoreEntry) /\ Len(c) <= StoreMaxConversation
  /\ \A i, j \in 1 .. Len(c) :
       c[i].kind = "tool_call" /\ c[j].kind = "tool_call" /\ c[i].id = c[j].id => i = j
CallsOK(calls, tool) ==
  /\ calls \in Seq(StoreCall) /\ Len(calls) <= StoreMaxToolCalls
  /\ (\E i \in 1 .. Len(calls) : calls[i].status = "running") => tool # None
EachOnce(s, T) == s \in Seq(T) /\ \A i, j \in 1 .. Len(s) : s[i].id = s[j].id => i = j
StoreInv ==
  /\ ConversationOK(storeConversation)
  /\ CallsOK(storeToolCalls, storeActiveTool)
  /\ EachOnce(storeTasks, StoreTask)
  /\ EachOnce(storeSteps, StoreStep)
  /\ storeMode \in Store!Modes
  /\ storeActors \in [Store!ActorIds -> Store!Health]

LEMMA StoreAssumed == StoreMaxConversation \in Nat /\ StoreMaxToolCalls \in Nat /\ None \notin StoreTools
BY BundleAssumption DEF Store!StoreAssumption

LastPart(q, s) == \E d \in Nat : \A i \in 1 .. Len(q) : i + d \in 1 .. Len(s) /\ q[i] = s[i + d]

\* The entries that a buffer keeps are the last ones.
LEMMA StoreBounds ==
  ASSUME NEW T, NEW s \in Seq(T), NEW max \in Nat
  PROVE  /\ Store!Bounded(s, max) \in Seq(T) /\ Len(Store!Bounded(s, max)) <= max
         /\ LastPart(Store!Bounded(s, max), s)
<1>1. CASE Len(s) > max
  <2> DEFINE d == Len(s) - max
             q == SubSeq(s, d + 1, Len(s))
  <2>1. d \in Nat /\ Len(s) \in Nat /\ d + 1 \in 1 .. Len(s) + 1
    BY <1>1
  <2>2. q \in Seq(T) /\ Len(q) = max /\ \A i \in 1 .. max : q[i] = s[i + d] /\ i + d \in 1 .. Len(s)
    BY <1>1, <2>1
  <2>3. Store!Bounded(s, max) = q
    BY <1>1 DEF Store!Bounded
  <2>4. LastPart(q, s)
    <3> HIDE DEF q, d
    <3> QED BY <2>1, <2>2 DEF LastPart
  <2> HIDE DEF q
  <2>5. Len(q) <= max
    BY <2>2
  <2> QED BY <2>2, <2>3, <2>4, <2>5
<1>2. CASE ~(Len(s) > max)
  <2>1. Store!Bounded(s, max) = s /\ Len(s) \in Nat
    BY <1>2 DEF Store!Bounded
  <2>2. \A i \in 1 .. Len(s) : i + 0 \in 1 .. Len(s) /\ s[i] = s[i + 0]
    BY <2>1
  <2> QED BY <1>2, <2>1, <2>2 DEF LastPart
<1> QED BY <1>1, <1>2

\* The first entry that meets a condition.
LEMMA StoreFinds ==
  ASSUME NEW n \in Nat, NEW S \in SUBSET (1 .. n)
  PROVE  LET at == IF S # {} THEN Store!Min(S) ELSE 0
         IN  /\ S # {} => at \in S
             /\ S = {} => at = 0
<1>1. CASE S # {}
  <2>1. PICK x \in S : \A y \in S : x <= y
    BY <1>1, LeastElement
  <2>2. Store!Min(S) \in S
    BY <2>1 DEF Store!Min
  <2> QED BY <1>1, <2>2
<1> QED BY <1>1

\* What is said is the last entry; a tool call is said once.
LEMMA StoreSays ==
  ASSUME NEW c, ConversationOK(c), NEW e \in StoreEntry,
         e.kind = "tool_call" => \A i \in 1 .. Len(c) : ~(c[i].kind = "tool_call" /\ c[i].id = e.id)
  PROVE  ConversationOK(Store!Bounded(Append(c, e), StoreMaxConversation))
<1> DEFINE s == Append(c, e)
           q == Store!Bounded(s, StoreMaxConversation)
<1>1. /\ s \in Seq(StoreEntry) /\ Len(s) = Len(c) + 1 /\ Len(c) \in Nat /\ s[Len(c) + 1] = e
      /\ \A i \in 1 .. Len(c) : s[i] = c[i]
  BY DEF ConversationOK
<1> HIDE DEF s
<1>3. q \in Seq(StoreEntry) /\ Len(q) <= StoreMaxConversation /\ LastPart(q, s)
  BY <1>1, StoreBounds, StoreAssumed
<1>2. PICK d \in Nat : \A i \in 1 .. Len(q) : i + d \in 1 .. Len(s) /\ q[i] = s[i + d]
  <2> HIDE DEF q
  <2> QED BY <1>3 DEF LastPart
<1>4. ASSUME NEW i \in 1 .. Len(s), NEW j \in 1 .. Len(s), s[i].kind = "tool_call",
             s[j].kind = "tool_call", s[i].id = s[j].id
      PROVE  i = j
  <2>1. \A k \in 1 .. Len(s) : k \in 1 .. Len(c) \/ k = Len(c) + 1
    BY <1>1
  <2>2. CASE i \in 1 .. Len(c) /\ j \in 1 .. Len(c)
    BY <1>1, <1>4, <2>2 DEF ConversationOK
  <2>3. CASE i = Len(c) + 1 /\ j = Len(c) + 1
    BY <2>3
  <2>4. CASE i \in 1 .. Len(c) /\ j = Len(c) + 1
    BY <1>1, <1>4, <2>4
  <2>5. CASE i = Len(c) + 1 /\ j \in 1 .. Len(c)
    BY <1>1, <1>4, <2>5
  <2> QED BY <2>1, <2>2, <2>3, <2>4, <2>5
<1> HIDE DEF q
<1>5. ASSUME NEW i \in 1 .. Len(q), NEW j \in 1 .. Len(q), q[i].kind = "tool_call",
             q[j].kind = "tool_call", q[i].id = q[j].id
      PROVE  i = j
  <2>1. i + d = j + d
    BY <1>2, <1>4, <1>5
  <2> QED BY <1>3, <2>1
<1>6. ConversationOK(q)
  BY <1>3, <1>5 DEF ConversationOK
<1> QED BY <1>6 DEF q, s

LEMMA StoreStarts == BundleInit => StoreInv
<1> SUFFICES ASSUME BundleInit PROVE StoreInv OBVIOUS
<1>1. Store!Init
  BY DEF BundleInit
<1>2. storeActors \in [Store!ActorIds -> Store!Health]
  BY <1>1 DEF Store!Init, Store!Health
<1> QED BY <1>1, <1>2, StoreAssumed
        DEF Store!Init, StoreInv, ConversationOK, CallsOK, EachOnce, Store!Modes

LEMMA StoreActorsTyped ==
  ASSUME StoreInv, NEW a \in Store!ActorIds, NEW h \in Store!Health, Store!WithActor(a, h)
  PROVE  storeActors' \in [Store!ActorIds -> Store!Health]
BY DEF StoreInv, Store!WithActor

\* What is said and called leaves the tasks and the plan.
LEMMA StoreTalks ==
  ASSUME StoreInv, ConversationOK(storeConversation'), CallsOK(storeToolCalls', storeActiveTool'),
         storeActors' \in [Store!ActorIds -> Store!Health], UNCHANGED <<Store!work, Store!plan>>
  PROVE  StoreInv'
BY DEF StoreInv, Store!work, Store!plan

LEMMA StoreRemark ==
  ASSUME StoreInv, NEW e \in StoreEntry, e.kind # "tool_call", Store!Say(e)
  PROVE  ConversationOK(storeConversation')
<1>1. ConversationOK(storeConversation)
  BY DEF StoreInv
<1> QED BY <1>1, StoreSays DEF Store!Say

LEMMA StoreMessage == ASSUME StoreInv, Store!Message PROVE StoreInv'
<1>1. PICK r \in Store!Remarks :
        /\ Store!Say(Store!Entry(r[1], None, "done")) /\ Store!WithActor(r[2], r[3])
        /\ UNCHANGED <<storeToolCalls, storeActiveTool, Store!work, Store!plan>>
  BY DEF Store!Message
<1>2. r[1] \in StoreKinds /\ r[1] # "tool_call" /\ r[2] \in Store!ActorIds /\ r[3] \in Store!Health
  BY DEF Store!Remarks, StoreKinds, Store!ActorIds, Store!Health
<1>3. /\ Store!Entry(r[1], None, "done") \in StoreEntry
      /\ Store!Entry(r[1], None, "done").kind # "tool_call"
  BY <1>2 DEF Store!Entry, StoreEntry
<1>4. ConversationOK(storeConversation')
  BY <1>1, <1>3, StoreRemark
<1>5. storeActors' \in [Store!ActorIds -> Store!Health]
  BY <1>1, <1>2, StoreActorsTyped
<1>6. CallsOK(storeToolCalls', storeActiveTool')
  BY <1>1 DEF StoreInv
<1> QED BY <1>1, <1>4, <1>5, <1>6, StoreTalks

LEMMA StoreChunk == ASSUME StoreInv, NEW role \in {"assistant", "thinking"}, Store!Chunk(role) PROVE StoreInv'
<1>1. Store!Entry("text", role, "open") \in StoreEntry /\ Store!Entry("text", role, "open").kind # "tool_call"
  BY DEF Store!Entry, StoreEntry, StoreKinds
<1>2. ConversationOK(storeConversation')
  BY <1>1, StoreRemark DEF Store!Chunk, StoreInv
<1>3. storeActors' \in [Store!ActorIds -> Store!Health]
  <2>1. /\ "conversation" \in Store!ActorIds
        /\ (IF role = "thinking" THEN "thinking" ELSE "active") \in Store!Health
    BY DEF Store!ActorIds, Store!Health
  <2> QED BY <2>1, StoreActorsTyped DEF Store!Chunk
<1>4. CallsOK(storeToolCalls', storeActiveTool')
  BY DEF Store!Chunk, StoreInv
<1> QED BY <1>2, <1>3, <1>4, StoreTalks DEF Store!Chunk

LEMMA StoreCard ==
  ASSUME StoreInv, NEW id \in StoreIds, NEW status \in {"running", "completed"},
         Store!Card(id, status) \/ Store!CardItem(id, status)
  PROVE  StoreInv'
<1>1. Store!Entry("card", id, status) \in StoreEntry /\ Store!Entry("card", id, status).kind # "tool_call"
  BY DEF Store!Entry, StoreEntry, StoreKinds, Store!CallStatuses
<1>2. ConversationOK(storeConversation')
  BY <1>1, StoreRemark DEF Store!Card, Store!CardItem, Store!talk, StoreInv
<1>3. storeActors' \in [Store!ActorIds -> Store!Health]
  <2>1. /\ "tasks" \in Store!ActorIds
        /\ (IF status = "running" THEN "active" ELSE "healthy") \in Store!Health
    BY DEF Store!ActorIds, Store!Health
  <2> QED BY <2>1, StoreActorsTyped DEF Store!Card, Store!CardItem, StoreInv
<1>4. CallsOK(storeToolCalls', storeActiveTool')
  BY DEF Store!Card, Store!CardItem, Store!talk, StoreInv
<1> QED BY <1>2, <1>3, <1>4, StoreTalks DEF Store!Card, Store!CardItem

LEMMA StoreClearOrError == ASSUME StoreInv, Store!Clear \/ Store!Error PROVE StoreInv'
<1>1. ConversationOK(<<>>)
  BY StoreAssumed DEF ConversationOK
<1>2. ConversationOK(storeConversation')
  BY <1>1 DEF Store!Clear, Store!Error, Store!talk, StoreInv
<1>3. storeActors' \in [Store!ActorIds -> Store!Health]
  <2>1. "executor" \in Store!ActorIds /\ "error" \in Store!Health
    BY DEF Store!ActorIds, Store!Health
  <2> QED BY <2>1, StoreActorsTyped DEF Store!Clear, Store!Error, StoreInv
<1>4. CallsOK(storeToolCalls', storeActiveTool')
  BY DEF Store!Clear, Store!Error, Store!talk, StoreInv
<1> QED BY <1>2, <1>3, <1>4, StoreTalks DEF Store!Clear, Store!Error

\* A call that is shown takes the place of its entry.
LEMMA StoreShowsCall ==
  ASSUME StoreInv, NEW id \in StoreIds, NEW tool \in StoreTools, NEW status \in Store!CallStatuses,
         Store!ShowCall(id, tool, status)
  PROVE  StoreInv'
<1> DEFINE c == storeConversation
           S == {i \in 1 .. Len(c) : c[i].kind = "tool_call" /\ c[i].id = id}
           at == IF S # {} THEN Store!Min(S) ELSE 0
           e == Store!Entry("tool_call", id, status)
<1>1. ConversationOK(c) /\ Len(c) \in Nat
  BY DEF StoreInv, ConversationOK
<1>2. e \in StoreEntry /\ e.kind = "tool_call" /\ e.id = id
  BY DEF Store!Entry, StoreEntry, StoreKinds
<1>3. IF at > 0 THEN storeConversation' = [c EXCEPT ![at] = e] ELSE Store!Say(e)
  BY DEF Store!ShowCall, Store!SelectInSeq
<1>4. (S # {} => at \in S) /\ (S = {} => at = 0)
  BY <1>1, StoreFinds
<1> HIDE DEF at, e
<1>5. ConversationOK(storeConversation')
  <2>1. CASE S = {}
    <3>1. Store!Say(e)
      BY <1>3, <1>4, <2>1
    <3> QED BY <1>1, <1>2, <2>1, <3>1, StoreSays DEF Store!Say
  <2>2. CASE S # {}
    <3>1. at \in 1 .. Len(c) /\ c[at].kind = "tool_call" /\ c[at].id = id
      BY <1>4, <2>2
    <3>2. storeConversation' = [c EXCEPT ![at] = e]
      BY <1>1, <1>3, <3>1
    <3>3. c \in Seq(StoreEntry)
      BY <1>1 DEF ConversationOK
    <3>4. /\ storeConversation' \in Seq(StoreEntry) /\ Len(storeConversation') = Len(c)
          /\ \A i \in 1 .. Len(c) : storeConversation'[i] = IF i = at THEN e ELSE c[i]
      BY <1>2, <3>1, <3>2, <3>3
    <3> HIDE DEF c
    <3>5. \A i \in 1 .. Len(c) :
            storeConversation'[i].kind = c[i].kind \/ i # at
      BY <1>2, <3>1, <3>4
    <3>6. \A i \in 1 .. Len(c) :
            storeConversation'[i].kind = c[i].kind /\ storeConversation'[i].id = c[i].id
      BY <1>2, <3>1, <3>4
    <3> QED BY <1>1, <3>4, <3>6 DEF ConversationOK
  <2> QED BY <2>1, <2>2
<1>6. storeActors' \in [Store!ActorIds -> Store!Health]
  <2>1. /\ "executor" \in Store!ActorIds
        /\ (CASE status = "failed" -> "error" [] status = "running" -> "active"
              [] OTHER -> "healthy") \in Store!Health
    BY DEF Store!ActorIds, Store!Health
  <2> QED BY <2>1, StoreActorsTyped DEF Store!ShowCall
<1>7. CallsOK(storeToolCalls', storeActiveTool')
  BY StoreAssumed DEF Store!ShowCall, StoreInv, CallsOK
<1> QED BY <1>5, <1>6, <1>7, StoreTalks DEF Store!ShowCall

LEMMA StoreStarted ==
  ASSUME StoreInv, NEW id \in StoreIds, NEW tool \in StoreTools, Store!Started(id, tool)
  PROVE  StoreInv'
<1> DEFINE call == [id |-> id, tool |-> tool, status |-> "running"]
           all == Append(storeToolCalls, call)
<1>1. call \in StoreCall /\ storeToolCalls \in Seq(StoreCall)
  BY DEF StoreCall, Store!CallStatuses, StoreInv, CallsOK
<1> HIDE DEF call
<1>2. all \in Seq(StoreCall)
  BY <1>1
<1> HIDE DEF all
<1>3. storeToolCalls' \in Seq(StoreCall) /\ Len(storeToolCalls') <= StoreMaxToolCalls
  <2>1. storeToolCalls' = Store!Bounded(all, StoreMaxToolCalls)
    BY DEF Store!Started, all, call
  <2> QED BY <1>2, <2>1, StoreBounds, StoreAssumed
<1>4. CallsOK(storeToolCalls', storeActiveTool')
  BY <1>3, StoreAssumed DEF CallsOK, Store!Started
<1>5. ConversationOK(storeConversation')
  BY DEF Store!Started, StoreInv
<1>6. storeActors' \in [Store!ActorIds -> Store!Health]
  <2>1. "executor" \in Store!ActorIds /\ "active" \in Store!Health
    BY DEF Store!ActorIds, Store!Health
  <2> QED BY <2>1, StoreActorsTyped DEF Store!Started
<1> QED BY <1>4, <1>5, <1>6, StoreTalks DEF Store!Started

\* The active tool goes with the last call that runs.
LEMMA StoreSettled ==
  ASSUME StoreInv, NEW id \in StoreIds, NEW status \in {"completed", "failed"}, Store!Settled(id, status)
  PROVE  StoreInv'
<1> DEFINE was == storeToolCalls
           now == storeToolCalls'
<1>1. /\ was \in Seq(StoreCall) /\ Len(was) <= StoreMaxToolCalls /\ DOMAIN was = 1 .. Len(was)
      /\ (\E i \in 1 .. Len(was) : was[i].status = "running") => storeActiveTool # None
  BY DEF StoreInv, CallsOK
<1>2. now = [i \in 1 .. Len(was) |-> IF was[i].id = id THEN [was[i] EXCEPT !.status = status] ELSE was[i]]
  BY <1>1 DEF Store!Settled
<1>3. \A i \in 1 .. Len(was) : was[i] \in StoreCall
  BY <1>1
<1>4. \A i \in 1 .. Len(was) :
        /\ now[i] \in StoreCall
        /\ now[i].status = "running" => was[i].status = "running"
  <2> TAKE i \in 1 .. Len(was)
  <2>1. now[i] = IF was[i].id = id THEN [was[i] EXCEPT !.status = status] ELSE was[i]
    BY <1>2
  <2> QED BY <1>3, <2>1 DEF StoreCall, Store!CallStatuses
<1>5. now \in Seq(StoreCall) /\ Len(now) = Len(was)
  <2>1. Len(was) \in Nat
    BY <1>1
  <2>2. now \in [1 .. Len(was) -> StoreCall]
    BY <1>2, <1>4
  <2> HIDE DEF now, was
  <2> QED BY <2>1, <2>2
<1>6. (\E i \in 1 .. Len(now) : now[i].status = "running") => storeActiveTool' # None
  <2> SUFFICES ASSUME NEW i \in 1 .. Len(now), now[i].status = "running"
               PROVE  storeActiveTool' # None
    OBVIOUS
  <2>1. Store!Running(now) # {}
    BY <1>2, <1>5 DEF Store!Running
  <2>2. storeActiveTool' = storeActiveTool
    BY <2>1 DEF Store!Settled
  <2>3. was[i].status = "running" /\ i \in 1 .. Len(was)
    BY <1>4, <1>5
  <2> QED BY <1>1, <2>2, <2>3
<1>7. CallsOK(storeToolCalls', storeActiveTool')
  BY <1>1, <1>5, <1>6 DEF CallsOK
<1>8. ConversationOK(storeConversation')
  BY DEF Store!Settled, StoreInv
<1>9. storeActors' \in [Store!ActorIds -> Store!Health]
  <2>1. PICK h \in {"error", "active", "healthy"} : Store!WithActor("executor", h)
    BY DEF Store!Settled
  <2>2. "executor" \in Store!ActorIds /\ h \in Store!Health
    BY DEF Store!ActorIds, Store!Health
  <2> QED BY <2>1, <2>2, StoreActorsTyped
<1> QED BY <1>7, <1>8, <1>9, StoreTalks DEF Store!Settled

\* The tasks but those of an id, one after the other.
LEMMA WithoutUnrolls ==
  ASSUME NEW id, NEW s \in Seq(StoreTask)
  PROVE  \E acc : Sifted(acc, s, {i \in 1 .. Len(s) : s[i].id # id}, StoreTask)
                  /\ Store!Without(id, s) = acc[Len(s)]
<1> DEFINE n == Len(s)
           S == Seq(StoreTask)
           next(was, x) == IF x.id = id THEN was ELSE Append(was, x)
           IsFold(g) == g = [d \in SUBSET (1 .. n) |->
                               IF d = {} THEN <<>> ELSE next(g[d \ {Max(d)}], s[Max(d)])]
           iter == CHOOSE g : IsFold(g)
           step == [a \in (1 .. n) \X S |-> next(a[2], s[a[1]])]
           acc == [i \in 0 .. n |-> iter[1 .. i]]
<1>1. Store!Without(id, s) = iter[1 .. n]
  <2>1. DOMAIN s = 1 .. n OBVIOUS
  <2> HIDE DEF step, S
  <2> QED BY <2>1
          DEF Store!Without, Store!FoldLeft, Store!MapThenFoldSet, Store!Max, Max
<1>2. n \in Nat /\ <<>> \in S /\ \A i \in 1 .. n : s[i] \in StoreTask
  OBVIOUS
<1>3. \A was \in S, x \in StoreTask : next(was, x) \in S
  OBVIOUS
<1>4. step = [a \in (1 .. n) \X S |-> next(a[2], s[a[1]])]
  OBVIOUS
<1> HIDE DEF n, S, next, step, iter, IsFold
<1>5. step \in [(1 .. n) \X S -> S]
  <2>1. \A a \in (1 .. n) \X S : next(a[2], s[a[1]]) \in S
    BY <1>2, <1>3
  <2> QED BY <1>4, <2>1
<1>6. PICK f \in [SUBSET (1 .. n) -> S] : FoldsTo(f, n, <<>>, step)
  BY <1>2, <1>5, FoldExists
<1>7. IsFold(f)
  <2>1. ASSUME NEW d \in SUBSET (1 .. n)
        PROVE  f[d] = IF d = {} THEN <<>> ELSE next(f[d \ {Max(d)}], s[Max(d)])
    <3>1. d # {} => Max(d) \in 1 .. n /\ f[d \ {Max(d)}] \in S
      BY <1>2, MaxUpTo
    <3> QED BY <1>4, <1>6, <3>1 DEF FoldsTo
  <2> QED BY <2>1 DEF IsFold
<1>8. IsFold(iter)
  BY <1>7 DEF iter
<1>9. iter[{}] = <<>>
  <2>1. {} \in SUBSET (1 .. n) OBVIOUS
  <2> QED BY <1>8, <2>1 DEF IsFold
<1>10. \A i \in 1 .. n : iter[1 .. i] = next(iter[1 .. i - 1], s[i])
  <2> TAKE i \in 1 .. n
  <2>1. /\ 1 .. i \in SUBSET (1 .. n) /\ 1 .. i # {}
        /\ Max(1 .. i) = i /\ (1 .. i) \ {i} = 1 .. i - 1
    BY <1>2, IntervalStep
  <2>2. iter[1 .. i] = next(iter[(1 .. i) \ {Max(1 .. i)}], s[Max(1 .. i)])
    BY <1>8, <2>1 DEF IsFold
  <2> QED BY <2>1, <2>2
<1>11. \A i \in 0 .. n : iter[1 .. i] \in S
  <2>1. \A i \in 1 .. n : iter[1 .. i - 1] \in S => iter[1 .. i] \in S
    BY <1>2, <1>3, <1>10
  <2> QED BY <1>2, <1>9, <2>1, FoldReaches
<1>12. acc \in [0 .. n -> S] /\ acc[0] = <<>> /\ acc[n] = iter[1 .. n]
  <2>1. 0 \in 0 .. n /\ n \in 0 .. n /\ 1 .. 0 = {}
    BY <1>2
  <2> QED BY <1>9, <1>11, <2>1
<1>13. \A i \in 1 .. n : acc[i] = next(acc[i - 1], s[i])
  <2>1. \A i \in 1 .. n : i \in 0 .. n /\ i - 1 \in 0 .. n
    BY <1>2
  <2> QED BY <1>10, <2>1
<1> HIDE DEF acc
<1>14. Sifted(acc, s, {i \in 1 .. Len(s) : s[i].id # id}, StoreTask)
  BY <1>12, <1>13 DEF Sifted, n, S, next
<1> QED BY <1>1, <1>12, <1>14 DEF n

LEMMA WithoutOnce ==
  ASSUME NEW id \in StoreIds, NEW s, EachOnce(s, StoreTask), NEW t \in StoreTask, t.id = id
  PROVE  EachOnce(Append(Store!Without(id, s), t), StoreTask)
<1> DEFINE keep == {i \in 1 .. Len(s) : s[i].id # id}
           q == Store!Without(id, s)
           now == Append(q, t)
<1>1. s \in Seq(StoreTask) /\ keep \in SUBSET (1 .. Len(s))
  BY DEF EachOnce
<1>2. PICK acc : Sifted(acc, s, keep, StoreTask) /\ q = acc[Len(s)]
  BY <1>1, WithoutUnrolls
<1>3. q \in Seq(StoreTask) /\ \E at : Embeds(at, q, s, keep)
  <2> HIDE DEF keep, q
  <2> QED BY <1>1, <1>2, SiftedEmbeds
<1>4. PICK at : Embeds(at, q, s, keep)
  BY <1>3
<1> HIDE DEF q
<1>5. \A k \in 1 .. Len(q) : at[k] \in 1 .. Len(s) /\ q[k] = s[at[k]] /\ q[k].id # id
  BY <1>4 DEF Embeds
<1>6. /\ now \in Seq(StoreTask) /\ Len(now) = Len(q) + 1 /\ now[Len(q) + 1] = t /\ Len(q) \in Nat
      /\ \A k \in 1 .. Len(q) : now[k] = q[k]
  BY <1>3
<1> HIDE DEF now
<1>7. ASSUME NEW k \in 1 .. Len(now), NEW l \in 1 .. Len(now), now[k].id = now[l].id PROVE k = l
  <2>1. CASE k \in 1 .. Len(q) /\ l \in 1 .. Len(q)
    <3>1. at[k] = at[l]
      <4>1. s[at[k]].id = s[at[l]].id
        BY <1>5, <1>6, <1>7, <2>1
      <4> QED BY <1>5, <2>1, <4>1 DEF EachOnce
    <3>2. ~(k < l) /\ ~(l < k)
      <4>1. at[k] \in Nat
        BY <1>1, <1>5, <2>1
      <4> QED BY <1>4, <2>1, <3>1, <4>1 DEF Embeds
    <3> QED BY <1>3, <2>1, <3>2
  <2>2. CASE k = Len(q) + 1 /\ l \in 1 .. Len(q)
    BY <1>5, <1>6, <1>7, <2>2
  <2>3. CASE k \in 1 .. Len(q) /\ l = Len(q) + 1
    BY <1>5, <1>6, <1>7, <2>3
  <2>4. CASE k = Len(q) + 1 /\ l = Len(q) + 1
    BY <2>4
  <2>5. \A i \in 1 .. Len(now) : i \in 1 .. Len(q) \/ i = Len(q) + 1
    BY <1>6
  <2> QED BY <2>1, <2>2, <2>3, <2>4, <2>5
<1>8. EachOnce(now, StoreTask)
  BY <1>6, <1>7 DEF EachOnce
<1> QED BY <1>8 DEF now, q

\* What happens to the tasks leaves the rest.
LEMMA StoreWorks ==
  ASSUME StoreInv, EachOnce(storeTasks', StoreTask),
         storeActors' \in [Store!ActorIds -> Store!Health], UNCHANGED <<Store!talk, Store!plan>>
  PROVE  StoreInv'
BY DEF StoreInv, Store!talk, Store!plan

LEMMA StoreTaskCreated ==
  ASSUME StoreInv, NEW id \in StoreIds, Store!TaskCreated(id) PROVE StoreInv'
<1>1. [id |-> id, status |-> "queued"] \in StoreTask
  BY DEF StoreTask, Store!TaskStatuses, Store!Transitions
<1>2. EachOnce(storeTasks', StoreTask)
  BY <1>1, WithoutOnce DEF Store!TaskCreated, StoreInv
<1>3. storeActors' \in [Store!ActorIds -> Store!Health]
  <2>1. "tasks" \in Store!ActorIds /\ "active" \in Store!Health
    BY DEF Store!ActorIds, Store!Health
  <2> QED BY <2>1, StoreActorsTyped DEF Store!TaskCreated
<1> QED BY <1>2, <1>3, StoreWorks DEF Store!TaskCreated

LEMMA StoreTaskProgress ==
  ASSUME StoreInv, NEW id \in StoreIds, NEW status \in Store!TaskStatuses,
         Store!TaskProgress(id, status)
  PROVE  StoreInv'
<1> DEFINE s == storeTasks
           S == {i \in 1 .. Len(s) : s[i].id = id}
           at == IF S # {} THEN Store!Min(S) ELSE 0
           put == [s EXCEPT ![at].status = status]
<1>1. s \in Seq(StoreTask) /\ EachOnce(s, StoreTask) /\ Len(s) \in Nat
  BY DEF StoreInv, EachOnce
<1>2. (S # {} => at \in S) /\ (S = {} => at = 0)
  BY <1>1, StoreFinds
<1>3. storeTasks' = IF at > 0 /\ Store!CanTransition(s[at].status, status) THEN put ELSE s
  BY DEF Store!TaskProgress, Store!ApplyTaskTransition, Store!Index, Store!SelectInSeq
<1> HIDE DEF at
<1>4. ASSUME at \in S PROVE EachOnce(storeTasks', StoreTask)
  <2>1. at \in 1 .. Len(s) /\ s[at] \in StoreTask
    BY <1>1, <1>4
  <2>2. [s[at] EXCEPT !.status = status] \in StoreTask /\ [s[at] EXCEPT !.status = status].id = s[at].id
    BY <2>1 DEF StoreTask
  <2>3. /\ put \in Seq(StoreTask) /\ Len(put) = Len(s)
        /\ \A i \in 1 .. Len(s) : put[i] = IF i = at THEN [s[at] EXCEPT !.status = status] ELSE s[i]
    BY <1>1, <2>1, <2>2
  <2> HIDE DEF put
  <2>4. \A i \in 1 .. Len(s) : put[i].id = s[i].id
    BY <2>2, <2>3
  <2>5. EachOnce(put, StoreTask)
    BY <1>1, <2>3, <2>4 DEF EachOnce
  <2>6. EachOnce(storeTasks', StoreTask)
    BY <1>1, <1>3, <2>5
  <2> QED BY <2>6
<1>5. ASSUME at = 0 PROVE EachOnce(storeTasks', StoreTask)
  BY <1>1, <1>3, <1>5
<1>6. EachOnce(storeTasks', StoreTask)
  BY <1>2, <1>4, <1>5
<1>7. storeActors' \in [Store!ActorIds -> Store!Health]
  <2>1. "tasks" \in Store!ActorIds /\ \A all : Store!TaskHealth(all) \in Store!Health
    BY DEF Store!ActorIds, Store!Health, Store!TaskHealth
  <2> QED BY <2>1, StoreActorsTyped DEF Store!TaskProgress
<1> QED BY <1>6, <1>7, StoreWorks DEF Store!TaskProgress

LEMMA StoreReport ==
  ASSUME StoreInv, NEW r \in Store!Reports, Store!Report(r[1], r[2]) PROVE StoreInv'
<1>1. storeActors' \in [Store!ActorIds -> Store!Health]
  <2>1. r[1] \in Store!ActorIds /\ r[2] \in Store!Health /\ "error" \in Store!Health
    BY DEF Store!ActorIds, Store!Health, Store!Reports
  <2>2. (IF r[1] = "logs" /\ storeActors["logs"] = "error" THEN "error" ELSE r[2]) \in Store!Health
    BY <2>1
  <2> QED BY <2>1, <2>2, StoreActorsTyped DEF Store!Report
<1>2. EachOnce(storeTasks', StoreTask)
  BY DEF Store!Report, Store!work, StoreInv
<1> QED BY <1>1, <1>2, StoreWorks DEF Store!Report

\* What happens to the plan leaves the rest.
LEMMA StorePlans ==
  ASSUME StoreInv, EachOnce(storeSteps', StoreStep), storeMode' \in Store!Modes,
         storeActors' \in [Store!ActorIds -> Store!Health], UNCHANGED <<Store!talk, Store!work>>
  PROVE  StoreInv'
BY DEF StoreInv, Store!talk, Store!work

\* A plan lists each of its steps once.
LEMMA StoreLists ==
  ASSUME NEW ids \in Store!SetToSeqs(StoreIds)
  PROVE  EachOnce([i \in DOMAIN ids |-> [id |-> ids[i], status |-> "pending"]], StoreStep)
<1> DEFINE n == Store!Cardinality(StoreIds)
           s == [i \in 1 .. n |-> [id |-> ids[i], status |-> "pending"]]
<1>1. n \in Nat
  <2>1. IsFiniteSet(StoreIds)
    BY BundleAssumption DEF Store!StoreAssumption, Store!IsFiniteSet, IsFiniteSet
  <2>2. n = Cardinality(StoreIds)
    BY DEF Store!Cardinality, Cardinality
  <2> QED BY <2>1, <2>2, FS_CardinalityType
<1>2. /\ ids \in [1 .. n -> StoreIds] /\ \A i, j \in 1 .. n : i # j => ids[i] # ids[j]
      /\ DOMAIN ids = 1 .. n
  BY DEF Store!SetToSeqs
<1> HIDE DEF n
<1>3. \A i \in 1 .. n : s[i] \in StoreStep /\ s[i].id = ids[i]
  BY <1>2 DEF StoreStep, Store!StepStatuses
<1>4. s \in [1 .. n -> StoreStep]
  BY <1>3
<1>5. s \in Seq(StoreStep) /\ Len(s) = n
  <2> HIDE DEF s
  <2> QED BY <1>1, <1>4
<1> HIDE DEF s
<1>6. EachOnce(s, StoreStep)
  BY <1>2, <1>3, <1>5 DEF EachOnce
<1> QED BY <1>2, <1>6 DEF s

LEMMA StorePlanned ==
  ASSUME StoreInv, NEW ids \in Store!SetToSeqs(StoreIds),
         \/ Store!Goal(ids)
         \/ \E status \in {"pending", "running", "completed"} : Store!Plan(ids, status)
  PROVE  StoreInv'
<1>1. EachOnce(storeSteps', StoreStep)
  BY StoreLists DEF Store!Goal, Store!Plan
<1>2. storeMode' \in Store!Modes
  BY DEF Store!Goal, Store!Plan, Store!Modes, StoreInv
<1>3. storeActors' \in [Store!ActorIds -> Store!Health]
  <2>1. PICK h \in {"thinking", "healthy"} : Store!WithActor("planner", h)
    BY DEF Store!Goal, Store!Plan
  <2>2. "planner" \in Store!ActorIds /\ h \in Store!Health
    BY DEF Store!ActorIds, Store!Health
  <2> QED BY <2>1, <2>2, StoreActorsTyped
<1>4. UNCHANGED <<Store!talk, Store!work>>
  BY DEF Store!Goal, Store!Plan
<1> QED BY <1>1, <1>2, <1>3, <1>4, StorePlans

\* A step of the plan takes the place of the one of its id, or is the last.
LEMMA StoreSteps ==
  ASSUME StoreInv, NEW id \in StoreIds, NEW status \in Store!StepStatuses, Store!Step(id, status)
  PROVE  StoreInv'
<1> DEFINE s == storeSteps
           step == [id |-> id, status |-> status]
           put == [i \in 1 .. Len(s) |-> IF s[i].id = id THEN step ELSE s[i]]
           app == Append(s, step)
<1>1. s \in Seq(StoreStep) /\ EachOnce(s, StoreStep) /\ Len(s) \in Nat /\ DOMAIN s = 1 .. Len(s)
  BY DEF StoreInv, EachOnce
<1>2. step \in StoreStep /\ step.id = id
  BY DEF StoreStep
<1>3. storeSteps' = IF Store!Has(s, id) THEN put ELSE app
  BY <1>1 DEF Store!Step
<1> HIDE DEF step
<1>4. EachOnce(put, StoreStep)
  <2>1. \A i \in 1 .. Len(s) : put[i] \in StoreStep /\ put[i].id = s[i].id
    BY <1>1, <1>2
  <2>2. put \in [1 .. Len(s) -> StoreStep]
    BY <2>1
  <2> HIDE DEF put, s
  <2>3. put \in Seq(StoreStep) /\ Len(put) = Len(s)
    BY <1>1, <2>2
  <2> QED BY <1>1, <2>1, <2>3 DEF EachOnce
<1>5. ASSUME ~Store!Has(s, id) PROVE EachOnce(storeSteps', StoreStep)
  <2>1. \A i \in 1 .. Len(s) : s[i].id # id
    BY <1>1, <1>5 DEF Store!Has
  <2>2. /\ app \in Seq(StoreStep) /\ Len(app) = Len(s) + 1 /\ app[Len(s) + 1] = step
        /\ \A i \in 1 .. Len(s) : app[i] = s[i]
    BY <1>1, <1>2
  <2> HIDE DEF app
  <2>3. \A i \in 1 .. Len(app) : i \in 1 .. Len(s) \/ i = Len(s) + 1
    BY <1>1, <2>2
  <2>4. EachOnce(app, StoreStep)
    BY <1>1, <1>2, <2>1, <2>2, <2>3 DEF EachOnce
  <2> QED BY <1>3, <1>5, <2>4
<1>6. EachOnce(storeSteps', StoreStep)
  BY <1>3, <1>4, <1>5
<1>7. storeActors' \in [Store!ActorIds -> Store!Health]
  <2>1. PICK h \in {"thinking", "healthy"} : Store!WithActor("planner", h)
    BY DEF Store!Step
  <2>2. "planner" \in Store!ActorIds /\ h \in Store!Health
    BY DEF Store!ActorIds, Store!Health
  <2> QED BY <2>1, <2>2, StoreActorsTyped
<1>8. storeMode' \in Store!Modes /\ UNCHANGED <<Store!talk, Store!work>>
  BY DEF Store!Step, StoreInv
<1> QED BY <1>6, <1>7, <1>8, StorePlans

LEMMA StoreApprovals ==
  ASSUME StoreInv,
         \/ \E id \in StoreIds : Store!Requested(id) \/ Store!Resolved(id)
         \/ \E m \in {"idle", "streaming"} : Store!ModeChanged(m)
  PROVE  StoreInv'
<1>1. EachOnce(storeSteps', StoreStep) /\ UNCHANGED <<Store!talk, Store!work>>
  BY DEF Store!Requested, Store!Resolved, Store!ModeChanged, StoreInv
<1>2. storeMode' \in Store!Modes
  BY DEF Store!Requested, Store!Resolved, Store!ModeChanged, StoreInv, Store!Modes
<1>3. storeActors' \in [Store!ActorIds -> Store!Health]
  <2>1. "executor" \in Store!ActorIds /\ "waiting" \in Store!Health
    BY DEF Store!ActorIds, Store!Health
  <2> QED BY <2>1, StoreActorsTyped DEF Store!Requested, Store!Resolved, Store!ModeChanged, StoreInv
<1> QED BY <1>1, <1>2, <1>3, StorePlans

LEMMA StoreKeeps == StoreInv /\ [Store!Next]_storeVars => StoreInv'
<1> SUFFICES ASSUME StoreInv, [Store!Next]_storeVars PROVE StoreInv' OBVIOUS
<1>1. CASE UNCHANGED storeVars
  BY <1>1 DEF storeVars, StoreInv
<1>2. CASE Store!Message
  BY <1>2, StoreMessage
<1>3. CASE Store!Clear \/ Store!Error
  BY <1>3, StoreClearOrError
<1>4. ASSUME NEW role \in {"assistant", "thinking"}, Store!Chunk(role) PROVE StoreInv'
  BY <1>4, StoreChunk
<1>5. ASSUME NEW id \in StoreIds, NEW tool \in StoreTools, Store!Started(id, tool) PROVE StoreInv'
  BY <1>5, StoreStarted
<1>6. ASSUME NEW id \in StoreIds, NEW tool \in StoreTools, NEW status \in Store!CallStatuses,
             Store!ShowCall(id, tool, status)
      PROVE  StoreInv'
  BY <1>6, StoreShowsCall
<1>7. ASSUME NEW id \in StoreIds, NEW status \in {"completed", "failed"}, Store!Settled(id, status)
      PROVE  StoreInv'
  BY <1>7, StoreSettled
<1>8. ASSUME NEW id \in StoreIds, NEW status \in {"running", "completed"},
             Store!Card(id, status) \/ Store!CardItem(id, status)
      PROVE  StoreInv'
  BY <1>8, StoreCard
<1>9. ASSUME NEW id \in StoreIds, Store!TaskCreated(id) PROVE StoreInv'
  BY <1>9, StoreTaskCreated
<1>10. ASSUME NEW id \in StoreIds, NEW status \in Store!TaskStatuses, Store!TaskProgress(id, status)
       PROVE  StoreInv'
  BY <1>10, StoreTaskProgress
<1>11. ASSUME NEW id \in StoreIds, NEW status \in Store!StepStatuses, Store!Step(id, status)
       PROVE  StoreInv'
  BY <1>11, StoreSteps
<1>12. ASSUME NEW ids \in Store!SetToSeqs(StoreIds),
              \/ Store!Goal(ids)
              \/ \E status \in {"pending", "running", "completed"} : Store!Plan(ids, status)
       PROVE  StoreInv'
  BY <1>12, StorePlanned
<1>13. ASSUME \/ \E id \in StoreIds : Store!Requested(id) \/ Store!Resolved(id)
              \/ \E m \in {"idle", "streaming"} : Store!ModeChanged(m)
       PROVE  StoreInv'
  BY <1>13, StoreApprovals
<1>14. ASSUME NEW r \in Store!Reports, Store!Report(r[1], r[2]) PROVE StoreInv'
  BY <1>14, StoreReport
<1> QED BY <1>1, <1>2, <1>3, <1>4, <1>5, <1>6, <1>7, <1>8, <1>9, <1>10, <1>11, <1>12, <1>13, <1>14
        DEF Store!Next

LEMMA StoreHolds == ASSUME StoreInv PROVE Store!StoreIsConsistent
<1>1. /\ DOMAIN storeConversation = 1 .. Len(storeConversation)
      /\ DOMAIN storeToolCalls = 1 .. Len(storeToolCalls)
      /\ DOMAIN storeTasks = 1 .. Len(storeTasks)
      /\ DOMAIN storeSteps = 1 .. Len(storeSteps)
  BY DEF StoreInv, ConversationOK, CallsOK, EachOnce
<1>2. Store!TypeOK
  <2>1. \A i \in DOMAIN storeToolCalls : storeToolCalls[i] \in StoreCall
    BY <1>1 DEF StoreInv, CallsOK
  <2>2. \A i \in DOMAIN storeTasks : storeTasks[i] \in StoreTask
    BY <1>1 DEF StoreInv, EachOnce
  <2>3. \A i \in DOMAIN storeSteps : storeSteps[i] \in StoreStep
    BY <1>1 DEF StoreInv, EachOnce
  <2>4. /\ \A i \in DOMAIN storeToolCalls : storeToolCalls[i].status \in Store!CallStatuses
        /\ \A i \in DOMAIN storeTasks : storeTasks[i].status \in Store!TaskStatuses
        /\ \A i \in DOMAIN storeSteps : storeSteps[i].status \in Store!StepStatuses
    BY <2>1, <2>2, <2>3 DEF StoreCall, StoreTask, StoreStep
  <2> QED BY <2>4 DEF Store!TypeOK, StoreInv, ConversationOK, CallsOK
<1>3. Store!EntriesAreUnique
  BY <1>1 DEF Store!EntriesAreUnique, Store!OneEach, StoreInv, ConversationOK, EachOnce
<1>4. Store!ActiveWhileRunning
  BY <1>1 DEF Store!ActiveWhileRunning, Store!Running, StoreInv, CallsOK
<1> QED BY <1>2, <1>3, <1>4 DEF Store!StoreIsConsistent

-----------------------------------------------------------------------------
(* The terminal.                                                           *)

ScreenCall == [tool : ScreenTools, status : {"running", "completed", "failed"},
               result : Nat \union {None}]
Running(c, t) == {i \in 1 .. Len(c) : c[i].tool = t /\ c[i].status = "running"}
Waited(c, w, t) == {i \in 1 .. Len(c) : c[i].tool = t /\ \E r \in ScreenRuns : w[r] = i}
ListsAll(s, S) ==
  /\ s \in Seq(Nat)
  /\ \A k \in 1 .. Len(s) : s[k] \in S
  /\ \A k, l \in 1 .. Len(s) : s[k] = s[l] => k = l
  /\ \A i \in S : \E k \in 1 .. Len(s) : s[k] = i

\* Each run waits for a call of its own, the open calls of a tool are those shown running,
\* as many as are waited for; and if runs never overlapped, they are the same.
WaitOK(c, w) ==
  /\ w \in [ScreenRuns -> 0 .. Len(c)]
  /\ \A r, q \in ScreenRuns : w[r] = w[q] /\ w[r] # 0 => r = q
OpenOK(c, w, o) ==
  /\ DOMAIN o = ScreenTools
  /\ \A t \in ScreenTools :
       ListsAll(o[t], Running(c, t)) /\ Cardinality(Running(c, t)) = Cardinality(Waited(c, w, t))
ResultsOK(c) ==
  \A i \in 1 .. Len(c) :
    c[i].result # None => c[i].result \in 1 .. Len(c) /\ c[c[i].result].tool = c[i].tool
ActiveOK(c, tool) == tool = None <=> \A i \in 1 .. Len(c) : c[i].status # "running"
OwnOK(c, w) ==
  \A i \in 1 .. Len(c) :
    /\ c[i].result \in {None, i}
    /\ c[i].status = "running" <=> \E r \in ScreenRuns : w[r] = i
CallBook ==
  /\ screenCalls \in Seq(ScreenCall)
  /\ WaitOK(screenCalls, screenWait) /\ OpenOK(screenCalls, screenWait, screenOpen)
  /\ ResultsOK(screenCalls) /\ ActiveOK(screenCalls, screenActiveTool)
  /\ ~screenOverlapped => OwnOK(screenCalls, screenWait)

Busy(u, r) == u[r] \in {"on", "speaking"}
RunBook ==
  /\ screenRun \in [ScreenRuns -> {"none", "on", "speaking", "over"}]
  /\ screenOverlapped \in BOOLEAN
  /\ \A r \in ScreenRuns : screenWait[r] # 0 => screenPart = "runs" /\ screenRun[r] = "on"
  /\ ~screenOverlapped => \A r, q \in ScreenRuns : Busy(screenRun, r) /\ Busy(screenRun, q) => r = q
ShownBusy ==
  /\ screenPart # "runs" \/ (\A r \in ScreenRuns : ~Busy(screenRun, r)) =>
       screenBusy = FALSE /\ screenStreaming = FALSE /\ screenMode = "idle"
  /\ screenPart = "runs" /\ ~screenOverlapped /\ (\E r \in ScreenRuns : Busy(screenRun, r)) =>
       screenBusy = TRUE /\ screenMode = "streaming"

ModelBook ==
  /\ screenAgentModel = screenShownModel
  /\ screenRaced \in BOOLEAN /\ screenOverlay \in BOOLEAN
  /\ ~screenRaced =>
       \/ screenValidating = <<>> /\ screenAgentModel \in ScreenUsable
       \/ \E p \in ScreenUsable : screenValidating = <<[model |-> screenAgentModel, previous |-> p]>>
  /\ screenModels \in {None, screenTier}
  /\ screenLoading \in {None, screenTier} /\ (screenLoading # None => screenOverlay)

ScreenLine == [role : {"system", "user", "assistant", "tool"}, run : Nat]

\* The lines of a run that asked, and of one that has answered or is about to.
LineOK(l, u, S) ==
  l.run \in ScreenRuns =>
    /\ l.role = "user" => u[l.run] # "none"
    /\ l.role = "assistant" => u[l.run] \in S
Lines(s, u, S) == s \in Seq(ScreenLine) /\ \A i \in 1 .. Len(s) : LineOK(s[i], u, S)
ScreenTranscript(s, u) ==
  /\ Lines(s, u, {"over"})
  /\ \A i, j \in 1 .. Len(s) : s[i] = s[j] /\ Screen!Spoken(s[i]) => i = j
TalkOK(s, u) ==
  /\ Lines(s, u, {"speaking", "over"})
  /\ \A i, j \in 1 .. Len(s) : s[i] = s[j] => i = j
Shows(s, gone, l) == l \in gone \/ \E n \in 1 .. Len(s) : s[n] = l
ShowsAll(s, gone, c, u) ==
  /\ \A i \in 1 .. Len(c) : Screen!Spoken(c[i]) => Shows(s, gone, c[i])
  /\ \A r \in ScreenRuns : u[r] = "speaking" => Shows(s, gone, Screen!Line("assistant", r))
SameOrder(s, c) ==
  \A i, j \in 1 .. Len(c), n, k \in 1 .. Len(s) :
    Screen!Spoken(c[i]) /\ Screen!Spoken(c[j]) /\ s[n] = c[i] /\ s[k] = c[j] => (n < k <=> i < j)
SpeaksLast(s, u) ==
  \A r \in ScreenRuns, n \in 1 .. Len(s) :
    u[r] = "speaking" /\ s[n] = Screen!Line("assistant", r) => n = Len(s)
TalkBook ==
  /\ ScreenTranscript(screenContext, screenRun)
  /\ screenSession # None => ScreenTranscript(screenSession, screenRun)
  /\ TalkOK(screenTalk, screenRun)
  /\ ~screenInterrupted => ShowsAll(screenTalk, screenCleared, screenContext, screenRun)
  /\ ~screenOverlapped => SpeaksLast(screenTalk, screenRun)
  /\ ~screenOverlapped /\ ~screenInterrupted => SameOrder(screenTalk, screenContext)
Unspoken == screenTalk = <<>> /\ screenContext = <<>>

TalkPart == IF screenPart = "talk" THEN TalkBook ELSE Unspoken

ScreenInv ==
  CallBook /\ RunBook /\ ShownBusy /\ ModelBook /\ TalkPart /\ screenInterrupted \in BOOLEAN

LEMMA ScreenAssumed ==
  /\ ScreenRuns \subseteq Nat /\ None \notin ScreenTools
  /\ \A s \in ScreenSessions :
       /\ s \in Seq([role : {"system", "user", "assistant", "tool"}, run : Nat \ ScreenRuns])
       /\ \A i, j \in DOMAIN s : s[i] = s[j] /\ Screen!Spoken(s[i]) => i = j
BY BundleAssumption DEF Screen!ShellAssumption

LEMMA ListsMore ==
  ASSUME NEW s, NEW S, ListsAll(s, S), NEW x \in Nat, x \notin S
  PROVE  ListsAll(Append(s, x), S \union {x})
<1> DEFINE q == Append(s, x)
<1>1. /\ q \in Seq(Nat) /\ Len(q) = Len(s) + 1 /\ q[Len(s) + 1] = x /\ Len(s) \in Nat
      /\ \A k \in 1 .. Len(s) : q[k] = s[k] /\ s[k] \in S
  BY DEF ListsAll
<1> HIDE DEF q
<1>2. \A k \in 1 .. Len(q) : k \in 1 .. Len(s) \/ k = Len(s) + 1
  BY <1>1
<1>3. \A k \in 1 .. Len(q) : q[k] \in S \union {x}
  BY <1>1, <1>2
<1>4. \A k, l \in 1 .. Len(q) : q[k] = q[l] => k = l
  BY <1>1, <1>2 DEF ListsAll
<1>5. \A i \in S \union {x} : \E k \in 1 .. Len(q) : q[k] = i
  BY <1>1 DEF ListsAll
<1>6. ListsAll(q, S \union {x})
  BY <1>1, <1>3, <1>4, <1>5 DEF ListsAll
<1> QED BY <1>6 DEF q

LEMMA ListsLess ==
  ASSUME NEW s, NEW S, ListsAll(s, S), S # {}
  PROVE  Head(s) \in S /\ ListsAll(Tail(s), S \ {Head(s)})
<1> DEFINE q == Tail(s)
           x == Head(s)
<1>1. s \in Seq(Nat) /\ s # <<>> /\ Len(s) \in Nat /\ 1 \in 1 .. Len(s)
  BY DEF ListsAll
<1>2. x = s[1] /\ x \in S
  BY <1>1 DEF ListsAll
<1>3. q \in Seq(Nat) /\ Len(q) = Len(s) - 1 /\ \A k \in 1 .. Len(q) : q[k] = s[k + 1]
  BY <1>1
<1> HIDE DEF q, x
<1>4. \A k \in 1 .. Len(q) : k + 1 \in 1 .. Len(s) /\ k + 1 # 1
  BY <1>1, <1>3
<1> DEFINE after(k) == k + 1
<1>9. \A k \in 1 .. Len(q) : after(k) \in 1 .. Len(s) /\ after(k) # 1 /\ q[k] = s[after(k)]
  BY <1>3, <1>4
<1>10. \A k, l \in 1 .. Len(q) : after(k) = after(l) => k = l
  BY <1>3
<1> HIDE DEF after
<1>5. \A k \in 1 .. Len(q) : q[k] \in S \ {x}
  BY <1>1, <1>2, <1>9 DEF ListsAll
<1>6. ASSUME NEW k \in 1 .. Len(q), NEW l \in 1 .. Len(q), q[k] = q[l] PROVE k = l
  <2>1. after(k) \in 1 .. Len(s) /\ after(l) \in 1 .. Len(s) /\ s[after(k)] = s[after(l)]
    BY <1>6, <1>9
  <2>2. \A a, b \in 1 .. Len(s) : s[a] = s[b] => a = b
    BY DEF ListsAll
  <2> QED BY <1>10, <2>1, <2>2
<1>7. ASSUME NEW i \in S \ {x} PROVE \E k \in 1 .. Len(q) : q[k] = i
  <2>1. PICK k \in 1 .. Len(s) : s[k] = i
    BY DEF ListsAll
  <2>2. k - 1 \in 1 .. Len(q) /\ (k - 1) + 1 = k
    BY <1>1, <1>2, <1>3, <2>1
  <2> QED BY <1>3, <2>1, <2>2
<1>8. ListsAll(q, S \ {x})
  BY <1>3, <1>5, <1>6, <1>7 DEF ListsAll
<1> QED BY <1>2, <1>8 DEF q, x

LEMMA FiniteCalls ==
  ASSUME NEW c \in Seq(ScreenCall), NEW w, NEW t
  PROVE  /\ IsFiniteSet(Running(c, t)) /\ IsFiniteSet(Waited(c, w, t))
         /\ Cardinality(Running(c, t)) \in Nat /\ Cardinality(Waited(c, w, t)) \in Nat
<1>1. IsFiniteSet(1 .. Len(c))
  BY FS_Interval
<1>2. Running(c, t) \in SUBSET (1 .. Len(c)) /\ Waited(c, w, t) \in SUBSET (1 .. Len(c))
  BY DEF Running, Waited
<1>3. IsFiniteSet(Running(c, t)) /\ IsFiniteSet(Waited(c, w, t))
  BY <1>1, <1>2, FS_Subset
<1> QED BY <1>3, FS_CardinalityType

\* A run calls a tool.
Adding(c, w, o, r, t, d, v, p) ==
  /\ d = Append(c, [tool |-> t, status |-> "running", result |-> None])
  /\ v = [w EXCEPT ![r] = Len(c) + 1]
  /\ p = [o EXCEPT ![t] = Append(@, Len(c) + 1)]
LEMMA CallAdded ==
  ASSUME NEW c \in Seq(ScreenCall), NEW w, NEW o, WaitOK(c, w), OpenOK(c, w, o), ResultsOK(c),
         NEW r \in ScreenRuns, w[r] = 0, NEW t \in ScreenTools,
         NEW d, NEW v, NEW p, Adding(c, w, o, r, t, d, v, p)
  PROVE  /\ d \in Seq(ScreenCall) /\ WaitOK(d, v) /\ OpenOK(d, v, p) /\ ResultsOK(d) /\ ActiveOK(d, t)
         /\ OwnOK(c, w) => OwnOK(d, v)
<1> DEFINE n == Len(c) + 1
           call == [tool |-> t, status |-> "running", result |-> None]
<1>1. call \in ScreenCall /\ call.tool = t /\ call.status = "running" /\ call.result = None
  BY DEF ScreenCall
<1>11. /\ d = Append(c, call) /\ v = [w EXCEPT ![r] = n] /\ p = [o EXCEPT ![t] = Append(@, n)]
  BY DEF Adding
<1> HIDE DEF call
<1>2. /\ d \in Seq(ScreenCall) /\ Len(d) = n /\ d[n] = call /\ \A i \in 1 .. Len(c) : d[i] = c[i]
      /\ Len(c) \in Nat
  BY <1>1, <1>11
<1>3. \A i \in 1 .. Len(d) : i \in 1 .. Len(c) \/ i = n
  BY <1>2
<1>4. v \in [ScreenRuns -> 0 .. n] /\ v[r] = n /\ \A q \in ScreenRuns \ {r} : v[q] = w[q] /\ w[q] \in 0 .. Len(c)
  BY <1>2, <1>11 DEF WaitOK
<1>5. WaitOK(d, v)
  BY <1>2, <1>4 DEF WaitOK
<1>6. ResultsOK(d)
  <2>1. ASSUME NEW i \in 1 .. Len(c), c[i].result # None
        PROVE  c[i].result \in 1 .. Len(d) /\ d[c[i].result].tool = c[i].tool
    <3>1. c[i].result \in 1 .. Len(c) /\ c[c[i].result].tool = c[i].tool
      BY <2>1 DEF ResultsOK
    <3> QED BY <1>2, <3>1
  <2> QED BY <1>1, <1>2, <1>3, <2>1 DEF ResultsOK
<1>7. ActiveOK(d, t)
  <2>1. t # None /\ n \in 1 .. Len(d)
    BY <1>2, ScreenAssumed
  <2> QED BY <1>1, <1>2, <2>1 DEF ActiveOK
<1>8. ASSUME NEW u \in ScreenTools
      PROVE  ListsAll(p[u], Running(d, u)) /\ Cardinality(Running(d, u)) = Cardinality(Waited(d, v, u))
  <2>1. ListsAll(o[u], Running(c, u)) /\ Cardinality(Running(c, u)) = Cardinality(Waited(c, w, u))
    BY DEF OpenOK
  <2>2. CASE u # t
    <3>1. p[u] = o[u]
      BY <1>11, <2>2 DEF OpenOK
    <3>2. Running(d, u) = Running(c, u)
      BY <1>1, <1>2, <1>3, <2>2 DEF Running
    <3>3. ASSUME NEW i \in 1 .. Len(c) PROVE (\E q \in ScreenRuns : v[q] = i) <=> (\E q \in ScreenRuns : w[q] = i)
      BY <1>2, <1>4
    <3>4. Waited(d, v, u) = Waited(c, w, u)
      BY <1>1, <1>2, <1>3, <2>2, <3>3 DEF Waited
    <3> QED BY <2>1, <3>1, <3>2, <3>4
  <2>3. CASE u = t
    <3>1. p[u] = Append(o[u], n)
      BY <1>11, <2>3 DEF OpenOK
    <3>2. Running(d, u) = Running(c, u) \union {n} /\ n \notin Running(c, u) /\ n \in Nat
      BY <1>1, <1>2, <1>3, <2>3 DEF Running
    <3>3. ASSUME NEW i \in 1 .. Len(c) PROVE (\E q \in ScreenRuns : v[q] = i) <=> (\E q \in ScreenRuns : w[q] = i)
      BY <1>2, <1>4
    <3>4. Waited(d, v, u) = Waited(c, w, u) \union {n} /\ n \notin Waited(c, w, u)
      BY <1>1, <1>2, <1>3, <1>4, <2>3, <3>3 DEF Waited
    <3>5. ListsAll(p[u], Running(d, u))
      BY <2>1, <3>1, <3>2, ListsMore
    <3>8. IsFiniteSet(Running(c, u)) /\ IsFiniteSet(Waited(c, w, u))
      BY FiniteCalls
    <3>6. Cardinality(Running(d, u)) = Cardinality(Running(c, u)) + 1
      <4> DEFINE S == Running(c, u)
                 U == Running(d, u)
      <4>1. U = S \union {n} /\ n \notin S /\ IsFiniteSet(S)
        BY <3>2, <3>8
      <4> HIDE DEF S, U, n
      <4>2. Cardinality(U) = Cardinality(S) + 1
        BY <4>1, FS_AddElement
      <4> QED BY <4>2 DEF S, U
    <3>7. Cardinality(Waited(d, v, u)) = Cardinality(Waited(c, w, u)) + 1
      <4> DEFINE S == Waited(c, w, u)
                 U == Waited(d, v, u)
      <4>1. U = S \union {n} /\ n \notin S /\ IsFiniteSet(S)
        BY <3>4, <3>8
      <4> HIDE DEF S, U, n
      <4>2. Cardinality(U) = Cardinality(S) + 1
        BY <4>1, FS_AddElement
      <4> QED BY <4>2 DEF S, U
    <3> QED BY <2>1, <3>5, <3>6, <3>7
  <2> QED BY <2>2, <2>3
<1>9. OpenOK(d, v, p)
  BY <1>8, <1>11 DEF OpenOK
<1>10. ASSUME OwnOK(c, w) PROVE OwnOK(d, v)
  <2>1. ASSUME NEW i \in 1 .. Len(c) PROVE (\E q \in ScreenRuns : v[q] = i) <=> (\E q \in ScreenRuns : w[q] = i)
    BY <1>2, <1>4
  <2>2. \A i \in 1 .. Len(c) : d[i].result \in {None, i} /\ (d[i].status = "running" <=> \E q \in ScreenRuns : v[q] = i)
    BY <1>2, <1>10, <2>1 DEF OwnOK
  <2>3. d[n].result \in {None, n} /\ (d[n].status = "running" <=> \E q \in ScreenRuns : v[q] = n)
    BY <1>1, <1>2, <1>4
  <2> QED BY <1>3, <2>2, <2>3 DEF OwnOK
<1> QED BY <1>2, <1>5, <1>6, <1>7, <1>9, <1>10

\* A call gets a result: the oldest open one of its tool.
Settling(c, w, o, active, r, status, d, v, p, tool) ==
  LET t == c[w[r]].tool
      h == Head(o[t])
  IN  /\ d = [c EXCEPT ![h].status = status, ![h].result = w[r]]
      /\ v = [w EXCEPT ![r] = 0]
      /\ p = [o EXCEPT ![t] = Tail(@)]
      /\ tool = IF \E i \in DOMAIN d : d[i].status = "running" THEN active ELSE None
LEMMA CallSettled ==
  ASSUME NEW c \in Seq(ScreenCall), NEW w, NEW o, NEW active, WaitOK(c, w), OpenOK(c, w, o),
         ResultsOK(c), ActiveOK(c, active),
         NEW r \in ScreenRuns, NEW n, n = w[r], n # 0, NEW status \in {"completed", "failed"},
         NEW d, NEW v, NEW p, NEW tool, Settling(c, w, o, active, r, status, d, v, p, tool)
  PROVE  /\ d \in Seq(ScreenCall) /\ WaitOK(d, v) /\ OpenOK(d, v, p) /\ ResultsOK(d) /\ ActiveOK(d, tool)
         /\ OwnOK(c, w) /\ (\A q \in ScreenRuns : w[q] # 0 => q = r) => OwnOK(d, v)
<1> DEFINE N == Len(c)
           t == c[n].tool
           h == Head(o[t])
           end == [c[h] EXCEPT !.status = status, !.result = n]
<1>1. N \in Nat /\ n \in 1 .. N /\ n \in Nat /\ c[n] \in ScreenCall /\ t \in ScreenTools
  <2>1. N \in Nat /\ w[r] \in 0 .. N
    BY DEF WaitOK
  <2>2. n \in 1 .. N /\ n \in Nat
    BY <2>1
  <2>3. c[n] \in ScreenCall
    BY <2>2
  <2> QED BY <2>1, <2>2, <2>3 DEF ScreenCall
<1> HIDE DEF t, h, end
<1>2. ListsAll(o[t], Running(c, t)) /\ Cardinality(Running(c, t)) = Cardinality(Waited(c, w, t))
  BY <1>1 DEF OpenOK
<1>3. Running(c, t) # {}
  <2>1. n \in Waited(c, w, t)
    BY <1>1 DEF Waited, t
  <2>2. IsFiniteSet(Running(c, t)) /\ IsFiniteSet(Waited(c, w, t))
    BY FiniteCalls
  <2> QED BY <1>2, <2>1, <2>2, FS_EmptySet
<1>4. h \in Running(c, t) /\ ListsAll(Tail(o[t]), Running(c, t) \ {h})
  BY <1>2, <1>3, ListsLess DEF h
<1>5. h \in 1 .. N /\ c[h].tool = t /\ c[h].status = "running" /\ c[h] \in ScreenCall
  <2>1. h \in 1 .. N /\ c[h].tool = t /\ c[h].status = "running"
    BY <1>4 DEF Running
  <2> QED BY <2>1
<1>6. end \in ScreenCall /\ end.tool = t /\ end.status = status /\ end.result = n
  <2> DEFINE x == c[h]
  <2>1. x \in ScreenCall /\ x.tool = t
    BY <1>5
  <2>2. end = [x EXCEPT !.status = status, !.result = n]
    BY DEF end
  <2> HIDE DEF x
  <2>3. status \in {"running", "completed", "failed"} /\ n \in Nat \union {None}
    BY <1>1
  <2>4. end \in ScreenCall /\ end.tool = x.tool
    BY <2>1, <2>2, <2>3 DEF ScreenCall
  <2>5. end.status = status /\ end.result = n
    BY <2>1, <2>2, <2>3 DEF ScreenCall
  <2> QED BY <2>1, <2>4, <2>5
<1>7. /\ v = [w EXCEPT ![r] = 0] /\ p = [o EXCEPT ![t] = Tail(@)]
      /\ tool = IF \E i \in DOMAIN d : d[i].status = "running" THEN active ELSE None
      /\ d = [c EXCEPT ![h].status = status, ![h].result = n]
  BY Zenon DEF Settling, t, h
<1>8. d = [c EXCEPT ![h] = end]
  BY <1>5, <1>7 DEF end
<1>9. /\ d \in Seq(ScreenCall) /\ Len(d) = N /\ DOMAIN d = 1 .. N
      /\ \A i \in 1 .. N : d[i] = IF i = h THEN end ELSE c[i]
  BY <1>5, <1>6, <1>8
<1> HIDE DEF N
<1>10. \A i \in 1 .. N : d[i].tool = c[i].tool
  BY <1>5, <1>6, <1>9
<1>11. /\ v \in [ScreenRuns -> 0 .. N] /\ v[r] = 0 /\ \A q \in ScreenRuns \ {r} : v[q] = w[q]
       /\ \A q \in ScreenRuns \ {r} : w[q] # n
  <2>1. 0 \in 0 .. N /\ w \in [ScreenRuns -> 0 .. N] /\ w[r] = n
    BY <1>1 DEF WaitOK, N
  <2>2. v \in [ScreenRuns -> 0 .. N] /\ v[r] = 0 /\ \A q \in ScreenRuns \ {r} : v[q] = w[q]
    BY <1>7, <2>1
  <2>3. \A q \in ScreenRuns \ {r} : w[q] # n
    BY DEF WaitOK
  <2> QED BY <2>2, <2>3
<1>12. WaitOK(d, v)
  BY <1>9, <1>11 DEF WaitOK, N
<1>13. ResultsOK(d)
  <2>1. ASSUME NEW i \in 1 .. N, d[i].result # None
        PROVE  d[i].result \in 1 .. N /\ d[d[i].result].tool = d[i].tool
    <3>1. CASE i = h
      <4>1. d[i].result = n /\ d[i].tool = t
        BY <1>6, <1>9, <3>1
      <4>2. d[n].tool = t
        BY <1>1, <1>10 DEF t
      <4> QED BY <1>1, <4>1, <4>2
    <3>2. CASE i # h
      <4>1. c[i].result \in 1 .. N /\ c[c[i].result].tool = c[i].tool /\ d[i] = c[i]
        BY <1>9, <2>1, <3>2 DEF ResultsOK, N
      <4> QED BY <1>10, <4>1
    <3> QED BY <3>1, <3>2
  <2> QED BY <1>9, <2>1 DEF ResultsOK
<1>14. ActiveOK(d, tool)
  <2>1. \A i \in 1 .. N : d[i].status = "running" => c[i].status = "running"
    BY <1>6, <1>9
  <2> QED BY <1>7, <1>9, <2>1 DEF ActiveOK, N
<1>15. ASSUME NEW i \in 1 .. N, i # n PROVE (\E q \in ScreenRuns : v[q] = i) <=> (\E q \in ScreenRuns : w[q] = i)
  <2>1. i # 0
    BY <1>1
  <2>2. w[r] = n
    OBVIOUS
  <2> QED BY <1>11, <1>15, <2>1, <2>2
<1>16. ~ \E q \in ScreenRuns : v[q] = n
  BY <1>11
<1>17. ASSUME NEW u \in ScreenTools
       PROVE  ListsAll(p[u], Running(d, u)) /\ Cardinality(Running(d, u)) = Cardinality(Waited(d, v, u))
  <2>1. ListsAll(o[u], Running(c, u)) /\ Cardinality(Running(c, u)) = Cardinality(Waited(c, w, u))
    BY DEF OpenOK
  <2>2. CASE u # t
    <3>1. p[u] = o[u]
      BY <1>7, <2>2 DEF OpenOK
    <3>2. Running(d, u) = Running(c, u)
      BY <1>5, <1>9, <1>10, <2>2 DEF Running, N
    <3>3. Waited(d, v, u) = Waited(c, w, u)
      <4>1. \A i \in 1 .. N : c[i].tool = u => i # n
        BY <2>2 DEF t
      <4> QED BY <1>9, <1>10, <1>15, <4>1 DEF Waited, N
    <3> QED BY <2>1, <3>1, <3>2, <3>3
  <2>3. CASE u = t
    <3>1. p[u] = Tail(o[u])
      BY <1>7, <2>3 DEF OpenOK
    <3>2. Running(d, u) = Running(c, u) \ {h} /\ h \in Running(c, u)
      BY <1>5, <1>6, <1>9, <1>10, <2>3 DEF Running, N
    <3>3. Waited(d, v, u) = Waited(c, w, u) \ {n} /\ n \in Waited(c, w, u)
      <4>1. n \in Waited(c, w, u) /\ n \notin Waited(d, v, u)
        BY <1>1, <1>16, <2>3 DEF Waited, N, t
      <4>2. \A i \in 1 .. N : i # n => (i \in Waited(d, v, u) <=> i \in Waited(c, w, u))
        BY <1>9, <1>10, <1>15 DEF Waited, N
      <4>3. Waited(d, v, u) \subseteq 1 .. N /\ Waited(c, w, u) \subseteq 1 .. N
        BY <1>9 DEF Waited, N
      <4> QED BY <4>1, <4>2, <4>3
    <3>6. IsFiniteSet(Running(c, u)) /\ IsFiniteSet(Waited(c, w, u))
      BY FiniteCalls
    <3>4. Cardinality(Running(d, u)) = Cardinality(Running(c, u)) - 1
      BY <3>2, <3>6, FS_RemoveElement
    <3>5. Cardinality(Waited(d, v, u)) = Cardinality(Waited(c, w, u)) - 1
      BY <3>3, <3>6, FS_RemoveElement
    <3> QED BY <1>4, <2>1, <2>3, <3>1, <3>2, <3>4, <3>5
  <2> QED BY <2>2, <2>3
<1>18. OpenOK(d, v, p)
  <2>1. DOMAIN p = ScreenTools
    BY <1>7 DEF OpenOK
  <2> QED BY <1>17, <2>1 DEF OpenOK
<1>19. ASSUME OwnOK(c, w), \A q \in ScreenRuns : w[q] # 0 => q = r PROVE OwnOK(d, v)
  <2>1. PICK q \in ScreenRuns : w[q] = h
    BY <1>5, <1>19 DEF OwnOK, N
  <2>2. h = n
    <3>1. h # 0
      BY <1>1, <1>5
    <3> QED BY <1>19, <2>1, <3>1
  <2>3. ASSUME NEW i \in 1 .. N
        PROVE  d[i].result \in {None, i} /\ (d[i].status = "running" <=> \E x \in ScreenRuns : v[x] = i)
    <3>1. CASE i = n
      BY <1>6, <1>9, <1>16, <2>2, <3>1
    <3>2. CASE i # n
      <4>1. d[i] = c[i]
        BY <1>9, <2>2, <3>2
      <4>2. c[i].result \in {None, i} /\ (c[i].status = "running" <=> \E x \in ScreenRuns : w[x] = i)
        BY <1>19 DEF OwnOK, N
      <4> QED BY <1>15, <3>2, <4>1, <4>2
    <3> QED BY <3>1, <3>2
  <2> QED BY <1>9, <2>3 DEF OwnOK
<1> QED BY <1>9, <1>12, <1>13, <1>14, <1>18, <1>19

LEMMA CallsCounted ==
  ASSUME CallBook, NEW r \in ScreenRuns, NEW t \in ScreenTools, Screen!Call(r, t) PROVE CallBook'
<1>1. /\ screenCalls \in Seq(ScreenCall) /\ WaitOK(screenCalls, screenWait)
      /\ OpenOK(screenCalls, screenWait, screenOpen) /\ ResultsOK(screenCalls)
      /\ ~screenOverlapped => OwnOK(screenCalls, screenWait)
  BY DEF CallBook
<1>2. /\ screenWait[r] = 0 /\ screenActiveTool' = t /\ screenOverlapped' = screenOverlapped
      /\ Adding(screenCalls, screenWait, screenOpen, r, t, screenCalls', screenWait', screenOpen')
  BY DEF Screen!Call, Screen!Free, Adding
<1>3. /\ screenCalls' \in Seq(ScreenCall) /\ WaitOK(screenCalls', screenWait')
      /\ OpenOK(screenCalls', screenWait', screenOpen') /\ ResultsOK(screenCalls')
      /\ ActiveOK(screenCalls', screenActiveTool')
      /\ OwnOK(screenCalls, screenWait) => OwnOK(screenCalls', screenWait')
  BY <1>1, <1>2, CallAdded
<1> QED BY <1>1, <1>2, <1>3 DEF CallBook

LEMMA ResultsCounted ==
  ASSUME CallBook, RunBook, NEW r \in ScreenRuns, NEW failed \in BOOLEAN, Screen!Result(r, failed)
  PROVE  CallBook'
<1> DEFINE n == screenWait[r]
           status == IF failed THEN "failed" ELSE "completed"
<1>1. /\ screenCalls \in Seq(ScreenCall) /\ WaitOK(screenCalls, screenWait)
      /\ OpenOK(screenCalls, screenWait, screenOpen) /\ ResultsOK(screenCalls)
      /\ ActiveOK(screenCalls, screenActiveTool)
      /\ ~screenOverlapped => OwnOK(screenCalls, screenWait)
  BY DEF CallBook
<1>2. n # 0 /\ status \in {"completed", "failed"} /\ screenOverlapped' = screenOverlapped
  <2>1. screenWait[r] # 0 /\ screenOverlapped' = screenOverlapped
    BY Zenon DEF Screen!Result
  <2> QED BY <2>1
<1>3. Settling(screenCalls, screenWait, screenOpen, screenActiveTool, r, status,
               screenCalls', screenWait', screenOpen', screenActiveTool')
  BY Zenon DEF Screen!Result, Screen!Settled, Settling
<1>4. ASSUME ~screenOverlapped, NEW q \in ScreenRuns, screenWait[q] # 0 PROVE q = r
  <2>1. Busy(screenRun, q) /\ Busy(screenRun, r)
    BY <1>2, <1>4 DEF RunBook, Busy
  <2> QED BY <1>4, <2>1 DEF RunBook
<1> HIDE DEF status
<1>5. /\ screenCalls' \in Seq(ScreenCall) /\ WaitOK(screenCalls', screenWait')
      /\ OpenOK(screenCalls', screenWait', screenOpen') /\ ResultsOK(screenCalls')
      /\ ActiveOK(screenCalls', screenActiveTool')
      /\ OwnOK(screenCalls, screenWait) /\ (\A q \in ScreenRuns : screenWait[q] # 0 => q = r)
           => OwnOK(screenCalls', screenWait')
  BY <1>1, <1>2, <1>3, CallSettled
<1> QED BY <1>1, <1>2, <1>4, <1>5 DEF CallBook

LEMMA RunStarts ==
  ASSUME RunBook, NEW r \in ScreenRuns, screenRun[r] = "none",
         screenRun' = [screenRun EXCEPT ![r] = "on"],
         screenOverlapped' = (screenOverlapped \/ Screen!UnderWay # {}),
         UNCHANGED <<screenPart, screenWait>>
  PROVE  RunBook' /\ (~screenOverlapped' => ~screenOverlapped /\ \A q \in ScreenRuns : ~Busy(screenRun, q))
<1>1. /\ screenRun' \in [ScreenRuns -> {"none", "on", "speaking", "over"}] /\ screenRun'[r] = "on"
      /\ \A q \in ScreenRuns \ {r} : screenRun'[q] = screenRun[q]
  BY DEF RunBook
<1>2. screenOverlapped' \in BOOLEAN
  OBVIOUS
<1>3. ~screenOverlapped' => ~screenOverlapped /\ \A q \in ScreenRuns : ~Busy(screenRun, q)
  BY DEF RunBook, Screen!UnderWay, Busy
<1>4. \A q \in ScreenRuns : screenWait'[q] # 0 => screenPart' = "runs" /\ screenRun'[q] = "on"
  BY <1>1 DEF RunBook
<1>5. ~screenOverlapped' => \A p, q \in ScreenRuns : Busy(screenRun', p) /\ Busy(screenRun', q) => p = q
  BY <1>1, <1>3 DEF Busy
<1> QED BY <1>1, <1>2, <1>3, <1>4, <1>5 DEF RunBook

LEMMA RunMoves ==
  ASSUME RunBook, NEW r \in ScreenRuns, Busy(screenRun, r), screenWait[r] = 0,
         NEW x \in {"speaking", "over"}, screenRun' = [screenRun EXCEPT ![r] = x],
         UNCHANGED <<screenPart, screenWait, screenOverlapped>>
  PROVE  RunBook'
<1>1. /\ screenRun' \in [ScreenRuns -> {"none", "on", "speaking", "over"}] /\ screenRun'[r] = x
      /\ \A q \in ScreenRuns \ {r} : screenRun'[q] = screenRun[q]
  BY DEF RunBook
<1>2. \A q \in ScreenRuns : screenWait'[q] # 0 => screenPart' = "runs" /\ screenRun'[q] = "on"
  BY <1>1 DEF RunBook
<1>3. \A q \in ScreenRuns : Busy(screenRun', q) => Busy(screenRun, q)
  BY <1>1 DEF Busy
<1> QED BY <1>1, <1>2, <1>3 DEF RunBook

\* What is said does not change.
LEMMA NothingSaid ==
  ASSUME TalkPart, UNCHANGED screenPart, UNCHANGED <<screenTalk, screenContext, screenSession>>,
         UNCHANGED <<screenCleared, screenInterrupted>>,
         screenPart = "runs" \/ UNCHANGED <<screenRun, screenOverlapped>>
  PROVE  TalkPart'
<1>1. CASE screenPart = "runs"
  BY <1>1 DEF TalkPart, Unspoken
<1>2. CASE UNCHANGED <<screenRun, screenOverlapped>>
  <2>1. TalkBook => TalkBook'
    BY <1>2 DEF TalkBook
  <2>2. Unspoken => Unspoken'
    BY DEF Unspoken
  <2> QED BY <2>1, <2>2 DEF TalkPart
<1> QED BY <1>1, <1>2

LEMMA RunActs ==
  ASSUME ScreenInv, NEW r \in ScreenRuns,
         \/ Screen!Submit(r) \/ Screen!Text(r) \/ Screen!End(r)
         \/ \E t \in ScreenTools : Screen!Call(r, t)
         \/ \E failed \in BOOLEAN : Screen!Result(r, failed)
  PROVE  ScreenInv'
<1>1. CallBook /\ RunBook /\ ShownBusy /\ ModelBook /\ TalkPart /\ screenInterrupted \in BOOLEAN
  BY DEF ScreenInv
<1>2. /\ UNCHANGED screenPart /\ UNCHANGED <<screenTalk, screenContext, screenSession>>
      /\ UNCHANGED <<screenCleared, screenInterrupted>>
      /\ UNCHANGED Screen!model /\ screenPart = "runs"
  BY <1>1 DEF Screen!Submit, Screen!Text, Screen!End, Screen!Call, Screen!Result, Screen!Free,
              Screen!said, RunBook
<1>3. TalkPart' /\ screenInterrupted' \in BOOLEAN
  BY <1>1, <1>2, NothingSaid
<1>4. ModelBook'
  BY <1>1, <1>2 DEF Screen!model, ModelBook
<1>5. CASE Screen!Submit(r)
  <2>1. /\ screenRun[r] = "none" /\ screenRun' = [screenRun EXCEPT ![r] = "on"]
        /\ screenOverlapped' = (screenOverlapped \/ Screen!UnderWay # {})
        /\ UNCHANGED <<screenPart, screenWait>>
        /\ UNCHANGED <<screenCalls, screenOpen, screenActiveTool>>
        /\ screenBusy' = TRUE /\ screenMode' = "streaming"
    BY <1>5 DEF Screen!Submit
  <2>2. RunBook' /\ (~screenOverlapped' => ~screenOverlapped)
    BY <1>1, <2>1, RunStarts
  <2>3. CallBook'
    BY <1>1, <2>1, <2>2 DEF CallBook
  <2>4. Busy(screenRun', r)
    BY <1>1, <2>1 DEF RunBook, Busy
  <2>5. ShownBusy'
    BY <1>2, <2>1, <2>4 DEF ShownBusy
  <2> QED BY <1>3, <1>4, <2>2, <2>3, <2>5 DEF ScreenInv
<1>6. CASE Screen!Text(r)
  <2>1. /\ UNCHANGED <<screenRun, screenPart, screenWait, screenOverlapped>>
        /\ UNCHANGED <<screenCalls, screenOpen, screenActiveTool, screenBusy, screenMode>>
        /\ screenRun[r] = "on"
    BY <1>6 DEF Screen!Text, Screen!Free
  <2>2. RunBook' /\ CallBook'
    BY <1>1, <2>1 DEF RunBook, CallBook
  <2>3. ShownBusy'
    BY <1>1, <1>2, <2>1 DEF ShownBusy, Busy
  <2> QED BY <1>3, <1>4, <2>2, <2>3 DEF ScreenInv
<1>7. CASE Screen!End(r)
  <2>1. /\ screenRun' = [screenRun EXCEPT ![r] = "over"] /\ screenRun[r] = "on" /\ screenWait[r] = 0
        /\ UNCHANGED <<screenPart, screenWait, screenOverlapped>>
        /\ UNCHANGED <<screenCalls, screenOpen, screenActiveTool>>
        /\ screenBusy' = FALSE /\ screenStreaming' = FALSE /\ screenMode' = "idle"
    BY <1>7 DEF Screen!End, Screen!Free
  <2>2. Busy(screenRun, r)
    BY <2>1 DEF Busy
  <2>3. RunBook'
    BY <1>1, <2>1, <2>2, RunMoves
  <2>4. CallBook'
    BY <1>1, <2>1 DEF CallBook
  <2>5. ASSUME ~screenOverlapped, NEW q \in ScreenRuns PROVE ~Busy(screenRun', q)
    <3>1. CASE q = r
      BY <1>1, <2>1, <3>1 DEF RunBook, Busy
    <3>2. CASE q # r
      BY <1>1, <2>1, <2>2, <2>5, <3>2 DEF RunBook, Busy
    <3> QED BY <3>1, <3>2
  <2>6. ShownBusy'
    BY <2>1, <2>5 DEF ShownBusy
  <2> QED BY <1>3, <1>4, <2>3, <2>4, <2>6 DEF ScreenInv
<1>8. ASSUME NEW t \in ScreenTools, Screen!Call(r, t) PROVE ScreenInv'
  <2>1. CallBook'
    BY <1>1, <1>8, CallsCounted
  <2>2. /\ UNCHANGED <<screenRun, screenPart, screenOverlapped, screenBusy, screenMode, screenStreaming>>
        /\ screenWait' = [screenWait EXCEPT ![r] = Len(screenCalls) + 1] /\ screenRun[r] = "on"
    BY <1>8 DEF Screen!Call, Screen!Free
  <2>3. \A q \in ScreenRuns : screenWait'[q] # 0 => screenPart' = "runs" /\ screenRun'[q] = "on"
    BY <1>1, <1>2, <2>2 DEF RunBook, CallBook, WaitOK
  <2>4. RunBook' /\ ShownBusy'
    BY <1>1, <2>2, <2>3 DEF RunBook, ShownBusy
  <2> QED BY <1>3, <1>4, <2>1, <2>4 DEF ScreenInv
<1>9. ASSUME NEW failed \in BOOLEAN, Screen!Result(r, failed) PROVE ScreenInv'
  <2>1. CallBook'
    BY <1>1, <1>9, ResultsCounted
  <2>2. /\ UNCHANGED <<screenRun, screenPart, screenOverlapped, screenBusy, screenMode, screenStreaming>>
        /\ screenWait' = [screenWait EXCEPT ![r] = 0]
    BY <1>9 DEF Screen!Result
  <2>3. \A q \in ScreenRuns : screenWait'[q] # 0 => screenPart' = "runs" /\ screenRun'[q] = "on"
    BY <1>1, <1>2, <2>2 DEF RunBook, CallBook, WaitOK
  <2>4. RunBook' /\ ShownBusy'
    BY <1>1, <2>2, <2>3 DEF RunBook, ShownBusy
  <2> QED BY <1>3, <1>4, <2>1, <2>4 DEF ScreenInv
<1> QED BY <1>5, <1>6, <1>7, <1>8, <1>9

-----------------------------------------------------------------------------

\* A list of one less its entry.
LEMMA OneTaken ==
  ASSUME NEW x, NEW i \in DOMAIN <<x>>
  PROVE  i = 1 /\ Screen!RemoveAt(<<x>>, i) = <<>>
<1>1. i = 1
  OBVIOUS
<1>2. Screen!RemoveAt(<<x>>, 1) = SubSeq(<<x>>, 1, 0) \o SubSeq(<<x>>, 2, 1)
  BY DEF Screen!RemoveAt
<1>3. SubSeq(<<x>>, 1, 0) = <<>> /\ SubSeq(<<x>>, 2, 1) = <<>>
  OBVIOUS
<1> QED BY <1>1, <1>2, <1>3

\* The model of the agent is the one shown; it answers, unless one switch is being
\* validated or two were.
LEMMA ModelActs ==
  ASSUME ScreenInv,
         \/ \E m \in ScreenModels : Screen!SetModel(m)
         \/ \E i \in DOMAIN screenValidating : Screen!Validated(i)
         \/ \E t \in ScreenTiers : Screen!SetTier(t)
         \/ Screen!OpenSwitcher \/ Screen!CloseSwitcher \/ Screen!Listed
  PROVE  ScreenInv'
<1>1. CallBook /\ RunBook /\ ShownBusy /\ ModelBook /\ TalkPart /\ screenInterrupted \in BOOLEAN
  BY DEF ScreenInv
<1>2. UNCHANGED screenPart /\ UNCHANGED Screen!work /\ UNCHANGED Screen!said
  BY DEF Screen!SetModel, Screen!Validated, Screen!SetTier, Screen!OpenSwitcher,
         Screen!CloseSwitcher, Screen!Listed
<1>3. CallBook' /\ RunBook' /\ ShownBusy'
  BY <1>1, <1>2 DEF Screen!work, CallBook, RunBook, ShownBusy
<1>4. TalkPart' /\ screenInterrupted' \in BOOLEAN
  BY <1>1, <1>2, NothingSaid DEF Screen!work, Screen!said
<1>5. ASSUME NEW m \in ScreenModels, Screen!SetModel(m) PROVE ModelBook'
  <2>1. /\ screenRaced' = (screenRaced \/ screenValidating # <<>>)
        /\ screenAgentModel' = m /\ screenShownModel' = m
        /\ screenValidating' = Append(screenValidating, [model |-> m, previous |-> screenShownModel])
        /\ UNCHANGED <<screenTier, screenOverlay, screenLoading, screenModels>>
    BY <1>5 DEF Screen!SetModel
  <2>2. ASSUME ~screenRaced'
        PROVE  \E p \in ScreenUsable : screenValidating' = <<[model |-> screenAgentModel', previous |-> p]>>
    <3>1. screenValidating = <<>> /\ screenAgentModel \in ScreenUsable /\ screenShownModel = screenAgentModel
      <4>1. ~screenRaced /\ screenValidating = <<>>
        BY <2>1, <2>2
      <4>2. \A x : <<x>> # <<>>
        OBVIOUS
      <4>3. screenAgentModel = screenShownModel
        BY <1>1 DEF ModelBook
      <4> QED BY <1>1, <4>1, <4>2, <4>3, Zenon DEF ModelBook
    <3>2. screenValidating' = <<[model |-> m, previous |-> screenAgentModel]>>
      BY <2>1, <3>1
    <3> QED BY <2>1, <3>1, <3>2
  <2>3. screenRaced' \in BOOLEAN
    BY <2>1
  <2> QED BY <1>1, <2>1, <2>2, <2>3 DEF ModelBook
<1>6. ASSUME NEW i \in DOMAIN screenValidating, Screen!Validated(i) PROVE ModelBook'
  <2>1. /\ screenValidating' = Screen!RemoveAt(screenValidating, i)
        /\ IF screenValidating[i].model \in ScreenUsable THEN UNCHANGED <<screenAgentModel, screenShownModel>>
           ELSE /\ screenAgentModel' = screenValidating[i].previous
                /\ screenShownModel' = screenValidating[i].previous
        /\ UNCHANGED <<screenTier, screenOverlay, screenLoading, screenModels, screenRaced>>
    BY <1>6 DEF Screen!Validated
  <2>2. ASSUME ~screenRaced PROVE screenValidating' = <<>> /\ screenAgentModel' \in ScreenUsable
    <3>1. screenValidating # <<>>
      BY <1>6
    <3>2. PICK p \in ScreenUsable : screenValidating = <<[model |-> screenAgentModel, previous |-> p]>>
      BY <1>1, <2>2, <3>1 DEF ModelBook
    <3>3. i = 1 /\ screenValidating' = <<>>
      BY <2>1, <3>2, OneTaken
    <3>4. screenValidating[i].model = screenAgentModel /\ screenValidating[i].previous = p
      BY <3>2, <3>3
    <3> QED BY <2>1, <3>3, <3>4
  <2>3. screenAgentModel' = screenShownModel'
    BY <1>1, <2>1 DEF ModelBook
  <2> QED BY <1>1, <2>1, <2>2, <2>3 DEF ModelBook
<1>7. ASSUME NEW t \in ScreenTiers, Screen!SetTier(t) PROVE ModelBook'
  BY <1>1, <1>7 DEF Screen!SetTier, ModelBook
<1>8. CASE Screen!OpenSwitcher
  BY <1>1, <1>3, <1>4, <1>8 DEF Screen!OpenSwitcher, ModelBook, ScreenInv
<1>9. CASE Screen!CloseSwitcher
  BY <1>1, <1>3, <1>4, <1>9 DEF Screen!CloseSwitcher, ModelBook, ScreenInv
<1>10. CASE Screen!Listed
  BY <1>1, <1>3, <1>4, <1>10 DEF Screen!Listed, ModelBook, ScreenInv
<1> QED BY <1>3, <1>4, <1>5, <1>6, <1>7, <1>8, <1>9, <1>10 DEF ScreenInv

-----------------------------------------------------------------------------

\* What a list is with one more.
LEMMA OneMore ==
  ASSUME NEW T, NEW s \in Seq(T), NEW l \in T, NEW q, q = Append(s, l)
  PROVE  /\ q \in Seq(T) /\ Len(q) = Len(s) + 1 /\ Len(s) \in Nat /\ q[Len(s) + 1] = l
         /\ \A i \in 1 .. Len(s) : q[i] = s[i] /\ i \in 1 .. Len(q)
         /\ \A i \in 1 .. Len(q) : i \in 1 .. Len(s) \/ i = Len(s) + 1
         /\ Len(s) + 1 \in 1 .. Len(q)
OBVIOUS

\* A run goes on, and what was known of it stays true.
Later(u, v) ==
  \A r \in ScreenRuns :
    /\ u[r] # "none" => v[r] # "none"
    /\ u[r] = "over" => v[r] = "over"
    /\ u[r] = "speaking" => v[r] \in {"speaking", "over"}

LEMMA LinesStay ==
  ASSUME NEW s, NEW u, NEW v, Later(u, v)
  PROVE  /\ Lines(s, u, {"over"}) => Lines(s, v, {"over"})
         /\ Lines(s, u, {"speaking", "over"}) => Lines(s, v, {"speaking", "over"})
BY DEF Lines, LineOK, Later

LEMMA ShowsStay ==
  ASSUME NEW s, NEW u, NEW v, Later(u, v)
  PROVE  /\ ScreenTranscript(s, u) => ScreenTranscript(s, v)
         /\ TalkOK(s, u) => TalkOK(s, v)
BY LinesStay DEF ScreenTranscript, TalkOK

\* A new line is added to a transcript or to the screen.
LEMMA LinesMore ==
  ASSUME NEW s, NEW u, NEW S, Lines(s, u, S), NEW l \in ScreenLine, LineOK(l, u, S)
  PROVE  Lines(Append(s, l), u, S)
<1> DEFINE q == Append(s, l)
<1>1. s \in Seq(ScreenLine)
  BY DEF Lines
<1>2. /\ q \in Seq(ScreenLine) /\ q[Len(s) + 1] = l /\ \A i \in 1 .. Len(s) : q[i] = s[i]
      /\ \A i \in 1 .. Len(q) : i \in 1 .. Len(s) \/ i = Len(s) + 1
  BY <1>1, OneMore
<1> HIDE DEF q
<1>3. Lines(q, u, S)
  BY <1>2 DEF Lines
<1> QED BY <1>3 DEF q

LEMMA TranscriptMore ==
  ASSUME NEW s, NEW u, ScreenTranscript(s, u), NEW l \in ScreenLine, LineOK(l, u, {"over"}),
         \A i \in 1 .. Len(s) : s[i] # l
  PROVE  ScreenTranscript(Append(s, l), u)
<1> DEFINE q == Append(s, l)
<1>1. s \in Seq(ScreenLine)
  BY DEF ScreenTranscript, Lines
<1>2. /\ q[Len(s) + 1] = l /\ \A i \in 1 .. Len(s) : q[i] = s[i]
      /\ \A i \in 1 .. Len(q) : i \in 1 .. Len(s) \/ i = Len(s) + 1
  BY <1>1, OneMore
<1>3. Lines(q, u, {"over"})
  BY LinesMore DEF ScreenTranscript
<1> HIDE DEF q
<1>4. ScreenTranscript(q, u)
  BY <1>2, <1>3 DEF ScreenTranscript
<1> QED BY <1>4 DEF q

LEMMA TalkMore ==
  ASSUME NEW s, NEW u, TalkOK(s, u), NEW l \in ScreenLine, LineOK(l, u, {"speaking", "over"}),
         \A i \in 1 .. Len(s) : s[i] # l
  PROVE  TalkOK(Append(s, l), u)
<1> DEFINE q == Append(s, l)
<1>1. s \in Seq(ScreenLine)
  BY DEF TalkOK, Lines
<1>2. /\ q[Len(s) + 1] = l /\ \A i \in 1 .. Len(s) : q[i] = s[i]
      /\ \A i \in 1 .. Len(q) : i \in 1 .. Len(s) \/ i = Len(s) + 1
  BY <1>1, OneMore
<1>3. Lines(q, u, {"speaking", "over"})
  BY LinesMore DEF TalkOK
<1> HIDE DEF q
<1>4. TalkOK(q, u)
  BY <1>2, <1>3 DEF TalkOK
<1> QED BY <1>4 DEF q

\* A new line of both, of the screen alone, or of the transcript when it is the last of
\* the screen, keeps them in one order.
LEMMA OrderOfBoth ==
  ASSUME NEW s \in Seq(ScreenLine), NEW c \in Seq(ScreenLine), NEW l \in ScreenLine,
         \A n \in 1 .. Len(s) : s[n] # l, \A i \in 1 .. Len(c) : c[i] # l, SameOrder(s, c)
  PROVE  SameOrder(Append(s, l), Append(c, l))
<1> DEFINE q == Append(s, l)
           d == Append(c, l)
<1>1. /\ q[Len(s) + 1] = l /\ Len(s) \in Nat /\ \A n \in 1 .. Len(s) : q[n] = s[n]
      /\ \A n \in 1 .. Len(q) : n \in 1 .. Len(s) \/ n = Len(s) + 1
  BY OneMore
<1>2. /\ d[Len(c) + 1] = l /\ Len(c) \in Nat /\ \A i \in 1 .. Len(c) : d[i] = c[i]
      /\ \A i \in 1 .. Len(d) : i \in 1 .. Len(c) \/ i = Len(c) + 1
  BY OneMore
<1> HIDE DEF q, d
<1>3. SUFFICES ASSUME NEW i \in 1 .. Len(d), NEW j \in 1 .. Len(d), NEW n \in 1 .. Len(q),
                      NEW k \in 1 .. Len(q), Screen!Spoken(d[i]), Screen!Spoken(d[j]),
                      q[n] = d[i], q[k] = d[j]
               PROVE  n < k <=> i < j
  BY DEF SameOrder, q, d
<1>4. (i = Len(c) + 1 <=> n = Len(s) + 1) /\ (j = Len(c) + 1 <=> k = Len(s) + 1)
  BY <1>1, <1>2, <1>3
<1>5. CASE i \in 1 .. Len(c) /\ j \in 1 .. Len(c)
  <2>1. n \in 1 .. Len(s) /\ k \in 1 .. Len(s)
    BY <1>1, <1>2, <1>4, <1>5
  <2>2. /\ Screen!Spoken(c[i]) /\ Screen!Spoken(c[j]) /\ s[n] = c[i] /\ s[k] = c[j]
    BY <1>1, <1>2, <1>3, <1>5, <2>1
  <2> QED BY <1>5, <2>1, <2>2 DEF SameOrder
<1>6. CASE ~(i \in 1 .. Len(c) /\ j \in 1 .. Len(c))
  BY <1>1, <1>2, <1>3, <1>4, <1>6
<1> QED BY <1>5, <1>6

LEMMA OrderOfTalk ==
  ASSUME NEW s \in Seq(ScreenLine), NEW c \in Seq(ScreenLine), NEW l \in ScreenLine,
         \A i \in 1 .. Len(c) : c[i] # l, SameOrder(s, c)
  PROVE  SameOrder(Append(s, l), c)
<1> DEFINE q == Append(s, l)
<1>1. /\ q[Len(s) + 1] = l /\ Len(s) \in Nat /\ \A n \in 1 .. Len(s) : q[n] = s[n]
      /\ \A n \in 1 .. Len(q) : n \in 1 .. Len(s) \/ n = Len(s) + 1
  BY OneMore
<1> HIDE DEF q
<1>2. \A n \in 1 .. Len(q), i \in 1 .. Len(c) : q[n] = c[i] => n \in 1 .. Len(s) /\ s[n] = c[i]
  BY <1>1
<1>3. SameOrder(q, c)
  BY <1>2 DEF SameOrder
<1> QED BY <1>3 DEF q

LEMMA OrderOfContext ==
  ASSUME NEW s \in Seq(ScreenLine), NEW c \in Seq(ScreenLine), NEW l \in ScreenLine,
         \A i \in 1 .. Len(c) : c[i] # l, \A n \in 1 .. Len(s) : s[n] = l => n = Len(s), SameOrder(s, c)
  PROVE  SameOrder(s, Append(c, l))
<1> DEFINE d == Append(c, l)
<1>1. /\ d[Len(c) + 1] = l /\ Len(c) \in Nat /\ \A i \in 1 .. Len(c) : d[i] = c[i]
      /\ \A i \in 1 .. Len(d) : i \in 1 .. Len(c) \/ i = Len(c) + 1
  BY OneMore
<1>2. Len(s) \in Nat
  OBVIOUS
<1> HIDE DEF d
<1>3. SUFFICES ASSUME NEW i \in 1 .. Len(d), NEW j \in 1 .. Len(d), NEW n \in 1 .. Len(s),
                      NEW k \in 1 .. Len(s), Screen!Spoken(d[i]), Screen!Spoken(d[j]),
                      s[n] = d[i], s[k] = d[j]
               PROVE  n < k <=> i < j
  BY DEF SameOrder, d
<1>4. CASE i \in 1 .. Len(c) /\ j \in 1 .. Len(c)
  BY <1>1, <1>3, <1>4 DEF SameOrder
<1>5. CASE i \in 1 .. Len(c) /\ j = Len(c) + 1
  <2>1. k = Len(s) /\ s[n] # l /\ s[k] = l
    BY <1>1, <1>3, <1>5
  <2>2. n # k
    BY <2>1
  <2> QED BY <1>1, <1>2, <1>5, <2>1, <2>2
<1>6. CASE i = Len(c) + 1
  <2>1. n = Len(s)
    BY <1>1, <1>3, <1>6
  <2> QED BY <1>1, <1>2, <1>6, <2>1
<1> QED BY <1>1, <1>4, <1>5, <1>6

LEMMA ShowsMore ==
  ASSUME NEW s \in Seq(ScreenLine), NEW gone, NEW l \in ScreenLine
  PROVE  /\ \A x : Shows(s, gone, x) => Shows(Append(s, l), gone, x)
         /\ Shows(Append(s, l), gone, l)
<1> DEFINE q == Append(s, l)
<1>1. /\ q[Len(s) + 1] = l /\ Len(s) + 1 \in 1 .. Len(q)
      /\ \A n \in 1 .. Len(s) : q[n] = s[n] /\ n \in 1 .. Len(q)
  BY OneMore
<1> HIDE DEF q
<1>2. (\A x : Shows(s, gone, x) => Shows(q, gone, x)) /\ Shows(q, gone, l)
  BY <1>1 DEF Shows
<1> QED BY <1>2 DEF q

-----------------------------------------------------------------------------

\* A prompt is shown, and is the last of what the model is told.
Asking(u, v, r, s, c, q, d) ==
  LET l == Screen!Line("user", r)
  IN  /\ u[r] = "none" /\ v[r] = "on" /\ Later(u, v)
      /\ \A x \in ScreenRuns : v[x] = "speaking" => u[x] = "speaking"
      /\ q = Append(s, l)
      /\ d = Append(IF c = <<>> THEN <<Screen!Line("system", 0)>> ELSE c, l)
LEMMA Asks ==
  ASSUME NEW u, NEW v, NEW r \in ScreenRuns, NEW s, TalkOK(s, u), NEW c, ScreenTranscript(c, u),
         NEW gone, NEW q, NEW d, Asking(u, v, r, s, c, q, d)
  PROVE  /\ ScreenTranscript(d, v) /\ TalkOK(q, v)
         /\ ShowsAll(s, gone, c, u) => ShowsAll(q, gone, d, v)
         /\ (\A x \in ScreenRuns : v[x] # "speaking") => SpeaksLast(q, v)
         /\ SameOrder(s, c) => SameOrder(q, d)
<1> DEFINE l == Screen!Line("user", r)
           b == IF c = <<>> THEN <<Screen!Line("system", 0)>> ELSE c
<1>15. /\ u[r] = "none" /\ v[r] = "on" /\ Later(u, v) /\ q = Append(s, l) /\ d = Append(b, l)
       /\ \A x \in ScreenRuns : v[x] = "speaking" => u[x] = "speaking"
  BY DEF Asking
<1>1. /\ l \in ScreenLine /\ l.role = "user" /\ l.run = r
      /\ Screen!Line("system", 0) \in ScreenLine /\ ~Screen!Spoken(Screen!Line("system", 0))
      /\ Screen!Line("system", 0) # l /\ Screen!Line("system", 0).role = "system"
  BY ScreenAssumed DEF Screen!Line, ScreenLine, Screen!Spoken
<1> DEFINE sys == Screen!Line("system", 0)
<1> HIDE DEF sys, l, b
<1>2. ASSUME NEW i \in 1 .. Len(s) PROVE s[i] # l
  BY <1>1, <1>15 DEF TalkOK, Lines, LineOK
<1>3. ASSUME NEW i \in 1 .. Len(c) PROVE c[i] # l
  BY <1>1, <1>15 DEF ScreenTranscript, Lines, LineOK
<1>4. s \in Seq(ScreenLine) /\ c \in Seq(ScreenLine)
  BY DEF TalkOK, ScreenTranscript, Lines
<1>5. /\ b \in Seq(ScreenLine) /\ ScreenTranscript(b, u) /\ \A i \in 1 .. Len(b) : b[i] # l
      /\ \A i \in 1 .. Len(b) : Screen!Spoken(b[i]) => i \in 1 .. Len(c) /\ b[i] = c[i]
  <2>1. CASE c = <<>>
    <3>1. b = <<sys>>
      BY <2>1 DEF sys, b
    <3>2. b \in Seq(ScreenLine) /\ Len(b) = 1 /\ b[1] = sys /\ \A i \in 1 .. Len(b) : i = 1
      BY <1>1, <3>1 DEF sys
    <3>3. Lines(b, u, {"over"})
      BY <1>1, <3>2 DEF Lines, LineOK, sys
    <3> QED BY <1>1, <3>2, <3>3 DEF ScreenTranscript, sys
  <2>2. CASE c # <<>>
    BY <1>3, <1>4, <2>2 DEF b
  <2> QED BY <2>1, <2>2
<1>6. ScreenTranscript(b, v) /\ TalkOK(s, v)
  BY <1>5, <1>15, ShowsStay
<1>7. LineOK(l, v, {"over"}) /\ LineOK(l, v, {"speaking", "over"})
  BY <1>1, <1>15 DEF LineOK
<1>8. ScreenTranscript(d, v)
  BY <1>1, <1>5, <1>6, <1>7, <1>15, TranscriptMore
<1>9. TalkOK(q, v)
  BY <1>1, <1>2, <1>6, <1>7, <1>15, TalkMore
<1>10. /\ d[Len(b) + 1] = l /\ \A i \in 1 .. Len(b) : d[i] = b[i]
       /\ \A i \in 1 .. Len(d) : i \in 1 .. Len(b) \/ i = Len(b) + 1
  BY <1>1, <1>5, <1>15, OneMore
<1>11. (\A x : Shows(s, gone, x) => Shows(q, gone, x)) /\ Shows(q, gone, l)
  BY <1>1, <1>4, <1>15, ShowsMore
<1>12. ASSUME ShowsAll(s, gone, c, u) PROVE ShowsAll(q, gone, d, v)
  <2>1. ASSUME NEW i \in 1 .. Len(d), Screen!Spoken(d[i]) PROVE Shows(q, gone, d[i])
    <3>1. CASE i \in 1 .. Len(b)
      BY <1>5, <1>10, <1>11, <1>12, <2>1, <3>1 DEF ShowsAll
    <3>2. CASE i = Len(b) + 1
      BY <1>10, <1>11, <3>2
    <3> QED BY <1>10, <3>1, <3>2
  <2>2. ASSUME NEW x \in ScreenRuns, v[x] = "speaking" PROVE Shows(q, gone, Screen!Line("assistant", x))
    BY <1>11, <1>12, <1>15, <2>2 DEF ShowsAll
  <2> QED BY <2>1, <2>2 DEF ShowsAll
<1>13. (\A x \in ScreenRuns : v[x] # "speaking") => SpeaksLast(q, v)
  BY DEF SpeaksLast
<1>14. ASSUME SameOrder(s, c) PROVE SameOrder(q, d)
  <2>1. SameOrder(s, b)
    BY <1>5, <1>14 DEF SameOrder
  <2> QED BY <1>1, <1>2, <1>4, <1>5, <2>1, <1>15, OrderOfBoth
<1> QED BY <1>8, <1>9, <1>12, <1>13, <1>14

\* A run speaks: its line is on the screen, and not yet in the transcript.
Speaking(u, v, r, s, q) ==
  LET l == Screen!Line("assistant", r)
  IN  /\ Busy(u, r) /\ v[r] = "speaking" /\ Later(u, v)
      /\ \A x \in ScreenRuns : v[x] = "speaking" => x = r \/ u[x] = "speaking"
      /\ q = IF \E n \in 1 .. Len(s) : s[n] = l THEN s ELSE Append(s, l)
LEMMA Speaks ==
  ASSUME NEW u, NEW v, NEW r \in ScreenRuns, NEW s, TalkOK(s, u), NEW c, ScreenTranscript(c, u),
         NEW gone, NEW q, Speaking(u, v, r, s, q)
  PROVE  /\ ScreenTranscript(c, v) /\ TalkOK(q, v)
         /\ ShowsAll(s, gone, c, u) => ShowsAll(q, gone, c, v)
         /\ SpeaksLast(s, u) /\ (\A x \in ScreenRuns : u[x] = "speaking" => x = r) => SpeaksLast(q, v)
         /\ SameOrder(s, c) => SameOrder(q, c)
<1> DEFINE l == Screen!Line("assistant", r)
<1>12. /\ Busy(u, r) /\ v[r] = "speaking" /\ Later(u, v)
       /\ \A x \in ScreenRuns : v[x] = "speaking" => x = r \/ u[x] = "speaking"
       /\ q = IF \E n \in 1 .. Len(s) : s[n] = l THEN s ELSE Append(s, l)
  BY DEF Speaking
<1>1. l \in ScreenLine /\ l.role = "assistant" /\ l.run = r
  BY ScreenAssumed DEF Screen!Line, ScreenLine
<1> HIDE DEF l
<1>2. s \in Seq(ScreenLine) /\ c \in Seq(ScreenLine)
  BY DEF TalkOK, ScreenTranscript, Lines
<1>3. ASSUME NEW i \in 1 .. Len(c) PROVE c[i] # l
  BY <1>1, <1>12 DEF ScreenTranscript, Lines, LineOK, Busy
<1>4. ScreenTranscript(c, v) /\ TalkOK(s, v)
  BY <1>12, ShowsStay
<1>5. LineOK(l, v, {"speaking", "over"})
  BY <1>1, <1>12 DEF LineOK
<1>6. TalkOK(q, v)
  BY <1>1, <1>4, <1>5, <1>12, TalkMore
<1>7. (\A x : Shows(s, gone, x) => Shows(q, gone, x)) /\ Shows(q, gone, l)
  <2>1. CASE \E n \in 1 .. Len(s) : s[n] = l
    BY <1>12, <2>1 DEF Shows
  <2>2. CASE ~ \E n \in 1 .. Len(s) : s[n] = l
    BY <1>1, <1>2, <2>2, <1>12, ShowsMore
  <2> QED BY <2>1, <2>2
<1>8. ASSUME ShowsAll(s, gone, c, u) PROVE ShowsAll(q, gone, c, v)
  BY <1>7, <1>8, <1>12 DEF ShowsAll, l
<1>9. ASSUME SameOrder(s, c) PROVE SameOrder(q, c)
  BY <1>1, <1>2, <1>3, <1>9, <1>12, OrderOfTalk
<1>10. ASSUME SpeaksLast(s, u), \A x \in ScreenRuns : u[x] = "speaking" => x = r,
              NEW x \in ScreenRuns, NEW n \in 1 .. Len(q), v[x] = "speaking",
              q[n] = Screen!Line("assistant", x)
       PROVE  n = Len(q)
  <2>1. x = r
    BY <1>10, <1>12
  <2>2. CASE \E k \in 1 .. Len(s) : s[k] = l
    <3>1. q = s /\ s[n] = l
      BY <1>10, <1>12, <2>1, <2>2 DEF l
    <3>2. u[r] = "speaking"
      BY <1>1, <1>10, <1>12, <3>1 DEF TalkOK, Lines, LineOK, Busy
    <3> QED BY <1>10, <2>1, <3>1, <3>2 DEF SpeaksLast, l
  <2>3. CASE ~ \E k \in 1 .. Len(s) : s[k] = l
    <3>1. q = Append(s, l)
      BY <1>12, <2>3
    <3>2. /\ Len(q) = Len(s) + 1 /\ \A i \in 1 .. Len(s) : q[i] = s[i]
          /\ \A i \in 1 .. Len(q) : i \in 1 .. Len(s) \/ i = Len(s) + 1
      BY <1>1, <1>2, <3>1, OneMore
    <3> QED BY <1>10, <2>1, <2>3, <3>2 DEF l
  <2> QED BY <2>2, <2>3
<1>11. SpeaksLast(s, u) /\ (\A x \in ScreenRuns : u[x] = "speaking" => x = r) => SpeaksLast(q, v)
  BY <1>10 DEF SpeaksLast
<1> QED BY <1>4, <1>6, <1>8, <1>9, <1>11

\* A run ends: what it answered joins the transcript.
Answering(u, v, r, c, d) ==
  /\ Busy(u, r) /\ v[r] = "over" /\ Later(u, v)
  /\ \A x \in ScreenRuns : v[x] = "speaking" => u[x] = "speaking"
  /\ d = c \/ (d = Append(c, Screen!Line("assistant", r)) /\ u[r] = "speaking")
LEMMA Answers ==
  ASSUME NEW u, NEW v, NEW r \in ScreenRuns, NEW s, TalkOK(s, u), NEW c, ScreenTranscript(c, u),
         NEW gone, NEW d, Answering(u, v, r, c, d)
  PROVE  /\ ScreenTranscript(d, v) /\ TalkOK(s, v)
         /\ ShowsAll(s, gone, c, u) => ShowsAll(s, gone, d, v)
         /\ SpeaksLast(s, u) => SpeaksLast(s, v)
         /\ SpeaksLast(s, u) /\ SameOrder(s, c) => SameOrder(s, d)
<1> DEFINE l == Screen!Line("assistant", r)
<1>8. /\ Busy(u, r) /\ v[r] = "over" /\ Later(u, v)
      /\ \A x \in ScreenRuns : v[x] = "speaking" => u[x] = "speaking"
      /\ d = c \/ (d = Append(c, l) /\ u[r] = "speaking")
  BY DEF Answering
<1>1. l \in ScreenLine /\ l.role = "assistant" /\ l.run = r
  BY ScreenAssumed DEF Screen!Line, ScreenLine
<1> HIDE DEF l
<1>2. s \in Seq(ScreenLine) /\ c \in Seq(ScreenLine)
  BY DEF TalkOK, ScreenTranscript, Lines
<1>3. ASSUME NEW i \in 1 .. Len(c) PROVE c[i] # l
  BY <1>1, <1>8 DEF ScreenTranscript, Lines, LineOK, Busy
<1>4. ScreenTranscript(c, v) /\ TalkOK(s, v)
  BY <1>8, ShowsStay
<1>5. SpeaksLast(s, u) => SpeaksLast(s, v)
  BY <1>8 DEF SpeaksLast
<1>6. CASE d = c
  BY <1>4, <1>5, <1>6, <1>8 DEF ShowsAll
<1>7. CASE d = Append(c, l) /\ u[r] = "speaking"
  <2>1. LineOK(l, v, {"over"})
    BY <1>1, <1>8 DEF LineOK
  <2>2. ScreenTranscript(d, v)
    BY <1>1, <1>3, <1>4, <1>7, <2>1, TranscriptMore
  <2>3. /\ d[Len(c) + 1] = l /\ \A i \in 1 .. Len(c) : d[i] = c[i]
        /\ \A i \in 1 .. Len(d) : i \in 1 .. Len(c) \/ i = Len(c) + 1
    BY <1>1, <1>2, <1>7, OneMore
  <2>4. ASSUME ShowsAll(s, gone, c, u) PROVE ShowsAll(s, gone, d, v)
    <3>1. Shows(s, gone, l)
      BY <1>7, <2>4 DEF ShowsAll, l
    <3>2. \A i \in 1 .. Len(d) : Screen!Spoken(d[i]) => Shows(s, gone, d[i])
      BY <2>3, <2>4, <3>1 DEF ShowsAll
    <3> QED BY <1>8, <2>4, <3>2 DEF ShowsAll
  <2>5. ASSUME SpeaksLast(s, u), SameOrder(s, c) PROVE SameOrder(s, d)
    <3>1. \A n \in 1 .. Len(s) : s[n] = l => n = Len(s)
      BY <1>7, <2>5 DEF SpeaksLast, l
    <3> QED BY <1>1, <1>2, <1>3, <1>7, <2>5, <3>1, OrderOfContext
  <2> QED BY <1>4, <1>5, <2>2, <2>4, <2>5
<1> QED BY <1>6, <1>7, <1>8

-----------------------------------------------------------------------------

\* The lines of a saved session are replayed one after the other.
LEMMA ReplayUnrolls ==
  ASSUME NEW s \in Seq(ScreenLine)
  PROVE  \E acc : Sifted(acc, s, {i \in 1 .. Len(s) : Screen!Spoken(s[i])}, ScreenLine)
                  /\ Screen!Replayed(s) = acc[Len(s)]
<1> DEFINE n == Len(s)
           S == Seq(ScreenLine)
           next(was, x) == IF Screen!Spoken(x) THEN Append(was, x) ELSE was
           IsFold(g) == g = [d \in SUBSET (1 .. n) |->
                               IF d = {} THEN <<>> ELSE next(g[d \ {Max(d)}], s[Max(d)])]
           iter == CHOOSE g : IsFold(g)
           step == [a \in (1 .. n) \X S |-> next(a[2], s[a[1]])]
           acc == [i \in 0 .. n |-> iter[1 .. i]]
<1>1. Screen!Replayed(s) = iter[1 .. n]
  <2>1. DOMAIN s = 1 .. n OBVIOUS
  <2> HIDE DEF step, S
  <2> QED BY <2>1
          DEF Screen!Replayed, Screen!FoldLeft, Screen!MapThenFoldSet, Screen!Max, Max
<1>2. n \in Nat /\ <<>> \in S /\ \A i \in 1 .. n : s[i] \in ScreenLine
  OBVIOUS
<1>3. \A was \in S, x \in ScreenLine : next(was, x) \in S
  OBVIOUS
<1>4. step = [a \in (1 .. n) \X S |-> next(a[2], s[a[1]])]
  OBVIOUS
<1> HIDE DEF n, S, next, step, iter, IsFold
<1>5. step \in [(1 .. n) \X S -> S]
  <2>1. \A a \in (1 .. n) \X S : next(a[2], s[a[1]]) \in S
    BY <1>2, <1>3
  <2> QED BY <1>4, <2>1
<1>6. PICK f \in [SUBSET (1 .. n) -> S] : FoldsTo(f, n, <<>>, step)
  BY <1>2, <1>5, FoldExists
<1>7. IsFold(f)
  <2>1. ASSUME NEW d \in SUBSET (1 .. n)
        PROVE  f[d] = IF d = {} THEN <<>> ELSE next(f[d \ {Max(d)}], s[Max(d)])
    <3>1. d # {} => Max(d) \in 1 .. n /\ f[d \ {Max(d)}] \in S
      BY <1>2, MaxUpTo
    <3> QED BY <1>4, <1>6, <3>1 DEF FoldsTo
  <2> QED BY <2>1 DEF IsFold
<1>8. IsFold(iter)
  BY <1>7 DEF iter
<1>9. iter[{}] = <<>>
  <2>1. {} \in SUBSET (1 .. n) OBVIOUS
  <2> QED BY <1>8, <2>1 DEF IsFold
<1>10. \A i \in 1 .. n : iter[1 .. i] = next(iter[1 .. i - 1], s[i])
  <2> TAKE i \in 1 .. n
  <2>1. /\ 1 .. i \in SUBSET (1 .. n) /\ 1 .. i # {}
        /\ Max(1 .. i) = i /\ (1 .. i) \ {i} = 1 .. i - 1
    BY <1>2, IntervalStep
  <2>2. iter[1 .. i] = next(iter[(1 .. i) \ {Max(1 .. i)}], s[Max(1 .. i)])
    BY <1>8, <2>1 DEF IsFold
  <2> QED BY <2>1, <2>2
<1>11. \A i \in 0 .. n : iter[1 .. i] \in S
  <2>1. \A i \in 1 .. n : iter[1 .. i - 1] \in S => iter[1 .. i] \in S
    BY <1>2, <1>3, <1>10
  <2> QED BY <1>2, <1>9, <2>1, FoldReaches
<1>12. acc \in [0 .. n -> S] /\ acc[0] = <<>> /\ acc[n] = iter[1 .. n]
  <2>1. 0 \in 0 .. n /\ n \in 0 .. n /\ 1 .. 0 = {}
    BY <1>2
  <2> QED BY <1>9, <1>11, <2>1
<1>13. \A i \in 1 .. n : acc[i] = next(acc[i - 1], s[i])
  <2>1. \A i \in 1 .. n : i \in 0 .. n /\ i - 1 \in 0 .. n
    BY <1>2
  <2> QED BY <1>10, <2>1
<1> HIDE DEF acc
<1>14. Sifted(acc, s, {i \in 1 .. Len(s) : Screen!Spoken(s[i])}, ScreenLine)
  BY <1>12, <1>13 DEF Sifted, n, S, next
<1> QED BY <1>1, <1>12, <1>14 DEF n

\* What is replayed is what is spoken in the transcript, in its order.
LEMMA Replays ==
  ASSUME NEW u, NEW c, ScreenTranscript(c, u), NEW s, s = Screen!Replayed(c), NEW gone
  PROVE  /\ TalkOK(s, u) /\ Lines(s, u, {"over"}) /\ SameOrder(s, c)
         /\ \A i \in 1 .. Len(c) : Screen!Spoken(c[i]) => Shows(s, gone, c[i])
<1> DEFINE keep == {i \in 1 .. Len(c) : Screen!Spoken(c[i])}
<1>1. c \in Seq(ScreenLine) /\ keep \in SUBSET (1 .. Len(c)) /\ Len(c) \in Nat
  BY DEF ScreenTranscript, Lines
<1>2. PICK acc : Sifted(acc, c, keep, ScreenLine) /\ s = acc[Len(c)]
  BY <1>1, ReplayUnrolls
<1>3. s \in Seq(ScreenLine) /\ \E at : Embeds(at, s, c, keep)
  <2> HIDE DEF keep
  <2> QED BY <1>1, <1>2, SiftedEmbeds
<1>4. PICK at : Embeds(at, s, c, keep)
  BY <1>3
<1>5. \A k \in 1 .. Len(s) : at[k] \in 1 .. Len(c) /\ s[k] = c[at[k]] /\ Screen!Spoken(s[k])
  BY <1>4 DEF Embeds
<1>6. \A i \in 1 .. Len(c) : Screen!Spoken(c[i]) => \E k \in 1 .. Len(s) : at[k] = i
  BY <1>4 DEF Embeds
<1>7. \A k, l \in 1 .. Len(s) : k < l => at[k] < at[l]
  BY <1>4 DEF Embeds
<1> HIDE DEF keep
<1>8. Len(s) \in Nat
  BY <1>3
<1>9. Lines(s, u, {"over"}) /\ Lines(s, u, {"speaking", "over"})
  <2>1. \A i \in 1 .. Len(c) : LineOK(c[i], u, {"over"})
    BY DEF ScreenTranscript, Lines
  <2>2. \A k \in 1 .. Len(s) : LineOK(s[k], u, {"over"})
    BY <1>5, <2>1
  <2>3. \A k \in 1 .. Len(s) : LineOK(s[k], u, {"speaking", "over"})
    BY <2>2 DEF LineOK
  <2> QED BY <1>3, <2>2, <2>3 DEF Lines
<1>10. ASSUME NEW k \in 1 .. Len(s), NEW l \in 1 .. Len(s) PROVE k < l <=> at[k] < at[l]
  <2>1. at[k] \in 1 .. Len(c) /\ at[l] \in 1 .. Len(c)
    BY <1>5
  <2>2. k < l => at[k] < at[l]
    BY <1>7
  <2>3. l < k => at[l] < at[k]
    BY <1>7
  <2>4. k < l \/ l < k \/ k = l
    BY <1>8
  <2> QED BY <1>1, <2>1, <2>2, <2>3, <2>4
<1>11. ASSUME NEW k \in 1 .. Len(s), NEW i \in 1 .. Len(c), s[k] = c[i] PROVE at[k] = i
  BY <1>5, <1>11 DEF ScreenTranscript
<1>12. ASSUME NEW k \in 1 .. Len(s), NEW l \in 1 .. Len(s), s[k] = s[l] PROVE k = l
  <2>1. at[k] = at[l] /\ at[k] \in 1 .. Len(c)
    BY <1>5, <1>11, <1>12
  <2>2. ~(k < l) /\ ~(l < k)
    BY <1>1, <1>10, <2>1
  <2> QED BY <1>8, <2>2
<1>13. SameOrder(s, c)
  BY <1>10, <1>11 DEF SameOrder
<1>14. \A i \in 1 .. Len(c) : Screen!Spoken(c[i]) => Shows(s, gone, c[i])
  BY <1>5, <1>6 DEF Shows
<1> QED BY <1>9, <1>12, <1>13, <1>14 DEF TalkOK

-----------------------------------------------------------------------------

\* What is said leaves the calls, the models and what the shell shows of runs.
LEMMA SaidOnly ==
  ASSUME ScreenInv, screenPart = "talk", RunBook', TalkBook', screenInterrupted' \in BOOLEAN,
         UNCHANGED Screen!others, ~screenOverlapped' => ~screenOverlapped
  PROVE  ScreenInv'
<1>1. CallBook'
  BY DEF ScreenInv, Screen!others, CallBook
<1>2. ShownBusy'
  BY DEF ScreenInv, Screen!others, ShownBusy
<1>3. ModelBook'
  BY DEF ScreenInv, Screen!others, Screen!model, ModelBook
<1>4. TalkPart'
  BY DEF Screen!others, TalkPart
<1> QED BY <1>1, <1>2, <1>3, <1>4 DEF ScreenInv

LEMMA AskActs == ASSUME ScreenInv, NEW r \in ScreenRuns, Screen!Ask(r) PROVE ScreenInv'
<1> DEFINE b == IF screenContext = <<>> THEN <<Screen!Line("system", 0)>> ELSE screenContext
<1>1. /\ screenPart = "talk" /\ screenRun[r] = "none"
      /\ screenRun' = [screenRun EXCEPT ![r] = "on"]
      /\ screenOverlapped' = (screenOverlapped \/ Screen!UnderWay # {})
      /\ screenTalk' = Append(screenTalk, Screen!Line("user", r))
      /\ screenContext' = Append(b, Screen!Line("user", r))
      /\ UNCHANGED Screen!others /\ UNCHANGED <<screenSession, screenCleared, screenInterrupted>>
  BY DEF Screen!Ask
<1> HIDE DEF b
<1>2. RunBook /\ TalkBook /\ screenInterrupted \in BOOLEAN
  BY <1>1 DEF ScreenInv, TalkPart
<1>3. UNCHANGED <<screenPart, screenWait>>
  BY <1>1 DEF Screen!others
<1>4. RunBook' /\ (~screenOverlapped' => ~screenOverlapped /\ \A q \in ScreenRuns : ~Busy(screenRun, q))
  BY <1>1, <1>2, <1>3, RunStarts
<1>5. screenRun'[r] = "on" /\ \A q \in ScreenRuns \ {r} : screenRun'[q] = screenRun[q]
  BY <1>1, <1>2 DEF RunBook
<1>6. /\ Later(screenRun, screenRun')
      /\ \A x \in ScreenRuns : screenRun'[x] = "speaking" => screenRun[x] = "speaking"
  BY <1>1, <1>5 DEF Later
<1>7. /\ ScreenTranscript(screenContext', screenRun') /\ TalkOK(screenTalk', screenRun')
      /\ ShowsAll(screenTalk, screenCleared, screenContext, screenRun)
           => ShowsAll(screenTalk', screenCleared, screenContext', screenRun')
      /\ (\A x \in ScreenRuns : screenRun'[x] # "speaking") => SpeaksLast(screenTalk', screenRun')
      /\ SameOrder(screenTalk, screenContext) => SameOrder(screenTalk', screenContext')
  <2>1. TalkOK(screenTalk, screenRun) /\ ScreenTranscript(screenContext, screenRun)
    BY <1>2 DEF TalkBook
  <2>2. Asking(screenRun, screenRun', r, screenTalk, screenContext, screenTalk', screenContext')
    BY <1>1, <1>5, <1>6 DEF Asking, b
  <2> QED BY <2>1, <2>2, Asks
<1>8. ~screenOverlapped' => \A x \in ScreenRuns : screenRun'[x] # "speaking"
  BY <1>4, <1>6 DEF Busy
<1>9. screenSession' # None => ScreenTranscript(screenSession', screenRun')
  BY <1>1, <1>2, <1>6, ShowsStay DEF TalkBook
<1>10. TalkBook'
  BY <1>1, <1>2, <1>4, <1>7, <1>8, <1>9 DEF TalkBook
<1> QED BY <1>1, <1>2, <1>4, <1>10, SaidOnly

LEMMA SpeakActs == ASSUME ScreenInv, NEW r \in ScreenRuns, Screen!Speak(r) PROVE ScreenInv'
<1> DEFINE l == Screen!Line("assistant", r)
<1>1. /\ screenPart = "talk" /\ Busy(screenRun, r)
      /\ screenRun' = [screenRun EXCEPT ![r] = "speaking"]
      /\ screenTalk' = Screen!Shown(l)
      /\ UNCHANGED Screen!others /\ UNCHANGED <<screenContext, screenSession, screenCleared, screenInterrupted>>
      /\ UNCHANGED screenOverlapped
  BY DEF Screen!Speak, Screen!UnderWay, Busy
<1>2. RunBook /\ TalkBook /\ screenInterrupted \in BOOLEAN
  BY <1>1 DEF ScreenInv, TalkPart
<1>3. UNCHANGED <<screenPart, screenWait, screenOverlapped>> /\ screenWait[r] = 0
  BY <1>1, <1>2 DEF Screen!others, RunBook
<1>4. RunBook'
  BY <1>1, <1>2, <1>3, RunMoves
<1>5. screenRun'[r] = "speaking" /\ \A q \in ScreenRuns \ {r} : screenRun'[q] = screenRun[q]
  BY <1>1, <1>2 DEF RunBook
<1>6. /\ Later(screenRun, screenRun')
      /\ \A x \in ScreenRuns : screenRun'[x] = "speaking" => x = r \/ screenRun[x] = "speaking"
  BY <1>1, <1>5 DEF Later, Busy
<1>7. screenTalk' = IF \E n \in 1 .. Len(screenTalk) : screenTalk[n] = l
                    THEN screenTalk ELSE Append(screenTalk, l)
  <2>1. DOMAIN screenTalk = 1 .. Len(screenTalk)
    BY <1>2 DEF TalkBook, TalkOK, Lines
  <2>2. l \in Screen!ToSet(screenTalk) <=> \E n \in 1 .. Len(screenTalk) : screenTalk[n] = l
    BY <2>1 DEF Screen!ToSet
  <2> QED BY <1>1, <2>2 DEF Screen!Shown
<1>8. /\ ScreenTranscript(screenContext, screenRun') /\ TalkOK(screenTalk', screenRun')
      /\ ShowsAll(screenTalk, screenCleared, screenContext, screenRun)
           => ShowsAll(screenTalk', screenCleared, screenContext, screenRun')
      /\ SpeaksLast(screenTalk, screenRun) /\ (\A x \in ScreenRuns : screenRun[x] = "speaking" => x = r)
           => SpeaksLast(screenTalk', screenRun')
      /\ SameOrder(screenTalk, screenContext) => SameOrder(screenTalk', screenContext)
  <2>1. TalkOK(screenTalk, screenRun) /\ ScreenTranscript(screenContext, screenRun)
    BY <1>2 DEF TalkBook
  <2>2. Speaking(screenRun, screenRun', r, screenTalk, screenTalk')
    BY <1>1, <1>5, <1>6, <1>7 DEF Speaking
  <2> QED BY <2>1, <2>2, Speaks
<1>9. ~screenOverlapped => \A x \in ScreenRuns : screenRun[x] = "speaking" => x = r
  BY <1>1, <1>2 DEF RunBook, Busy
<1>10. screenSession' # None => ScreenTranscript(screenSession', screenRun')
  BY <1>1, <1>2, <1>6, ShowsStay DEF TalkBook
<1>11. TalkBook'
  BY <1>1, <1>2, <1>8, <1>9, <1>10 DEF TalkBook
<1> QED BY <1>1, <1>2, <1>4, <1>11, SaidOnly

LEMMA AnswerActs ==
  ASSUME ScreenInv, NEW r \in ScreenRuns, NEW failed \in BOOLEAN, Screen!Answer(r, failed)
  PROVE  ScreenInv'
<1> DEFINE l == Screen!Line("assistant", r)
<1>1. /\ screenPart = "talk" /\ Busy(screenRun, r)
      /\ screenRun' = [screenRun EXCEPT ![r] = "over"]
      /\ screenContext' = screenContext \/ (screenContext' = Append(screenContext, l) /\ screenRun[r] # "on")
      /\ screenSession' = screenContext'
      /\ UNCHANGED Screen!others /\ UNCHANGED <<screenTalk, screenCleared, screenInterrupted>>
      /\ UNCHANGED screenOverlapped
  BY DEF Screen!Answer, Screen!UnderWay, Busy
<1>2. RunBook /\ TalkBook /\ screenInterrupted \in BOOLEAN
  BY <1>1 DEF ScreenInv, TalkPart
<1>3. UNCHANGED <<screenPart, screenWait, screenOverlapped>> /\ screenWait[r] = 0
  BY <1>1, <1>2 DEF Screen!others, RunBook
<1>4. RunBook'
  BY <1>1, <1>2, <1>3, RunMoves
<1>5. screenRun'[r] = "over" /\ \A q \in ScreenRuns \ {r} : screenRun'[q] = screenRun[q]
  BY <1>1, <1>2 DEF RunBook
<1>6. /\ Later(screenRun, screenRun')
      /\ \A x \in ScreenRuns : screenRun'[x] = "speaking" => screenRun[x] = "speaking"
  BY <1>1, <1>5 DEF Later, Busy
<1>7. screenContext' = screenContext \/ (screenContext' = Append(screenContext, l) /\ screenRun[r] = "speaking")
  BY <1>1 DEF Busy
<1>8. /\ ScreenTranscript(screenContext', screenRun') /\ TalkOK(screenTalk, screenRun')
      /\ ShowsAll(screenTalk, screenCleared, screenContext, screenRun)
           => ShowsAll(screenTalk, screenCleared, screenContext', screenRun')
      /\ SpeaksLast(screenTalk, screenRun) => SpeaksLast(screenTalk, screenRun')
      /\ SpeaksLast(screenTalk, screenRun) /\ SameOrder(screenTalk, screenContext)
           => SameOrder(screenTalk, screenContext')
  <2>1. TalkOK(screenTalk, screenRun) /\ ScreenTranscript(screenContext, screenRun)
    BY <1>2 DEF TalkBook
  <2>2. Answering(screenRun, screenRun', r, screenContext, screenContext')
    BY <1>1, <1>5, <1>6, <1>7 DEF Answering
  <2> QED BY <2>1, <2>2, Answers
<1>9. TalkBook'
  BY <1>1, <1>2, <1>8 DEF TalkBook
<1> QED BY <1>1, <1>2, <1>4, <1>9, SaidOnly

LEMMA NothingRuns == RunBook /\ UNCHANGED <<screenRun, screenPart, screenWait, screenOverlapped>> => RunBook'
BY DEF RunBook

LEMMA ResumeActs == ASSUME ScreenInv, Screen!ResumeSession PROVE ScreenInv'
<1>1. /\ screenPart = "talk" /\ screenSession # None /\ screenContext' = screenSession
      /\ IF screenSession = <<>> THEN UNCHANGED <<screenTalk, screenCleared, screenInterrupted>>
         ELSE /\ screenTalk' = Screen!Replayed(screenSession) /\ screenCleared' = {}
              /\ screenInterrupted' = (screenInterrupted \/ Screen!UnderWay # {})
      /\ UNCHANGED Screen!others /\ UNCHANGED <<screenRun, screenOverlapped, screenSession>>
  BY DEF Screen!ResumeSession
<1>2. RunBook /\ TalkBook /\ screenInterrupted \in BOOLEAN
  BY <1>1 DEF ScreenInv, TalkPart
<1>3. RunBook'
  BY <1>1, <1>2, NothingRuns DEF Screen!others
<1>4. screenInterrupted' \in BOOLEAN
  BY <1>1, <1>2
<1>5. CASE screenSession = <<>>
  <2>1. ShowsAll(screenTalk, screenCleared, screenContext, screenRun) =>
          ShowsAll(screenTalk, screenCleared, <<>>, screenRun)
    BY DEF ShowsAll
  <2>2. SameOrder(screenTalk, <<>>)
    BY DEF SameOrder
  <2>3. TalkBook'
    BY <1>1, <1>2, <1>5, <2>1, <2>2 DEF TalkBook
  <2> QED BY <1>1, <1>3, <1>4, <2>3, SaidOnly
<1>6. CASE screenSession # <<>>
  <2>1. /\ TalkOK(screenTalk', screenRun) /\ Lines(screenTalk', screenRun, {"over"})
        /\ SameOrder(screenTalk', screenSession)
        /\ \A i \in 1 .. Len(screenSession) :
             Screen!Spoken(screenSession[i]) => Shows(screenTalk', {}, screenSession[i])
    BY <1>1, <1>2, <1>6, Replays DEF TalkBook
  <2>2. ~screenInterrupted' => \A r \in ScreenRuns : screenRun[r] # "speaking"
    BY <1>1, <1>6 DEF Screen!UnderWay
  <2>3. ~screenInterrupted' => ShowsAll(screenTalk', {}, screenSession, screenRun)
    BY <2>1, <2>2 DEF ShowsAll
  <2>4. SpeaksLast(screenTalk', screenRun)
    <3>1. \A r \in ScreenRuns : Screen!Line("assistant", r).role = "assistant" /\ Screen!Line("assistant", r).run = r
      BY DEF Screen!Line
    <3> QED BY <2>1, <3>1 DEF SpeaksLast, Lines, LineOK
  <2>5. TalkBook'
    BY <1>1, <1>2, <1>6, <2>1, <2>3, <2>4 DEF TalkBook
  <2> QED BY <1>1, <1>3, <1>4, <2>5, SaidOnly
<1> QED BY <1>5, <1>6

LEMMA ClearActs == ASSUME ScreenInv, Screen!ClearConversation PROVE ScreenInv'
<1>1. /\ screenPart = "talk" /\ screenTalk' = <<>>
      /\ screenCleared' = screenCleared \union Screen!ToSet(screenTalk)
      /\ UNCHANGED Screen!others
      /\ UNCHANGED <<screenRun, screenOverlapped, screenContext, screenSession, screenInterrupted>>
  BY DEF Screen!ClearConversation
<1>2. RunBook /\ TalkBook /\ screenInterrupted \in BOOLEAN
  BY <1>1 DEF ScreenInv, TalkPart
<1>3. RunBook'
  BY <1>1, <1>2, NothingRuns DEF Screen!others
<1>4. \A x : Shows(screenTalk, screenCleared, x) => Shows(<<>>, screenCleared', x)
  <2>1. DOMAIN screenTalk = 1 .. Len(screenTalk)
    BY <1>2 DEF TalkBook, TalkOK, Lines
  <2> QED BY <1>1, <2>1 DEF Shows, Screen!ToSet
<1>5. ShowsAll(screenTalk, screenCleared, screenContext, screenRun) =>
        ShowsAll(<<>>, screenCleared', screenContext, screenRun)
  BY <1>4 DEF ShowsAll
<1>6. TalkOK(<<>>, screenRun) /\ SpeaksLast(<<>>, screenRun) /\ SameOrder(<<>>, screenContext)
  BY DEF TalkOK, Lines, SpeaksLast, SameOrder
<1>7. TalkBook'
  BY <1>1, <1>2, <1>5, <1>6 DEF TalkBook
<1> QED BY <1>1, <1>2, <1>3, <1>7, SaidOnly

LEMMA ForgetActs == ASSUME ScreenInv, NEW onDisk \in BOOLEAN, Screen!Forget(onDisk) PROVE ScreenInv'
<1>1. /\ screenPart = "talk" /\ screenContext' = <<>> /\ (screenSession' = None \/ UNCHANGED screenSession)
      /\ UNCHANGED Screen!others
      /\ UNCHANGED <<screenRun, screenOverlapped, screenTalk, screenCleared, screenInterrupted>>
  BY DEF Screen!Forget
<1>2. RunBook /\ TalkBook /\ screenInterrupted \in BOOLEAN
  BY <1>1 DEF ScreenInv, TalkPart
<1>3. RunBook'
  BY <1>1, <1>2, NothingRuns DEF Screen!others
<1>4. ShowsAll(screenTalk, screenCleared, screenContext, screenRun) =>
        ShowsAll(screenTalk, screenCleared, <<>>, screenRun)
  BY DEF ShowsAll
<1>5. ScreenTranscript(<<>>, screenRun) /\ SameOrder(screenTalk, <<>>)
  BY DEF ScreenTranscript, Lines, SameOrder
<1>6. TalkBook'
  BY <1>1, <1>2, <1>4, <1>5 DEF TalkBook
<1> QED BY <1>1, <1>2, <1>3, <1>6, SaidOnly

LEMMA ScreenKeeps == ScreenInv /\ [Screen!Next]_screenVars => ScreenInv'
<1> SUFFICES ASSUME ScreenInv, [Screen!Next]_screenVars PROVE ScreenInv' OBVIOUS
<1>1. ASSUME UNCHANGED screenVars \/ Screen!Flush \/ Screen!QuietTime PROVE ScreenInv'
  <2>1. UNCHANGED screenPart /\ UNCHANGED Screen!work /\ UNCHANGED Screen!model /\ UNCHANGED Screen!said
    BY <1>1 DEF screenVars, Screen!Flush, Screen!QuietTime, Screen!work, Screen!model, Screen!said
  <2>2. CallBook' /\ RunBook' /\ ShownBusy' /\ ModelBook'
    BY <2>1 DEF ScreenInv, Screen!work, Screen!model, CallBook, RunBook, ShownBusy, ModelBook
  <2>3. TalkPart' /\ screenInterrupted' \in BOOLEAN
    BY <2>1, NothingSaid DEF ScreenInv, Screen!work, Screen!said
  <2> QED BY <2>2, <2>3 DEF ScreenInv
<1>2. ASSUME NEW r \in ScreenRuns,
             \/ Screen!Submit(r) \/ Screen!Text(r) \/ Screen!End(r)
             \/ \E t \in ScreenTools : Screen!Call(r, t)
             \/ \E failed \in BOOLEAN : Screen!Result(r, failed)
      PROVE  ScreenInv'
  BY <1>2, RunActs
<1>3. ASSUME \/ \E m \in ScreenModels : Screen!SetModel(m)
             \/ \E i \in DOMAIN screenValidating : Screen!Validated(i)
             \/ \E t \in ScreenTiers : Screen!SetTier(t)
             \/ Screen!OpenSwitcher \/ Screen!CloseSwitcher \/ Screen!Listed
      PROVE  ScreenInv'
  BY <1>3, ModelActs
<1>4. ASSUME NEW r \in ScreenRuns, Screen!Ask(r) \/ Screen!RunShell(r) \/ Screen!InitWorkspace(r)
      PROVE  ScreenInv'
  BY <1>4, AskActs DEF Screen!RunShell, Screen!InitWorkspace
<1>5. ASSUME NEW r \in ScreenRuns, Screen!Speak(r) PROVE ScreenInv'
  BY <1>5, SpeakActs
<1>6. ASSUME NEW r \in ScreenRuns, NEW failed \in BOOLEAN, Screen!Answer(r, failed) PROVE ScreenInv'
  BY <1>6, AnswerActs
<1>7. ASSUME Screen!ResumeSession \/ Screen!ClearConversation \/ \E onDisk \in BOOLEAN : Screen!Forget(onDisk)
      PROVE  ScreenInv'
  BY <1>7, ResumeActs, ClearActs, ForgetActs
<1> QED BY <1>1, <1>2, <1>3, <1>4, <1>5, <1>6, <1>7 DEF Screen!Next

LEMMA ScreenStarts == BundleInit => ScreenInv
<1> SUFFICES ASSUME BundleInit PROVE ScreenInv OBVIOUS
<1>1. Screen!Init
  BY DEF BundleInit
<1>2. CallBook
  <2>1. /\ screenCalls = <<>> /\ screenWait = [r \in ScreenRuns |-> 0]
        /\ screenOpen = [t \in ScreenTools |-> <<>>] /\ screenActiveTool = None
    BY <1>1 DEF Screen!Init
  <2>2. WaitOK(<<>>, screenWait) /\ ResultsOK(<<>>) /\ ActiveOK(<<>>, None) /\ OwnOK(<<>>, screenWait)
    BY <2>1 DEF WaitOK, ResultsOK, ActiveOK, OwnOK
  <2>3. ASSUME NEW t \in ScreenTools
        PROVE  /\ ListsAll(<<>>, Running(<<>>, t))
               /\ Cardinality(Running(<<>>, t)) = Cardinality(Waited(<<>>, screenWait, t))
    <3>1. Running(<<>>, t) = {} /\ Waited(<<>>, screenWait, t) = {}
      BY DEF Running, Waited
    <3>2. ListsAll(<<>>, {})
      BY DEF ListsAll
    <3> QED BY <3>1, <3>2
  <2>4. OpenOK(<<>>, screenWait, screenOpen)
    BY <2>1, <2>3 DEF OpenOK
  <2> QED BY <2>1, <2>2, <2>4 DEF CallBook
<1>3. RunBook /\ ShownBusy
  BY <1>1 DEF Screen!Init, RunBook, ShownBusy, Busy
<1>4. ModelBook /\ screenInterrupted \in BOOLEAN
  BY <1>1 DEF Screen!Init, ModelBook
<1>5. TalkPart
  <2>1. /\ screenTalk = <<>> /\ screenContext = <<>>
        /\ screenRun = [r \in ScreenRuns |-> "none"]
    BY <1>1 DEF Screen!Init
  <2>2. /\ ScreenTranscript(<<>>, screenRun) /\ TalkOK(<<>>, screenRun) /\ SpeaksLast(<<>>, screenRun)
        /\ SameOrder(<<>>, <<>>)
    BY DEF ScreenTranscript, TalkOK, Lines, SpeaksLast, SameOrder
  <2>3. ShowsAll(<<>>, screenCleared, <<>>, screenRun)
    BY <2>1 DEF ShowsAll
  <2>4. ASSUME screenPart = "talk", screenSession # None PROVE ScreenTranscript(screenSession, screenRun)
    <3>1. screenSession \in ScreenSessions
      BY <1>1, <2>4 DEF Screen!Init
    <3> DEFINE s == screenSession
    <3>2. /\ s \in Seq([role : {"system", "user", "assistant", "tool"}, run : Nat \ ScreenRuns])
          /\ \A i, j \in DOMAIN s : s[i] = s[j] /\ Screen!Spoken(s[i]) => i = j
      BY <3>1, ScreenAssumed
    <3>3. s \in Seq(ScreenLine) /\ \A i \in 1 .. Len(s) : s[i].run \notin ScreenRuns
      <4> DEFINE T == [role : {"system", "user", "assistant", "tool"}, run : Nat \ ScreenRuns]
      <4>1. s \in Seq(T)
        BY <3>2
      <4>2. \A l \in T : l \in ScreenLine /\ l.run \notin ScreenRuns
        BY DEF ScreenLine
      <4> HIDE DEF s, T
      <4>3. s \in [1 .. Len(s) -> T] /\ Len(s) \in Nat
        BY <4>1
      <4>4. s \in [1 .. Len(s) -> ScreenLine]
        BY <4>2, <4>3
      <4>5. s \in Seq(ScreenLine)
        BY <4>3, <4>4
      <4> QED BY <4>2, <4>3, <4>5
    <3>4. DOMAIN s = 1 .. Len(s)
      BY <3>2
    <3> QED BY <3>2, <3>3, <3>4 DEF ScreenTranscript, Lines, LineOK
  <2> QED BY <2>1, <2>2, <2>3, <2>4 DEF TalkPart, TalkBook, Unspoken
<1> QED BY <1>2, <1>3, <1>4, <1>5 DEF ScreenInv

LEMMA ScreenHolds == ASSUME ScreenInv PROVE Screen!ShellIsConsistent
<1>1. CallBook /\ RunBook /\ ShownBusy /\ ModelBook /\ TalkPart
  BY DEF ScreenInv
<1>2. Screen!ScreenShowsTheContext
  <2>1. CASE screenPart = "talk"
    <3>1. TalkBook
      BY <1>1, <2>1 DEF TalkPart
    <3>2. /\ DOMAIN screenTalk = 1 .. Len(screenTalk) /\ DOMAIN screenContext = 1 .. Len(screenContext)
      BY <3>1 DEF TalkBook, TalkOK, ScreenTranscript, Lines
    <3>3. Screen!IsInjective(screenTalk)
      BY <3>1, <3>2 DEF TalkBook, TalkOK, Screen!IsInjective
    <3>4. ASSUME ~screenInterrupted, NEW i \in DOMAIN screenContext,
                 Screen!Spoken(screenContext[i]), screenContext[i] \notin screenCleared
          PROVE  \E n \in DOMAIN screenTalk : screenTalk[n] = screenContext[i]
      BY <3>1, <3>2, <3>4 DEF TalkBook, ShowsAll, Shows
    <3>5. ~screenInterrupted /\ ~screenOverlapped => SameOrder(screenTalk, screenContext)
      BY <3>1 DEF TalkBook
    <3> QED BY <3>2, <3>3, <3>4, <3>5 DEF Screen!ScreenShowsTheContext, SameOrder
  <2>2. CASE screenPart # "talk"
    <3>1. screenTalk = <<>> /\ screenContext = <<>>
      BY <1>1, <2>2 DEF TalkPart, Unspoken
    <3>2. DOMAIN screenTalk = {} /\ DOMAIN screenContext = {}
      <4>1. DOMAIN <<>> = {}
        OBVIOUS
      <4> QED BY <3>1, <4>1, Zenon
    <3> QED BY <3>2 DEF Screen!ScreenShowsTheContext, Screen!IsInjective
  <2> QED BY <2>1, <2>2
<1>3. Screen!IdleWhenDone
  <2>1. Screen!UnderWay = {} <=> \A r \in ScreenRuns : ~Busy(screenRun, r)
    BY DEF Screen!UnderWay, Busy
  <2> QED BY <1>1, <2>1 DEF Screen!IdleWhenDone, ShownBusy
<1>4. Screen!CallsAreCounted
  <2>1. DOMAIN screenCalls = 1 .. Len(screenCalls)
    BY <1>1 DEF CallBook
  <2>2. ASSUME NEW t \in ScreenTools
        PROVE  Screen!Cardinality(Screen!RunningOf(t)) = Screen!Cardinality(Screen!WaitedFor(t))
    <3>1. Screen!RunningOf(t) = Running(screenCalls, t) /\ Screen!WaitedFor(t) = Waited(screenCalls, screenWait, t)
      BY <2>1 DEF Screen!RunningOf, Screen!WaitedFor, Running, Waited
    <3>2. \A S : Screen!Cardinality(S) = Cardinality(S)
      BY DEF Screen!Cardinality, Cardinality
    <3> QED BY <1>1, <3>1, <3>2 DEF CallBook, OpenOK
  <2> QED BY <1>1, <2>1, <2>2 DEF Screen!CallsAreCounted, CallBook, OwnOK, ResultsOK, ActiveOK
<1>5. Screen!ModelsAreInUse
  BY <1>1 DEF Screen!ModelsAreInUse, ModelBook
<1> QED BY <1>2, <1>3, <1>4, <1>5 DEF Screen!ShellIsConsistent

\* The terminal shows what the model remembers once and in its order, is idle when no
\* run is under way, counts the calls of overlapping runs and gives each its own result
\* where runs do not overlap, and keeps a model only if it answers; its store lists each
\* call, task and step once, whatever events come late or twice: for any number of runs,
\* tools, models, saved sessions and events (App.tsx, agent-bridge.ts,
\* app-command-effects.ts, runtime/store.ts).
THEOREM ShellIsAlwaysConsistent == BundleSpec => []ShellIsConsistent
<1>1. [BundleNext]_bundle => [Screen!Next]_screenVars /\ [Store!Next]_storeVars
  BY DEF BundleNext, bundle
<1>2. ScreenInv /\ StoreInv /\ [BundleNext]_bundle => ScreenInv' /\ StoreInv'
  BY <1>1, ScreenKeeps, StoreKeeps
<1>3. ScreenInv /\ StoreInv => ShellIsConsistent
  BY ScreenHolds, StoreHolds DEF ShellIsConsistent
<1>4. BundleInit => ScreenInv /\ StoreInv
  BY ScreenStarts, StoreStarts
<1> QED BY <1>2, <1>3, <1>4, PTL DEF BundleSpec
=============================================================================
