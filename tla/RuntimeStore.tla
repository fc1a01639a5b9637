---------------------------- MODULE RuntimeStore ----------------------------
(***************************************************************************)
(* The store behind the terminal (runtime/store.ts): one reducer, which    *)
(* takes the events of all the actors in the order they are published.     *)
(* "Events can arrive late or duplicated from concurrent actors"           *)
(* (task-machine.ts), so an event here may be any of those of              *)
(* runtime/events.ts.  A behaviour is about one part of the state: the     *)
(* conversation with its tool calls, the tasks, or the plan with its       *)
(* approvals; the events of the others do not touch it.  Texts, times and  *)
(* the details shown beside an actor are left out.                         *)
(***************************************************************************)
EXTENDS Integers, Sequences, FiniteSets, SequencesExt

CONSTANTS
  Ids,               \* of tool calls, tasks, steps and approvals
  Tools, None,
  MaxConversation, MaxToolCalls,
  MaxEvents

StoreAssumption ==
  /\ MaxConversation \in Nat /\ MaxToolCalls \in Nat
  /\ None \notin Tools /\ None \notin Ids /\ IsFiniteSet(Ids)

VARIABLES
  part,
  conversation,      \* sequence of [kind, id, status]
  toolCalls,         \* sequence of [id, tool, status]
  tasks,             \* sequence of [id, status]
  steps,             \* of the plan: sequence of [id, status]
  current, activeTool,
  approval, mode,
  actors,            \* the health of each
  events,
  \* history
  answered,          \* the approval answered last
  created            \* of each id, how often its task was created

talk == <<conversation, toolCalls, activeTool>>
work == <<tasks, created>>
plan == <<steps, current, approval, mode, answered>>
vars == <<part, talk, work, plan, actors, events>>

ActorIds ==
  {"conversation", "planner", "executor", "tasks", "git", "logs", "memory", "models", "mcp", "skills"}
Health == {"healthy", "active", "waiting", "error", "thinking", "muted"}
Modes == {"idle", "planning", "editing", "testing", "approval", "streaming"}
CallStatuses == {"running", "completed", "failed"}
StepStatuses == {"pending", "running", "completed", "failed", "skipped"}

Init ==
  /\ part \in {"talk", "tasks", "plan"}
  /\ conversation = <<>> /\ toolCalls = <<>> /\ tasks = <<>> /\ steps = <<>>
  /\ current = None /\ activeTool = None /\ approval = None
  /\ mode = "idle"
  /\ actors = [a \in ActorIds |-> IF a = "conversation" THEN "healthy" ELSE "muted"]
  /\ events = 0 /\ answered = None /\ created = [id \in Ids |-> 0]

Bounded(items, max) ==
  IF Len(items) > max THEN SubSeq(items, Len(items) - max + 1, Len(items)) ELSE items

Published(p) ==
  /\ part = p
  /\ events < MaxEvents
  /\ events' = events + 1
  /\ part' = part

WithActor(a, health) == actors' = [actors EXCEPT ![a] = health]

Entry(kind, id, status) == [kind |-> kind, id |-> id, status |-> status]

Has(items, id) == \E i \in DOMAIN items : items[i].id = id
Index(items, id) == SelectInSeq(items, LAMBDA e : e.id = id)

-----------------------------------------------------------------------------
(* The conversation.                                                       *)

Say(entry) == conversation' = Bounded(Append(conversation, entry), MaxConversation)

\* Messages, decisions, diffs and results of tests: an entry, and the health of its actor.
Remarks ==
  {<<"text", "conversation", "healthy">>, <<"decision", "planner", "healthy">>,
   <<"diff_preview", "executor", "healthy">>,
   <<"test_result", "executor", "healthy">>, <<"test_result", "executor", "error">>}
Message ==
  \E r \in Remarks :
    /\ Published("talk")
    /\ Say(Entry(r[1], None, "done"))
    /\ WithActor(r[2], r[3])
    /\ UNCHANGED <<toolCalls, activeTool, work, plan>>

\* A chunk grows the last entry, if that is a text of its role.
Chunk(role) ==
  /\ Published("talk")
  /\ IF conversation # <<>> /\ Last(conversation) = Entry("text", role, "open")
     THEN UNCHANGED conversation
     ELSE Say(Entry("text", role, "open"))
  /\ WithActor("conversation", IF role = "thinking" THEN "thinking" ELSE "active")
  /\ UNCHANGED <<toolCalls, activeTool, work, plan>>

Clear ==
  /\ Published("talk")
  /\ conversation' = <<>>
  /\ UNCHANGED <<toolCalls, activeTool, actors, work, plan>>

\* conversation.tool_call: in the place of the entry of the call, if there is one.
ShowCall(id, tool, status) ==
  LET at == SelectInSeq(conversation, LAMBDA e : e.kind = "tool_call" /\ e.id = id)
      entry == Entry("tool_call", id, status)
  IN  /\ Published("talk")
      /\ IF at > 0 THEN conversation' = [conversation EXCEPT ![at] = entry] ELSE Say(entry)
      /\ activeTool' = IF status = "running" THEN tool ELSE activeTool
      /\ WithActor("executor", CASE status = "failed" -> "error"
                                 [] status = "running" -> "active"
                                 [] OTHER -> "healthy")
      /\ UNCHANGED <<toolCalls, work, plan>>

\* conversation.card, and conversation.card_item: an item of the last entry, if that is
\* its card.
Card(id, status) ==
  /\ Published("talk")
  /\ Say(Entry("card", id, status))
  /\ WithActor("tasks", IF status = "running" THEN "active" ELSE "healthy")
  /\ UNCHANGED <<toolCalls, activeTool, work, plan>>

CardItem(id, status) ==
  /\ Published("talk")
  /\ IF conversation # <<>> /\ Last(conversation).kind = "card" /\ Last(conversation).id = id
     THEN WithActor("tasks", IF status = "running" THEN "active" ELSE "healthy")
     ELSE UNCHANGED actors
  /\ UNCHANGED <<talk, work, plan>>

\* tool.started.
Started(id, tool) ==
  LET all == Append(toolCalls, [id |-> id, tool |-> tool, status |-> "running"])
  IN  /\ Published("talk")
      /\ toolCalls' = Bounded(all, MaxToolCalls)
      /\ activeTool' = tool
      /\ WithActor("executor", "active")
      /\ UNCHANGED <<conversation, work, plan>>

Running(calls) == {i \in DOMAIN calls : calls[i].status = "running"}

\* tool.completed and tool.failed.
Settled(id, status) ==
  /\ Published("talk")
  /\ toolCalls' = [i \in DOMAIN toolCalls |->
       IF toolCalls[i].id = id THEN [toolCalls[i] EXCEPT !.status = status] ELSE toolCalls[i]]
  /\ activeTool' = IF Running(toolCalls') = {} THEN None ELSE activeTool
  /\ WithActor("executor", CASE status = "failed" -> "error"
                             [] status # "failed" /\ Running(toolCalls') # {} -> "active"
                             [] OTHER -> "healthy")
  /\ UNCHANGED <<conversation, work, plan>>

\* An error: its text is told as a notification too.
Error ==
  /\ Published("talk")
  /\ WithActor("executor", "error")
  /\ UNCHANGED <<talk, work, plan>>

-----------------------------------------------------------------------------
(* Tasks.                                                                  *)

Transitions ==
  [queued |-> {"running", "blocked", "cancelled"},
   blocked |-> {"queued", "running", "cancelled"},
   running |-> {"completed", "failed", "blocked", "cancelled"},
   completed |-> {}, failed |-> {"queued"}, cancelled |-> {}]
TaskStatuses == DOMAIN Transitions
CanTransition(from, to) == to \in Transitions[from]

ApplyTaskTransition(id, status) ==
  LET at == Index(tasks, id)
  IN  IF at > 0 /\ CanTransition(tasks[at].status, status)
      THEN [tasks EXCEPT ![at].status = status] ELSE tasks

TaskHealth(all) ==
  LET statuses == {all[i].status : i \in DOMAIN all}
  IN  CASE "failed" \in statuses -> "error"
        [] "failed" \notin statuses /\ "running" \in statuses -> "active"
        [] OTHER -> "healthy"

Without(id, all) ==
  FoldLeft(LAMBDA others, t : IF t.id = id THEN others ELSE Append(others, t), <<>>, all)

\* task.created: the task is put last, in place of one of its id.
TaskCreated(id) ==
  /\ Published("tasks")
  /\ tasks' = Append(Without(id, tasks), [id |-> id, status |-> "queued"])
  /\ created' = [created EXCEPT ![id] = @ + 1]
  /\ WithActor("tasks", "active")
  /\ UNCHANGED <<talk, plan>>

TaskProgress(id, status) ==
  /\ Published("tasks")
  /\ tasks' = ApplyTaskTransition(id, status)
  /\ WithActor("tasks", TaskHealth(tasks'))
  /\ UNCHANGED <<talk, created, plan>>

-----------------------------------------------------------------------------
(* The plan, approvals and the mode.                                       *)

\* execution.goal.
Goal(ids) ==
  /\ Published("plan")
  /\ steps' = [i \in DOMAIN ids |-> [id |-> ids[i], status |-> "pending"]]
  /\ current' = None
  /\ mode' = "planning"
  /\ WithActor("planner", "thinking")
  /\ UNCHANGED <<talk, work, approval, answered>>

\* conversation.plan: the steps are replaced, the current one is kept.
Plan(ids, status) ==
  /\ Published("plan")
  /\ steps' = [i \in DOMAIN ids |-> [id |-> ids[i], status |-> "pending"]]
  /\ WithActor("planner", IF status = "running" THEN "thinking" ELSE "healthy")
  /\ UNCHANGED <<talk, work, current, approval, mode, answered>>

Over(all) == \A i \in DOMAIN all : all[i].status \notin {"pending", "running"}

\* execution.step.
Step(id, status) ==
  LET step == [id |-> id, status |-> status]
  IN  /\ Published("plan")
      /\ steps' = IF Has(steps, id)
                  THEN [i \in DOMAIN steps |-> IF steps[i].id = id THEN step ELSE steps[i]]
                  ELSE Append(steps, step)
      /\ current' = IF status = "running" THEN id ELSE current
      /\ WithActor("planner", IF Over(steps') THEN "healthy" ELSE "thinking")
      /\ UNCHANGED <<talk, work, approval, mode, answered>>

Requested(id) ==
  /\ Published("plan")
  /\ approval' = id
  /\ mode' = "approval"
  /\ WithActor("executor", "waiting")
  /\ UNCHANGED <<talk, work, steps, current, answered>>

\* approval.resolved: nothing, unless it is of the approval that is shown.
Resolved(id) ==
  /\ Published("plan")
  /\ IF approval = id THEN approval' = None /\ mode' = "idle"
     ELSE UNCHANGED <<approval, mode>>
  /\ answered' = id
  /\ UNCHANGED <<talk, work, steps, current, actors>>

ModeChanged(m) ==
  /\ Published("plan")
  /\ mode' = m
  /\ UNCHANGED <<talk, work, steps, current, approval, answered, actors>>

\* The other actors report their health: models, git, logs, memory, mcp, skills.
Reports ==
  {<<"models", "thinking">>, <<"models", "healthy">>, <<"git", "waiting">>, <<"git", "healthy">>,
   <<"logs", "error">>, <<"logs", "healthy">>, <<"memory", "healthy">>,
   <<"mcp", "muted">>, <<"mcp", "error">>, <<"mcp", "healthy">>,
   <<"skills", "muted">>, <<"skills", "active">>, <<"skills", "healthy">>}
Report(a, health) ==
  /\ Published("tasks")
  /\ WithActor(a, IF a = "logs" /\ actors["logs"] = "error" THEN "error" ELSE health)
  /\ UNCHANGED <<talk, work, plan>>

Next ==
  \/ Message \/ Clear \/ Error
  \/ \E role \in {"assistant", "thinking"} : Chunk(role)
  \/ \E id \in Ids :
       \/ \E tool \in Tools :
            Started(id, tool) \/ \E status \in CallStatuses : ShowCall(id, tool, status)
       \/ \E status \in {"completed", "failed"} : Settled(id, status)
       \/ \E status \in {"running", "completed"} : Card(id, status) \/ CardItem(id, status)
       \/ TaskCreated(id) \/ Requested(id) \/ Resolved(id)
       \/ \E status \in TaskStatuses : TaskProgress(id, status)
       \/ \E status \in StepStatuses : Step(id, status)
  \/ \E ids \in SetToSeqs(Ids) :
       Goal(ids) \/ \E status \in {"pending", "running", "completed"} : Plan(ids, status)
  \/ \E m \in {"idle", "streaming"} : ModeChanged(m)
  \/ \E r \in Reports : Report(r[1], r[2])

Spec == Init /\ [][Next]_vars

-----------------------------------------------------------------------------
(* Properties.                                                             *)

TypeOK ==
  /\ Len(conversation) <= MaxConversation /\ Len(toolCalls) <= MaxToolCalls
  /\ \A i \in DOMAIN toolCalls : toolCalls[i].status \in CallStatuses
  /\ \A i \in DOMAIN tasks : tasks[i].status \in TaskStatuses
  /\ \A i \in DOMAIN steps : steps[i].status \in StepStatuses
  /\ mode \in Modes /\ actors \in [ActorIds -> Health]

\* However events repeat and buffers are cut, a tool call has one entry in the
\* conversation, and a task and a step one in their lists.
OneEach(items) == \A i, j \in DOMAIN items : items[i].id = items[j].id => i = j
EntriesAreUnique ==
  /\ \A i, j \in DOMAIN conversation :
       conversation[i].kind = "tool_call" /\ conversation[j].kind = "tool_call"
         /\ conversation[i].id = conversation[j].id => i = j
  /\ OneEach(tasks) /\ OneEach(steps)

\* While a call that is still listed runs, a tool is shown as active.
ActiveWhileRunning == Running(toolCalls) # {} => activeTool # None

\* A task that is over stays over, whatever reports come late or twice, unless it is
\* created again; and a task that failed runs again only after it was queued.
OverIsOver ==
  [][\A i \in DOMAIN tasks : \A j \in DOMAIN tasks' :
       /\ tasks[i].id = tasks'[j].id
       /\ created'[tasks[i].id] = created[tasks[i].id]
       => /\ tasks[i].status \in {"completed", "cancelled"} => tasks'[j].status = tasks[i].status
          /\ tasks[i].status = "failed" => tasks'[j].status # "running"]_vars

\* An approval leaves the screen only by an answer to it or for a newer one: an answer
\* to an older one that comes late takes nothing away, nor changes the mode.
AnsweredByItsOwn ==
  [][approval # None /\ approval' = None => answered' = approval]_vars

StoreIsConsistent == TypeOK /\ EntriesAreUnique /\ ActiveWhileRunning

ReportsUndoNothing == OverIsOver /\ AnsweredByItsOwn
=============================================================================
