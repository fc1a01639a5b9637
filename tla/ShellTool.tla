----------------------------- MODULE ShellTool -----------------------------
(***************************************************************************)
(* Shell commands in a sandbox container (tools/shell.ts): the probe of    *)
(* docker, a call with its docker client, its container and its timers,    *)
(* and the killing of a container.                                         *)
(*                                                                         *)
(* The client is attached to the container: it closes when the container   *)
(* ends, and a killed client leaves the container alone.  What the command *)
(* prints and how long it takes are inputs.                                *)
(***************************************************************************)
EXTENDS FiniteSets

CONSTANTS Calls, None

VARIABLES
  probe,        \* of docker: "none", "running", "up" or "down"
  call,         \* call -> its state
  container,    \* call -> "none", "starting", "running" or "gone"
  misled        \* history: calls for which an inspect or an rm -f of a running container failed

vars == <<probe, call, container, misled>>

\* at: "new", "probing", "open" while the promise is pending, or "answered";
\* client: None, "up" or "closed"; escalation: what asked for a kill -> its stage.
NewCall ==
  [at |-> "new", answer |-> None, client |-> None, overflowed |-> FALSE, timer |-> FALSE,
   killedOf |-> None, escalation |-> [why \in {"overflow", "timeout"} |-> "none"]]

Init ==
  /\ probe = "none"
  /\ call = [c \in Calls |-> NewCall]
  /\ container = [c \in Calls |-> "none"]
  /\ misled = {}

-----------------------------------------------------------------------------
(* Starting.                                                               *)

Spawned(c) ==
  /\ call' = [call EXCEPT ![c].at = "open", ![c].client = "up", ![c].timer = TRUE]
  /\ container' = [container EXCEPT ![c] = "starting"]

Unavailable(c) ==
  /\ call' = [call EXCEPT ![c].at = "answered", ![c].answer = "unavailable"]
  /\ UNCHANGED container

\* call: the first one probes docker.  One that comes during the probe does not
\* wait for it, and takes docker to be there.
Call(c) ==
  /\ call[c].at = "new"
  /\ \/ probe = "none" /\ probe' = "running" /\ call' = [call EXCEPT ![c].at = "probing"] /\ UNCHANGED container
     \/ probe \in {"running", "up"} /\ Spawned(c) /\ UNCHANGED probe
     \/ probe = "down" /\ Unavailable(c) /\ UNCHANGED probe
  /\ UNCHANGED misled

\* ensureDockerAvailable returns.
Probed(c, up) ==
  /\ call[c].at = "probing"
  /\ probe' = IF up THEN "up" ELSE "down"
  /\ IF up THEN Spawned(c) ELSE Unavailable(c)
  /\ UNCHANGED misled

-----------------------------------------------------------------------------
(* Answers.                                                                *)

\* finish: the first answer settles the call and clears its timer.
Finished(q, answer) ==
  IF q.at = "answered" THEN q ELSE [q EXCEPT !.at = "answered", !.answer = answer, !.timer = FALSE]

\* Docker cannot be spawned: only without docker.
SpawnFails(c) ==
  /\ call[c].client = "up" /\ container[c] = "starting" /\ probe # "up"
  /\ call' = [call EXCEPT ![c] = [Finished(@, "spawn failed") EXCEPT !.client = "closed"]]
  /\ container' = [container EXCEPT ![c] = "none"]
  /\ UNCHANGED <<probe, misled>>

\* The client closes: the container ended, could not be started, or the client was killed.
Closes(c) ==
  /\ call[c].client = "up"
  /\ container[c] \in {"none", "gone"} \/ call[c].overflowed
  /\ call' = [call EXCEPT ![c] =
       [Finished(@, IF @.overflowed THEN "overflow" ELSE "exited") EXCEPT !.client = "closed"]]
  /\ UNCHANGED <<probe, container, misled>>

\* Mutant: the client of a command that prints too much is killed, and nothing else.
ClientOnly(q, why) == q

\* escalateKill begins.
Escalated(q, why) == [q EXCEPT !.escalation[why] = "kill"]

\* checkOverflow
Overflows(c) ==
  /\ call[c].client = "up" /\ container[c] = "running" /\ ~call[c].overflowed
  /\ call' = [call EXCEPT ![c] = [Escalated(@, "overflow") EXCEPT !.overflowed = TRUE]]
  /\ UNCHANGED <<probe, container, misled>>

\* The hard timeout.  The client is not killed.
TimesOut(c) ==
  /\ call[c].timer /\ call[c].at = "open"
  /\ call' = [call EXCEPT ![c] = [Escalated(@, "timeout") EXCEPT !.timer = FALSE, !.killedOf = container[c]]]
  /\ UNCHANGED <<probe, container, misled>>

-----------------------------------------------------------------------------
(* The container, and the killing of it.                                   *)

Starts(c) ==
  /\ container[c] = "starting" /\ probe # "down" /\ call[c].client = "up"
  /\ container' = [container EXCEPT ![c] = "running"]
  /\ UNCHANGED <<probe, call, misled>>

\* The command ends, or its image cannot be run.
Ends(c) ==
  /\ container[c] \in {"starting", "running"}
  /\ container' = [container EXCEPT ![c] = "gone"]
  /\ UNCHANGED <<probe, call, misled>>

GoneIfRunning(c) == [container EXCEPT ![c] = IF @ = "running" THEN "gone" ELSE @]

Answered(q, why) == IF why = "timeout" THEN Finished(q, "timed out") ELSE q

\* containerRunning: an inspect that fails says that nothing runs.
NothingRuns(c, fails) == fails \/ container[c] # "running"

\* docker kill; the polls until nothing seems to run or the deadline is over;
\* docker rm -f. Each may fail, and no failure is looked at.
Escalates(c, why, fails) ==
  LET stage == call[c].escalation[why]
      To(s) == [call[c] EXCEPT !.escalation[why] = s]
      over == stage = "rm" \/ (stage = "poll" /\ NothingRuns(c, fails))
  IN  /\ stage \in {"kill", "poll", "rm"}
      /\ container' = IF stage # "poll" /\ ~fails THEN GoneIfRunning(c) ELSE container
      /\ misled' = IF stage # "kill" /\ fails /\ container[c] = "running"
                   THEN misled \union {c} ELSE misled
      /\ call' = [call EXCEPT ![c] = IF over THEN Answered(To("over"), why)
                                     ELSE To(IF stage = "kill" THEN "poll" ELSE "rm")]
      /\ UNCHANGED probe

Next ==
  \E c \in Calls :
    \/ Call(c) \/ SpawnFails(c) \/ Closes(c) \/ Overflows(c) \/ TimesOut(c) \/ Starts(c) \/ Ends(c)
    \/ \E up \in BOOLEAN : Probed(c, up)
    \/ \E why \in {"overflow", "timeout"}, fails \in BOOLEAN : Escalates(c, why, fails)

Spec == Init /\ [][Next]_vars

\* Docker's commands return (no timeout of the code stands behind them), an exit
\* is noticed, and timers fire.
Fairness ==
  \A c \in Calls :
    /\ WF_vars(\E up \in BOOLEAN : Probed(c, up)) /\ WF_vars(Closes(c)) /\ WF_vars(TimesOut(c))
    /\ \A why \in {"overflow", "timeout"} : WF_vars(\E fails \in BOOLEAN : Escalates(c, why, fails))

FairSpec == Spec /\ Fairness

-----------------------------------------------------------------------------
(* Properties.                                                             *)

\* Calls are answered, whatever becomes of their containers, clients and kills,
\* and an answer stands.
Waiting == {c \in Calls : call[c].at \in {"probing", "open"}}
CallsAreAnswered ==
  /\ Waiting # {} ~> Waiting = {}
  /\ [][\A c \in Calls : call[c].at = "answered" => call'[c].answer = call[c].answer]_vars

\* A container that was running when its command was found to print too much or
\* to overrun its time does not stay, though the kill may fail and the answer may
\* have been given before: unless a docker command failed behind the kill, the
\* inspect, whose failure is taken for a container that has stopped, or the last
\* resort, the rm -f.
Doomed ==
  {c \in Calls \ misled : /\ call[c].overflowed \/ call[c].killedOf = "running"
                          /\ container[c] # "gone"}
KilledIsGone == Doomed # {} ~> Doomed = {}
=============================================================================
