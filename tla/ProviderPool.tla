---------------------------- MODULE ProviderPool ----------------------------
(***************************************************************************)
(* How a request of the coding agent reaches a model: the primary provider *)
(* or a routed delegate (cli/agent.ts), the router's fail-over             *)
(* (provider/router.ts), the model catalog (provider/catalog.ts) and the   *)
(* rotation of API keys (provider/provider.ts).                            *)
(*                                                                         *)
(* What the service answers is an input.  A reply is whether anything was  *)
(* streamed, whether a done chunk came and how the stream ended.           *)
(***************************************************************************)
EXTENDS Integers, Sequences, FiniteSets, SequencesExt, FiniteSetsExt

CONSTANTS
  Requests,      \* ids 1 .. n, in the order they are made
  MaxAtATime,    \* requests at a time: 1, or the ready steps of a plan
  NKeys,         \* API keys of a cloud provider
  Listed,        \* tier -> the models its server lists, each with its capabilities
  Capabilities,  \* a request may be classified as, "tools" apart
  None

Model(tier) == [name : STRING, tier : {tier}, caps : SUBSET (Capabilities \union {"tools"})]

PoolAssumption ==
  /\ Requests \subseteq Nat \ {0} /\ IsFiniteSet(Requests) /\ NKeys \in Nat \ {0}
  /\ None \notin Capabilities \union {"local", "cloud", "primary"}
  /\ \A tier \in {"local", "cloud"} : Listed[tier] \in Seq(Model(tier))

VARIABLES
  keyIndex,      \* of the two providers that hold keys
  refresh,       \* of the catalog: "none", "running" or "done"
  catalog,       \* the models that were listed
  req            \* request -> its state

vars == <<keyIndex, refresh, catalog, req>>

\* at: where it is; left: candidates after the one asked; provider: the one asked;
\* attempt, key: of the chat; limited: keys that answered 429 in this chat;
\* refused: history, the models that failed, with how; shown: models whose text the user saw.
NewRequest ==
  [at |-> "new", cap |-> None, tools |-> FALSE, left |-> <<>>, provider |-> None,
   model |-> None, attempt |-> 0, key |-> 0, limited |-> {}, refused |-> <<>>, shown |-> <<>>]

Init ==
  /\ keyIndex = [p \in {"primary", "cloud"} |-> 0]
  /\ refresh = "none" /\ catalog = <<>>
  /\ req = [r \in Requests |-> NewRequest]

Pending == {r \in Requests : req[r].at \in {"cataloguing", "waiting"}}

-----------------------------------------------------------------------------
(* The catalog.                                                            *)

AbleTo(what, models) ==
  FoldLeft(LAMBDA able, m : IF what \in m.caps THEN Append(able, m) ELSE able, <<>>, models)
ModelsFor(cap) == AbleTo(cap, catalog)

\* The candidates of a route, local ones first as refresh lists them: of the
\* capability and able to call tools when tools are sent, or else any that is able to.
Candidates(cap, tools) ==
  LET able == IF tools THEN AbleTo("tools", ModelsFor(cap)) ELSE ModelsFor(cap)
  IN  IF able # <<>> THEN able ELSE ModelsFor("tools")

-----------------------------------------------------------------------------
(* Sending.                                                                *)

\* chat: the key is the one the provider stands at when the request leaves.
Chat(q, provider, model, left) ==
  [q EXCEPT !.at = "waiting", !.provider = provider, !.model = model, !.left = left,
            !.attempt = 0, !.limited = {},
            !.key = IF provider = "local" THEN 0 ELSE keyIndex[provider]]

MaxAttempts(q) == IF q.provider = "local" THEN 1 ELSE NKeys

\* classifyCapability, and ensureCatalog, which refreshes once for good.
Ask(r, cap, tools) ==
  LET q == [req[r] EXCEPT !.cap = cap, !.tools = tools]
  IN  /\ req[r].at = "new" /\ \A p \in Requests : p < r => req[p].at # "new"
      /\ Cardinality(Pending) < MaxAtATime
      /\ req' = [req EXCEPT ![r] = IF cap = None THEN Chat(q, "primary", "chosen", <<>>)
                                   ELSE [q EXCEPT !.at = "cataloguing"]]
      /\ refresh' = IF cap # None /\ refresh = "none" THEN "running" ELSE refresh
      /\ UNCHANGED <<keyIndex, catalog>>

\* refresh: a tier whose server does not answer lists nothing.
Refreshed(up) ==
  /\ refresh = "running" /\ refresh' = "done"
  /\ catalog' = (IF "local" \in up THEN Listed["local"] ELSE <<>>)
                \o (IF "cloud" \in up THEN Listed["cloud"] ELSE <<>>)
  /\ UNCHANGED <<keyIndex, req>>

\* The request goes to the primary model when nothing is listed for the
\* capability, and is routed otherwise.
Route(r) ==
  LET cs == Candidates(req[r].cap, req[r].tools)
  IN  /\ req[r].at = "cataloguing" /\ refresh = "done"
      /\ req' = [req EXCEPT ![r] =
           IF ModelsFor(@.cap) = <<>> THEN Chat(@, "primary", "chosen", <<>>)
           ELSE IF cs = <<>> THEN [@ EXCEPT !.at = "failed"]
           ELSE Chat(@, cs[1].tier, cs[1].name, Tail(cs))]
      /\ UNCHANGED <<keyIndex, refresh, catalog>>

-----------------------------------------------------------------------------
(* Answers.                                                                *)

\* RateLimitError, TimeoutError, TypeError, or a model without tools.
Recoverable == {"rate limited", "timed out", "unreachable", "no tools"}

\* chat throws: the next candidate is asked if the error is recoverable.
Failed(q, why) ==
  LET p == [q EXCEPT !.refused = Append(@, <<q.model, why>>)]
  IN  IF why \in Recoverable /\ q.left # <<>>
      THEN Chat(p, Head(q.left).tier, Head(q.left).name, Tail(q.left))
      ELSE [p EXCEPT !.at = "failed"]

Fails(r, why) ==
  /\ req[r].at = "waiting"
  /\ why = "timed out" => req[r].provider # "local"
  /\ req' = [req EXCEPT ![r] = Failed(@, why)]
  /\ UNCHANGED <<keyIndex, refresh, catalog>>

\* Mutant: the retry goes with the key that was limited.
SameKey(p) == keyIndex[p]
NextKey(p) == (keyIndex[p] + 1) % NKeys

HasAttempts(q) == q.attempt < MaxAttempts(q) - 1

\* A 429: the next key of the provider, or the next candidate after as many
\* attempts as there are keys.
RateLimited(r) ==
  LET q == [req[r] EXCEPT !.limited = @ \union {req[r].key}]
      k == NextKey(q.provider)
  IN  /\ req[r].at = "waiting"
      /\ IF HasAttempts(q)
         THEN /\ keyIndex' = [keyIndex EXCEPT ![q.provider] = k]
              /\ req' = [req EXCEPT ![r] = [q EXCEPT !.attempt = @ + 1, !.key = k]]
         ELSE /\ req' = [req EXCEPT ![r] = Failed(q, "rate limited")]
              /\ UNCHANGED keyIndex
      /\ UNCHANGED <<refresh, catalog>>

\* streamChunks: the final chunk, or what has come if the stream ends without
\* one; an empty stream is an error, and one that breaks off a TypeError.
Streamed(q, text, done, cut) ==
  LET p == IF text THEN [q EXCEPT !.shown = Append(@, q.model)] ELSE q
  IN  IF cut THEN Failed(p, "unreachable")
      ELSE IF text \/ done THEN [p EXCEPT !.at = "answered"]
      ELSE Failed(p, "empty")

Replies(r, text, done, cut) ==
  /\ req[r].at = "waiting" /\ ~(done /\ cut)
  /\ req' = [req EXCEPT ![r] = Streamed(@, text, done, cut)]
  /\ UNCHANGED <<keyIndex, refresh, catalog>>

Next ==
  \/ \E r \in Requests, cap \in Capabilities \union {None}, tools \in BOOLEAN : Ask(r, cap, tools)
  \/ \E up \in SUBSET {"local", "cloud"} : Refreshed(up)
  \/ \E r \in Requests : Route(r) \/ RateLimited(r)
  \/ \E r \in Requests, why \in (Recoverable \union {"http error"}) \ {"rate limited"} : Fails(r, why)
  \/ \E r \in Requests, text, done, cut \in BOOLEAN : Replies(r, text, done, cut)

Spec == Init /\ [][Next]_vars

-----------------------------------------------------------------------------
(* Properties.                                                             *)

AskedOf(q) == {q.refused[i][1] : i \in DOMAIN q.refused}
RoutedTo(q) == Candidates(q.cap, q.tools)
IsRouted(q) == q.provider \in {"local", "cloud"}

\* "On a 429 the provider rotates to the next key and retries before giving up"
\* (provider.ts:52): a chat that is given up as rate limited was refused with
\* every key, wherever the requests before it have left the rotation.
EveryKeyIsTried ==
  [][\A r \in Requests :
       Len(req'[r].refused) > Len(req[r].refused) /\ Last(req'[r].refused)[2] = "rate limited"
       /\ req[r].provider # "local"
       => req[r].limited \union {req[r].key} = 0 .. NKeys - 1]_vars

\* A routed request fails only after an error no other model would mend, or
\* after every candidate refused; and the cloud is asked only after every local
\* candidate refused.
GivesUpLast ==
  \A r \in Requests : IsRouted(req[r]) =>
    /\ req[r].at = "failed" =>
         \/ Last(req[r].refused)[2] \notin Recoverable
         \/ AskedOf(req[r]) = {m.name : m \in Range(RoutedTo(req[r]))}
    /\ req[r].provider = "cloud" =>
         {m.name : m \in {c \in Range(RoutedTo(req[r])) : c.tier = "local"}} \subseteq AskedOf(req[r])

\* "a wrong or missed classification never breaks the turn, only skips routing"
\* (agent.ts:420): a request fails with an answer of a model that was asked.
ClassificationNeverBreaksTheTurn ==
  \A r \in Requests : req[r].at = "failed" => req[r].refused # <<>>

\* The text the user saw is of the model that answered.
ShownIsTheAnswer ==
  \A r \in Requests : req[r].at = "answered" => Range(req[r].shown) \subseteq {req[r].model}
=============================================================================
