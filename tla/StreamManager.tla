--------------------------- MODULE StreamManager ---------------------------
(***************************************************************************)
(* The WebSocket streams (src/exchange/binance-stream.ts): sockets that    *)
(* reconnect, subscriptions and price alerts, with the calls that wait for *)
(* a first connection and a first tick                                     *)
(* (getLiveTick and the tools of tools/binance-stream-tools.ts).           *)
(*                                                                         *)
(* A WebSocket is a slot of `conn`.  Timing is left out: a retry timer may *)
(* fire at any time, so the doubling of its delay does not show.           *)
(***************************************************************************)
EXTENDS Integers, Sequences, FiniteSets

CONSTANTS
  Steady,        \* stream keys of klines and of liquidations
  Tickers,       \* stream keys of tickers
  Callers,       \* who reads ticks or sets alerts, each on a ticker of its own choice
  Slots,         \* 1 .. n, bound on the sockets that exist at a time
  Prices, Threshold,
  MaxFailures,   \* bound on failed attempts and drops
  MaxUnsubscribes,
  None, ClosedSocket

Streams == Steady \union Tickers

StreamAssumption ==
  /\ Steady \intersect Tickers = {}
  /\ Slots \subseteq Nat /\ Prices \subseteq Int /\ Threshold \in Int
  /\ None # ClosedSocket /\ {None, ClosedSocket} \intersect (Slots \union Prices) = {}

VARIABLES
  sockets,             \* stream key -> its last WebSocket: a slot, closed, or None if not in the map
  conn,                \* slot -> [stream, phase, first], phase "idle" when free
  retries,             \* stream key -> retry timers that are running
  closedIntentionally,
  latest,              \* ticker -> last price
  alerts,              \* alerts: [ticker, triggeredPrice]
  call,                \* caller -> [at, on, slot]
  failures, unsubscribes,
  wanted,              \* history: streams whose last request was to subscribe
  adopted              \* history: streams whose subscribe() found the socket of a timer
                       \* that outlived an unsubscribe()

data == <<latest, alerts>>
vars == <<sockets, conn, retries, closedIntentionally, data, call, failures, unsubscribes, wanted, adopted>>

Free == [stream |-> None, phase |-> "idle", first |-> FALSE]
NoCall == [at |-> "idle", on |-> None, slot |-> None]

Init ==
  /\ sockets = [s \in Streams |-> None]
  /\ conn = [i \in Slots |-> Free]
  /\ retries = [s \in Streams |-> 0]
  /\ closedIntentionally = {}
  /\ latest = [s \in Tickers |-> None] /\ alerts = {}
  /\ call = [c \in Callers |-> NoCall]
  /\ failures = 0 /\ unsubscribes = 0
  /\ wanted = {} /\ adopted = {}

IsSubscribed(s) == sockets[s] # None
Conns(s, phases) == {i \in Slots : conn[i].stream = s /\ conn[i].phase \in phases}

\* A slot for a new WebSocket.  The bound on slots is never what stops one.
NewSlot == CHOOSE i \in Slots :
  conn[i].phase = "idle" /\ \A j \in Slots : conn[j].phase = "idle" => i <= j
HasSlot == \E i \in Slots : conn[i].phase = "idle"

\* attempt(isFirst)
Attempt(s, isFirst) ==
  /\ HasSlot
  /\ conn' = [conn EXCEPT ![NewSlot] = [stream |-> s, phase |-> "connecting", first |-> isFirst]]
  /\ sockets' = [sockets EXCEPT ![s] = NewSlot]

-----------------------------------------------------------------------------
(* Subscriptions.                                                          *)

\* subscribe, subscribeKline, subscribeLiquidations: what is in the map counts
\* as subscribed.
Subscribe(s) ==
  /\ wanted' = wanted \union {s}
  /\ IF IsSubscribed(s)
     THEN /\ adopted' = adopted \union ({s} \intersect closedIntentionally)
          /\ UNCHANGED <<sockets, conn, closedIntentionally>>
     ELSE /\ Attempt(s, TRUE)
          /\ closedIntentionally' = closedIntentionally \ {s}
          /\ adopted' = adopted \ {s}
  /\ UNCHANGED <<retries, data, failures, unsubscribes>>

\* The daemon subscribes klines and liquidations once, when it starts.
SubscribeOnce(s) ==
  /\ s \in Steady /\ s \notin wanted
  /\ Subscribe(s)
  /\ UNCHANGED call

\* What terminate() does to the socket of a stream: an open one closes later,
\* one that is connecting fails at once, a closed one is left alone.
Terminated(s, c) ==
  [i \in Slots |->
     IF i # sockets[s] THEN c[i]
     ELSE IF c[i].phase = "open" THEN [c[i] EXCEPT !.phase = "closing"] ELSE Free]

\* The first connection of a caller was given up: its subscribe() rejects.
Rejected(slot) ==
  [c \in Callers |-> IF call[c].at = "connecting" /\ call[c].slot = slot THEN NoCall ELSE call[c]]

Unsubscribe(s) ==
  /\ s \in Tickers /\ unsubscribes < MaxUnsubscribes
  /\ unsubscribes' = unsubscribes + 1
  /\ wanted' = wanted \ {s} /\ adopted' = adopted \ {s}
  /\ IF IsSubscribed(s)
     THEN /\ closedIntentionally' = closedIntentionally \union {s}
          /\ conn' = Terminated(s, conn)
          /\ call' = Rejected(sockets[s])
          /\ sockets' = [sockets EXCEPT ![s] = None]
          /\ latest' = [latest EXCEPT ![s] = None]
     ELSE UNCHANGED <<closedIntentionally, conn, call, sockets, latest>>
  /\ UNCHANGED <<retries, alerts, failures>>

-----------------------------------------------------------------------------
(* Socket events.                                                          *)

\* Mutant: the first failure is left to the caller, who may try again.
RetryUnlessFirst(s, first) ==
  IF s \in closedIntentionally \/ first THEN retries ELSE [retries EXCEPT ![s] = @ + 1]
\* Mutant: the error handler starts a timer, and the close handler another.
RetryOnBoth(s, first) ==
  IF s \in closedIntentionally THEN retries ELSE [retries EXCEPT ![s] = @ + IF first THEN 2 ELSE 1]

\* The close handler: a retry, unless the stream was closed on purpose.
RetryAfter(s, first) ==
  IF s \in closedIntentionally THEN retries ELSE [retries EXCEPT ![s] = @ + 1]

\* A WebSocket that has closed stays in the map.
Gone(i) ==
  /\ conn' = [conn EXCEPT ![i] = Free]
  /\ sockets' = [s \in Streams |-> IF sockets[s] = i THEN ClosedSocket ELSE sockets[s]]

Opens(i) ==
  /\ conn[i].phase = "connecting"
  /\ conn' = [conn EXCEPT ![i].phase = "open"]
  /\ call' = [c \in Callers |->
                IF call[c].at = "connecting" /\ call[c].slot = i
                THEN [call[c] EXCEPT !.at = "subscribed", !.slot = None] ELSE call[c]]
  /\ UNCHANGED <<sockets, retries, closedIntentionally, data, failures, unsubscribes, wanted, adopted>>

\* An attempt fails: 'error', then 'close'.  The first one of a connect() takes
\* the stream out of the map and rejects.
Fails(i) ==
  LET s == conn[i].stream
  IN  /\ conn[i].phase = "connecting" /\ failures < MaxFailures
      /\ failures' = failures + 1
      /\ IF conn[i].first
         THEN conn' = [conn EXCEPT ![i] = Free] /\ sockets' = [sockets EXCEPT ![s] = None]
         ELSE Gone(i)
      /\ call' = Rejected(i)
      /\ retries' = RetryAfter(s, conn[i].first)
      /\ UNCHANGED <<closedIntentionally, data, unsubscribes, wanted, adopted>>

\* A connection drops, or has finished closing.
Closes(i) ==
  /\ \/ conn[i].phase = "open" /\ failures < MaxFailures /\ failures' = failures + 1
     \/ conn[i].phase = "closing" /\ UNCHANGED failures
  /\ Gone(i)
  /\ retries' = RetryAfter(conn[i].stream, FALSE)
  /\ UNCHANGED <<closedIntentionally, data, call, unsubscribes, wanted, adopted>>

\* The timer of a retry is not cancelled by anything.
Retry(s) ==
  /\ retries[s] > 0
  /\ retries' = [retries EXCEPT ![s] = @ - 1]
  /\ Attempt(s, FALSE)
  /\ UNCHANGED <<closedIntentionally, data, call, failures, unsubscribes, wanted, adopted>>

\* checkAlerts: an alert is hit once, by a price at or above its threshold.
CheckAlerts(s, price) ==
  {IF a.ticker = s /\ a.triggeredPrice = None /\ price >= Threshold
   THEN [a EXCEPT !.triggeredPrice = price] ELSE a : a \in alerts}

TickerMessage(i, price) ==
  /\ conn[i].phase = "open" /\ conn[i].stream \in Tickers
  /\ latest' = [latest EXCEPT ![conn[i].stream] = price]
  /\ alerts' = CheckAlerts(conn[i].stream, price)
  /\ UNCHANGED <<sockets, conn, retries, closedIntentionally, call, failures,
                 unsubscribes, wanted, adopted>>

-----------------------------------------------------------------------------
(* Callers.                                                                *)

\* getLiveTick, binance_watch_price and binance_price_alert begin alike: wait
\* for a subscription unless there is one.
StartCall(c, s) ==
  /\ call[c].at = "idle" /\ s \in Tickers
  /\ Subscribe(s)
  /\ call' = [call EXCEPT ![c] =
                IF IsSubscribed(s) THEN [at |-> "subscribed", on |-> s, slot |-> None]
                ELSE [at |-> "connecting", on |-> s, slot |-> NewSlot]]

\* Mutant: looks until there is a tick.
AnswerWhenTicked(c) ==
  /\ call[c].at = "subscribed" /\ latest[call[c].on] # None
  /\ call' = [call EXCEPT ![c] = NoCall]
  /\ UNCHANGED <<sockets, conn, retries, closedIntentionally, data, failures, unsubscribes, wanted, adopted>>

\* The tick is there, or the call has looked twenty times.
AnswerTick(c) ==
  /\ call[c].at = "subscribed"
  /\ call' = [call EXCEPT ![c] = NoCall]
  /\ UNCHANGED <<sockets, conn, retries, closedIntentionally, data, failures, unsubscribes, wanted, adopted>>

\* createAlert, after its subscription; at most one alert for each ticker here.
AddAlert(c) ==
  /\ call[c].at = "subscribed"
  /\ \A a \in alerts : a.ticker # call[c].on
  /\ alerts' = alerts \union {[ticker |-> call[c].on, triggeredPrice |-> None]}
  /\ call' = [call EXCEPT ![c] = NoCall]
  /\ UNCHANGED <<sockets, conn, retries, closedIntentionally, latest, failures,
                 unsubscribes, wanted, adopted>>

RemoveAlert(a) ==
  /\ a \in alerts
  /\ alerts' = alerts \ {a}
  /\ UNCHANGED <<sockets, conn, retries, closedIntentionally, latest, call,
                 failures, unsubscribes, wanted, adopted>>

Next ==
  \/ \E s \in Streams : SubscribeOnce(s) \/ Unsubscribe(s) \/ Retry(s)
  \/ \E i \in Slots : Opens(i) \/ Fails(i) \/ Closes(i)
  \/ \E i \in Slots, p \in Prices : TickerMessage(i, p)
  \/ \E c \in Callers, s \in Streams : StartCall(c, s)
  \/ \E c \in Callers : AnswerTick(c) \/ AddAlert(c)
  \/ \E a \in alerts : RemoveAlert(a)

Spec == Init /\ [][Next]_vars

\* A timer fires, a handshake ends one way or the other, a call gives up after
\* twenty looks.
Fairness ==
  /\ \A s \in Streams : WF_vars(Retry(s))
  /\ \A i \in Slots : WF_vars(Opens(i) \/ Fails(i))
  /\ \A c \in Callers : WF_vars(AnswerTick(c) \/ AddAlert(c))

FairSpec == Spec /\ Fairness

-----------------------------------------------------------------------------
(* Properties.                                                             *)

Live(s) == Conns(s, {"connecting", "open"})

\* A wanted stream is on its way, with a connection or a timer that makes one, unless
\* its subscribe() took over the socket of a timer that outlived an unsubscribe() and
\* returned: such a stream still counts as closed on purpose, and its next drop is not
\* retried.  That never happens to klines and liquidations.
OnlyAdoptedForgotten ==
  /\ \A s \in wanted \ adopted : Live(s) # {} \/ retries[s] > 0 \/ Conns(s, {"closing"}) # {}
  /\ adopted \intersect Steady = {}

\* A kline stream never has two connections, or one and a timer: its callback
\* would be called twice for a candle.
OneConnection == \A s \in Steady : Cardinality(Live(s)) + retries[s] <= 1

\* A kline or liquidation stream comes back after every drop and after a first
\* attempt that failed ("reconnects silently in the background").
StreamsComeBack ==
  \A s \in Steady : s \in wanted ~> Conns(s, {"open"}) # {}

\* Whoever waits for a connection is answered, whoever unsubscribes meanwhile.
CallsAreAnswered == \A c \in Callers : call[c].at # "idle" ~> call[c].at = "idle"
=============================================================================
