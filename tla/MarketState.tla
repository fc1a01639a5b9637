---------------------------- MODULE MarketState ----------------------------
(***************************************************************************)
(* The candle stores of market-state/market-state.ts and candle-store.ts,  *)
(* backfilled over REST and kept current by the candle events of the       *)
(* Binance client (exchange/binance/client.ts).                            *)
(*                                                                         *)
(* One symbol, on several timeframes; a candle is its timeframe, its open  *)
(* time and whether it had closed when it was read.                        *)
(***************************************************************************)
EXTENDS Integers, Sequences, FiniteSets, SequencesExt

CONSTANTS
  Timeframes,
  Duration,       \* of a bar of each timeframe
  Watchers,       \* concurrent callers of watch
  MaxSize,        \* of a store
  Backfill,       \* backfillLimit
  MaxTime,        \* bound on the open time of the bars that close
  MaxReplays,     \* bound on candles repeated by a reconnect
  None

MarketAssumption ==
  /\ Duration \in [Timeframes -> Nat \ {0}]
  /\ MaxSize \in Nat \ {0} /\ Backfill \in Nat \ {0} /\ MaxTime \in Nat /\ MaxReplays \in Nat

VARIABLES
  bar,         \* timeframe -> open time of the bar that is forming
  watch,       \* watcher -> [at, tf, rows]
  stores,      \* timeframe -> the store in the map, a sequence of candles, None without one
  listeners,   \* the handlers of candle events: their timeframe, each with its store
  replays,
  raced,       \* history: stores whose rows were served before a bar that had closed
               \* when the handler was added
  mixed        \* history: stores whose handler was given a candle of another timeframe

vars == <<bar, watch, stores, listeners, replays, raced, mixed>>

Candle(tf, t, closed) == [tf |-> tf, openTime |-> t, closed |-> closed]
NoWatch == [at |-> "idle", tf |-> None, rows |-> <<>>]

Init ==
  /\ bar = [tf \in Timeframes |-> 0]
  /\ watch = [w \in Watchers |-> NoWatch]
  /\ stores = [tf \in Timeframes |-> None]
  /\ listeners = {}
  /\ replays = 0 /\ raced = {} /\ mixed = {}

-----------------------------------------------------------------------------
(* CandleStore.                                                            *)

LastOf(n, s) == SubSeq(s, Len(s) - (IF n < Len(s) THEN n ELSE Len(s)) + 1, Len(s))

\* push replaces the last candle if the open time is the same, and drops the
\* oldest beyond maxSize.
Push(store, candle) ==
  IF store # <<>> /\ Last(store).openTime = candle.openTime
  THEN [store EXCEPT ![Len(store)] = candle]
  ELSE LastOf(MaxSize, Append(store, candle))

-----------------------------------------------------------------------------
(* MarketState.                                                            *)

\* watch: a known key returns at once; otherwise the candles are awaited.
Watch(w, tf) ==
  /\ watch[w].at = "idle" /\ stores[tf] = None
  /\ watch' = [watch EXCEPT ![w] = [at |-> "asked", tf |-> tf, rows |-> <<>>]]
  /\ UNCHANGED <<bar, stores, listeners, replays, raced, mixed>>

\* getKlines: the closed bars up to the limit and the one that is forming.
Serve(w) ==
  LET tf    == watch[w].tf
      older == Min({Backfill - 1, bar[tf] \div Duration[tf]})
  IN  /\ watch[w].at = "asked"
      /\ watch' = [watch EXCEPT ![w].at = "served",
           ![w].rows = [i \in 1 .. older + 1 |->
                          Candle(tf, bar[tf] - (older + 1 - i) * Duration[tf], i <= older)]]
      /\ UNCHANGED <<bar, stores, listeners, replays, raced, mixed>>

FetchFails(w) ==
  /\ watch[w].at = "asked"
  /\ watch' = [watch EXCEPT ![w] = NoWatch]
  /\ UNCHANGED <<bar, stores, listeners, replays, raced, mixed>>

\* The store is backfilled and put in the map, and a handler added for it.  A
\* second watcher of the key replaces the store; the first one's is dropped.
Received(w) ==
  /\ watch[w].at = "served"
  /\ stores' = [stores EXCEPT ![watch[w].tf] = LastOf(MaxSize, watch[w].rows)]
  /\ listeners' = listeners \union {watch[w].tf}
  /\ watch' = [watch EXCEPT ![w] = NoWatch]
  /\ raced' = IF Last(watch[w].rows).openTime < bar[watch[w].tf]
              THEN raced \union {watch[w].tf} ELSE raced \ {watch[w].tf}
  /\ mixed' = mixed \ {watch[w].tf}
  /\ UNCHANGED <<bar, replays>>

\* A candle event reaches every handler; they compare the symbol only.
Heard(candle) == listeners

Deliver(candle) ==
  /\ stores' = [tf \in Timeframes |->
                  IF tf \in Heard(candle) THEN Push(stores[tf], candle) ELSE stores[tf]]
  /\ mixed' = mixed \union (Heard(candle) \ {candle.tf})

\* A bar closes, none after one that ends later; its event is sent if the stream of
\* its timeframe is subscribed.
BarCloses(tf) ==
  /\ bar[tf] <= MaxTime
  /\ \A other \in Timeframes : bar[tf] + Duration[tf] <= bar[other] + Duration[other]
  /\ bar' = [bar EXCEPT ![tf] = @ + Duration[tf]]
  /\ IF tf \in listeners THEN Deliver(Candle(tf, bar[tf], TRUE)) ELSE UNCHANGED <<stores, mixed>>
  /\ UNCHANGED <<watch, listeners, replays, raced>>

\* What a store holds of its own timeframe.
Own(tf) == SelectSeq(stores[tf], LAMBDA c : c.tf = tf)

\* After a reconnect the last candle that was pushed is sent again.
Replay(tf) ==
  LET last == Candle(tf, bar[tf] - Duration[tf], TRUE)
  IN  /\ tf \in listeners /\ replays < MaxReplays
      /\ Own(tf) # <<>> /\ Last(Own(tf)).openTime = last.openTime
      /\ replays' = replays + 1
      /\ Deliver(last)
      /\ UNCHANGED <<bar, watch, listeners, raced>>

Next ==
  \/ \E w \in Watchers, tf \in Timeframes : Watch(w, tf)
  \/ \E w \in Watchers : Serve(w) \/ FetchFails(w) \/ Received(w)
  \/ \E tf \in Timeframes : BarCloses(tf) \/ Replay(tf)

Spec == Init /\ [][Next]_vars

-----------------------------------------------------------------------------
(* Properties.                                                             *)

Watched == {tf \in Timeframes : stores[tf] # None}

\* A store has every bar up to the last that closed, once and final, over
\* reconnects and concurrent watchers -- unless a bar closed between the answer
\* to its backfill and the subscription: then that bar stays as it was when it
\* was still forming, or those after it are missing -- and unless another timeframe
\* of the symbol is watched too: its candles are pushed into the store as well, and
\* take the place of one of the store's own that opened at the same time.
StoresAreComplete ==
  /\ \A tf \in Watched \ (raced \union mixed) :
       /\ \A i \in 1 .. Len(stores[tf]) - 1 :
            /\ stores[tf][i + 1].openTime = stores[tf][i].openTime + Duration[tf]
            /\ stores[tf][i].closed
       /\ Last(stores[tf]).openTime \in {bar[tf] - Duration[tf], bar[tf]}
       /\ Last(stores[tf]).closed <=> Last(stores[tf]).openTime < bar[tf]
  /\ mixed # {} => Cardinality(listeners) > 1

\* Whatever is pushed between them, or in the place of one of them, the bars a store
\* still has of its own timeframe never go back in time.
OwnBarsInOrder ==
  \A tf \in Watched : \A i \in 1 .. Len(Own(tf)) - 1 :
    Own(tf)[i + 1].openTime >= Own(tf)[i].openTime
=============================================================================
