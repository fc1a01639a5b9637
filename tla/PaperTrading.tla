---------------------------- MODULE PaperTrading ----------------------------
(***************************************************************************)
(* The ledger behind binance_paper_trade (exchange/paper-trading.ts and    *)
(* tools/paper-trading-tools.ts): positions opened at a live tick that is  *)
(* awaited, marked when they are listed.                                   *)
(***************************************************************************)
EXTENDS Integers, Sequences, FiniteSets, Bracket

CONSTANTS
  Symbols, Prices, Callers, Offset,
  MaxPositions   \* bound on the positions opened

PaperAssumption == Prices \subseteq Nat \ {0} /\ Offset \in Nat /\ None \notin Int

VARIABLES
  latest,      \* symbol -> last tick of the stream, None if there is none
  opening,     \* caller -> the request that waits for a tick, None if idle
  positions

vars == <<latest, opening, positions>>

Init ==
  /\ latest = [s \in Symbols |-> None]
  /\ opening = [c \in Callers |-> None]
  /\ positions = <<>>

\* The stream brings a price, or is given up and forgets it.
Tick(s, price) ==
  /\ latest' = [latest EXCEPT ![s] = price]
  /\ UNCHANGED <<opening, positions>>

\* open: the arguments are checked and the tick awaited ...
Open(c, s, direction) ==
  /\ opening[c] = None
  /\ Len(positions) + Cardinality({d \in Callers : opening[d] # None}) < MaxPositions
  /\ opening' = [opening EXCEPT ![c] = [symbol |-> s, direction |-> direction]]
  /\ UNCHANGED <<latest, positions>>

\* Stop and target are the caller's, given before it knows the price of entry;
\* here they lie around the price it expects.
Opened(c) ==
  LET r == opening[c] IN
  /\ r # None /\ latest[r.symbol] # None
  /\ \E expected \in Prices :
       positions' = Append(positions,
         [symbol |-> r.symbol, direction |-> r.direction, qty |-> 1, entry |-> latest[r.symbol],
          stop |-> expected - Sign(r.direction) * Offset, target |-> expected + Sign(r.direction) * Offset,
          closed |-> None, reason |-> "none"])
  /\ opening' = [opening EXCEPT ![c] = None]
  /\ UNCHANGED latest

\* ... and no tick comes.
OpenFails(c) ==
  /\ opening[c] # None
  /\ opening' = [opening EXCEPT ![c] = None]
  /\ UNCHANGED <<latest, positions>>

\* markToMarket, before every list.
Marked ==
  [i \in DOMAIN positions |->
     LET p == positions[i]  price == latest[p.symbol] IN
     IF price # None /\ ExitReason(p, price) # "none" THEN ClosedAt(p, price, ExitReason(p, price)) ELSE p]

List ==
  /\ positions' = Marked
  /\ UNCHANGED <<latest, opening>>

\* Mutant: whatever has the id is closed.
AnyPosition(i) == i \in DOMAIN positions
OpenPosition(i) == i \in DOMAIN positions /\ IsOpen(positions[i])

Close(i) ==
  /\ OpenPosition(i) /\ latest[positions[i].symbol] # None
  /\ positions' = [positions EXCEPT ![i] = ClosedAt(@, latest[@.symbol], "manual")]
  /\ UNCHANGED <<latest, opening>>

Next ==
  \/ \E s \in Symbols, p \in Prices \union {None} : Tick(s, p)
  \/ \E c \in Callers, s \in Symbols, d \in {"long", "short"} : Open(c, s, d)
  \/ \E c \in Callers : Opened(c) \/ OpenFails(c)
  \/ List
  \/ \E i \in DOMAIN positions : Close(i)

Spec == Init /\ [][Next]_vars

-----------------------------------------------------------------------------
(* Properties.                                                             *)

\* The record of a closed position is final, and what a stop or a target closed
\* lies at or past it: opens that wait, ticks that vanish and lists in between
\* never rewrite a result.
ResultsAreFinal ==
  [][\A i \in DOMAIN positions :
       /\ ~IsOpen(positions[i]) => positions'[i] = positions[i]
       /\ IsOpen(positions[i]) /\ positions'[i].reason = "stop" => HitsStop(positions[i], positions'[i].closed)
       /\ IsOpen(positions[i]) /\ positions'[i].reason = "target" =>
            HitsTarget(positions[i], positions'[i].closed) /\ ~HitsStop(positions[i], positions'[i].closed)]_vars
=============================================================================
