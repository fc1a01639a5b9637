------------------------ MODULE StreamManager_proofs ------------------------
(***************************************************************************)
(* The streams, whatever the number of sockets, drops and unsubscriptions: *)
(* a stream that is wanted has a connection or a timer that makes one, and *)
(* a kline stream never has two connections or one and a timer.            *)
(***************************************************************************)
EXTENDS StreamManager, FoldTheorems, FiniteSetTheorems

\* The sockets of a stream that have not closed yet.
On(s) == Conns(s, {"connecting", "open", "closing"})

ConnType ==
  [stream : Streams \union {None}, phase : {"idle", "connecting", "open", "closing"},
   first : BOOLEAN]

\* The socket in the map is one of its stream, and live.
ShapeInv ==
  /\ conn \in [Slots -> ConnType]
  /\ \A i \in Slots : conn[i].phase # "idle" => conn[i].stream \in Streams
  /\ sockets \in [Streams -> Slots \union {None, ClosedSocket}]
  /\ retries \in [Streams -> Nat]
  /\ wanted \subseteq Streams /\ closedIntentionally \subseteq Streams
  /\ \A s \in Streams : sockets[s] \in Slots =>
       /\ conn[sockets[s]].stream = s
       /\ conn[sockets[s]].phase \in {"connecting", "open"}

\* What is wanted, or counts as subscribed because it is in the map, is on its way:
\* the next subscribe() relies on it.
Busy(s) == On(s) # {} \/ retries[s] > 0
ActiveInv(s) ==
  s \in closedIntentionally \/ (s \notin wanted /\ sockets[s] = None) \/ Busy(s)

\* A kline stream is never closed on purpose; it has a socket or a timer, or neither
\* until the daemon subscribes.
SteadyInv(s) ==
  /\ s \notin closedIntentionally
  /\ retries[s] \in {0, 1}
  /\ \A i, j \in On(s) : i = j
  /\ retries[s] = 1 => On(s) = {}
  /\ s \notin wanted => retries[s] = 0 /\ On(s) = {} /\ sockets[s] = None

StreamInv ==
  /\ ShapeInv
  /\ \A s \in Streams : ActiveInv(s)
  /\ \A s \in Steady : SteadyInv(s)

-----------------------------------------------------------------------------
(* What happens to the sockets.                                            *)

LEMMA NewSlotIsIdle ==
  ASSUME StreamAssumption, HasSlot
  PROVE  NewSlot \in Slots /\ conn[NewSlot].phase = "idle"
<1> DEFINE T == {i \in Slots : conn[i].phase = "idle"}
<1>1. T \in SUBSET Nat /\ T # {}
  BY DEF StreamAssumption, HasSlot
<1>2. \E i \in T : \A j \in T : i <= j
  <2> HIDE DEF T
  <2> QED BY <1>1, LeastElement
<1>3. \E i \in Slots : conn[i].phase = "idle" /\ \A j \in Slots : conn[j].phase = "idle" => i <= j
  BY <1>2
<1> QED BY <1>3 DEF NewSlot

\* A new socket joins those of its stream.
LEMMA AttemptShapes ==
  ASSUME StreamAssumption, ShapeInv, NEW s \in Streams, NEW first \in BOOLEAN, Attempt(s, first),
         retries' \in [Streams -> Nat], wanted' \subseteq Streams,
         closedIntentionally' \subseteq Streams
  PROVE  /\ ShapeInv'
         /\ On(s)' = On(s) \union {NewSlot}
         /\ \A t \in Streams \ {s} : On(t)' = On(t) /\ sockets'[t] = sockets[t]
<1> DEFINE n == NewSlot
<1>1. n \in Slots /\ conn[n].phase = "idle"
  BY NewSlotIsIdle DEF Attempt
<1>2. /\ conn' = [conn EXCEPT ![n] = [stream |-> s, phase |-> "connecting", first |-> first]]
      /\ sockets' = [sockets EXCEPT ![s] = n]
  BY DEF Attempt
<1> HIDE DEF n
<1>3. /\ conn'[n] = [stream |-> s, phase |-> "connecting", first |-> first]
      /\ \A i \in Slots \ {n} : conn'[i] = conn[i]
      /\ conn' \in [Slots -> ConnType]
  BY <1>1, <1>2 DEF ShapeInv, ConnType
<1>4. /\ sockets'[s] = n
      /\ \A t \in Streams \ {s} : sockets'[t] = sockets[t]
      /\ sockets' \in [Streams -> Slots \union {None, ClosedSocket}]
  BY <1>1, <1>2 DEF ShapeInv
<1>5. \A t \in Streams : sockets[t] \in Slots => sockets[t] # n
  BY <1>1 DEF ShapeInv
<1>6. ShapeInv'
  <2>1. \A i \in Slots : conn'[i].phase # "idle" => conn'[i].stream \in Streams
    BY <1>3 DEF ShapeInv
  <2>2. \A t \in Streams : sockets'[t] \in Slots =>
          /\ conn'[sockets'[t]].stream = t
          /\ conn'[sockets'[t]].phase \in {"connecting", "open"}
    <3> TAKE t \in Streams
    <3>1. CASE t = s
      BY <1>3, <1>4, <3>1
    <3>2. CASE t # s
      BY <1>3, <1>4, <1>5, <3>2 DEF ShapeInv
    <3> QED BY <3>1, <3>2
  <2> QED BY <1>3, <1>4, <2>1, <2>2 DEF ShapeInv
<1>7. On(s)' = On(s) \union {n}
  BY <1>1, <1>3 DEF On, Conns
<1>8. \A t \in Streams \ {s} : On(t)' = On(t)
  BY <1>1, <1>3 DEF On, Conns
<1> QED BY <1>4, <1>6, <1>7, <1>8 DEF n

\* A socket leaves its stream.
LEMMA LeavingShapes ==
  ASSUME StreamAssumption, ShapeInv, NEW i \in Slots, conn[i].phase # "idle",
         conn' = [conn EXCEPT ![i] = Free],
         sockets' \in [Streams -> Slots \union {None, ClosedSocket}],
         \A t \in Streams : sockets'[t] \in Slots => sockets[t] = sockets'[t] /\ sockets[t] # i,
         retries' \in [Streams -> Nat], wanted' = wanted,
         closedIntentionally' = closedIntentionally
  PROVE  ShapeInv' /\ \A t \in Streams : On(t)' = On(t) \ {i}
<1>1. /\ conn'[i] = Free /\ \A j \in Slots \ {i} : conn'[j] = conn[j]
      /\ conn' \in [Slots -> ConnType]
  BY DEF ShapeInv, ConnType, Free
<1>2. Free.phase = "idle"
  BY DEF Free
<1>3. \A t \in Streams : On(t)' = On(t) \ {i}
  BY <1>1, <1>2 DEF On, Conns
<1>4. \A j \in Slots : conn'[j].phase # "idle" => conn'[j].stream \in Streams
  BY <1>1, <1>2 DEF ShapeInv
<1>5. \A t \in Streams : sockets'[t] \in Slots =>
        /\ conn'[sockets'[t]].stream = t
        /\ conn'[sockets'[t]].phase \in {"connecting", "open"}
  BY <1>1 DEF ShapeInv
<1> QED BY <1>1, <1>3, <1>4, <1>5 DEF ShapeInv

\* Of a stream that loses a socket, the timer that is set takes its place.
LEMMA LeavingKeeps ==
  ASSUME StreamAssumption, StreamInv, NEW i \in Slots, conn[i].phase # "idle",
         conn' = [conn EXCEPT ![i] = Free],
         sockets' \in [Streams -> Slots \union {None, ClosedSocket}],
         \A t \in Streams : /\ sockets'[t] \in Slots => sockets[t] = sockets'[t] /\ sockets[t] # i
                            /\ sockets[t] = None => sockets'[t] = None,
         NEW first, retries' = RetryAfter(conn[i].stream, first), wanted' = wanted,
         closedIntentionally' = closedIntentionally
  PROVE  StreamInv'
<1> DEFINE s == conn[i].stream
<1>1. s \in Streams /\ i \in On(s) /\ ShapeInv
  BY DEF StreamInv, ShapeInv, ConnType, On, Conns
<1>2. /\ retries' \in [Streams -> Nat]
      /\ \A t \in Streams : retries'[t] = IF t = s /\ s \notin closedIntentionally
                                         THEN retries[t] + 1 ELSE retries[t]
  <2>1. retries \in [Streams -> Nat]
    BY DEF StreamInv, ShapeInv
  <2>2. retries' = IF s \in closedIntentionally THEN retries
                   ELSE [retries EXCEPT ![s] = retries[s] + 1]
    BY DEF RetryAfter
  <2> HIDE DEF s
  <2> QED BY <1>1, <2>1, <2>2
<1>3. ShapeInv' /\ \A t \in Streams : On(t)' = On(t) \ {i}
  <2> HIDE DEF s
  <2> QED BY <1>1, <1>2, LeavingShapes
<1>4. \A t \in Streams \ {s} : i \notin On(t)
  BY DEF On, Conns
<1> HIDE DEF s
<1>5. ASSUME NEW t \in Streams PROVE ActiveInv(t)'
  <2>1. ActiveInv(t) /\ retries[t] \in Nat
    BY DEF StreamInv, ShapeInv
  <2>2. CASE t = s
    <3>1. t \in closedIntentionally \/ retries'[t] > 0
      BY <1>2, <2>1, <2>2
    <3> QED BY <3>1 DEF ActiveInv, Busy
  <2>3. CASE t # s
    <3>1. On(t)' = On(t) /\ retries'[t] = retries[t]
      BY <1>2, <1>3, <1>4, <2>3
    <3> QED BY <2>1, <3>1 DEF ActiveInv, Busy
  <2> QED BY <2>2, <2>3
<1>6. ASSUME NEW t \in Steady PROVE SteadyInv(t)'
  <2>1. SteadyInv(t) /\ t \in Streams
    BY DEF StreamInv, Streams
  <2>2. CASE t = s
    <3>1. On(t) = {i} /\ retries[t] = 0 /\ t \in wanted
      BY <1>1, <2>1, <2>2 DEF SteadyInv
    <3>2. On(t)' = {} /\ retries'[t] = 1
      BY <1>2, <1>3, <2>1, <2>2, <3>1 DEF SteadyInv
    <3> QED BY <2>1, <3>1, <3>2 DEF SteadyInv
  <2>3. CASE t # s
    <3>1. On(t)' = On(t) /\ retries'[t] = retries[t]
      BY <1>2, <1>3, <1>4, <2>1, <2>3
    <3> QED BY <2>1, <3>1 DEF SteadyInv
  <2> QED BY <2>2, <2>3
<1> QED BY <1>3, <1>5, <1>6 DEF StreamInv

-----------------------------------------------------------------------------
(* The operations.                                                         *)

LEMMA SubscribeKeeps ==
  ASSUME StreamAssumption, StreamInv, NEW s \in Streams, Subscribe(s),
         s \in Steady => s \notin wanted
  PROVE  StreamInv'
<1>0. ShapeInv /\ wanted' = wanted \union {s} /\ retries' = retries
  BY DEF Subscribe, StreamInv
<1>1. CASE IsSubscribed(s)
  <2>1. sockets' = sockets /\ conn' = conn /\ closedIntentionally' = closedIntentionally
    BY <1>1 DEF Subscribe
  <2>2. ShapeInv' /\ \A t \in Streams : On(t)' = On(t)
    BY <1>0, <2>1 DEF ShapeInv, On, Conns
  <2>3. s \notin Steady
    BY <1>1 DEF StreamInv, SteadyInv, IsSubscribed
  <2>4. ASSUME NEW t \in Streams PROVE ActiveInv(t)'
    <3>1. ActiveInv(t)
      BY DEF StreamInv
    <3> QED BY <1>0, <1>1, <2>1, <2>2, <3>1 DEF ActiveInv, Busy, IsSubscribed
  <2>5. ASSUME NEW t \in Steady PROVE SteadyInv(t)'
    <3>1. SteadyInv(t) /\ t \in Streams /\ t # s
      BY <2>3 DEF StreamInv, Streams
    <3> QED BY <1>0, <2>1, <2>2, <3>1 DEF SteadyInv
  <2> QED BY <2>2, <2>4, <2>5 DEF StreamInv
<1>2. CASE ~IsSubscribed(s)
  <2>1. Attempt(s, TRUE) /\ closedIntentionally' = closedIntentionally \ {s}
    BY <1>2 DEF Subscribe
  <2>2. /\ ShapeInv' /\ On(s)' = On(s) \union {NewSlot}
        /\ \A t \in Streams \ {s} : On(t)' = On(t) /\ sockets'[t] = sockets[t]
    <3>1. /\ retries' \in [Streams -> Nat] /\ wanted' \subseteq Streams
          /\ closedIntentionally' \subseteq Streams
      BY <1>0, <2>1 DEF ShapeInv
    <3> QED BY <1>0, <2>1, <3>1, AttemptShapes
  <2>3. ASSUME NEW t \in Streams PROVE ActiveInv(t)'
    <3>1. ActiveInv(t)
      BY DEF StreamInv
    <3>2. CASE t = s
      BY <2>2, <3>2 DEF ActiveInv, Busy
    <3>3. CASE t # s
      BY <1>0, <2>1, <2>2, <3>1, <3>3 DEF ActiveInv, Busy
    <3> QED BY <3>2, <3>3
  <2>4. ASSUME NEW t \in Steady PROVE SteadyInv(t)'
    <3>1. SteadyInv(t) /\ t \in Streams
      BY DEF StreamInv, Streams
    <3>2. CASE t = s
      <4>1. On(s) = {} /\ retries[s] = 0
        BY <3>1, <3>2 DEF SteadyInv
      <4>2. On(s)' = {NewSlot} /\ retries'[s] = 0 /\ s \in wanted' /\ s \notin closedIntentionally'
        BY <1>0, <2>1, <2>2, <4>1
      <4> QED BY <3>2, <4>2 DEF SteadyInv
    <3>3. CASE t # s
      BY <1>0, <2>1, <2>2, <3>1, <3>3 DEF SteadyInv
    <3> QED BY <3>2, <3>3
  <2> QED BY <2>2, <2>3, <2>4 DEF StreamInv
<1> QED BY <1>1, <1>2

LEMMA UnsubscribeKeeps ==
  ASSUME StreamAssumption, StreamInv, NEW s \in Streams, Unsubscribe(s)
  PROVE  StreamInv'
<1>0. /\ ShapeInv /\ wanted' = wanted \ {s} /\ retries' = retries
      /\ s \notin Steady
  BY DEF Unsubscribe, StreamInv, StreamAssumption
<1>1. CASE ~IsSubscribed(s)
  <2>1. sockets' = sockets /\ conn' = conn /\ closedIntentionally' = closedIntentionally
    BY <1>1 DEF Unsubscribe
  <2>2. ShapeInv' /\ \A t \in Streams : On(t)' = On(t)
    BY <1>0, <2>1 DEF ShapeInv, On, Conns
  <2>3. ASSUME NEW t \in Streams PROVE ActiveInv(t)'
    <3>1. ActiveInv(t)
      BY DEF StreamInv
    <3> QED BY <1>0, <2>1, <2>2, <3>1 DEF ActiveInv, Busy
  <2>4. ASSUME NEW t \in Steady PROVE SteadyInv(t)'
    <3>1. SteadyInv(t) /\ t \in Streams /\ t # s
      BY <1>0 DEF StreamInv, Streams
    <3> QED BY <1>0, <2>1, <2>2, <3>1 DEF SteadyInv
  <2> QED BY <2>2, <2>3, <2>4 DEF StreamInv
<1>2. CASE IsSubscribed(s)
  <2>1. /\ closedIntentionally' = closedIntentionally \union {s}
        /\ conn' = Terminated(s, conn) /\ sockets' = [sockets EXCEPT ![s] = None]
    BY <1>2 DEF Unsubscribe
  <2>2. /\ sockets'[s] = None /\ \A t \in Streams \ {s} : sockets'[t] = sockets[t]
        /\ sockets' \in [Streams -> Slots \union {None, ClosedSocket}]
        /\ None \notin Slots
    BY <1>0, <2>1 DEF ShapeInv, StreamAssumption
  <2>3. /\ \A i \in Slots : i # sockets[s] => conn'[i] = conn[i]
        /\ conn' \in [Slots -> ConnType]
        /\ \A i \in Slots : conn'[i].phase # "idle" => conn'[i].stream = conn[i].stream
                                                      /\ conn[i].phase # "idle"
    <3>1. ASSUME NEW i \in Slots
          PROVE  /\ i # sockets[s] => conn'[i] = conn[i]
                 /\ conn'[i] \in ConnType
                 /\ conn'[i].phase # "idle" => conn'[i].stream = conn[i].stream
                                               /\ conn[i].phase # "idle"
      <4>1. conn[i] \in ConnType /\ Free \in ConnType
        BY <1>0 DEF ShapeInv, ConnType, Free
      <4>2. conn'[i] = IF i # sockets[s] THEN conn[i]
                       ELSE IF conn[i].phase = "open" THEN [conn[i] EXCEPT !.phase = "closing"]
                       ELSE Free
        BY <2>1 DEF Terminated
      <4>3. CASE i # sockets[s]
        BY <4>1, <4>2, <4>3
      <4>4. CASE i = sockets[s] /\ conn[i].phase = "open"
        <5>1. conn'[i] = [conn[i] EXCEPT !.phase = "closing"]
          BY <4>2, <4>4
        <5> QED BY <4>1, <4>4, <5>1 DEF ConnType
      <4>5. CASE i = sockets[s] /\ conn[i].phase # "open"
        <5>1. conn'[i] = Free
          BY <4>2, <4>5
        <5> QED BY <4>1, <4>5, <5>1 DEF Free
      <4> QED BY <4>3, <4>4, <4>5
    <3>2. conn' = [i \in Slots |-> conn'[i]]
      BY <2>1 DEF Terminated
    <3> QED BY <3>1, <3>2
  <2>4. \A t \in Streams \ {s} : sockets[t] \in Slots => sockets[t] # sockets[s]
    BY <1>0 DEF ShapeInv
  <2>5. ShapeInv'
    <3>1. \A i \in Slots : conn'[i].phase # "idle" => conn'[i].stream \in Streams
      BY <1>0, <2>3 DEF ShapeInv
    <3>2. \A t \in Streams : sockets'[t] \in Slots =>
            /\ conn'[sockets'[t]].stream = t
            /\ conn'[sockets'[t]].phase \in {"connecting", "open"}
      BY <1>0, <2>2, <2>3, <2>4 DEF ShapeInv
    <3> QED BY <1>0, <2>1, <2>2, <2>3, <3>1, <3>2 DEF ShapeInv
  <2>6. \A t \in Streams \ {s} : On(t)' = On(t)
    <3>1. sockets[s] \in Slots => conn[sockets[s]].stream = s
      BY <1>0 DEF ShapeInv
    <3>2. ASSUME NEW t \in Streams \ {s}, NEW i \in Slots
          PROVE  i \in On(t)' <=> i \in On(t)
      <4>1. CASE i # sockets[s]
        BY <2>3, <4>1 DEF On, Conns
      <4>2. CASE i = sockets[s]
        BY <2>3, <3>1, <4>2 DEF On, Conns
      <4> QED BY <4>1, <4>2
    <3> QED BY <3>2 DEF On, Conns
  <2>7. ASSUME NEW t \in Streams PROVE ActiveInv(t)'
    <3>1. ActiveInv(t)
      BY DEF StreamInv
    <3>2. CASE t = s
      BY <2>1, <3>2 DEF ActiveInv
    <3>3. CASE t # s
      BY <1>0, <2>1, <2>2, <2>6, <3>1, <3>3 DEF ActiveInv, Busy
    <3> QED BY <3>2, <3>3
  <2>8. ASSUME NEW t \in Steady PROVE SteadyInv(t)'
    <3>1. SteadyInv(t) /\ t \in Streams /\ t # s
      BY <1>0 DEF StreamInv, Streams
    <3> QED BY <1>0, <2>1, <2>2, <2>6, <3>1 DEF SteadyInv
  <2> QED BY <2>5, <2>7, <2>8 DEF StreamInv
<1> QED BY <1>1, <1>2


LEMMA OpensKeeps ==
  ASSUME StreamAssumption, StreamInv, NEW i \in Slots, Opens(i)
  PROVE  StreamInv'
<1>1. /\ ShapeInv /\ conn[i].phase = "connecting"
      /\ conn' = [conn EXCEPT ![i].phase = "open"]
      /\ sockets' = sockets /\ retries' = retries /\ wanted' = wanted
      /\ closedIntentionally' = closedIntentionally
  BY DEF Opens, StreamInv
<1>2. /\ \A j \in Slots \ {i} : conn'[j] = conn[j]
      /\ conn'[i].stream = conn[i].stream /\ conn'[i].phase = "open"
      /\ conn' \in [Slots -> ConnType]
  BY <1>1 DEF ShapeInv, ConnType
<1>3. \A t \in Streams : On(t)' = On(t)
  <2>1. ASSUME NEW t \in Streams, NEW j \in Slots PROVE j \in On(t)' <=> j \in On(t)
    BY <1>1, <1>2 DEF On, Conns
  <2> QED BY <2>1 DEF On, Conns
<1>4. ShapeInv'
  <2>1. \A j \in Slots : conn'[j].phase # "idle" => conn'[j].stream \in Streams
    BY <1>1, <1>2 DEF ShapeInv
  <2>2. \A t \in Streams : sockets'[t] \in Slots =>
          /\ conn'[sockets'[t]].stream = t
          /\ conn'[sockets'[t]].phase \in {"connecting", "open"}
    BY <1>1, <1>2 DEF ShapeInv
  <2> QED BY <1>1, <1>2, <2>1, <2>2 DEF ShapeInv
<1>5. ASSUME NEW t \in Streams PROVE ActiveInv(t)'
  BY <1>1, <1>3 DEF StreamInv, ActiveInv, Busy
<1>6. ASSUME NEW t \in Steady PROVE SteadyInv(t)'
  <2>1. SteadyInv(t) /\ t \in Streams
    BY DEF StreamInv, Streams
  <2> QED BY <1>1, <1>3, <2>1 DEF SteadyInv
<1> QED BY <1>4, <1>5, <1>6 DEF StreamInv

\* A socket that has closed stays in the map, as a closed one.
LEMMA GoneKeeps ==
  ASSUME StreamAssumption, StreamInv, NEW i \in Slots, conn[i].phase # "idle", Gone(i),
         NEW first, retries' = RetryAfter(conn[i].stream, first), wanted' = wanted,
         closedIntentionally' = closedIntentionally
  PROVE  StreamInv'
<1>1. /\ conn' = [conn EXCEPT ![i] = Free]
      /\ sockets' = [t \in Streams |-> IF sockets[t] = i THEN ClosedSocket ELSE sockets[t]]
      /\ None # i /\ ClosedSocket \notin Slots
      /\ sockets \in [Streams -> Slots \union {None, ClosedSocket}]
  BY DEF Gone, StreamAssumption, StreamInv, ShapeInv
<1>2. /\ sockets' \in [Streams -> Slots \union {None, ClosedSocket}]
      /\ \A t \in Streams : /\ sockets'[t] \in Slots => sockets[t] = sockets'[t] /\ sockets[t] # i
                            /\ sockets[t] = None => sockets'[t] = None
  BY <1>1
<1> QED BY <1>1, <1>2, LeavingKeeps

LEMMA FailsKeeps ==
  ASSUME StreamAssumption, StreamInv, NEW i \in Slots, Fails(i)
  PROVE  StreamInv'
<1> DEFINE s == conn[i].stream
<1>1. /\ conn[i].phase # "idle" /\ retries' = RetryAfter(s, conn[i].first)
      /\ wanted' = wanted /\ closedIntentionally' = closedIntentionally
  BY DEF Fails
<1>2. CASE ~conn[i].first
  <2>1. Gone(i)
    BY <1>2 DEF Fails
  <2> QED BY <1>1, <2>1, GoneKeeps
<1>3. CASE conn[i].first
  <2>1. conn' = [conn EXCEPT ![i] = Free] /\ sockets' = [sockets EXCEPT ![s] = None]
    BY <1>3 DEF Fails
  <2>2. /\ ShapeInv /\ None \notin Slots
    BY DEF StreamInv, StreamAssumption
  <2>3. \A t \in Streams : sockets[t] = i => t = s
    BY <2>2 DEF ShapeInv
  <2>4. /\ sockets' \in [Streams -> Slots \union {None, ClosedSocket}]
        /\ \A t \in Streams : /\ sockets'[t] \in Slots => sockets[t] = sockets'[t] /\ sockets[t] # i
                              /\ sockets[t] = None => sockets'[t] = None
    <3> HIDE DEF s
    <3> QED BY <2>1, <2>2, <2>3 DEF ShapeInv
  <2> QED BY <1>1, <2>1, <2>4, LeavingKeeps
<1> QED BY <1>2, <1>3

LEMMA ClosesKeeps ==
  ASSUME StreamAssumption, StreamInv, NEW i \in Slots, Closes(i)
  PROVE  StreamInv'
<1>1. /\ conn[i].phase # "idle" /\ Gone(i) /\ retries' = RetryAfter(conn[i].stream, FALSE)
      /\ wanted' = wanted /\ closedIntentionally' = closedIntentionally
  BY DEF Closes
<1> QED BY <1>1, GoneKeeps

\* The timer that fires is replaced by the socket it makes.
LEMMA RetryKeeps ==
  ASSUME StreamAssumption, StreamInv, NEW s \in Streams, Retry(s)
  PROVE  StreamInv'
<1>1. /\ ShapeInv /\ retries[s] > 0 /\ retries' = [retries EXCEPT ![s] = @ - 1]
      /\ Attempt(s, FALSE) /\ wanted' = wanted /\ closedIntentionally' = closedIntentionally
  BY DEF Retry, StreamInv
<1>2. /\ retries' \in [Streams -> Nat] /\ retries'[s] = retries[s] - 1
      /\ \A t \in Streams \ {s} : retries'[t] = retries[t]
  BY <1>1 DEF ShapeInv
<1>3. /\ ShapeInv' /\ On(s)' = On(s) \union {NewSlot}
      /\ \A t \in Streams \ {s} : On(t)' = On(t) /\ sockets'[t] = sockets[t]
  <2>1. wanted' \subseteq Streams /\ closedIntentionally' \subseteq Streams
    BY <1>1 DEF ShapeInv
  <2> QED BY <1>1, <1>2, <2>1, AttemptShapes
<1>4. ASSUME NEW t \in Streams PROVE ActiveInv(t)'
  <2>1. CASE t = s
    BY <1>3, <2>1 DEF ActiveInv, Busy
  <2>2. CASE t # s
    <3>1. ActiveInv(t)
      BY DEF StreamInv
    <3> QED BY <1>1, <1>2, <1>3, <2>2, <3>1 DEF ActiveInv, Busy
  <2> QED BY <2>1, <2>2
<1>5. ASSUME NEW t \in Steady PROVE SteadyInv(t)'
  <2>1. SteadyInv(t) /\ t \in Streams
    BY DEF StreamInv, Streams
  <2>2. CASE t = s
    <3>1. retries[s] = 1 /\ On(s) = {} /\ s \in wanted
      BY <1>1, <2>1, <2>2 DEF SteadyInv
    <3>2. On(s)' = {NewSlot} /\ retries'[s] = 0
      BY <1>2, <1>3, <3>1
    <3> QED BY <1>1, <2>1, <2>2, <3>1, <3>2 DEF SteadyInv
  <2>3. CASE t # s
    BY <1>1, <1>2, <1>3, <2>1, <2>3 DEF SteadyInv
  <2> QED BY <2>2, <2>3
<1> QED BY <1>3, <1>4, <1>5 DEF StreamInv

\* Ticks, alerts and answers leave the sockets alone.
LEMMA UnchangedKeeps ==
  ASSUME StreamInv, UNCHANGED <<sockets, conn, retries, closedIntentionally, wanted>>
  PROVE  StreamInv'
<1>1. \A t : On(t)' = On(t)
  BY DEF On, Conns
<1>2. \A t \in Streams : ActiveInv(t)' = ActiveInv(t)
  BY <1>1 DEF ActiveInv, Busy
<1>3. \A t \in Steady : SteadyInv(t)' = SteadyInv(t)
  BY <1>1 DEF SteadyInv
<1>4. ShapeInv'
  BY DEF StreamInv, ShapeInv
<1> QED BY <1>2, <1>3, <1>4 DEF StreamInv

-----------------------------------------------------------------------------
(* Theorems.                                                               *)

LEMMA StreamsStart ==
  ASSUME StreamAssumption, Init
  PROVE  StreamInv
<1>1. /\ Free.phase = "idle" /\ Free \in ConnType /\ None \notin Slots
      /\ sockets = [s \in Streams |-> None] /\ conn = [i \in Slots |-> Free]
      /\ retries = [s \in Streams |-> 0] /\ closedIntentionally = {} /\ wanted = {}
  BY DEF Init, Free, ConnType, StreamAssumption
<1>2. ShapeInv
  BY <1>1 DEF ShapeInv
<1>3. \A s \in Streams : On(s) = {}
  BY <1>1 DEF On, Conns
<1>4. ASSUME NEW s \in Streams PROVE ActiveInv(s)
  BY <1>1 DEF ActiveInv
<1>5. ASSUME NEW s \in Steady PROVE SteadyInv(s)
  <2>1. s \in Streams
    BY DEF Streams
  <2> QED BY <1>1, <1>3, <2>1 DEF SteadyInv
<1> QED BY <1>2, <1>4, <1>5 DEF StreamInv

LEMMA StepsKeep ==
  ASSUME StreamAssumption, StreamInv, [Next]_vars
  PROVE  StreamInv'
<1>1. ASSUME NEW s \in Streams, SubscribeOnce(s) PROVE StreamInv'
  BY <1>1, SubscribeKeeps DEF SubscribeOnce
<1>2. ASSUME NEW s \in Streams, Unsubscribe(s) PROVE StreamInv'
  BY <1>2, UnsubscribeKeeps
<1>3. ASSUME NEW s \in Streams, Retry(s) PROVE StreamInv'
  BY <1>3, RetryKeeps
<1>4. ASSUME NEW i \in Slots, Opens(i) PROVE StreamInv'
  BY <1>4, OpensKeeps
<1>5. ASSUME NEW i \in Slots, Fails(i) PROVE StreamInv'
  BY <1>5, FailsKeeps
<1>6. ASSUME NEW i \in Slots, Closes(i) PROVE StreamInv'
  BY <1>6, ClosesKeeps
<1>7. ASSUME NEW i \in Slots, NEW p \in Prices, TickerMessage(i, p) PROVE StreamInv'
  BY <1>7, UnchangedKeeps DEF TickerMessage
<1>8. ASSUME NEW c \in Callers, NEW s \in Streams, StartCall(c, s) PROVE StreamInv'
  <2>1. Subscribe(s) /\ s \notin Steady
    BY <1>8 DEF StartCall, StreamAssumption
  <2> QED BY <2>1, SubscribeKeeps
<1>9. ASSUME NEW c \in Callers, AnswerTick(c) \/ AddAlert(c) PROVE StreamInv'
  BY <1>9, UnchangedKeeps DEF AnswerTick, AddAlert
<1>10. ASSUME NEW a \in alerts, RemoveAlert(a) PROVE StreamInv'
  BY <1>10, UnchangedKeeps DEF RemoveAlert
<1>11. CASE UNCHANGED vars
  BY <1>11, UnchangedKeeps DEF vars
<1> QED BY <1>1, <1>2, <1>3, <1>4, <1>5, <1>6, <1>7, <1>8, <1>9, <1>10, <1>11 DEF Next

LEMMA StreamInvariant == StreamAssumption => (Spec => []StreamInv)
<1> SUFFICES ASSUME StreamAssumption PROVE Spec => []StreamInv
  OBVIOUS
<1>1. Init => StreamInv
  BY StreamsStart
<1>2. StreamInv /\ [Next]_vars => StreamInv'
  BY StepsKeep
<1> QED BY <1>1, <1>2, PTL DEF Spec

\* A wanted stream that counts as closed on purpose is one that took over the socket
\* of a late timer; klines and liquidations, never closed on purpose, are not among them.
AdoptedInv ==
  /\ wanted \intersect closedIntentionally \subseteq adopted
  /\ adopted \intersect Steady = {}

LEMMA AdoptedKept ==
  ASSUME StreamAssumption, StreamInv, AdoptedInv, [Next]_vars
  PROVE  AdoptedInv'
<1>1. ASSUME NEW s \in Streams, Subscribe(s) PROVE AdoptedInv'
  <2>1. CASE IsSubscribed(s)
    <3>1. {s} \intersect closedIntentionally \intersect Steady = {}
      BY DEF StreamInv, SteadyInv
    <3> QED BY <1>1, <2>1, <3>1 DEF Subscribe, AdoptedInv
  <2>2. CASE ~IsSubscribed(s)
    BY <1>1, <2>2 DEF Subscribe, AdoptedInv
  <2> QED BY <2>1, <2>2
<1>2. ASSUME NEW s \in Streams, Unsubscribe(s) PROVE AdoptedInv'
  BY <1>2 DEF Unsubscribe, AdoptedInv
<1>3. ASSUME UNCHANGED <<wanted, closedIntentionally, adopted>> PROVE AdoptedInv'
  BY <1>3 DEF AdoptedInv
<1>4. CASE \E s \in Streams : SubscribeOnce(s) \/ Unsubscribe(s) \/ Retry(s)
  BY <1>1, <1>2, <1>3, <1>4 DEF SubscribeOnce, Retry
<1>5. CASE \E i \in Slots : Opens(i) \/ Fails(i) \/ Closes(i)
  BY <1>3, <1>5 DEF Opens, Fails, Closes
<1>6. CASE \E i \in Slots, p \in Prices : TickerMessage(i, p)
  BY <1>3, <1>6 DEF TickerMessage
<1>7. CASE \E c \in Callers, s \in Streams : StartCall(c, s)
  BY <1>1, <1>7 DEF StartCall
<1>8. CASE \E c \in Callers : AnswerTick(c) \/ AddAlert(c)
  BY <1>3, <1>8 DEF AnswerTick, AddAlert
<1>9. CASE \E a \in alerts : RemoveAlert(a)
  BY <1>3, <1>9 DEF RemoveAlert
<1>10. CASE UNCHANGED vars
  BY <1>3, <1>10 DEF vars
<1> QED BY <1>4, <1>5, <1>6, <1>7, <1>8, <1>9, <1>10 DEF Next

\* A stream that is wanted has a socket that is opening, open or closing, or a timer that
\* makes one, unless its subscribe() took over the socket of a timer that outlived an
\* unsubscribe() (binance-stream.ts:120); a kline stream always has (connect).
THEOREM OnlyAdoptedAreForgotten == StreamAssumption => (Spec => []OnlyAdoptedForgotten)
<1> SUFFICES ASSUME StreamAssumption PROVE Spec => []OnlyAdoptedForgotten
  OBVIOUS
<1>1. StreamInv /\ AdoptedInv => OnlyAdoptedForgotten
  <2> SUFFICES ASSUME StreamInv, AdoptedInv PROVE OnlyAdoptedForgotten
    OBVIOUS
  <2>1. ASSUME NEW s \in wanted \ adopted
        PROVE  Live(s) # {} \/ retries[s] > 0 \/ Conns(s, {"closing"}) # {}
    <3>1. ActiveInv(s) /\ s \notin closedIntentionally
      BY DEF StreamInv, ShapeInv, AdoptedInv
    <3> QED BY <3>1 DEF ActiveInv, Busy, On, Live, Conns
  <2> QED BY <2>1 DEF OnlyAdoptedForgotten, AdoptedInv
<1>2. Init => AdoptedInv
  BY DEF Init, AdoptedInv
<1>3. StreamInv /\ AdoptedInv /\ [Next]_vars => AdoptedInv'
  BY AdoptedKept
<1> QED BY <1>1, <1>2, <1>3, StreamInvariant, PTL DEF Spec

\* A kline stream has one connection or one timer, never more, so that its callback is
\* called once for a candle (binance-stream.ts, connect and subscribeKline).
THEOREM NeverTwoConnections == StreamAssumption => (Spec => []OneConnection)
<1> SUFFICES ASSUME StreamAssumption PROVE Spec => []OneConnection
  OBVIOUS
<1>1. StreamInv => OneConnection
  <2> SUFFICES ASSUME StreamInv, NEW s \in Steady
               PROVE  Cardinality(Live(s)) + retries[s] <= 1
    BY DEF OneConnection
  <2>1. SteadyInv(s)
    BY DEF StreamInv
  <2>2. Live(s) \subseteq On(s)
    BY DEF Live, On, Conns
  <2>3. CASE Live(s) = {}
    <3>1. Cardinality(Live(s)) = 0
      BY <2>3, FS_EmptySet
    <3> QED BY <2>1, <3>1 DEF SteadyInv
  <2>4. CASE Live(s) # {}
    <3>1. PICK i : i \in Live(s)
      BY <2>4
    <3>2. Live(s) = {i} /\ retries[s] = 0
      BY <2>1, <2>2, <3>1 DEF SteadyInv
    <3>3. Cardinality(Live(s)) = 1
      BY <3>2, FS_Singleton
    <3> QED BY <3>2, <3>3
  <2> QED BY <2>3, <2>4
<1> QED BY <1>1, StreamInvariant, PTL
=============================================================================
