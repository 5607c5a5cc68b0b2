-------------------------- MODULE EventStreamProofs --------------------------
(***************************************************************************)
(* Theorems about the way of the events, for any number of events,         *)
(* requests and connections and any length of the queue.                   *)
(*                                                                         *)
(* The queue holds an unbroken end of what has been published, its         *)
(* sentinel last (StreamInv).  What a connection has been sent is in order *)
(* and comes after the cards shown, and what its handler has still to send *)
(* - the rows of the replay, then whatever in the queue is past the replay *)
(* - comes after that (OrderInv).  And while nothing goes wrong, what the  *)
(* first connection has been sent reaches to the end of the replay or to   *)
(* where the queue begins, whichever is later (GaplessInv).                *)
(***************************************************************************)
EXTENDS MCEventStream, SequenceTheorems, TLAPS

(***************************************************************************)
(* The helpers                                                             *)
(***************************************************************************)

\* The rest of a sequence.
LEMMA TailIndex ==
    ASSUME NEW S, NEW s \in Seq(S), s # << >>
    PROVE  /\ Len(s) \in Nat \ {0} /\ Head(s) = s[1] /\ Head(s) \in S
           /\ Tail(s) \in Seq(S) /\ Len(Tail(s)) = Len(s) - 1
           /\ \A i \in 1 .. Len(s) - 1 : Tail(s)[i] = s[i + 1]
<1>1. Len(s) \in Nat /\ Len(s) # 0
  BY LenProperties, EmptySeq
<1> QED
  BY <1>1, HeadTailProperties, ElementOfSeq

\* One more entry.
LEMMA AppendIndex ==
    ASSUME NEW S, NEW s \in Seq(S), NEW e \in S
    PROVE  /\ Append(s, e) \in Seq(S) /\ Len(Append(s, e)) = Len(s) + 1
           /\ \A i \in 1 .. Len(s) : Append(s, e)[i] = s[i]
           /\ Append(s, e)[Len(s) + 1] = e
           /\ Len(s) \in Nat
BY AppendProperties, LenProperties

\* publish loses the oldest entry of a full queue, and no other.
LEMMA PutIndex ==
    ASSUME SizesAssumption, queue \in Seq({SENTINEL} \cup Seqs),
           Len(queue) <= SESSION_QUEUE_MAXSIZE,
           NEW item \in {SENTINEL} \cup Seqs, Put(item)
    PROVE  \E lost \in {0, 1} :
              /\ queue' \in Seq({SENTINEL} \cup Seqs)
              /\ Len(queue') \in 1 .. SESSION_QUEUE_MAXSIZE
              /\ Len(queue') = Len(queue) + 1 - lost
              /\ lost = 0 <=> Len(queue) < SESSION_QUEUE_MAXSIZE
              /\ \A i \in 1 .. Len(queue) - lost : queue'[i] = queue[i + lost]
              /\ queue'[Len(queue')] = item
<1> DEFINE entries == {SENTINEL} \cup Seqs
<1>0. SESSION_QUEUE_MAXSIZE \in Nat /\ SESSION_QUEUE_MAXSIZE > 0 /\ Len(queue) \in Nat
  BY LenProperties DEF SizesAssumption
<1>1. CASE Len(queue) < SESSION_QUEUE_MAXSIZE
  <2>1. queue' = Append(queue, item)
    BY <1>1 DEF Put
  <2>2. /\ queue' \in Seq(entries) /\ Len(queue') = Len(queue) + 1
        /\ \A i \in 1 .. Len(queue) : queue'[i] = queue[i]
        /\ queue'[Len(queue) + 1] = item
    BY <2>1, AppendIndex
  <2> QED
    BY <1>0, <1>1, <2>2
<1>2. CASE Len(queue) = SESSION_QUEUE_MAXSIZE
  <2>1. queue' = Append(Tail(queue), item) /\ queue # << >>
    BY <1>0, <1>2, EmptySeq DEF Put
  <2>2. /\ Tail(queue) \in Seq(entries) /\ Len(Tail(queue)) = Len(queue) - 1
        /\ \A i \in 1 .. Len(queue) - 1 : Tail(queue)[i] = queue[i + 1]
    BY <2>1, TailIndex
  <2> DEFINE rest == Tail(queue)
  <2>3. /\ queue' \in Seq(entries) /\ Len(queue') = Len(rest) + 1
        /\ \A i \in 1 .. Len(rest) : queue'[i] = rest[i]
        /\ queue'[Len(rest) + 1] = item
    BY <2>1, <2>2, AppendIndex
  <2> HIDE DEF rest
  <2>4. Len(rest) = Len(queue) - 1 /\ \A i \in 1 .. Len(queue) - 1 : rest[i] = queue[i + 1]
    BY <2>2 DEF rest
  <2> QED
    BY <1>0, <1>2, <2>3, <2>4
<1> QED
  BY <1>0, <1>1, <1>2

\* What a send does to the handler and to the wire.
LEMMA SendEffect ==
    ASSUME NEW h \in Handlers, NEW seq, NEW place, Send(h, seq, place)
    PROVE  /\ handler' = [handler EXCEPT ![h] = IF conn = h THEN place ELSE "over"]
           /\ wire' = IF conn = h THEN [wire EXCEPT ![h] = Append(@, seq)] ELSE wire
BY DEF Send, Become

\* What a handler does with the head of the queue, that is with its oldest entry.
LEMMA NextEventEffect ==
    ASSUME TypeOK, NEW h \in Handlers, NextEvent(h)
    PROVE  /\ queue' \in Seq({SENTINEL} \cup Seqs) /\ Len(queue') = Len(queue) - 1
           /\ \A i \in 1 .. Len(queue) - 1 : queue'[i] = queue[i + 1]
           /\ Len(queue) \in Nat \ {0} /\ queue[1] \in {SENTINEL} \cup Seqs
           /\ handler[h] = "live"
           /\ \/ queue[1] = SENTINEL /\ handler' = [handler EXCEPT ![h] = "over"]
                 /\ wire' = wire
              \/ queue[1] # SENTINEL /\ queue[1] <= last_replay[h]
                 /\ handler' = handler /\ wire' = wire
              \/ queue[1] # SENTINEL /\ ~(queue[1] <= last_replay[h])
                 /\ conn # h
                 /\ handler' = [handler EXCEPT ![h] = "over"] /\ wire' = wire
              \/ queue[1] # SENTINEL /\ ~(queue[1] <= last_replay[h])
                 /\ conn = h
                 /\ handler' = [handler EXCEPT ![h] = "live"]
                 /\ wire' = [wire EXCEPT ![h] = Append(@, queue[1])]
<1>1. queue # << >> /\ queue' = Tail(queue) /\ Deliver(h, Head(queue)) /\ handler[h] = "live"
  BY DEF NextEvent
<1>2. queue \in Seq({SENTINEL} \cup Seqs)
  BY DEF TypeOK
<1>3. /\ queue' \in Seq({SENTINEL} \cup Seqs) /\ Len(queue') = Len(queue) - 1
      /\ \A i \in 1 .. Len(queue) - 1 : queue'[i] = queue[i + 1]
      /\ Len(queue) \in Nat \ {0} /\ Head(queue) = queue[1]
      /\ Head(queue) \in {SENTINEL} \cup Seqs
  BY <1>1, <1>2, TailIndex
<1>4. CASE queue[1] = SENTINEL \/ queue[1] <= last_replay[h]
  BY <1>1, <1>3, <1>4 DEF Deliver, Become
<1>5. CASE queue[1] # SENTINEL /\ ~(queue[1] <= last_replay[h])
  <2>1. Send(h, queue[1], "live")
    BY <1>1, <1>3, <1>5 DEF Deliver
  <2> QED
    BY <1>1, <1>3, <1>5, <2>1, SendEffect
<1> QED
  BY <1>4, <1>5

\* What is received is the oldest entry of the wire.
LEMMA ReceiveEffect ==
    ASSUME TypeOK, Receive
    PROVE  LET seq == wire[conn][1] IN
           /\ conn \in Handlers /\ seq \in Seqs /\ Len(wire[conn]) \in Nat \ {0}
           /\ shown' \in Seq(Seqs) /\ Len(shown') = Len(shown) + 1
           /\ \A i \in 1 .. Len(shown) : shown'[i] = shown[i]
           /\ shown'[Len(shown) + 1] = seq /\ Len(shown) \in Nat
           /\ last_seq' \in {0, seq}
           /\ wire' = [wire EXCEPT ![conn] = Tail(@)]
           /\ wire'[conn] \in Seq(Seqs) /\ Len(wire'[conn]) = Len(wire[conn]) - 1
           /\ \A i \in 1 .. Len(wire[conn]) - 1 : wire'[conn][i] = wire[conn][i + 1]
           /\ UNCHANGED <<sessionVars, table, handlerVars, conn>>
<1> DEFINE w == wire[conn]
<1>1. conn \in Handlers /\ w \in Seq(Seqs) /\ w # << >> /\ shown \in Seq(Seqs)
  BY DEF TypeOK, Receive
<1>2. /\ shown' = Append(shown, Head(w)) /\ last_seq' \in {0, Head(w)}
      /\ wire' = [wire EXCEPT ![conn] = Tail(w)]
      /\ UNCHANGED <<sessionVars, table, handlerVars, conn>>
  BY DEF Receive
<1>3. wire'[conn] = Tail(w)
  BY <1>1, <1>2 DEF TypeOK
<1> HIDE DEF w
<1>4. /\ Len(w) \in Nat \ {0} /\ Head(w) = w[1] /\ Head(w) \in Seqs
      /\ Tail(w) \in Seq(Seqs) /\ Len(Tail(w)) = Len(w) - 1
      /\ \A i \in 1 .. Len(w) - 1 : Tail(w)[i] = w[i + 1]
  BY <1>1, TailIndex
<1>5. /\ shown' \in Seq(Seqs) /\ Len(shown') = Len(shown) + 1
      /\ \A i \in 1 .. Len(shown) : shown'[i] = shown[i]
      /\ shown'[Len(shown) + 1] = w[1] /\ Len(shown) \in Nat
  BY <1>1, <1>2, <1>4, AppendIndex
<1> QED
  BY <1>1, <1>2, <1>3, <1>4, <1>5 DEF w

(***************************************************************************)
(* The inductive invariants                                                *)
(***************************************************************************)

\* What is queued, stored, read, sent or shown has been published.
Bounded ==
    /\ cards \cup table \cup writing \subseteq 1 .. published
    /\ last_seq <= published
    /\ \A i \in 1 .. Len(shown) : shown[i] <= published
    /\ \A h \in Handlers :
          /\ rows[h] \subseteq 1 .. published
          /\ \A i \in 1 .. Len(wire[h]) : wire[h][i] <= published

\* close_stream comes after the last event, and its sentinel behind it.
SentinelIsLast ==
    /\ closed => ended
    /\ \A i \in 1 .. Len(queue) : queue[i] = SENTINEL => closed /\ i = Len(queue)

\* Something is on the way to the client only on the connection it has.
WireIsOpen == \A h \in Handlers : wire[h] # << >> => h = conn

StreamInv ==
    /\ TypeOK /\ Bounded /\ SentinelIsLast /\ WireIsOpen
    /\ Waiting <= published /\ QueueKeepsNewest

\* The client has been sent, on the connection it has, no event after seq, and shows
\* no card after it.
SentUpTo(seq) ==
    /\ \A i \in 1 .. Len(wire[conn]) : wire[conn][i] <= seq
    /\ \A i \in 1 .. Len(shown) : shown[i] \in cards => shown[i] <= seq

\* What a connection carries is in order, and comes after the cards shown; what its
\* handler has still to send comes after that.
ConnectionInOrder ==
    /\ \A i, j \in 1 .. Len(wire[conn]) : i < j => wire[conn][i] < wire[conn][j]
    /\ \A i \in 1 .. Len(wire[conn]), j \in 1 .. Len(shown) :
          shown[j] \in cards => shown[j] < wire[conn][i]
    /\ handler[conn] = "loading" => wire[conn] = << >> /\ ~HasCards
    /\ handler[conn] = "replaying" =>
          /\ SentUpTo(last_replay[conn])
          /\ \A seq \in rows[conn] : seq > last_replay[conn]
    /\ handler[conn] = "live" =>
          \A i \in 1 .. Len(queue) :
             queue[i] > last_replay[conn] => SentUpTo(queue[i] - 1)

OrderInv == ShownInOrder /\ (conn # 0 => ConnectionInOrder)

\* One publish at a time, as the runner does it.
OneWrite ==
    /\ runner_seq = 0 => writing = {}
    /\ runner_seq # 0 => runner_seq = published /\ writing = {published}

\* How many events the client has been sent.
Sent == Len(shown) + Len(wire[1])

\* The first and only connection: what it has carried starts with the first event and
\* has no gap, and neither has what its handler has still to send.
ConnectionGapless ==
    /\ \A i \in 1 .. Len(wire[1]) : wire[1][i] = Len(shown) + i
    /\ handler[1] = "loading" => Sent = 0 /\ last_replay[1] = 0
    /\ handler[1] = "replaying" =>
          /\ Sent = last_replay[1]
          /\ \E last \in 0 .. published : rows[1] = (last_replay[1] + 1) .. last
    /\ handler[1] = "live" =>
          /\ last_replay[1] <= Sent
          /\ published - Waiting <= Sent
          /\ Sent \in {last_replay[1], published - Waiting}

\* Nothing is taken from the queue before the handler is live.
QueueUntouched ==
    (\A h \in Handlers : handler[h] \notin {"live", "over"}) => Waiting = published

\* The only connection there ever was, and the queue behind it.
FirstConnection ==
    /\ Gapless
    /\ QueueUntouched
    /\ (\A h \in Handlers : handler[h] = "unused") =>
           conn = 0 /\ shown = << >> /\ last_seq = 0
    /\ conn # 0 => conn = 1 /\ ConnectionGapless

GaplessInv == NoMishap /\ requests = 0 => OneWrite /\ FirstConnection

(***************************************************************************)
(* The queue                                                               *)
(***************************************************************************)

\* Publishing an event that has its type gives a queue that has its type.
LEMMA PublishTypes ==
    ASSUME SizesAssumption, TypeOK, Publish
    PROVE  /\ published' = published + 1 /\ published' \in 1 .. MaxEvents
           /\ queue' \in Seq({SENTINEL} \cup Seqs) /\ Len(queue') <= SESSION_QUEUE_MAXSIZE
           /\ writing' = writing \cup {published'} /\ writing' \subseteq Seqs
<1>1. /\ published \in Nat /\ published < MaxEvents /\ published' = published + 1
      /\ MaxEvents \in Nat /\ Put(published') /\ writing' = writing \cup {published'}
  BY DEF Publish, TypeOK, SizesAssumption
<1>2. published' \in Seqs
  BY <1>1 DEF Seqs
<1>3. queue' \in Seq({SENTINEL} \cup Seqs) /\ Len(queue') \in 1 .. SESSION_QUEUE_MAXSIZE
  BY <1>1, <1>2, PutIndex DEF TypeOK
<1> QED
  BY <1>1, <1>2, <1>3 DEF TypeOK, Seqs

HandlerPlaces == {"unused", "loading", "replaying", "live", "over"}

\* A handler that sends an event keeps the types of what it changes.
LEMMA SendTypes ==
    ASSUME TypeOK, NEW h \in Handlers, NEW seq \in Seqs,
           NEW place \in {"replaying", "live"}, Send(h, seq, place)
    PROVE  handler' \in [Handlers -> HandlerPlaces] /\ wire' \in [Handlers -> Seq(Seqs)]
<1> DEFINE longer == Append(wire[h], seq)
<1>1. /\ handler \in [Handlers -> HandlerPlaces] /\ wire \in [Handlers -> Seq(Seqs)]
      /\ {"over", place} \subseteq HandlerPlaces
  BY DEF TypeOK, HandlerPlaces
<1>2. longer \in Seq(Seqs)
  BY <1>1, AppendIndex
<1>3. /\ handler' = [handler EXCEPT ![h] = IF conn = h THEN place ELSE "over"]
      /\ wire' = IF conn = h THEN [wire EXCEPT ![h] = longer] ELSE wire
  BY SendEffect
<1> HIDE DEF longer
<1> QED
  BY <1>1, <1>2, <1>3

\* Every step gives the variables values of their types.
LEMMA TypeStep ==
    ASSUME SizesAssumption, TypeOK, Next
    PROVE  TypeOK'
<1> USE DEF sessionVars, handlerVars, clientVars
<1>0. /\ MaxEvents \in Nat /\ SESSION_QUEUE_MAXSIZE \in Nat \ {0} /\ MaxRequests \in Nat
      /\ Handlers \subseteq Nat \ {0}
  BY DEF SizesAssumption
<1>1. CASE RunnerPublishes
  <2>1. cards' \subseteq Seqs /\ ended' \in BOOLEAN /\ runner_seq' = published'
    BY <1>1, PublishTypes DEF RunnerPublishes, TypeOK, Seqs
  <2> QED
    BY <1>0, <1>1, <2>1, PublishTypes DEF RunnerPublishes, TypeOK
<1>2. CASE RoutePublishes
  BY <1>0, <1>2, PublishTypes DEF RoutePublishes, TypeOK
<1>3. CASE PersistEnds
  BY <1>0, <1>3 DEF PersistEnds, TypeOK, Seqs
<1>4. CASE CloseStream
  <2>1. queue' \in Seq({SENTINEL} \cup Seqs) /\ Len(queue') = Len(queue) + 1
        /\ Len(queue) \in Nat
    BY <1>4, AppendIndex DEF CloseStream, TypeOK
  <2> QED
    BY <1>0, <1>4, <2>1 DEF CloseStream, TypeOK
<1>5. CASE Restart
  <2>1. handler \in [Handlers -> HandlerPlaces] /\ {"unused", "over"} \subseteq HandlerPlaces
    BY DEF TypeOK, HandlerPlaces
  <2>2. handler' \in [Handlers -> HandlerPlaces]
    BY <1>5, <2>1 DEF Restart
  <2>3. wire' \in [Handlers -> Seq(Seqs)] /\ queue' \in Seq({SENTINEL} \cup Seqs)
        /\ Len(queue') <= SESSION_QUEUE_MAXSIZE
    BY <1>0, <1>5, EmptySeq DEF Restart
  <2>4. /\ active' \in BOOLEAN /\ writing' = {} /\ runner_seq' = 0 /\ conn' = 0
        /\ UNCHANGED <<published, ended, cards, closed, requests, table, last_replay,
                       rows, last_seq, shown>>
    BY <1>5 DEF Restart
  <2> QED
    BY <1>0, <2>2, <2>3, <2>4 DEF TypeOK, HandlerPlaces
<1>6. ASSUME NEW h \in Handlers, LoadRows(h)
      PROVE  TypeOK'
  <2>1. RowsAfter(last_replay[h]) \subseteq Seqs
    BY DEF RowsAfter, TypeOK
  <2> QED
    BY <1>6, <2>1 DEF LoadRows, Become, TypeOK
<1>7. ASSUME NEW h \in Handlers, SendRow(h)
      PROVE  TypeOK'
  <2>1. PICK seq \in rows[h] : Send(h, seq, "replaying")
              /\ last_replay' = [last_replay EXCEPT ![h] = seq]
              /\ rows' = [rows EXCEPT ![h] = @ \ {seq}]
    BY <1>7 DEF SendRow
  <2>2. seq \in Seqs
    BY DEF TypeOK
  <2>3. handler' \in [Handlers -> HandlerPlaces] /\ wire' \in [Handlers -> Seq(Seqs)]
    BY <2>1, <2>2, SendTypes
  <2>4. last_replay' \in [Handlers -> 0 .. MaxEvents] /\ rows' \in [Handlers -> SUBSET Seqs]
    BY <1>0, <2>1, <2>2 DEF TypeOK, Seqs
  <2> QED
    BY <1>7, <2>3, <2>4 DEF SendRow, TypeOK, HandlerPlaces
<1>8. ASSUME NEW h \in Handlers, ReplayEnds(h)
      PROVE  TypeOK'
  BY <1>8 DEF ReplayEnds, Become, TypeOK
<1>9. ASSUME NEW h \in Handlers, NextEvent(h)
      PROVE  TypeOK'
  <2> DEFINE longer == Append(wire[h], queue[1])
  <2>1. /\ handler \in [Handlers -> HandlerPlaces] /\ wire \in [Handlers -> Seq(Seqs)]
        /\ {"live", "over"} \subseteq HandlerPlaces
    BY DEF TypeOK, HandlerPlaces
  <2>2. queue[1] # SENTINEL => longer \in Seq(Seqs)
    BY <1>9, <2>1, NextEventEffect, AppendIndex
  <2>3. \/ wire' = wire
        \/ queue[1] # SENTINEL /\ wire' = [wire EXCEPT ![h] = longer]
    BY <1>9, NextEventEffect
  <2>4. \/ handler' = handler
        \/ handler' = [handler EXCEPT ![h] = "over"]
        \/ handler' = [handler EXCEPT ![h] = "live"]
    BY <1>9, NextEventEffect
  <2>5. queue' \in Seq({SENTINEL} \cup Seqs) /\ Len(queue') <= SESSION_QUEUE_MAXSIZE
    BY <1>0, <1>9, NextEventEffect DEF TypeOK
  <2> HIDE DEF longer
  <2>6. wire' \in [Handlers -> Seq(Seqs)]
    BY <2>1, <2>2, <2>3
  <2>7. handler' \in [Handlers -> HandlerPlaces]
    BY <2>1, <2>4
  <2> QED
    BY <1>9, <2>5, <2>6, <2>7 DEF NextEvent, TypeOK, HandlerPlaces
<1>10. CASE Connect
  BY <1>0, <1>10 DEF Connect, Become, TypeOK
<1>11. CASE Receive
  <2>1. conn \in Handlers /\ wire'[conn] \in Seq(Seqs) /\ shown' \in Seq(Seqs)
        /\ wire' = [wire EXCEPT ![conn] = wire'[conn]]
    BY <1>11, ReceiveEffect DEF TypeOK
  <2>2. last_seq' \in 0 .. MaxEvents
    BY <1>0, <1>11, ReceiveEffect DEF Seqs
  <2>3. wire' \in [Handlers -> Seq(Seqs)]
    BY <2>1 DEF TypeOK
  <2> QED
    BY <1>11, <2>1, <2>2, <2>3, ReceiveEffect DEF TypeOK
<1>12. CASE ServerClosed
  BY <1>12 DEF ServerClosed, TypeOK
<1>13. CASE ConnectionLost
  BY <1>13, EmptySeq DEF ConnectionLost, TypeOK
<1>14. CASE Rest
  BY <1>14 DEF Rest, vars, TypeOK
<1> QED
  BY <1>1, <1>2, <1>3, <1>4, <1>5, <1>6, <1>7, <1>8, <1>9, <1>10, <1>11, <1>12, <1>13,
     <1>14 DEF Next, HandlerStep, ClientStep

\* What is in the queue can be counted.
LEMMA WaitingCounts ==
    ASSUME TypeOK
    PROVE  Len(queue) \in Nat /\ Waiting \in Int /\ Waiting <= Len(queue) /\ Waiting >= 0
<1>1. Len(queue) \in Nat /\ (queue # << >> => Len(queue) > 0)
  BY LenProperties, EmptySeq DEF TypeOK
<1> QED
  BY <1>1 DEF Waiting

\* The queue's part of the invariant.
QueueOk == SentinelIsLast /\ Waiting <= published /\ QueueKeepsNewest

\* A published event is the last of those waiting, which have no gap.
LEMMA PublishKeepsQueue ==
    ASSUME SizesAssumption, StreamInv, Publish, UNCHANGED closed
    PROVE  /\ QueueOk' /\ Waiting = Len(queue) /\ Waiting' = Len(queue')
           /\ \A i \in 1 .. Len(queue) : queue[i] # SENTINEL
<1>1. /\ published' = published + 1 /\ published \in Nat /\ published' \in Seqs
      /\ queue \in Seq({SENTINEL} \cup Seqs) /\ Len(queue) <= SESSION_QUEUE_MAXSIZE
      /\ Put(published')
  BY PublishTypes DEF StreamInv, TypeOK, Publish, Seqs
<1>2. PICK lost \in {0, 1} :
        /\ Len(queue') \in 1 .. SESSION_QUEUE_MAXSIZE
        /\ Len(queue') = Len(queue) + 1 - lost
        /\ \A i \in 1 .. Len(queue) - lost : queue'[i] = queue[i + lost]
        /\ queue'[Len(queue')] = published'
  BY <1>1, PutIndex
<1>3. ~closed /\ ~ended
  BY DEF Publish, StreamInv, SentinelIsLast
<1>4. Len(queue) \in Nat /\ \A i \in 1 .. Len(queue) : queue[i] # SENTINEL
  BY <1>3, WaitingCounts DEF StreamInv, SentinelIsLast
<1>5. Waiting = Len(queue)
  BY <1>1, <1>4, EmptySeq DEF Waiting
<1>6. queue' # << >>
  BY <1>2, EmptySeq
<1>7. Waiting' = Len(queue')
  BY <1>1, <1>2, <1>6 DEF Waiting, SENTINEL
<1>8. \A i \in 1 .. Len(queue') : queue'[i] = published' - Len(queue') + i
  <2>1. \A i \in 1 .. Len(queue) : queue[i] = published - Len(queue) + i
    BY <1>5 DEF StreamInv, QueueKeepsNewest
  <2> SUFFICES ASSUME NEW i \in 1 .. Len(queue')
               PROVE  queue'[i] = published' - Len(queue') + i
    OBVIOUS
  <2>2. CASE i = Len(queue')
    BY <1>1, <1>2, <2>2
  <2>3. CASE i # Len(queue')
    <3>1. i \in 1 .. Len(queue) - lost /\ i + lost \in 1 .. Len(queue)
      BY <1>2, <1>4, <2>3
    <3>2. queue'[i] = published - Len(queue) + (i + lost)
      BY <1>2, <2>1, <3>1
    <3> QED
      BY <1>1, <1>2, <1>4, <3>1, <3>2
  <2> QED
    BY <2>2, <2>3
<1>9. Len(queue') <= published' /\ Len(queue') \in Nat
  BY <1>1, <1>2, <1>4, <1>5 DEF StreamInv
<1>10. SentinelIsLast'
  BY <1>1, <1>3, <1>8, <1>9 DEF SentinelIsLast, SENTINEL
<1> QED
  BY <1>4, <1>5, <1>7, <1>8, <1>9, <1>10 DEF QueueOk, QueueKeepsNewest

\* A step that leaves the queue and what was published alone keeps the queue's part.
LEMMA QueueKept ==
    ASSUME StreamInv, UNCHANGED <<queue, published, closed, ended>>
    PROVE  QueueOk'
BY DEF StreamInv, QueueOk, SentinelIsLast, QueueKeepsNewest, Waiting

\* The sentinel is no event.
LEMMA CloseKeepsQueue ==
    ASSUME SizesAssumption, StreamInv, CloseStream
    PROVE  QueueOk' /\ Waiting' = Waiting
<1>0. /\ TypeOK /\ SentinelIsLast /\ QueueKeepsNewest /\ Waiting <= published
      /\ published \in Nat /\ Len(queue) \in Nat /\ SENTINEL = 0
  BY WaitingCounts DEF StreamInv, TypeOK, SENTINEL
<1>1. /\ ended /\ ~closed /\ closed' /\ UNCHANGED <<ended, published>>
      /\ queue' = Append(queue, SENTINEL)
  BY DEF CloseStream
<1>2. /\ Len(queue') = Len(queue) + 1 /\ queue'[Len(queue) + 1] = SENTINEL
      /\ \A i \in 1 .. Len(queue) : queue'[i] = queue[i]
  BY <1>0, <1>1, AppendIndex DEF TypeOK
<1>3. Waiting = Len(queue)
  BY <1>0, <1>1, EmptySeq DEF Waiting, SentinelIsLast, TypeOK
<1>4. queue' # << >>
  BY <1>0, <1>2, EmptySeq
<1>5. Waiting' = Len(queue)
  BY <1>0, <1>2, <1>4 DEF Waiting
<1> QED
  BY <1>0, <1>1, <1>2, <1>3, <1>5 DEF QueueOk, SentinelIsLast, QueueKeepsNewest

\* Taking the oldest entry leaves a gapless end of what was published.
LEMMA NextEventKeepsQueue ==
    ASSUME StreamInv, NEW h \in Handlers, NextEvent(h)
    PROVE  QueueOk' /\ (queue[1] # SENTINEL => Waiting' = Waiting - 1)
<1>0. /\ TypeOK /\ SentinelIsLast /\ QueueKeepsNewest /\ Waiting <= published
      /\ published \in Nat /\ Len(queue) \in Nat /\ SENTINEL = 0
  BY WaitingCounts DEF StreamInv, TypeOK, SENTINEL
<1>1. /\ Len(queue') = Len(queue) - 1 /\ Len(queue) > 0
      /\ \A i \in 1 .. Len(queue) - 1 : queue'[i] = queue[i + 1]
      /\ UNCHANGED <<published, closed, ended>>
  BY <1>0, NextEventEffect DEF NextEvent
<1>2. queue # << >> /\ (queue' = << >> <=> Len(queue) = 1)
  BY <1>0, <1>1, EmptySeq, NextEventEffect
<1>3. SentinelIsLast'
  BY <1>0, <1>1 DEF SentinelIsLast
<1>4. CASE queue[Len(queue)] = SENTINEL
  <2>1. Waiting = Len(queue) - 1
    BY <1>2, <1>4 DEF Waiting
  <2>2. CASE Len(queue) = 1
    <3>1. Waiting' = 0
      BY <1>1, <1>2, <2>2 DEF Waiting
    <3>2. queue[1] = SENTINEL
      BY <1>4, <2>2
    <3> QED
      BY <1>0, <1>1, <1>3, <3>1, <3>2 DEF QueueOk, QueueKeepsNewest
  <2>3. CASE Len(queue) # 1
    <3>1. Waiting' = Len(queue) - 2
      BY <1>0, <1>1, <1>2, <1>4, <2>3 DEF Waiting
    <3> QED
      BY <1>0, <1>1, <1>3, <2>1, <2>3, <3>1 DEF QueueOk, QueueKeepsNewest
  <2> QED
    BY <2>2, <2>3
<1>5. CASE queue[Len(queue)] # SENTINEL
  <2>1. Waiting = Len(queue)
    BY <1>2, <1>5 DEF Waiting
  <2>2. Waiting' = Len(queue) - 1
    BY <1>0, <1>1, <1>2, <1>5 DEF Waiting
  <2> QED
    BY <1>0, <1>1, <1>3, <2>1, <2>2 DEF QueueOk, QueueKeepsNewest
<1> QED
  BY <1>4, <1>5

\* Every step keeps the queue a gapless end of what was published.
LEMMA QueueStep ==
    ASSUME SizesAssumption, StreamInv, Next
    PROVE  QueueOk'
<1>0. /\ TypeOK /\ SentinelIsLast /\ QueueKeepsNewest /\ Waiting <= published
      /\ published \in Nat /\ Len(queue) \in Nat /\ SENTINEL = 0
  BY WaitingCounts DEF StreamInv, TypeOK, SENTINEL
<1>1. CASE RunnerPublishes \/ RoutePublishes
  BY <1>1, PublishKeepsQueue DEF RunnerPublishes, RoutePublishes
<1>2. CASE CloseStream
  BY <1>2, CloseKeepsQueue
<1>3. CASE Restart
  <2>1. queue' = << >> /\ Len(queue') = 0 /\ UNCHANGED <<published, closed, ended>>
    BY <1>3, EmptySeq DEF Restart
  <2>2. Waiting' = 0
    BY <2>1 DEF Waiting
  <2> QED
    BY <1>0, <2>1, <2>2 DEF QueueOk, SentinelIsLast, QueueKeepsNewest
<1>4. ASSUME NEW h \in Handlers, NextEvent(h)
      PROVE  QueueOk'
  BY <1>4, NextEventKeepsQueue
<1>5. ASSUME NEW h \in Handlers, LoadRows(h) \/ SendRow(h) \/ ReplayEnds(h)
      PROVE  QueueOk'
  BY <1>5, QueueKept DEF LoadRows, SendRow, ReplayEnds, sessionVars
<1>6. CASE PersistEnds \/ Connect \/ Receive \/ ServerClosed \/ ConnectionLost \/ Rest
  BY <1>6, QueueKept DEF PersistEnds, Connect, Receive, ServerClosed, ConnectionLost,
     Rest, vars, sessionVars
<1> QED
  BY <1>1, <1>2, <1>3, <1>4, <1>5, <1>6 DEF Next, HandlerStep, ClientStep

\* What has been published stays published.
LEMMA PublishedGrows ==
    ASSUME TypeOK, Bounded, published' = published + 1,
           cards' \subseteq cards \cup {published'},
           writing' = writing \cup {published'},
           UNCHANGED <<table, rows, wire, last_seq, shown>>
    PROVE  Bounded'
<1>1. published \in Nat /\ 1 .. published \subseteq 1 .. published'
      /\ published' \in 1 .. published'
  BY DEF TypeOK
<1>2. \A n \in Int : n <= published => n <= published'
  BY <1>1
<1>3. /\ last_seq \in Int /\ \A i \in 1 .. Len(shown) : shown[i] \in Int
      /\ \A h \in Handlers : \A i \in 1 .. Len(wire[h]) : wire[h][i] \in Int
  <2>1. Seqs \subseteq Int /\ last_seq \in Int
    BY DEF TypeOK, Seqs
  <2>2. shown \in Seq(Seqs) /\ \A h \in Handlers : wire[h] \in Seq(Seqs)
    BY DEF TypeOK
  <2>3. \A s \in Seq(Seqs) : \A i \in 1 .. Len(s) : s[i] \in Seqs
    BY ElementOfSeq
  <2> QED
    BY <2>1, <2>2, <2>3
<1>4. cards' \cup table' \cup writing' \subseteq 1 .. published'
  BY <1>1 DEF Bounded
<1>5. /\ last_seq' <= published' /\ \A i \in 1 .. Len(shown') : shown'[i] <= published'
  BY <1>2, <1>3 DEF Bounded
<1>6. \A h \in Handlers : \A i \in 1 .. Len(wire'[h]) : wire'[h][i] <= published'
  BY <1>2, <1>3 DEF Bounded
<1>7. \A h \in Handlers : rows'[h] \subseteq 1 .. published'
  BY <1>1 DEF Bounded
<1> QED
  BY <1>4, <1>5, <1>6, <1>7 DEF Bounded

\* A published event put on a wire leaves the wires within what was published.
LEMMA WireBounded ==
    ASSUME TypeOK, Bounded, NEW h \in Handlers, NEW seq \in Seqs, seq <= published,
           wire' = [wire EXCEPT ![h] = Append(@, seq)]
    PROVE  \A g \in Handlers : \A i \in 1 .. Len(wire'[g]) : wire'[g][i] <= published
<1>1. wire[h] \in Seq(Seqs)
  BY DEF TypeOK
<1> DEFINE longer == Append(wire[h], seq)
<1>2. Len(longer) = Len(wire[h]) + 1 /\ Len(wire[h]) \in Nat
      /\ longer[Len(wire[h]) + 1] = seq
      /\ \A i \in 1 .. Len(wire[h]) : longer[i] = wire[h][i]
  BY <1>1, AppendIndex
<1>3. wire' = [wire EXCEPT ![h] = longer]
  OBVIOUS
<1> HIDE DEF longer
<1>4. \A i \in 1 .. Len(longer) : longer[i] <= published
  BY <1>2 DEF Bounded
<1> QED
  BY <1>3, <1>4 DEF TypeOK, Bounded

\* The oldest event in the queue has been published.
LEMMA OldestWaiting ==
    ASSUME StreamInv, Len(queue) # 0, queue[1] # SENTINEL
    PROVE  /\ Waiting >= 1 /\ queue[1] = published - Waiting + 1
           /\ queue[1] <= published
<1>1. Len(queue) \in Nat /\ published \in Nat /\ Waiting \in Int
  BY WaitingCounts DEF StreamInv, TypeOK
<1>2. Waiting >= 1
  <2>1. CASE Len(queue) = 1
    BY <1>1, <2>1, EmptySeq DEF Waiting
  <2>2. CASE Len(queue) # 1
    BY <1>1, <2>2 DEF Waiting
  <2> QED
    BY <2>1, <2>2
<1> QED
  BY <1>1, <1>2 DEF StreamInv, QueueKeepsNewest

\* Every step keeps what it moves within what was published.
LEMMA BoundedStep ==
    ASSUME SizesAssumption, StreamInv, Next
    PROVE  Bounded'
<1> USE DEF sessionVars, handlerVars, clientVars
<1>0. /\ TypeOK /\ Bounded /\ published \in Nat /\ last_seq \in Nat /\ conn \in {0} \cup Handlers
      /\ \A h \in Handlers : rows[h] \subseteq Nat
  BY DEF StreamInv, TypeOK, Seqs
<1>1. CASE RunnerPublishes
  <2>1. published' = published + 1 /\ cards' \subseteq cards \cup {published'}
        /\ writing' = writing \cup {published'}
        /\ UNCHANGED <<table, rows, wire, last_seq, shown>>
    BY <1>0, <1>1, PublishTypes DEF RunnerPublishes
  <2> QED
    BY <1>0, <2>1, PublishedGrows
<1>2. CASE RoutePublishes
  <2>1. published' = published + 1 /\ cards' \subseteq cards \cup {published'}
        /\ writing' = writing \cup {published'}
        /\ UNCHANGED <<table, rows, wire, last_seq, shown>>
    BY <1>0, <1>2, PublishTypes DEF RoutePublishes
  <2> QED
    BY <1>0, <2>1, PublishedGrows
<1>3. CASE PersistEnds
  BY <1>0, <1>3 DEF PersistEnds, Bounded
<1>4. CASE CloseStream \/ Rest
  BY <1>0, <1>4 DEF CloseStream, Rest, vars, Bounded
<1>5. CASE Restart
  <2>1. /\ cards' \cup table' \cup writing' \subseteq 1 .. published'
        /\ UNCHANGED <<published, rows, last_seq, shown>>
    BY <1>0, <1>5 DEF Restart, Bounded
  <2>2. \A h \in Handlers : 1 .. Len(wire'[h]) = {}
    BY <1>5, EmptySeq DEF Restart
  <2> QED
    BY <1>0, <2>1, <2>2 DEF Bounded
<1>6. ASSUME NEW h \in Handlers, LoadRows(h)
      PROVE  Bounded'
  <2>1. /\ rows' = [rows EXCEPT ![h] = RowsAfter(last_replay[h])]
        /\ UNCHANGED <<published, cards, table, writing, wire, last_seq, shown>>
    BY <1>6 DEF LoadRows
  <2>2. RowsAfter(last_replay[h]) \subseteq 1 .. published
    BY <1>0 DEF RowsAfter, Bounded
  <2>3. \A g \in Handlers : rows'[g] \subseteq 1 .. published
    BY <1>0, <2>1, <2>2 DEF TypeOK, Bounded
  <2> QED
    BY <1>0, <2>1, <2>3 DEF Bounded
<1>7. ASSUME NEW h \in Handlers, SendRow(h)
      PROVE  Bounded'
  <2>1. PICK seq \in rows[h] : Send(h, seq, "replaying")
              /\ rows' = [rows EXCEPT ![h] = @ \ {seq}]
    BY <1>7 DEF SendRow
  <2>2. UNCHANGED <<published, cards, table, writing, last_seq, shown>>
    BY <1>7 DEF SendRow
  <2>3. seq \in Seqs /\ seq <= published
    BY <1>0 DEF Bounded, TypeOK
  <2>4. wire' = wire \/ wire' = [wire EXCEPT ![h] = Append(@, seq)]
    BY <2>1, SendEffect
  <2>5. \A g \in Handlers : rows'[g] \subseteq 1 .. published
    BY <1>0, <2>1 DEF TypeOK, Bounded
  <2> QED
    BY <1>0, <2>2, <2>3, <2>4, <2>5, WireBounded DEF Bounded
<1>8. ASSUME NEW h \in Handlers, ReplayEnds(h)
      PROVE  Bounded'
  BY <1>0, <1>8 DEF ReplayEnds, Bounded
<1>9. ASSUME NEW h \in Handlers, NextEvent(h)
      PROVE  Bounded'
  <2>1. UNCHANGED <<published, cards, table, writing, rows, last_seq, shown>>
    BY <1>9 DEF NextEvent
  <2>2. \/ wire' = wire
        \/ queue[1] \in Seqs /\ wire' = [wire EXCEPT ![h] = Append(@, queue[1])]
    BY <1>0, <1>9, NextEventEffect
  <2>3. queue[1] \in Seqs => queue[1] <= published
    BY <1>0, <1>9, OldestWaiting, NextEventEffect DEF Seqs, SENTINEL
  <2> QED
    BY <1>0, <2>1, <2>2, <2>3, WireBounded DEF Bounded
<1>10. CASE Connect \/ ServerClosed
  BY <1>0, <1>10 DEF Connect, ServerClosed, Bounded
<1>11. CASE Receive
  <2> DEFINE seq == wire[conn][1]
  <2>1. conn \in Handlers /\ seq <= published /\ seq \in Nat
    <3>1. conn \in Handlers /\ seq \in Seqs /\ 1 \in 1 .. Len(wire[conn])
      BY <1>0, <1>11, ReceiveEffect
    <3> QED
      BY <1>0, <3>1 DEF Bounded, Seqs
  <2>2. last_seq' <= published
    BY <1>0, <1>11, <2>1, ReceiveEffect
  <2>3. \A i \in 1 .. Len(shown') : shown'[i] <= published
    BY <1>0, <1>11, <2>1, ReceiveEffect DEF Bounded
  <2>4. wire' = [wire EXCEPT ![conn] = wire'[conn]] /\ Len(wire[conn]) \in Nat
        /\ Len(wire'[conn]) = Len(wire[conn]) - 1
        /\ \A i \in 1 .. Len(wire[conn]) - 1 : wire'[conn][i] = wire[conn][i + 1]
    BY <1>0, <1>11, ReceiveEffect DEF TypeOK
  <2>5. \A i \in 1 .. Len(wire'[conn]) : wire'[conn][i] <= published
    BY <1>0, <2>1, <2>4 DEF Bounded
  <2>6. \A h \in Handlers : h # conn => wire'[h] = wire[h]
    BY <1>0, <2>4 DEF TypeOK
  <2>7. UNCHANGED <<published, cards, table, writing, rows>>
    BY <1>0, <1>11, ReceiveEffect
  <2> QED
    BY <1>0, <2>2, <2>3, <2>5, <2>6, <2>7 DEF Bounded
<1>12. CASE ConnectionLost
  <2>1. /\ UNCHANGED <<published, cards, table, writing, rows, last_seq>>
        /\ shown' = shown \/ 1 .. Len(shown') = {}
        /\ \A h \in Handlers : wire'[h] = wire[h] \/ 1 .. Len(wire'[h]) = {}
    BY <1>0, <1>12, EmptySeq DEF ConnectionLost, TypeOK
  <2> QED
    BY <1>0, <2>1 DEF Bounded
<1> QED
  BY <1>1, <1>2, <1>3, <1>4, <1>5, <1>6, <1>7, <1>8, <1>9, <1>10, <1>11, <1>12
     DEF Next, HandlerStep, ClientStep

\* Only the handler of the connection the client has puts something on a wire.
LEMMA WireStep ==
    ASSUME SizesAssumption, StreamInv, Next
    PROVE  WireIsOpen'
<1> USE DEF sessionVars, handlerVars, clientVars
<1>0. TypeOK /\ WireIsOpen /\ conn \in {0} \cup Handlers /\ 0 \notin Handlers
  BY DEF StreamInv, TypeOK, SizesAssumption
<1>1. CASE RunnerPublishes \/ RoutePublishes \/ PersistEnds \/ CloseStream \/ Rest
  BY <1>0, <1>1 DEF RunnerPublishes, RoutePublishes, PersistEnds, CloseStream, Rest, vars,
     WireIsOpen
<1>2. CASE Restart
  BY <1>2 DEF Restart, WireIsOpen
<1>3. ASSUME NEW h \in Handlers, LoadRows(h) \/ ReplayEnds(h)
      PROVE  WireIsOpen'
  BY <1>0, <1>3 DEF LoadRows, ReplayEnds, WireIsOpen
<1>4. ASSUME NEW h \in Handlers, SendRow(h) \/ NextEvent(h)
      PROVE  WireIsOpen'
  <2>1. conn' = conn
    BY <1>4 DEF SendRow, NextEvent
  <2>2. \A g \in Handlers : g # conn => wire'[g] = wire[g]
    <3>1. CASE SendRow(h)
      <4>1. PICK seq \in rows[h] : Send(h, seq, "replaying")
        BY <3>1 DEF SendRow
      <4> QED
        BY <1>0, <4>1, SendEffect DEF TypeOK
    <3>2. CASE NextEvent(h)
      BY <1>0, <3>2, NextEventEffect DEF TypeOK
    <3> QED
      BY <1>4, <3>1, <3>2
  <2> QED
    BY <1>0, <2>1, <2>2 DEF WireIsOpen
<1>5. CASE Connect
  BY <1>0, <1>5 DEF Connect, WireIsOpen
<1>6. CASE Receive
  BY <1>0, <1>6 DEF Receive, WireIsOpen, TypeOK
<1>7. CASE ServerClosed
  BY <1>0, <1>7 DEF ServerClosed, WireIsOpen
<1>8. CASE ConnectionLost
  BY <1>0, <1>8 DEF ConnectionLost, WireIsOpen, TypeOK
<1> QED
  BY <1>1, <1>2, <1>3, <1>4, <1>5, <1>6, <1>7, <1>8 DEF Next, HandlerStep, ClientStep

\* Every step keeps the invariant.
LEMMA StreamStep == SizesAssumption /\ StreamInv /\ [Next]_vars => StreamInv'
<1> SUFFICES ASSUME SizesAssumption, StreamInv, [Next]_vars PROVE StreamInv'
  OBVIOUS
<1>1. CASE Next
  <2>1. TypeOK
    BY DEF StreamInv
  <2> QED
    BY <1>1, <2>1, TypeStep, BoundedStep, QueueStep, WireStep DEF StreamInv, QueueOk
<1>2. CASE UNCHANGED vars
  <2>1. Next \/ UNCHANGED vars
    BY <1>2
  <2>2. /\ TypeOK' /\ Bounded' /\ WireIsOpen'
    BY <1>2 DEF vars, sessionVars, handlerVars, clientVars, StreamInv, TypeOK, Bounded,
       WireIsOpen
  <2>3. QueueOk'
    BY <1>2, QueueKept DEF vars, sessionVars
  <2> QED
    BY <2>2, <2>3 DEF StreamInv, QueueOk
<1> QED
  BY <1>1, <1>2

\* So does a session that has not published anything yet.
LEMMA StreamStart == SizesAssumption /\ Init => StreamInv
<1> SUFFICES ASSUME SizesAssumption, Init PROVE StreamInv
  OBVIOUS
<1>1. TypeOK
  <2>1. /\ ended \in BOOLEAN /\ closed \in BOOLEAN /\ active \in BOOLEAN
    BY DEF Init
  <2>2. /\ handler \in [Handlers -> HandlerPlaces] /\ rows \in [Handlers -> SUBSET Seqs]
    BY DEF Init, HandlerPlaces
  <2>3. /\ last_replay \in [Handlers -> 0 .. MaxEvents] /\ wire \in [Handlers -> Seq(Seqs)]
    BY EmptySeq DEF Init, SizesAssumption
  <2>4. /\ queue \in Seq({SENTINEL} \cup Seqs) /\ Len(queue) <= SESSION_QUEUE_MAXSIZE
        /\ shown \in Seq(Seqs)
    BY EmptySeq DEF Init, SizesAssumption
  <2>5. /\ published = 0 /\ cards = {} /\ runner_seq = 0 /\ requests = 0 /\ writing = {}
        /\ table = {} /\ conn = 0 /\ last_seq = 0
        /\ MaxEvents \in Nat /\ MaxRequests \in Nat
    BY DEF Init, SizesAssumption
  <2> QED
    BY <2>1, <2>2, <2>3, <2>4, <2>5 DEF TypeOK, HandlerPlaces
<1>2. Waiting = 0
  BY EmptySeq DEF Init, Waiting
<1> QED
  BY <1>1, <1>2, EmptySeq
     DEF Init, StreamInv, Bounded, SentinelIsLast, WireIsOpen, QueueKeepsNewest

\* The inductive invariant of the way of the events: types, no event ahead of its
\* publication, one open wire, the sentinel last, and the queue a gapless end of what
\* was published.
THEOREM StreamInvariant == Spec => []StreamInv
BY SizesAssumption, StreamStart, StreamStep, PTL DEF Spec

\* Overflow costs the oldest events only, for every length of the queue.
THEOREM QueueInvHolds == Spec => []QueueInv
<1>1. StreamInv => QueueInv
  BY DEF StreamInv, QueueInv
<1> QED
  BY <1>1, StreamInvariant, PTL

(***************************************************************************)
(* The order of what is shown                                              *)
(***************************************************************************)

\* An event in the queue comes after the oldest one; only the sentinel has no number.
LEMMA QueueInOrder ==
    ASSUME StreamInv, queue[1] # SENTINEL, NEW i \in 2 .. Len(queue)
    PROVE  queue[i] = SENTINEL \/ queue[i] > queue[1]
<1>1. Len(queue) \in Nat /\ published \in Nat /\ Waiting \in Int /\ Waiting <= Len(queue)
  BY WaitingCounts DEF StreamInv, TypeOK
<1>2. queue[1] = published - Waiting + 1
  BY <1>1, OldestWaiting
<1>3. i \in Nat /\ i >= 2 /\ (i <= Waiting \/ (i = Len(queue) /\ queue[i] = SENTINEL))
  BY <1>1 DEF Waiting
<1>4. i <= Waiting => queue[i] = published - Waiting + i
  BY <1>3 DEF StreamInv, QueueKeepsNewest
<1> QED
  BY <1>1, <1>2, <1>3, <1>4

\* A step that sends and shows nothing, and queues nothing but the next event or the
\* sentinel, keeps the order.
LEMMA OrderKept ==
    ASSUME StreamInv, OrderInv, UNCHANGED <<shown, wire, conn>>,
           \A i \in 1 .. Len(shown) : shown[i] \in cards' => shown[i] \in cards,
           conn # 0 => /\ handler'[conn] \in {handler[conn], "over"}
                       /\ rows'[conn] = rows[conn]
                       /\ last_replay'[conn] = last_replay[conn],
           \A i \in 1 .. Len(queue') :
              \/ queue'[i] = SENTINEL
              \/ queue'[i] = published + 1
              \/ \E j \in 1 .. Len(queue) : queue'[i] = queue[j]
    PROVE  OrderInv'
<1>1. ShownInOrder' /\ (~HasCards => ~HasCards')
  BY DEF OrderInv, ShownInOrder, HasCards
<1>2. ASSUME conn # 0
      PROVE  ConnectionInOrder'
  <2>1. ConnectionInOrder /\ conn \in Handlers
    BY <1>2 DEF OrderInv, StreamInv, TypeOK
  <2>3. published \in Nat /\ SentUpTo(published)
    <3>1. /\ published \in Nat /\ \A i \in 1 .. Len(shown) : shown[i] <= published
          /\ \A i \in 1 .. Len(wire[conn]) : wire[conn][i] <= published
      BY <2>1 DEF StreamInv, Bounded, TypeOK
    <3> QED
      BY <3>1 DEF SentUpTo
  <2>4. last_replay[conn] \in Nat
    BY <2>1 DEF StreamInv, TypeOK
  <2>5. handler'[conn] = "live" =>
          \A i \in 1 .. Len(queue') :
             queue'[i] > last_replay'[conn] => SentUpTo(queue'[i] - 1)
    <3> SUFFICES ASSUME handler'[conn] = "live", NEW i \in 1 .. Len(queue'),
                        queue'[i] > last_replay'[conn]
                 PROVE  SentUpTo(queue'[i] - 1)
      OBVIOUS
    <3>1. CASE queue'[i] = SENTINEL
      BY <1>2, <2>4, <3>1 DEF SENTINEL
    <3>2. CASE queue'[i] = published + 1
      BY <2>3, <3>2
    <3>3. CASE \E j \in 1 .. Len(queue) : queue'[i] = queue[j]
      BY <1>2, <2>1, <3>3 DEF ConnectionInOrder
    <3> QED
      BY <3>1, <3>2, <3>3
  <2>6. (handler[conn] = "live" =>
          \A i \in 1 .. Len(queue) :
             queue[i] > last_replay[conn] => SentUpTo(queue[i] - 1))'
    BY <1>2, <2>5 DEF SentUpTo
  <2>7. (handler[conn] = "replaying" =>
          /\ SentUpTo(last_replay[conn])
          /\ \A seq \in rows[conn] : seq > last_replay[conn])'
    BY <1>2, <2>1 DEF ConnectionInOrder, SentUpTo
  <2>8. (/\ \A i, j \in 1 .. Len(wire[conn]) : i < j => wire[conn][i] < wire[conn][j]
         /\ \A i \in 1 .. Len(wire[conn]), j \in 1 .. Len(shown) :
               shown[j] \in cards => shown[j] < wire[conn][i]
         /\ handler[conn] = "loading" => wire[conn] = << >> /\ ~HasCards)'
    BY <1>1, <1>2, <2>1 DEF ConnectionInOrder
  <2> QED
    BY <2>6, <2>7, <2>8 DEF ConnectionInOrder
<1> QED
  BY <1>1, <1>2 DEF OrderInv

\* What was shown and what was sent stay in order when the next event is sent.
LEMMA SendInOrder ==
    ASSUME StreamInv, OrderInv, conn # 0, NEW seq \in Seqs, SentUpTo(seq - 1),
           wire' = [wire EXCEPT ![conn] = Append(@, seq)],
           UNCHANGED <<shown, cards, conn>>
    PROVE  /\ \A i \in 1 .. Len(wire'[conn]) : wire'[conn][i] <= seq
           /\ \A i \in 1 .. Len(shown) : shown[i] \in cards => shown[i] <= seq
           /\ \A i, j \in 1 .. Len(wire'[conn]) : i < j => wire'[conn][i] < wire'[conn][j]
           /\ \A i \in 1 .. Len(wire'[conn]), j \in 1 .. Len(shown) :
                 shown[j] \in cards => shown[j] < wire'[conn][i]
<1> DEFINE w == wire[conn]
           longer == Append(w, seq)
<1>1. conn \in Handlers /\ w \in Seq(Seqs) /\ seq \in Nat /\ Seqs \subseteq Nat
      /\ ConnectionInOrder
  BY DEF StreamInv, TypeOK, OrderInv, Seqs
<1>2. /\ Len(longer) = Len(w) + 1 /\ Len(w) \in Nat /\ longer[Len(w) + 1] = seq
      /\ \A i \in 1 .. Len(w) : longer[i] = w[i]
  BY <1>1, AppendIndex
<1>3. wire'[conn] = longer
  BY <1>1 DEF StreamInv, TypeOK
<1>4. \A i \in 1 .. Len(w) : w[i] \in Nat
  BY <1>1, ElementOfSeq
<1>5. \A i \in 1 .. Len(shown) : shown[i] \in Nat
  BY <1>1, ElementOfSeq DEF StreamInv, TypeOK
<1>6. /\ \A i \in 1 .. Len(w) : w[i] <= seq - 1
      /\ \A i \in 1 .. Len(shown) : shown[i] \in cards => shown[i] <= seq - 1
  BY DEF SentUpTo
<1>7. /\ \A i, j \in 1 .. Len(w) : i < j => w[i] < w[j]
      /\ \A i \in 1 .. Len(w), j \in 1 .. Len(shown) : shown[j] \in cards => shown[j] < w[i]
  BY <1>1 DEF ConnectionInOrder
<1> HIDE DEF longer, w
<1>8. \A i \in 1 .. Len(longer) : i \in 1 .. Len(w) \/ i = Len(w) + 1
  BY <1>2
<1>9. \A i, j \in 1 .. Len(longer) : i < j => longer[i] < longer[j]
  BY <1>1, <1>2, <1>4, <1>6, <1>7, <1>8
<1>10. \A i \in 1 .. Len(longer), j \in 1 .. Len(shown) :
          shown[j] \in cards => shown[j] < longer[i]
  BY <1>1, <1>2, <1>5, <1>6, <1>7, <1>8
<1>11. /\ \A i \in 1 .. Len(longer) : longer[i] <= seq
       /\ \A i \in 1 .. Len(shown) : shown[i] \in cards => shown[i] <= seq
  BY <1>1, <1>2, <1>4, <1>5, <1>6, <1>8
<1> QED
  BY <1>3, <1>9, <1>10, <1>11

\* The client has been sent nothing that has not been published.
LEMMA SentUpToMore ==
    ASSUME StreamInv, conn # 0, NEW m \in Int, NEW n \in Int, m <= n, SentUpTo(m)
    PROVE  SentUpTo(n)
<1>1. conn \in Handlers /\ wire[conn] \in Seq(Seqs) /\ shown \in Seq(Seqs)
      /\ Seqs \subseteq Int
  BY DEF StreamInv, TypeOK, Seqs
<1>2. /\ \A i \in 1 .. Len(wire[conn]) : wire[conn][i] \in Int
      /\ \A i \in 1 .. Len(shown) : shown[i] \in Int
  BY <1>1, ElementOfSeq
<1> QED
  BY <1>2 DEF SentUpTo

\* A connection lost or closed leaves the cards in order.
LEMMA OrderWithoutConnection ==
    ASSUME OrderInv, conn' = 0, shown' = shown \/ Len(shown') = 0, cards' = cards
    PROVE  OrderInv'
BY DEF OrderInv, ShownInOrder

\* A handler that sends a row of its replay sends the next one in order.
LEMMA SendRowOrder ==
    ASSUME StreamInv, OrderInv, NEW h \in Handlers, SendRow(h)
    PROVE  OrderInv'
<1>0. /\ TypeOK /\ UNCHANGED <<cards, queue, shown, conn>> /\ 0 \notin Handlers
      /\ handler[h] = "replaying"
  BY SizesAssumption DEF StreamInv, SendRow, sessionVars, clientVars, SizesAssumption
<1>1. PICK seq \in rows[h] :
        /\ \A other \in rows[h] : seq <= other
        /\ Send(h, seq, "replaying")
        /\ last_replay' = [last_replay EXCEPT ![h] = seq]
        /\ rows' = [rows EXCEPT ![h] = @ \ {seq}]
  BY DEF SendRow
<1>2. /\ handler' = [handler EXCEPT ![h] = IF conn = h THEN "replaying" ELSE "over"]
      /\ wire' = IF conn = h THEN [wire EXCEPT ![h] = Append(@, seq)] ELSE wire
  BY <1>1, SendEffect
<1>3. seq \in Seqs /\ rows[h] \subseteq Seqs /\ Seqs \subseteq Nat
  BY <1>0 DEF TypeOK, Seqs
<1>4. CASE conn # h
  <2>1. wire' = wire
    BY <1>2, <1>4
  <2>2. conn # 0 => /\ handler'[conn] = handler[conn] /\ rows'[conn] = rows[conn]
                    /\ last_replay'[conn] = last_replay[conn]
    BY <1>0, <1>1, <1>2, <1>4 DEF TypeOK
  <2>3. \A i \in 1 .. Len(queue') : \E j \in 1 .. Len(queue) : queue'[i] = queue[j]
    BY <1>0
  <2> QED
    BY <1>0, <2>1, <2>2, <2>3, OrderKept
<1>5. CASE conn = h
  <2>1. conn # 0 /\ ConnectionInOrder /\ last_replay[h] \in Nat
    BY <1>0, <1>5 DEF OrderInv, TypeOK
  <2>2. SentUpTo(last_replay[h]) /\ \A other \in rows[h] : other > last_replay[h]
    BY <1>0, <1>5, <2>1 DEF ConnectionInOrder
  <2>3. SentUpTo(seq - 1)
    BY <1>3, <2>1, <2>2, SentUpToMore
  <2>4. /\ \A i \in 1 .. Len(wire'[conn]) : wire'[conn][i] <= seq
        /\ \A i \in 1 .. Len(shown) : shown[i] \in cards => shown[i] <= seq
        /\ \A i, j \in 1 .. Len(wire'[conn]) : i < j => wire'[conn][i] < wire'[conn][j]
        /\ \A i \in 1 .. Len(wire'[conn]), j \in 1 .. Len(shown) :
              shown[j] \in cards => shown[j] < wire'[conn][i]
    BY <1>0, <1>2, <1>3, <1>5, <2>1, <2>3, SendInOrder
  <2>5. handler'[conn] = "replaying" /\ last_replay'[conn] = seq
        /\ rows'[conn] = rows[h] \ {seq}
    BY <1>0, <1>1, <1>2, <1>5 DEF TypeOK
  <2>6. \A other \in rows'[conn] : other > last_replay'[conn]
    <3>1. \A other \in rows[h] \ {seq} : other \in Nat /\ seq <= other /\ other # seq
      BY <1>1, <1>3
    <3>2. seq \in Nat
      BY <1>3
    <3> QED
      BY <2>5, <3>1, <3>2
  <2>7. SentUpTo(last_replay[conn])'
    BY <1>0, <2>4, <2>5 DEF SentUpTo
  <2>8. ConnectionInOrder'
    BY <1>0, <2>4, <2>5, <2>6, <2>7 DEF ConnectionInOrder
  <2>9. ShownInOrder'
    BY <1>0 DEF OrderInv, ShownInOrder
  <2> QED
    BY <2>8, <2>9 DEF OrderInv
<1> QED
  BY <1>4, <1>5

\* A handler that takes the oldest event from the queue sends it, if at all, in order.
LEMMA NextEventOrder ==
    ASSUME StreamInv, OrderInv, NEW h \in Handlers, NextEvent(h)
    PROVE  OrderInv'
<1>0. /\ TypeOK /\ UNCHANGED <<cards, shown, conn, rows, last_replay>> /\ 0 \notin Handlers
      /\ handler[h] = "live"
  BY SizesAssumption DEF StreamInv, NextEvent, sessionVars, clientVars, SizesAssumption
<1>1. /\ Len(queue') = Len(queue) - 1 /\ Len(queue) \in Nat \ {0}
      /\ \A i \in 1 .. Len(queue) - 1 : queue'[i] = queue[i + 1]
  BY <1>0, NextEventEffect
<1>2. CASE wire' = wire /\ (conn # 0 => handler'[conn] \in {handler[conn], "over"})
  <2>1. \A i \in 1 .. Len(queue') : i + 1 \in 1 .. Len(queue) /\ queue'[i] = queue[i + 1]
    BY <1>1
  <2>2. \A i \in 1 .. Len(queue') : \E j \in 1 .. Len(queue) : queue'[i] = queue[j]
    BY <2>1
  <2> QED
    BY <1>0, <1>2, <2>2, OrderKept
<1>3. CASE /\ queue[1] # SENTINEL /\ ~(queue[1] <= last_replay[h]) /\ conn = h
           /\ handler' = [handler EXCEPT ![h] = "live"]
           /\ wire' = [wire EXCEPT ![h] = Append(@, queue[1])]
  <2>1. conn # 0 /\ ConnectionInOrder /\ last_replay[h] \in Nat /\ queue[1] \in Seqs
        /\ Seqs \subseteq Nat /\ 1 \in 1 .. Len(queue)
    BY <1>0, <1>1, <1>3, NextEventEffect DEF OrderInv, TypeOK, Seqs
  <2>2. SentUpTo(queue[1] - 1)
    <3>1. handler[conn] = "live" /\ conn = h /\ queue[1] \in Nat
      BY <1>0, <1>3, <2>1
    <3>2. queue[1] > last_replay[conn]
      BY <1>3, <2>1, <3>1
    <3> QED
      BY <2>1, <3>1, <3>2 DEF ConnectionInOrder
  <2>3. PICK oldest \in Seqs : oldest = queue[1]
    BY <2>1
  <2>4. /\ \A i \in 1 .. Len(wire'[conn]) : wire'[conn][i] <= oldest
        /\ \A i \in 1 .. Len(shown) : shown[i] \in cards => shown[i] <= oldest
        /\ \A i, j \in 1 .. Len(wire'[conn]) : i < j => wire'[conn][i] < wire'[conn][j]
        /\ \A i \in 1 .. Len(wire'[conn]), j \in 1 .. Len(shown) :
              shown[j] \in cards => shown[j] < wire'[conn][i]
    BY <1>0, <1>3, <2>1, <2>2, <2>3, SendInOrder
  <2>5. handler'[conn] = "live"
    BY <1>0, <1>3 DEF TypeOK
  <2>6. ASSUME NEW i \in 1 .. Len(queue'), queue'[i] > last_replay'[conn]
        PROVE  queue'[i] - 1 >= oldest /\ queue'[i] \in Nat
    <3>1. i + 1 \in 2 .. Len(queue) /\ queue'[i] = queue[i + 1] /\ i + 1 \in 1 .. Len(queue)
      BY <1>1
    <3>2. queue'[i] \in {SENTINEL} \cup Seqs
      BY <1>0, <3>1, ElementOfSeq DEF TypeOK
    <3>3. queue'[i] # SENTINEL
      BY <1>0, <1>3, <2>1, <2>6 DEF SENTINEL
    <3>4. queue'[i] > queue[1]
      BY <1>3, <3>1, <3>3, QueueInOrder
    <3>5. queue'[i] \in Nat /\ queue[1] \in Nat
      BY <2>1, <3>2, <3>3
    <3> QED
      BY <2>3, <3>4, <3>5
  <2>7. wire'[conn] \in Seq(Seqs) /\ shown \in Seq(Seqs)
    <3>1. Append(wire[h], queue[1]) \in Seq(Seqs)
      BY <1>0, <2>1, AppendIndex DEF TypeOK
    <3> QED
      BY <1>0, <1>3, <3>1 DEF TypeOK
  <2>8. /\ \A i \in 1 .. Len(wire'[conn]) : wire'[conn][i] \in Nat
        /\ \A i \in 1 .. Len(shown) : shown[i] \in Nat
    BY <2>1, <2>7, ElementOfSeq
  <2>9. ASSUME NEW i \in 1 .. Len(queue'), queue'[i] > last_replay'[conn]
        PROVE  /\ \A k \in 1 .. Len(wire'[conn]) : wire'[conn][k] <= queue'[i] - 1
               /\ \A k \in 1 .. Len(shown) : shown[k] \in cards => shown[k] <= queue'[i] - 1
    <3> DEFINE n == queue'[i] - 1
    <3>1. n \in Int /\ n >= oldest /\ oldest \in Nat
      BY <2>1, <2>6, <2>9
    <3> HIDE DEF n
    <3>2. /\ \A k \in 1 .. Len(wire'[conn]) : wire'[conn][k] <= n
          /\ \A k \in 1 .. Len(shown) : shown[k] \in cards => shown[k] <= n
      BY <2>4, <2>8, <3>1
    <3> QED
      BY <3>2 DEF n
  <2>10. (\A i \in 1 .. Len(queue) :
            queue[i] > last_replay[conn] => SentUpTo(queue[i] - 1))'
    BY <1>0, <2>9 DEF SentUpTo
  <2>11. ConnectionInOrder'
    BY <1>0, <2>4, <2>5, <2>10 DEF ConnectionInOrder
  <2>12. ShownInOrder'
    BY <1>0 DEF OrderInv, ShownInOrder
  <2> QED
    BY <2>11, <2>12 DEF OrderInv
<1> QED
  BY <1>0, <1>2, <1>3, NextEventEffect DEF TypeOK

\* What a handler reads from the table comes after what the client asked for; where
\* its replay ends, what the queue still holds comes after that.
LEMMA ReplayOrder ==
    ASSUME StreamInv, OrderInv, NEW h \in Handlers, LoadRows(h) \/ ReplayEnds(h)
    PROVE  OrderInv'
<1>0. /\ TypeOK /\ UNCHANGED <<cards, shown, conn, wire, last_replay, queue>>
      /\ 0 \notin Handlers
  BY SizesAssumption DEF StreamInv, LoadRows, ReplayEnds, sessionVars, clientVars,
     SizesAssumption
<1>1. CASE conn # h
  <2>1. conn # 0 => handler'[conn] = handler[conn] /\ rows'[conn] = rows[conn]
    BY <1>0, <1>1 DEF LoadRows, ReplayEnds, Become, TypeOK
  <2>2. \A i \in 1 .. Len(queue') : \E j \in 1 .. Len(queue) : queue'[i] = queue[j]
    BY <1>0
  <2> QED
    BY <1>0, <2>1, <2>2, OrderKept
<1>2. CASE conn = h
  <2>1. conn # 0 /\ ConnectionInOrder /\ last_replay[h] \in Nat
    BY <1>0, <1>2 DEF OrderInv, TypeOK
  <2>2. ShownInOrder'
    BY <1>0 DEF OrderInv, ShownInOrder
  <2>3. CASE LoadRows(h)
    <3>1. /\ handler[conn] = "loading" /\ handler'[conn] = "replaying"
          /\ rows'[conn] = RowsAfter(last_replay[conn])
      BY <1>0, <1>2, <2>3 DEF LoadRows, Become, TypeOK
    <3>2. Len(wire[conn]) = 0 /\ ~HasCards
      BY <2>1, <3>1, EmptySeq DEF ConnectionInOrder
    <3>3. SentUpTo(last_replay[conn])'
      BY <1>0, <3>2 DEF SentUpTo, HasCards
    <3>4. \A seq \in rows'[conn] : seq > last_replay'[conn]
      BY <1>0, <3>1 DEF RowsAfter
    <3> QED
      BY <1>0, <2>1, <2>2, <3>1, <3>3, <3>4 DEF OrderInv, ConnectionInOrder
  <2>4. CASE ReplayEnds(h)
    <3>1. handler[conn] = "replaying" /\ handler'[conn] \in {"live", "over"}
      BY <1>0, <1>2, <2>4 DEF ReplayEnds, Become, TypeOK
    <3>2. SentUpTo(last_replay[conn])
      BY <2>1, <3>1 DEF ConnectionInOrder
    <3>3. ASSUME NEW i \in 1 .. Len(queue), queue[i] > last_replay[conn]
          PROVE  SentUpTo(queue[i] - 1)
      <4>1. queue[i] \in Int
        BY <1>0, ElementOfSeq DEF TypeOK, SENTINEL, Seqs
      <4> QED
        BY <1>2, <2>1, <3>2, <3>3, <4>1, SentUpToMore
    <3>4. (\A i \in 1 .. Len(queue) :
             queue[i] > last_replay[conn] => SentUpTo(queue[i] - 1))'
      BY <1>0, <3>3 DEF SentUpTo
    <3> QED
      BY <1>0, <2>1, <2>2, <3>1, <3>4 DEF OrderInv, ConnectionInOrder
  <2> QED
    BY <2>3, <2>4
<1> QED
  BY <1>1, <1>2

\* The client applies what it receives in the order it was sent.
LEMMA ReceiveOrder ==
    ASSUME StreamInv, OrderInv, Receive
    PROVE  OrderInv'
<1>0. /\ TypeOK /\ conn # 0 /\ wire[conn] # << >>
      /\ UNCHANGED <<cards, queue, handler, rows, last_replay, conn>>
  BY DEF StreamInv, Receive, sessionVars, handlerVars
<1> DEFINE w == wire[conn]
           v == wire'[conn]
<1>1. /\ w \in Seq(Seqs) /\ shown \in Seq(Seqs) /\ conn \in Handlers /\ Seqs \subseteq Nat
      /\ Len(w) \in Nat \ {0} /\ Len(shown) \in Nat
      /\ Len(shown') = Len(shown) + 1 /\ shown'[Len(shown) + 1] = w[1]
      /\ \A i \in 1 .. Len(shown) : shown'[i] = shown[i]
      /\ Len(v) = Len(w) - 1 /\ \A i \in 1 .. Len(w) - 1 : v[i] = w[i + 1]
  BY <1>0, ReceiveEffect DEF TypeOK, Seqs
<1>2. /\ \A i \in 1 .. Len(w) : w[i] \in Nat
      /\ \A i \in 1 .. Len(shown) : shown[i] \in Nat
  BY <1>1, ElementOfSeq
<1>3. ShownInOrder /\ ConnectionInOrder
  BY <1>0 DEF OrderInv
<1>4. /\ \A i, j \in 1 .. Len(w) : i < j => w[i] < w[j]
      /\ \A i \in 1 .. Len(w), j \in 1 .. Len(shown) : shown[j] \in cards => shown[j] < w[i]
      /\ handler[conn] # "loading"
  BY <1>0, <1>3 DEF ConnectionInOrder
<1> HIDE DEF w, v
<1>5. \A i \in 1 .. Len(v) : i + 1 \in 1 .. Len(w) /\ v[i] = w[i + 1] /\ 1 \in 1 .. Len(w)
  BY <1>1
<1>6. \A i \in 1 .. Len(shown') : \/ i \in 1 .. Len(shown) /\ shown'[i] = shown[i]
                                  \/ i = Len(shown) + 1 /\ shown'[i] = w[1]
  BY <1>1
<1>7. ShownInOrder'
  <2>1. ASSUME NEW i \in 1 .. Len(shown'), NEW j \in 1 .. Len(shown'),
               i < j, {shown'[i], shown'[j]} \subseteq cards
        PROVE  shown'[i] < shown'[j]
    <3>1. i \in 1 .. Len(shown) /\ shown'[i] = shown[i]
      BY <1>1, <1>6, <2>1
    <3>2. CASE j \in 1 .. Len(shown) /\ shown'[j] = shown[j]
      BY <1>3, <2>1, <3>1, <3>2 DEF ShownInOrder
    <3>3. CASE shown'[j] = w[1]
      BY <1>1, <1>4, <2>1, <3>1, <3>3
    <3> QED
      BY <1>6, <3>2, <3>3
  <2> QED
    BY <1>0, <2>1 DEF ShownInOrder
<1>8. \A i, j \in 1 .. Len(v) : i < j => v[i] < v[j]
  BY <1>4, <1>5
<1>9. \A i \in 1 .. Len(v), j \in 1 .. Len(shown') : shown'[j] \in cards => shown'[j] < v[i]
  <2> SUFFICES ASSUME NEW i \in 1 .. Len(v), NEW j \in 1 .. Len(shown'), shown'[j] \in cards
               PROVE  shown'[j] < v[i]
    OBVIOUS
  <2>1. CASE j \in 1 .. Len(shown) /\ shown'[j] = shown[j]
    BY <1>4, <1>5, <2>1
  <2>2. CASE shown'[j] = w[1]
    <3>1. 1 < i + 1
      OBVIOUS
    <3> QED
      BY <1>4, <1>5, <2>2, <3>1
  <2> QED
    BY <1>6, <2>1, <2>2
<1>10. ASSUME NEW n, SentUpTo(n)
       PROVE  /\ \A i \in 1 .. Len(v) : v[i] <= n
              /\ \A i \in 1 .. Len(shown') : shown'[i] \in cards => shown'[i] <= n
  <2>1. /\ \A i \in 1 .. Len(w) : w[i] <= n
        /\ \A i \in 1 .. Len(shown) : shown[i] \in cards => shown[i] <= n
    BY <1>10 DEF SentUpTo, w
  <2>2. \A i \in 1 .. Len(v) : v[i] <= n
    BY <1>5, <2>1
  <2>3. 1 \in 1 .. Len(w) /\ w[1] <= n
    BY <1>1, <2>1
  <2>4. \A i \in 1 .. Len(shown') : shown'[i] \in cards => shown'[i] <= n
    BY <1>6, <2>1, <2>3
  <2> QED
    BY <2>2, <2>4
<1>11. (handler[conn] = "replaying" =>
          /\ SentUpTo(last_replay[conn])
          /\ \A seq \in rows[conn] : seq > last_replay[conn])'
  BY <1>0, <1>3, <1>10 DEF ConnectionInOrder, SentUpTo, v
<1>12. (handler[conn] = "live" =>
          \A i \in 1 .. Len(queue) :
             queue[i] > last_replay[conn] => SentUpTo(queue[i] - 1))'
  <2> SUFFICES ASSUME handler[conn] = "live", NEW i \in 1 .. Len(queue),
                      queue[i] > last_replay[conn]
               PROVE  /\ \A k \in 1 .. Len(v) : v[k] <= queue[i] - 1
                      /\ \A k \in 1 .. Len(shown') :
                            shown'[k] \in cards => shown'[k] <= queue[i] - 1
    BY <1>0 DEF SentUpTo, v
  <2>1. SentUpTo(queue[i] - 1)
    BY <1>3 DEF ConnectionInOrder
  <2> QED
    BY <1>10, <2>1
<1>13. (/\ \A i, j \in 1 .. Len(wire[conn]) : i < j => wire[conn][i] < wire[conn][j]
        /\ \A i \in 1 .. Len(wire[conn]), j \in 1 .. Len(shown) :
              shown[j] \in cards => shown[j] < wire[conn][i]
        /\ handler[conn] # "loading")'
  BY <1>0, <1>4, <1>8, <1>9 DEF v
<1> QED
  BY <1>7, <1>11, <1>12, <1>13 DEF OrderInv, ConnectionInOrder

\* Every step keeps the order.
LEMMA OrderStep ==
    ASSUME SizesAssumption, StreamInv, OrderInv, Next
    PROVE  OrderInv'
<1> USE DEF sessionVars, handlerVars, clientVars
<1>0. TypeOK /\ 0 \notin Handlers
  BY DEF StreamInv, SizesAssumption
<1>1. CASE RunnerPublishes \/ RoutePublishes
  <2>1. /\ Publish /\ cards' \subseteq cards \cup {published'}
        /\ UNCHANGED <<shown, wire, conn, handler, rows, last_replay>>
    BY <1>1 DEF RunnerPublishes, RoutePublishes
  <2>2. published' = published + 1 /\ published \in Nat
    BY <1>0, <2>1, PublishTypes DEF TypeOK
  <2>3. \A i \in 1 .. Len(shown) : shown[i] <= published
    BY DEF StreamInv, Bounded
  <2>4. \A i \in 1 .. Len(shown) : shown[i] # published'
    BY <2>2, <2>3
  <2>5. \A i \in 1 .. Len(queue') :
           queue'[i] = published + 1 \/ \E j \in 1 .. Len(queue) : queue'[i] = queue[j]
    <3>1. Put(published') /\ published' \in Seqs
      BY <1>0, <2>1, PublishTypes DEF Publish, Seqs
    <3>2. PICK lost \in {0, 1} :
            /\ Len(queue') = Len(queue) + 1 - lost
            /\ \A i \in 1 .. Len(queue) - lost : queue'[i] = queue[i + lost]
            /\ queue'[Len(queue')] = published'
      BY <1>0, <3>1, PutIndex DEF TypeOK
    <3>3. Len(queue) \in Nat
      BY <1>0, WaitingCounts
    <3>4. \A i \in 1 .. Len(queue') : \/ i = Len(queue')
                                      \/ /\ i \in 1 .. Len(queue) - lost
                                         /\ i + lost \in 1 .. Len(queue)
      BY <3>2, <3>3
    <3> QED
      BY <2>2, <3>2, <3>4
  <2> QED
    BY <2>1, <2>4, <2>5, OrderKept
<1>2. CASE PersistEnds \/ Rest
  BY <1>2, OrderKept DEF PersistEnds, Rest, vars
<1>3. CASE CloseStream
  <2>1. /\ queue' = Append(queue, SENTINEL)
        /\ UNCHANGED <<cards, shown, wire, conn, handler, rows, last_replay>>
    BY <1>3 DEF CloseStream
  <2>2. \A i \in 1 .. Len(queue') :
           queue'[i] = SENTINEL \/ \E j \in 1 .. Len(queue) : queue'[i] = queue[j]
    BY <1>0, <2>1, AppendIndex DEF TypeOK
  <2> QED
    BY <2>1, <2>2, OrderKept
<1>4. CASE Restart \/ ServerClosed
  BY <1>4, OrderWithoutConnection DEF Restart, ServerClosed
<1>5. CASE ConnectionLost
  <2>1. conn' = 0 /\ cards' = cards /\ (shown' = shown \/ Len(shown') = 0)
    BY <1>5, EmptySeq DEF ConnectionLost
  <2> QED
    BY <2>1, OrderWithoutConnection
<1>6. CASE Connect
  <2>1. PICK h \in Handlers : /\ handler' = [handler EXCEPT ![h] = "loading"]
                              /\ conn' = h
    BY <1>6 DEF Connect, Become
  <2>2. conn = 0 /\ ~HasCards /\ UNCHANGED <<cards, wire, shown>>
    BY <1>6 DEF Connect
  <2>3. handler'[conn'] = "loading" /\ wire[h] = << >> /\ Len(wire[h]) = 0
    BY <1>0, <2>1, <2>2, EmptySeq DEF StreamInv, WireIsOpen, TypeOK
  <2>4. ~HasCards' /\ ShownInOrder'
    BY <2>2 DEF HasCards, OrderInv, ShownInOrder
  <2>5. ConnectionInOrder'
    BY <2>1, <2>2, <2>3, <2>4 DEF ConnectionInOrder
  <2> QED
    BY <2>4, <2>5 DEF OrderInv
<1>7. ASSUME NEW h \in Handlers, HandlerStep(h)
      PROVE  OrderInv'
  BY <1>7, ReplayOrder, SendRowOrder, NextEventOrder DEF HandlerStep
<1>8. CASE Receive
  BY <1>8, ReceiveOrder
<1> QED
  BY <1>1, <1>2, <1>3, <1>4, <1>5, <1>6, <1>7, <1>8 DEF Next, ClientStep

\* Nothing is shown twice or out of order, over any number of connections, page loads
\* and handlers, and whatever is lost on the way.
THEOREM ShownInOrderHolds == Spec => []ShownInOrder
<1>1. Init => OrderInv
  BY EmptySeq DEF Init, OrderInv, ShownInOrder
<1>2. StreamInv /\ OrderInv /\ [Next]_vars => OrderInv'
  <2> SUFFICES ASSUME StreamInv, OrderInv, [Next]_vars PROVE OrderInv'
    OBVIOUS
  <2>1. CASE Next
    BY <2>1, SizesAssumption, OrderStep
  <2>2. CASE UNCHANGED vars
    BY <2>2, OrderKept DEF vars, sessionVars, handlerVars, clientVars
  <2> QED
    BY <2>1, <2>2
<1>3. OrderInv => ShownInOrder
  BY DEF OrderInv
<1> QED
  BY <1>1, <1>2, <1>3, StreamInvariant, PTL DEF Spec

(***************************************************************************)
(* No gap                                                                  *)
(***************************************************************************)

\* The mishaps stay: what was lost, dropped or connected again is so for good.
LEMMA NoMishapBefore ==
    ASSUME SizesAssumption, StreamInv, MCNext, NoMishap', requests' = 0
    PROVE  NoMishap /\ requests = 0
<1> USE DEF sessionVars, handlerVars, clientVars
<1>0. /\ TypeOK /\ requests \in Nat /\ published \in Nat /\ Next
      /\ table \cup writing \subseteq 1 .. published
  BY DEF StreamInv, TypeOK, Bounded, MCNext
<1>1. active' /\ table' \cup writing' = 1 .. published' /\ dropped' = {}
      /\ \A h \in Handlers \ {1} : handler'[h] = "unused"
  BY DEF NoMishap
<1>2. dropped = {}
  BY <1>1 DEF MCNext, WatchQueue
<1>3. active
  BY <1>0, <1>1 DEF Next, RunnerPublishes, RoutePublishes, PersistEnds, CloseStream, Restart,
     HandlerStep, LoadRows, SendRow, ReplayEnds, NextEvent, ClientStep, Connect, Receive,
     ServerClosed, ConnectionLost, Rest, vars
<1>4. requests = 0
  <2>1. requests' \in {requests, requests + 1}
    BY <1>0 DEF Next, RunnerPublishes, RoutePublishes, PersistEnds, CloseStream, Restart,
     HandlerStep, LoadRows, SendRow, ReplayEnds, NextEvent, ClientStep, Connect, Receive,
     ServerClosed, ConnectionLost, Rest, vars
  <2> QED
    BY <1>0, <2>1
<1>5. table \cup writing = 1 .. published
  <2>1. CASE RunnerPublishes \/ RoutePublishes
    <3>1. published' = published + 1 /\ writing' = writing \cup {published'} /\ table' = table
      BY <1>0, <2>1, PublishTypes DEF RunnerPublishes, RoutePublishes
    <3>2. 1 .. published \subseteq 1 .. published' /\ published' \notin 1 .. published
      BY <1>0, <3>1
    <3> QED
      BY <1>0, <1>1, <3>1, <3>2
  <2>2. CASE PersistEnds
    <3>1. published' = published /\ table' \cup writing' \subseteq table \cup writing
      BY <2>2 DEF PersistEnds
    <3> QED
      BY <1>0, <1>1, <3>1
  <2>3. CASE Restart
    BY <1>1, <2>3 DEF Restart
  <2>4. CASE UNCHANGED <<table, writing, published>>
    BY <1>1, <2>4
  <2> QED
    BY <1>0, <2>1, <2>2, <2>3, <2>4 DEF Next, CloseStream, HandlerStep, LoadRows, SendRow,
       ReplayEnds, NextEvent, ClientStep, Connect, Receive, ServerClosed, ConnectionLost,
       Rest, vars
<1>6. ASSUME NEW g \in Handlers \ {1}
      PROVE  handler[g] = "unused"
  <2>1. handler'[g] = "unused" /\ handler \in [Handlers -> HandlerPlaces]
    BY <1>0, <1>1, <1>6 DEF TypeOK, HandlerPlaces
  <2>2. ASSUME NEW h \in Handlers, SendRow(h)
        PROVE  handler[g] = "unused"
    <3>1. PICK seq \in rows[h] : Send(h, seq, "replaying")
      BY <2>2 DEF SendRow
    <3> QED
      BY <2>1, <3>1, SendEffect
  <2>3. ASSUME NEW h \in Handlers, NextEvent(h)
        PROVE  handler[g] = "unused"
    BY <1>0, <2>1, <2>3, NextEventEffect
  <2>4. ASSUME NEW h \in Handlers, LoadRows(h) \/ ReplayEnds(h)
        PROVE  handler[g] = "unused"
    BY <2>1, <2>4 DEF LoadRows, ReplayEnds, Become
  <2>5. CASE Connect
    BY <2>1, <2>5 DEF Connect, Become
  <2>6. CASE Restart
    BY <2>1, <2>6 DEF Restart
  <2>7. CASE handler' = handler
    BY <2>1, <2>7
  <2> QED
    BY <1>0, <2>2, <2>3, <2>4, <2>5, <2>6, <2>7 DEF Next, RunnerPublishes, RoutePublishes,
       PersistEnds, CloseStream, HandlerStep, ClientStep, Receive, ServerClosed,
       ConnectionLost, Rest, vars
<1> QED
  BY <1>2, <1>3, <1>4, <1>5, <1>6 DEF NoMishap

\* A publish that drops nothing adds one to what is waiting.
LEMMA NothingDropped ==
    ASSUME SizesAssumption, StreamInv, Publish, UNCHANGED closed, WatchQueue, dropped' = {}
    PROVE  published' - Waiting' = published - Waiting
<1>1. /\ published' = published + 1 /\ published \in Nat /\ published' \in Seqs
      /\ queue \in Seq({SENTINEL} \cup Seqs) /\ Len(queue) <= SESSION_QUEUE_MAXSIZE
      /\ Put(published') /\ Len(queue) \in Nat
  BY PublishTypes, WaitingCounts DEF StreamInv, TypeOK, Publish, Seqs
<1>2. PICK lost \in {0, 1} :
        /\ Len(queue') \in 1 .. SESSION_QUEUE_MAXSIZE
        /\ Len(queue') = Len(queue) + 1 - lost
        /\ lost = 0 <=> Len(queue) < SESSION_QUEUE_MAXSIZE
  BY <1>1, PutIndex
<1>3. Waiting = Len(queue) /\ Waiting' = Len(queue') /\ QueueOk'
  BY PublishKeepsQueue
<1>4. CASE lost = 0
  BY <1>1, <1>2, <1>3, <1>4
<1>5. CASE lost = 1
  <2>1. queue # << >> /\ Head(queue) = queue[1] /\ Len(queue) >= 1
    BY <1>1, <1>2, <1>5, EmptySeq, TailIndex
  <2>2. queue[1] = published - Len(queue) + 1
    BY <1>1, <1>3, <2>1 DEF StreamInv, QueueKeepsNewest
  <2>3. \A i \in 1 .. Len(queue') : queue'[i] = published' - Len(queue') + i
    BY <1>3 DEF QueueOk, QueueKeepsNewest
  <2>4. \A i \in 1 .. Len(queue') : queue'[i] # Head(queue)
    BY <1>1, <1>2, <1>5, <2>1, <2>2, <2>3
  <2>5. published' > published
    BY <1>1
  <2> QED
    BY <2>1, <2>4, <2>5 DEF WatchQueue
<1> QED
  BY <1>2, <1>4, <1>5

\* A step of the session leaves the connection as it is, gapless.
LEMMA ConnectionKept ==
    ASSUME StreamInv, FirstConnection, published' \in Nat, published <= published',
           Waiting' \in Int, published' - Waiting' = published - Waiting,
           UNCHANGED <<handlerVars, wire, clientVars>>
    PROVE  FirstConnection'
<1> USE DEF handlerVars, clientVars
<1>1. published \in Nat /\ Waiting \in Int
  BY WaitingCounts DEF StreamInv, TypeOK
<1>2. Gapless' /\ QueueUntouched'
  <2>1. Waiting = published => Waiting' = published'
    <3>1. \A a, b, c, d \in Int : c - d = a - b => (b = a => d = c)
      OBVIOUS
    <3>2. published' \in Int /\ published \in Int
      BY <1>1
    <3> QED
      BY <1>1, <3>1, <3>2
  <2>2. Gapless'
    BY DEF FirstConnection, Gapless
  <2>3. handler' = handler /\ QueueUntouched
    BY DEF FirstConnection
  <2> QED
    BY <2>1, <2>2, <2>3 DEF QueueUntouched
<1>3. Sent' = Sent
  BY DEF Sent
<1>4. ASSUME ConnectionGapless PROVE ConnectionGapless'
  <2>1. ASSUME NEW last \in 0 .. published PROVE last \in 0 .. published'
    BY <1>1
  <2>2. \A i \in 1 .. Len(wire'[1]) : wire'[1][i] = Len(shown') + i
    BY <1>4 DEF ConnectionGapless
  <2>3. handler'[1] = "loading" => Sent' = 0 /\ last_replay'[1] = 0
    BY <1>3, <1>4 DEF ConnectionGapless
  <2>4. handler'[1] = "replaying" =>
          /\ Sent' = last_replay'[1]
          /\ \E last \in 0 .. published' : rows'[1] = (last_replay'[1] + 1) .. last
    BY <1>3, <1>4, <2>1 DEF ConnectionGapless
  <2>5. handler'[1] = "live" =>
          /\ last_replay'[1] <= Sent' /\ published' - Waiting' <= Sent'
          /\ Sent' \in {last_replay'[1], published' - Waiting'}
    BY <1>3, <1>4 DEF ConnectionGapless
  <2> QED
    BY <2>2, <2>3, <2>4, <2>5 DEF ConnectionGapless
<1> QED
  BY <1>2, <1>4 DEF FirstConnection

\* The state before a step that leaves everything without a mishap.
SmoothState ==
    /\ StreamInv /\ OneWrite /\ FirstConnection
    /\ table \cup writing = 1 .. published
    /\ active
    /\ \A h \in Handlers \ {1} : handler[h] = "unused"

\* The intervals of events that come up below.
LEMMA Intervals ==
    /\ \A n \in Nat : \A S : S \cup {n} = 1 .. n /\ n \notin S => S = 1 .. n - 1
    /\ \A n \in Nat : {seq \in 1 .. n : seq > 0} = (0 + 1) .. n
    /\ \A m, n \in Nat : \A seq \in (m + 1) .. n :
          (\A other \in (m + 1) .. n : seq <= other) =>
             seq = m + 1 /\ ((m + 1) .. n) \ {seq} = (seq + 1) .. n
<1>1. ASSUME NEW n \in Nat, NEW S, S \cup {n} = 1 .. n, n \notin S
      PROVE  S = 1 .. n - 1
  <2>1. ASSUME NEW seq \in S PROVE seq \in 1 .. n - 1
    <3>1. seq \in 1 .. n /\ seq # n
      BY <1>1
    <3> QED
      BY <3>1
  <2>2. ASSUME NEW seq \in 1 .. n - 1 PROVE seq \in S
    <3>1. seq \in 1 .. n /\ seq # n
      OBVIOUS
    <3> QED
      BY <1>1, <3>1
  <2> QED
    BY <2>1, <2>2
<1>2. ASSUME NEW n \in Nat
      PROVE  {seq \in 1 .. n : seq > 0} = (0 + 1) .. n
  <2>1. \A seq : seq \in {x \in 1 .. n : x > 0} <=> seq \in (0 + 1) .. n
    OBVIOUS
  <2> QED
    BY <2>1, Zenon
<1>3. ASSUME NEW m \in Nat, NEW n \in Nat, NEW seq \in (m + 1) .. n,
             \A other \in (m + 1) .. n : seq <= other
      PROVE  seq = m + 1 /\ ((m + 1) .. n) \ {seq} = (seq + 1) .. n
  <2>1. seq = m + 1
    <3>1. m + 1 \in (m + 1) .. n
      OBVIOUS
    <3> QED
      BY <1>3, <3>1
  <2>2. \A x : x \in ((m + 1) .. n) \ {seq} <=> x \in (seq + 1) .. n
    BY <2>1
  <2>3. ((m + 1) .. n) \ {seq} = (seq + 1) .. n
    BY <2>2, Zenon
  <2> QED
    BY <2>1, <2>3
<1> QED
  BY <1>1, <1>2, <1>3

\* The publish of the runner is the one write under way.
LEMMA RunnerPublishesSmoothly ==
    ASSUME SizesAssumption, SmoothState, RunnerPublishes, WatchQueue, dropped' = {}
    PROVE  OneWrite' /\ FirstConnection'
<1>1. /\ Publish /\ UNCHANGED <<closed, handlerVars, wire, clientVars>>
      /\ runner_seq = 0 /\ runner_seq' = published' /\ writing = {}
  BY DEF RunnerPublishes, SmoothState, OneWrite
<1>2. published' = published + 1 /\ published \in Nat /\ writing' = {published'}
  BY <1>1, PublishTypes DEF SmoothState, StreamInv, TypeOK
<1>3. published' - Waiting' = published - Waiting
  BY <1>1, NothingDropped DEF SmoothState
<1>4. Waiting' \in Int
  <2>1. Len(queue') \in Nat
    BY <1>1, PublishTypes, LenProperties DEF SmoothState, StreamInv
  <2> QED
    BY <1>1, <2>1, PublishKeepsQueue DEF SmoothState
<1>5. OneWrite'
  BY <1>1, <1>2 DEF OneWrite
<1> QED
  BY <1>1, <1>2, <1>3, <1>4, <1>5, ConnectionKept DEF SmoothState

\* A write that ends is that of the event published last, and no other is under way.
LEMMA PersistEndsSmoothly ==
    ASSUME SizesAssumption, SmoothState, PersistEnds
    PROVE  OneWrite' /\ FirstConnection'
<1>1. /\ published' = published /\ Waiting' = Waiting /\ published \in Nat
      /\ UNCHANGED <<handlerVars, wire, clientVars>>
  BY DEF PersistEnds, Waiting, SmoothState, StreamInv, TypeOK
<1>2. Waiting' \in Int /\ published' - Waiting' = published - Waiting
  BY <1>1, WaitingCounts DEF SmoothState, StreamInv
<1>3. FirstConnection'
  BY <1>1, <1>2, ConnectionKept DEF SmoothState
<1>4. PICK seq \in writing :
        /\ writing' = writing \ {seq}
        /\ runner_seq' = IF runner_seq = seq THEN 0 ELSE runner_seq
  BY DEF PersistEnds
<1>5. seq = runner_seq /\ writing = {seq}
  BY <1>4 DEF SmoothState, OneWrite
<1> QED
  BY <1>3, <1>4, <1>5 DEF OneWrite

\* The sentinel changes nothing for the connection.
LEMMA CloseStreamSmoothly ==
    ASSUME SizesAssumption, SmoothState, CloseStream
    PROVE  OneWrite' /\ FirstConnection'
<1>1. /\ published' = published /\ published \in Nat
      /\ UNCHANGED <<handlerVars, wire, clientVars, writing, runner_seq>>
  BY DEF CloseStream, SmoothState, StreamInv, TypeOK
<1>2. Waiting' = Waiting
  BY CloseKeepsQueue DEF SmoothState
<1>3. Waiting' \in Int /\ published' - Waiting' = published - Waiting
  BY <1>1, <1>2, WaitingCounts DEF SmoothState, StreamInv
<1>4. FirstConnection'
  BY <1>1, <1>3, ConnectionKept DEF SmoothState
<1> QED
  BY <1>1, <1>4 DEF SmoothState, OneWrite

\* What the table holds of a session without a mishap has no gap either.
LEMMA LoadRowsSmoothly ==
    ASSUME SizesAssumption, SmoothState, NEW h \in Handlers, LoadRows(h)
    PROVE  OneWrite' /\ FirstConnection'
<1> USE DEF sessionVars, handlerVars, clientVars
<1>0. /\ TypeOK /\ published \in Nat /\ handler[h] = "loading"
      /\ FirstConnection /\ OneWrite /\ table \cup writing = 1 .. published
  BY DEF SmoothState, StreamInv, TypeOK, LoadRows
<1>1. h = 1
  BY <1>0 DEF SmoothState
<1>2. /\ rows' = [rows EXCEPT ![h] = RowsAfter(last_replay[h])]
      /\ handler' = [handler EXCEPT ![h] = "replaying"]
      /\ UNCHANGED <<published, queue, writing, runner_seq, last_replay, wire, conn, last_seq,
                     shown>>
  BY DEF LoadRows, Become
<1>3. /\ handler'[1] = "replaying" /\ rows'[1] = RowsAfter(last_replay[1])
      /\ \A g \in Handlers : g # 1 => handler'[g] = handler[g]
  BY <1>0, <1>1, <1>2 DEF TypeOK
<1>4. \E last \in 0 .. published : table = 1 .. last
  <2>1. CASE runner_seq = 0
    <3>1. writing = {}
      BY <1>0, <2>1 DEF OneWrite
    <3>2. table \cup writing = table
      BY <3>1, Zenon
    <3>3. table = 1 .. published
      BY <1>0, <3>2, Zenon
    <3> QED
      BY <1>0, <3>3
  <2>2. CASE runner_seq # 0 /\ published \in table
    <3>1. writing = {published}
      BY <1>0, <2>2 DEF OneWrite
    <3>2. table \cup writing = table
      BY <2>2, <3>1, Zenon
    <3>3. table = 1 .. published
      BY <1>0, <3>2, Zenon
    <3> QED
      BY <1>0, <3>3
  <2>3. CASE runner_seq # 0 /\ published \notin table
    <3>1. writing = {published} /\ published \in 1 .. published
      BY <1>0, <2>3 DEF OneWrite
    <3>2. table = 1 .. published - 1
      BY <1>0, <2>3, <3>1, Intervals
    <3>3. published - 1 \in 0 .. published
      BY <1>0, <3>1
    <3> QED
      BY <3>2, <3>3
  <2> QED
    BY <2>1, <2>2, <2>3
<1>5. ASSUME conn # 0
      PROVE  conn = 1 /\ ConnectionGapless'
  <2>1. conn = 1 /\ Sent = 0 /\ last_replay[1] = 0
        /\ \A i \in 1 .. Len(wire[1]) : wire[1][i] = Len(shown) + i
    BY <1>0, <1>1, <1>5 DEF FirstConnection, ConnectionGapless
  <2>2. PICK last \in 0 .. published : table = 1 .. last
    BY <1>4
  <2>3. rows'[1] = (last_replay'[1] + 1) .. last
    <3>1. rows'[1] = {seq \in 1 .. last : seq > 0}
      BY <1>3, <2>1, <2>2 DEF RowsAfter
    <3>2. last \in Nat
      BY <1>0
    <3>3. rows'[1] = (0 + 1) .. last
      BY <3>1, <3>2, Intervals
    <3> QED
      BY <1>2, <2>1, <3>3
  <2>4. Sent' = 0 /\ last \in 0 .. published'
    BY <1>2, <2>1 DEF Sent
  <2> QED
    BY <1>2, <1>3, <2>1, <2>3, <2>4 DEF ConnectionGapless
<1>6. QueueUntouched'
  <2>1. (\A g \in Handlers : handler'[g] \notin {"live", "over"})
           => \A g \in Handlers : handler[g] \notin {"live", "over"}
    BY <1>0, <1>1, <1>3
  <2>2. Waiting' = Waiting
    BY <1>2 DEF Waiting
  <2> QED
    BY <1>0, <1>2, <2>1, <2>2 DEF FirstConnection, QueueUntouched
<1>7. OneWrite' /\ Gapless'
  BY <1>0, <1>2 DEF OneWrite, FirstConnection, Gapless
<1> QED
  BY <1>1, <1>2, <1>3, <1>5, <1>6, <1>7 DEF FirstConnection

\* The next row is the next event.
LEMMA SendRowSmoothly ==
    ASSUME SizesAssumption, SmoothState, NEW h \in Handlers, SendRow(h)
    PROVE  OneWrite' /\ FirstConnection'
<1> USE DEF sessionVars, handlerVars, clientVars
<1>0. /\ TypeOK /\ published \in Nat /\ handler[h] = "replaying"
      /\ FirstConnection /\ OneWrite
  BY DEF SmoothState, StreamInv, TypeOK, SendRow
<1>1. h = 1
  BY <1>0 DEF SmoothState
<1>2. PICK seq \in rows[h] :
        /\ \A other \in rows[h] : seq <= other
        /\ Send(h, seq, "replaying")
        /\ last_replay' = [last_replay EXCEPT ![h] = seq]
        /\ rows' = [rows EXCEPT ![h] = @ \ {seq}]
  BY DEF SendRow
<1>3. /\ UNCHANGED <<published, queue, writing, runner_seq, conn, last_seq, shown>>
      /\ last_replay'[1] = seq /\ rows'[1] = rows[1] \ {seq} /\ seq \in Seqs
  BY <1>0, <1>1, <1>2 DEF TypeOK, SendRow
<1>4. /\ handler'[1] = IF conn = 1 THEN "replaying" ELSE "over"
      /\ \A g \in Handlers : g # 1 => handler'[g] = handler[g]
      /\ conn = 1 => wire'[1] = Append(wire[1], seq)
  BY <1>0, <1>1, <1>2, SendEffect DEF TypeOK
<1>5. ASSUME conn # 0
      PROVE  conn = 1 /\ ConnectionGapless'
  <2>1. /\ conn = 1 /\ Sent = last_replay[1]
        /\ \A i \in 1 .. Len(wire[1]) : wire[1][i] = Len(shown) + i
        /\ wire[1] \in Seq(Seqs) /\ Len(shown) \in Nat /\ last_replay[1] \in Nat
    BY <1>0, <1>1, <1>5, LenProperties DEF FirstConnection, ConnectionGapless, TypeOK
  <2>2. PICK last \in 0 .. published : rows[1] = (last_replay[1] + 1) .. last
    BY <1>0, <1>1, <1>5 DEF FirstConnection, ConnectionGapless
  <2>3. seq = last_replay[1] + 1 /\ rows'[1] = (seq + 1) .. last
    <3>1. /\ seq \in (last_replay[1] + 1) .. last /\ last \in Nat
          /\ \A other \in (last_replay[1] + 1) .. last : seq <= other
      BY <1>0, <1>1, <1>2, <2>2
    <3>2. seq = last_replay[1] + 1
          /\ ((last_replay[1] + 1) .. last) \ {seq} = (seq + 1) .. last
      BY <2>1, <3>1, Intervals
    <3> QED
      BY <1>3, <2>2, <3>2
  <2> DEFINE longer == Append(wire[1], seq)
  <2>4. /\ wire'[1] = longer
        /\ Len(longer) = Len(wire[1]) + 1 /\ Len(wire[1]) \in Nat
        /\ \A i \in 1 .. Len(wire[1]) : longer[i] = wire[1][i]
        /\ longer[Len(wire[1]) + 1] = seq
    <3>1. wire[1] \in Seq(Seqs) /\ seq \in Seqs
      BY <1>3, <2>1
    <3> QED
      BY <1>4, <2>1, <3>1, AppendIndex
  <2> HIDE DEF longer
  <2>5. Sent' = seq
    BY <1>3, <2>1, <2>3, <2>4 DEF Sent
  <2>6. \A i \in 1 .. Len(wire'[1]) : wire'[1][i] = Len(shown') + i
    <3>1. shown' = shown /\ seq = Len(shown) + Len(wire[1]) + 1
      BY <1>3, <2>1, <2>3 DEF Sent
    <3>2. ASSUME NEW i \in 1 .. Len(longer)
          PROVE  longer[i] = Len(shown) + i
      <4>1. CASE i = Len(wire[1]) + 1
        BY <2>1, <2>4, <3>1, <4>1
      <4>2. CASE i # Len(wire[1]) + 1
        <5>1. i \in 1 .. Len(wire[1])
          BY <2>4, <4>2
        <5> QED
          BY <2>1, <2>4, <5>1
      <4> QED
        BY <4>1, <4>2
    <3> QED
      BY <2>4, <3>1, <3>2
  <2>7. handler'[1] = "replaying" /\ last \in 0 .. published'
    BY <1>3, <1>4, <2>1
  <2> QED
    BY <1>3, <2>1, <2>3, <2>5, <2>6, <2>7 DEF ConnectionGapless
<1>6. QueueUntouched'
  <2>1. (\A g \in Handlers : handler'[g] \notin {"live", "over"})
           => \A g \in Handlers : handler[g] \notin {"live", "over"}
    BY <1>0, <1>1, <1>4
  <2>2. Waiting' = Waiting
    BY <1>3 DEF Waiting
  <2> QED
    BY <1>0, <1>3, <2>1, <2>2 DEF FirstConnection, QueueUntouched
<1>7. OneWrite' /\ Gapless'
  BY <1>0, <1>3 DEF OneWrite, FirstConnection, Gapless
<1> QED
  BY <1>1, <1>3, <1>4, <1>5, <1>6, <1>7 DEF FirstConnection

\* Up to here the handler has left the queue alone: what it has not replayed is there.
LEMMA ReplayEndsSmoothly ==
    ASSUME SizesAssumption, SmoothState, NEW h \in Handlers, ReplayEnds(h)
    PROVE  OneWrite' /\ FirstConnection'
<1> USE DEF sessionVars, handlerVars, clientVars
<1>0. /\ TypeOK /\ published \in Nat /\ handler[h] = "replaying"
      /\ FirstConnection /\ OneWrite /\ active
  BY DEF SmoothState, StreamInv, TypeOK, ReplayEnds
<1>1. h = 1
  BY <1>0 DEF SmoothState
<1>2. /\ handler' = [handler EXCEPT ![h] = "live"]
      /\ UNCHANGED <<published, queue, writing, runner_seq, last_replay, rows, wire, conn,
                     last_seq, shown>>
  BY <1>0 DEF ReplayEnds, Become
<1>3. handler'[1] = "live"
  BY <1>0, <1>1, <1>2 DEF TypeOK
<1>4. Waiting = published /\ Waiting' = published'
  <2>1. \A g \in Handlers : handler[g] \notin {"live", "over"}
    BY <1>0, <1>1 DEF SmoothState
  <2>2. Waiting' = Waiting
    BY <1>2 DEF Waiting
  <2> QED
    BY <1>0, <1>2, <2>1, <2>2 DEF FirstConnection, QueueUntouched
<1>5. ASSUME conn # 0
      PROVE  conn = 1 /\ ConnectionGapless'
  <2>1. /\ conn = 1 /\ Sent = last_replay[1] /\ last_replay[1] \in Nat
        /\ \A i \in 1 .. Len(wire[1]) : wire[1][i] = Len(shown) + i
    BY <1>0, <1>1, <1>5 DEF FirstConnection, ConnectionGapless, TypeOK
  <2>2. Sent' = last_replay'[1] /\ last_replay'[1] \in Nat
    BY <1>2, <2>1 DEF Sent
  <2>3. published' - Waiting' <= Sent'
    BY <1>0, <1>2, <1>4, <2>2
  <2> QED
    BY <1>2, <1>3, <2>1, <2>2, <2>3 DEF ConnectionGapless
<1>6. QueueUntouched'
  BY <1>4 DEF QueueUntouched
<1>7. OneWrite' /\ Gapless'
  BY <1>0, <1>2 DEF OneWrite, FirstConnection, Gapless
<1> QED
  BY <1>1, <1>2, <1>3, <1>5, <1>6, <1>7 DEF FirstConnection

\* The live stage skips what was replayed and goes on with the event that follows.
LEMMA NextEventSmoothly ==
    ASSUME SizesAssumption, SmoothState, NEW h \in Handlers, NextEvent(h)
    PROVE  OneWrite' /\ FirstConnection'
<1> USE DEF sessionVars, handlerVars, clientVars
<1>0. /\ TypeOK /\ published \in Nat /\ handler[h] = "live" /\ StreamInv
      /\ FirstConnection /\ OneWrite
  BY DEF SmoothState, StreamInv, TypeOK, NextEvent
<1>1. h = 1
  BY <1>0 DEF SmoothState
<1>2. UNCHANGED <<published, writing, runner_seq, last_replay, rows, conn, last_seq, shown>>
  BY DEF NextEvent
<1>3. handler'[1] \in {"live", "over"}
  BY <1>0, <1>1, NextEventEffect DEF TypeOK
<1>4. OneWrite' /\ Gapless' /\ QueueUntouched'
  BY <1>0, <1>1, <1>2, <1>3 DEF OneWrite, FirstConnection, Gapless, QueueUntouched
<1>5. ASSUME conn # 0
      PROVE  conn = 1 /\ ConnectionGapless'
  <2> DEFINE w == wire[1]
             event == queue[1]
             replayed == last_replay[1]
  <2>1. /\ conn = 1 /\ w \in Seq(Seqs) /\ Len(w) \in Nat /\ Len(shown) \in Nat
        /\ replayed \in Nat /\ Sent = Len(shown) + Len(w)
        /\ \A i \in 1 .. Len(w) : w[i] = Len(shown) + i
    BY <1>0, <1>5, <1>1, LenProperties DEF FirstConnection, ConnectionGapless, TypeOK, Sent
  <2>2. /\ replayed <= Sent /\ published - Waiting <= Sent
        /\ Sent \in {replayed, published - Waiting} /\ Waiting \in Int
    BY <1>0, <1>1, <1>5, WaitingCounts DEF FirstConnection, ConnectionGapless
  <2>3. CASE event = SENTINEL
    <3>1. wire' = wire /\ handler'[1] = "over"
      BY <1>0, <1>1, <2>3, NextEventEffect DEF TypeOK
    <3> QED
      BY <1>2, <2>1, <3>1 DEF ConnectionGapless
  <2>4. event # SENTINEL => /\ event = published - Waiting + 1
                            /\ published' - Waiting' = event
                            /\ event \in Nat /\ event \in Seqs
    <3>1. Len(queue) # 0 /\ event \in {SENTINEL} \cup Seqs
      BY <1>0, NextEventEffect
    <3>2. event # SENTINEL => event = published - Waiting + 1
      BY <1>0, <3>1, OldestWaiting
    <3>3. event # SENTINEL => Waiting' = Waiting - 1
      BY <1>0, NextEventKeepsQueue
    <3> QED
      BY <1>0, <1>2, <2>2, <3>1, <3>2, <3>3 DEF Seqs, SENTINEL
  <2> HIDE DEF event, replayed, w
  <2>5. CASE event # SENTINEL /\ event <= replayed
    <3>1. wire' = wire /\ handler' = handler
      BY <1>0, <2>5, <1>1, NextEventEffect DEF event, replayed
    <3>2. Sent' = Sent
      BY <1>2, <3>1 DEF Sent
    <3>3. Sent = replayed
      <4>1. published - Waiting = event - 1
        BY <1>0, <2>2, <2>4, <2>5
      <4> QED
        BY <2>1, <2>2, <2>4, <2>5, <4>1
    <3>4. published' - Waiting' <= Sent' /\ replayed <= Sent' /\ Sent' = replayed
      BY <2>2, <2>4, <2>5, <3>2, <3>3
    <3>5. last_replay'[1] = replayed
      BY <1>2 DEF replayed
    <3> QED
      BY <1>0, <1>1, <1>2, <2>1, <3>1, <3>4, <3>5 DEF ConnectionGapless, w
  <2>6. CASE event # SENTINEL /\ ~(event <= replayed)
    <3> DEFINE longer == Append(w, event)
    <3>1. /\ wire'[1] = longer /\ handler'[1] = "live"
      BY <1>0, <1>1, <2>1, <2>6, NextEventEffect DEF event, replayed, w, TypeOK
    <3>2. /\ Len(longer) = Len(w) + 1 /\ longer[Len(w) + 1] = event
          /\ \A i \in 1 .. Len(w) : longer[i] = w[i]
      BY <2>1, <2>4, <2>6, AppendIndex
    <3> HIDE DEF longer
    <3>3. event = Sent + 1
      BY <1>0, <2>1, <2>2, <2>4, <2>6
    <3>4. Sent' = event
      <4>1. Sent' = Len(shown') + Len(wire'[1])
        BY DEF Sent
      <4>2. Len(wire'[1]) = Len(w) + 1 /\ shown' = shown
        BY <1>2, <3>1, <3>2
      <4> QED
        BY <2>1, <3>3, <4>1, <4>2
    <3>5. \A i \in 1 .. Len(longer) : longer[i] = Len(shown) + i
      <4> SUFFICES ASSUME NEW i \in 1 .. Len(longer) PROVE longer[i] = Len(shown) + i
        OBVIOUS
      <4>1. CASE i = Len(w) + 1
        BY <2>1, <3>2, <3>3, <4>1
      <4>2. CASE i # Len(w) + 1
        <5>1. i \in 1 .. Len(w)
          BY <2>1, <3>2, <4>2
        <5> QED
          BY <2>1, <3>2, <5>1
      <4> QED
        BY <4>1, <4>2
    <3>6. /\ last_replay'[1] <= Sent' /\ published' - Waiting' <= Sent'
          /\ Sent' = published' - Waiting'
      <4>1. replayed <= Sent' /\ last_replay'[1] = replayed
        BY <1>2, <2>1, <2>4, <2>6, <3>4 DEF replayed
      <4> QED
        BY <2>4, <2>6, <3>4, <4>1
    <3> QED
      BY <1>2, <2>1, <3>1, <3>5, <3>6 DEF ConnectionGapless
  <2> QED
    BY <2>3, <2>5, <2>6 DEF event, replayed
<1>6. ~\A g \in Handlers : handler'[g] = "unused"
  BY <1>1, <1>3
<1> QED
  BY <1>2, <1>4, <1>5, <1>6 DEF FirstConnection

\* A first connection asks for everything.
LEMMA ConnectSmoothly ==
    ASSUME SizesAssumption, SmoothState, Connect,
           \A h \in Handlers \ {1} : handler'[h] = "unused"
    PROVE  OneWrite' /\ FirstConnection'
<1> USE DEF sessionVars, handlerVars, clientVars
<1>0. TypeOK /\ FirstConnection /\ OneWrite /\ WireIsOpen /\ conn = 0
  BY DEF SmoothState, StreamInv, Connect
<1>1. PICK h \in Handlers :
        /\ handler[h] = "unused"
        /\ handler' = [handler EXCEPT ![h] = "loading"]
        /\ last_replay' = [last_replay EXCEPT ![h] = last_seq]
        /\ conn' = h
  BY DEF Connect, Become
<1>2. UNCHANGED <<published, queue, writing, runner_seq, rows, wire, last_seq, shown>>
  BY DEF Connect
<1>3. handler'[h] = "loading" /\ last_replay'[h] = last_seq
  BY <1>0, <1>1 DEF TypeOK
<1>4. h = 1
  BY <1>3
<1>5. \A g \in Handlers : handler[g] = "unused"
  BY <1>1, <1>4 DEF SmoothState
<1>6. shown = << >> /\ last_seq = 0 /\ Waiting = published
  BY <1>0, <1>5 DEF FirstConnection, QueueUntouched
<1>7. wire[1] = << >>
  BY <1>0, <1>4 DEF WireIsOpen
<1>8. Sent' = 0 /\ 1 .. Len(wire'[1]) = {}
  BY <1>2, <1>6, <1>7, EmptySeq DEF Sent
<1>9. ConnectionGapless'
  BY <1>3, <1>4, <1>6, <1>8 DEF ConnectionGapless
<1>10. Waiting' = published'
  <2>1. Waiting' = Waiting
    BY <1>2 DEF Waiting
  <2> QED
    BY <1>2, <1>6, <2>1
<1>11. OneWrite' /\ Gapless' /\ QueueUntouched'
  BY <1>0, <1>2, <1>10 DEF OneWrite, FirstConnection, Gapless, QueueUntouched
<1>12. ~\A g \in Handlers : handler'[g] = "unused"
  BY <1>3
<1> QED
  BY <1>1, <1>4, <1>9, <1>11, <1>12 DEF FirstConnection

\* What the client receives goes from the wire to what is shown.
LEMMA ReceiveSmoothly ==
    ASSUME SizesAssumption, SmoothState, Receive
    PROVE  OneWrite' /\ FirstConnection'
<1> USE DEF sessionVars, handlerVars, clientVars
<1> DEFINE seq == wire[conn][1]
<1>0. TypeOK /\ FirstConnection /\ OneWrite /\ conn # 0
  BY DEF SmoothState, StreamInv, Receive
<1>1. conn = 1 /\ ConnectionGapless /\ 0 \notin Handlers
  BY <1>0 DEF FirstConnection, SizesAssumption
<1>2. /\ Len(wire[1]) \in Nat \ {0} /\ Len(shown) \in Nat
      /\ Len(shown') = Len(shown) + 1
      /\ \A i \in 1 .. Len(shown) : shown'[i] = shown[i]
      /\ shown'[Len(shown) + 1] = wire[1][1]
      /\ Len(wire'[1]) = Len(wire[1]) - 1
      /\ \A i \in 1 .. Len(wire[1]) - 1 : wire'[1][i] = wire[1][i + 1]
      /\ UNCHANGED <<sessionVars, table, handlerVars, conn>>
  BY <1>0, <1>1, ReceiveEffect
<1>3. \A i \in 1 .. Len(wire[1]) : wire[1][i] = Len(shown) + i
  BY <1>1 DEF ConnectionGapless
<1>4. Gapless'
  <2>1. \A i \in 1 .. Len(shown) : shown[i] = i
    BY <1>0 DEF FirstConnection, Gapless
  <2>2. shown'[Len(shown) + 1] = Len(shown) + 1
    BY <1>2, <1>3
  <2>3. ASSUME NEW i \in 1 .. Len(shown') PROVE shown'[i] = i
    <3>1. i \in 1 .. Len(shown) \/ i = Len(shown) + 1
      BY <1>2
    <3> QED
      BY <1>2, <2>1, <2>2, <3>1
  <2> QED
    BY <2>3 DEF Gapless
<1>5. \A i \in 1 .. Len(wire'[1]) : wire'[1][i] = Len(shown') + i
  BY <1>2, <1>3
<1>6. Sent' = Sent
  <2>1. Sent = Len(shown) + Len(wire[1]) /\ Sent' = Len(shown') + Len(wire'[1])
    BY DEF Sent
  <2>2. \A a, b \in Nat : (a + 1) + (b - 1) = a + b
    OBVIOUS
  <2>3. Len(wire[1]) \in Nat /\ Len(shown) \in Nat
    BY <1>2
  <2> QED
    BY <1>2, <2>1, <2>2, <2>3
<1>7. Waiting' = Waiting
  BY <1>2 DEF Waiting
<1>8. ConnectionGapless'
  BY <1>1, <1>2, <1>5, <1>6, <1>7 DEF ConnectionGapless
<1>9. QueueUntouched' /\ OneWrite'
  BY <1>0, <1>2, <1>7 DEF FirstConnection, QueueUntouched, OneWrite
<1>10. ~\A g \in Handlers : handler'[g] = "unused"
  BY <1>0, <1>2 DEF FirstConnection
<1> QED
  BY <1>1, <1>2, <1>4, <1>8, <1>9, <1>10 DEF FirstConnection

\* A connection that ends leaves what is shown, or nothing.
LEMMA DisconnectSmoothly ==
    ASSUME SizesAssumption, SmoothState, ServerClosed \/ ConnectionLost
    PROVE  OneWrite' /\ FirstConnection'
<1> USE DEF sessionVars, handlerVars, clientVars
<1>0. TypeOK /\ FirstConnection /\ OneWrite /\ conn # 0
  BY DEF SmoothState, StreamInv, ServerClosed, ConnectionLost
<1>1. /\ conn' = 0 /\ shown' \in {shown, << >>}
      /\ UNCHANGED <<published, queue, writing, runner_seq, handler>>
  BY DEF ServerClosed, ConnectionLost
<1>2. Gapless'
  BY <1>0, <1>1, EmptySeq DEF FirstConnection, Gapless
<1>3. Waiting' = Waiting
  BY <1>1 DEF Waiting
<1>4. QueueUntouched' /\ OneWrite'
  BY <1>0, <1>1, <1>3 DEF FirstConnection, QueueUntouched, OneWrite
<1>5. ~\A g \in Handlers : handler'[g] = "unused"
  BY <1>0, <1>1 DEF FirstConnection
<1> QED
  BY <1>1, <1>2, <1>4, <1>5 DEF FirstConnection

\* Every step keeps the first connection gapless, as long as nothing goes wrong.
LEMMA GaplessStep ==
    SizesAssumption /\ StreamInv /\ GaplessInv /\ [MCNext]_<<vars, dropped>> => GaplessInv'
<1> SUFFICES ASSUME SizesAssumption, StreamInv, GaplessInv, [MCNext]_<<vars, dropped>>,
                    NoMishap', requests' = 0
             PROVE  OneWrite' /\ FirstConnection'
  BY DEF GaplessInv
<1>1. CASE MCNext
  <2>1. SmoothState
    BY <1>1, NoMishapBefore DEF GaplessInv, SmoothState, NoMishap
  <2>2. /\ Next /\ WatchQueue /\ dropped' = {} /\ active'
        /\ \A h \in Handlers \ {1} : handler'[h] = "unused"
    BY <1>1 DEF MCNext, NoMishap
  <2>3. CASE RoutePublishes
    <3>1. requests' = requests + 1 /\ requests \in Nat
      BY <2>3 DEF RoutePublishes, StreamInv, TypeOK
    <3> QED
      BY <3>1
  <2>4. CASE Restart
    BY <2>2, <2>4 DEF Restart
  <2>5. CASE Rest
    <3>1. Waiting' = Waiting /\ Sent' = Sent
      BY <2>5 DEF Rest, vars, sessionVars, clientVars, Waiting, Sent
    <3> QED
      BY <2>1, <2>5, <3>1 DEF Rest, vars, sessionVars, handlerVars, clientVars, SmoothState,
         OneWrite, FirstConnection, Gapless, QueueUntouched, ConnectionGapless
  <2> QED
    BY <2>1, <2>2, <2>3, <2>4, <2>5, RunnerPublishesSmoothly, PersistEndsSmoothly,
       CloseStreamSmoothly, LoadRowsSmoothly, SendRowSmoothly, ReplayEndsSmoothly,
       NextEventSmoothly, ConnectSmoothly, ReceiveSmoothly, DisconnectSmoothly
       DEF Next, HandlerStep, ClientStep
<1>2. CASE UNCHANGED <<vars, dropped>>
  <2>1. Waiting' = Waiting /\ Sent' = Sent
    BY <1>2 DEF vars, sessionVars, clientVars, Waiting, Sent
  <2>2. NoMishap /\ requests = 0
    BY <1>2 DEF NoMishap, vars, sessionVars, handlerVars
  <2> QED
    BY <1>2, <2>1, <2>2 DEF vars, sessionVars, handlerVars, clientVars, GaplessInv,
       OneWrite, FirstConnection, Gapless, QueueUntouched, ConnectionGapless
<1> QED
  BY <1>1, <1>2

\* Nothing has been sent yet.
LEMMA GaplessStart == SizesAssumption /\ MCInit => GaplessInv
<1> SUFFICES ASSUME SizesAssumption, MCInit PROVE OneWrite /\ FirstConnection
  BY DEF GaplessInv
<1>1. Waiting = 0
  BY EmptySeq DEF MCInit, Init, Waiting
<1> QED
  BY <1>1, EmptySeq DEF MCInit, Init, OneWrite, FirstConnection, Gapless, QueueUntouched

\* Wherever the replay ends and the live stage begins, a client that has had one
\* connection misses nothing of what the runner published, for every number of events
\* and every length of the queue.
THEOREM RunnerEventsGaplessHolds == MCSpec => []RunnerEventsGapless
<1>1. SizesAssumption /\ MCInit => StreamInv /\ GaplessInv
  BY StreamStart, GaplessStart DEF MCInit
<1>2. SizesAssumption /\ StreamInv /\ GaplessInv /\ [MCNext]_<<vars, dropped>>
         => (StreamInv /\ GaplessInv)'
  <2> SUFFICES ASSUME SizesAssumption, StreamInv, GaplessInv, [MCNext]_<<vars, dropped>>
               PROVE  StreamInv' /\ GaplessInv'
    OBVIOUS
  <2>1. [Next]_vars
    BY DEF MCNext
  <2> QED
    BY <2>1, StreamStep, GaplessStep
<1>3. StreamInv /\ GaplessInv => RunnerEventsGapless
  BY DEF GaplessInv, FirstConnection, RunnerEventsGapless
<1> QED
  BY SizesAssumption, <1>1, <1>2, <1>3, PTL DEF MCSpec
=============================================================================
