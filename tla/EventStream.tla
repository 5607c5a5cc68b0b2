------------------------------ MODULE EventStream ------------------------------
(***************************************************************************)
(* The way of a session's events to its client: Session.publish puts each  *)
(* one in the session's queue and in the events table (session.py), the    *)
(* WebSocket handlers replay the table and then drain the queue            *)
(* (routes/events_ws.py), the desktop client applies what it receives and  *)
(* remembers the last seq (ws/wsManager.ts).                               *)
(*                                                                         *)
(* An event is its seq: 1 is session.started, the one published with ended *)
(* is the terminal event, and some make a card in the client's activity    *)
(* log.  Which events there are is SessionRun's matter.                    *)
(***************************************************************************)
EXTENDS Integers, Sequences

CONSTANTS
    Handlers,                \* bound: the connections the client may open, 1 .. n
    SESSION_QUEUE_MAXSIZE,
    MaxEvents,               \* bound: events of the session
    MaxRequests              \* bound: events published by pause and resume requests

ASSUME SizesAssumption ==
    /\ Handlers \subseteq Nat \ {0}
    /\ SESSION_QUEUE_MAXSIZE \in Nat \ {0}
    /\ MaxEvents \in Nat \ {0, 1}
    /\ MaxRequests \in Nat

VARIABLES
    published,    \* Session._seq
    ended,        \* the terminal event has been published
    cards,        \* the events the client makes a card of
    queue,        \* Session._queue
    closed,       \* close_stream has put its sentinel
    runner_seq,   \* the event whose persist the runner awaits, 0 for none
    requests,     \* events published by the control routes
    writing,      \* events on their way to the table, each in a thread of its own
    table,        \* the events table
    active,       \* the store still holds the Session: the sidecar has not restarted
    handler,      \* how far the handler of each connection is
    last_replay,  \* its last_replay_seq, from since_seq on
    rows,         \* what it read from the table and has not sent yet
    wire,         \* what it has sent and the client has not received yet
    conn,         \* the connection the client has, 0 for none
    last_seq,     \* lastSeq in the client's localStorage, 0 if there is none
    shown         \* the events the client's store has applied since it was loaded

sessionVars == <<published, ended, cards, queue, closed, runner_seq, requests, writing,
                 active>>
handlerVars == <<handler, last_replay, rows>>
clientVars == <<conn, last_seq, shown>>
vars == <<sessionVars, table, handlerVars, wire, clientVars>>

SENTINEL == 0
Seqs == 1 .. MaxEvents

\* Every variable has its type, and the queue its limit.
TypeOK ==
    /\ published \in 0 .. MaxEvents
    /\ ended \in BOOLEAN
    /\ cards \subseteq Seqs
    /\ queue \in Seq({SENTINEL} \cup Seqs)
    /\ Len(queue) <= SESSION_QUEUE_MAXSIZE
    /\ closed \in BOOLEAN
    /\ runner_seq \in 0 .. MaxEvents
    /\ requests \in 0 .. MaxRequests
    /\ writing \subseteq Seqs
    /\ table \subseteq Seqs
    /\ active \in BOOLEAN
    /\ handler \in [Handlers -> {"unused", "loading", "replaying", "live", "over"}]
    /\ last_replay \in [Handlers -> 0 .. MaxEvents]
    /\ rows \in [Handlers -> SUBSET Seqs]
    /\ wire \in [Handlers -> Seq(Seqs)]
    /\ conn \in {0} \cup Handlers
    /\ last_seq \in 0 .. MaxEvents
    /\ shown \in Seq(Seqs)

Init ==
    /\ published = 0
    /\ ended = FALSE
    /\ cards = {}
    /\ queue = << >>
    /\ closed = FALSE
    /\ runner_seq = 0
    /\ requests = 0
    /\ writing = {}
    /\ table = {}
    /\ active = TRUE
    /\ handler = [h \in Handlers |-> "unused"]
    /\ last_replay = [h \in Handlers |-> 0]
    /\ rows = [h \in Handlers |-> {}]
    /\ wire = [h \in Handlers |-> << >>]
    /\ conn = 0
    /\ last_seq = 0
    /\ shown = << >>

(***************************************************************************)
(* Session                                                                 *)
(***************************************************************************)

\* Mutant: a full queue refuses the new event.
PutKeepsOldest(item) ==
    queue' = IF Len(queue) < SESSION_QUEUE_MAXSIZE THEN Append(queue, item) ELSE queue

\* The queue's part of publish: a full queue loses its oldest entry.
Put(item) ==
    queue' = Append(IF Len(queue) < SESSION_QUEUE_MAXSIZE THEN queue ELSE Tail(queue),
                    item)

\* publish up to its await: numbered, queued, and handed to a thread.
Publish ==
    /\ active /\ ~ended
    /\ published < MaxEvents
    /\ published' = published + 1
    /\ Put(published')
    /\ writing' = writing \cup {published'}

\* The runner awaits each publish; its terminal event is the session's last.
\* session.started, subtask.activated and session.stopped make no card.
RunnerPublishes ==
    /\ runner_seq = 0
    /\ Publish
    /\ runner_seq' = published'
    /\ ended' \in IF published' = 1 THEN {FALSE}
                  ELSE IF published' = MaxEvents THEN {TRUE} ELSE BOOLEAN
    /\ cards' \in IF published' = 1 THEN {cards} ELSE {cards, cards \cup {published'}}
    /\ UNCHANGED <<closed, requests, active, table, handlerVars, wire, clientVars>>

\* pause and resume publish at any time between session.started and the end.
RoutePublishes ==
    /\ published > 0
    /\ published + 1 < MaxEvents
    /\ requests < MaxRequests
    /\ Publish
    /\ requests' = requests + 1
    /\ UNCHANGED <<ended, cards, closed, runner_seq, active, table, handlerVars, wire,
                   clientVars>>

\* A thread's write ends, in any order; a failure is logged and forgotten.
PersistEnds ==
    /\ \E seq \in writing :
          /\ writing' = writing \ {seq}
          /\ table' \in {table, table \cup {seq}}
          /\ runner_seq' = IF runner_seq = seq THEN 0 ELSE runner_seq
    /\ UNCHANGED <<published, ended, cards, queue, closed, requests, active, handlerVars,
                   wire, clientVars>>

\* Mutant: close_stream gives the sentinel up if the queue is full.
CloseStreamNowait ==
    /\ active /\ ended /\ ~closed
    /\ runner_seq = 0
    /\ queue' = IF Len(queue) < SESSION_QUEUE_MAXSIZE THEN Append(queue, SENTINEL) ELSE queue
    /\ closed' = TRUE
    /\ UNCHANGED <<published, ended, cards, runner_seq, requests, writing, active, table,
                   handlerVars, wire, clientVars>>

\* close_stream waits for room in the queue.
CloseStream ==
    /\ active /\ ended /\ ~closed
    /\ runner_seq = 0
    /\ Len(queue) < SESSION_QUEUE_MAXSIZE
    /\ queue' = Append(queue, SENTINEL)
    /\ closed' = TRUE
    /\ UNCHANGED <<published, ended, cards, runner_seq, requests, writing, active, table,
                   handlerVars, wire, clientVars>>

\* The sidecar dies and is started again: only the table is left.
Restart ==
    /\ active
    /\ active' = FALSE
    /\ queue' = << >>
    /\ writing' = {}
    /\ runner_seq' = 0
    /\ handler' = [h \in Handlers |-> IF handler[h] = "unused" THEN "unused" ELSE "over"]
    /\ conn' = 0
    /\ wire' = [h \in Handlers |-> << >>]
    /\ UNCHANGED <<published, ended, cards, closed, requests, table, last_replay, rows,
                   last_seq, shown>>

(***************************************************************************)
(* The WebSocket handlers                                                  *)
(***************************************************************************)

Become(h, place) == handler' = [handler EXCEPT ![h] = place]

\* send_text: what is sent on a connection the client has given up raises, and
\* ends the handler; nothing else tells the handler that the client is gone.
Send(h, seq, place) ==
    \/ /\ conn = h
       /\ wire' = [wire EXCEPT ![h] = Append(@, seq)]
       /\ Become(h, place)
    \/ /\ conn # h
       /\ Become(h, "over")
       /\ UNCHANGED wire

\* Mutant: the replay starts one event too late.
RowsBeyond(since) == {seq \in table : seq > since + 1}

\* _load_replay_payloads, as a set: SendRow takes the rows in their order.
RowsAfter(since) == {seq \in table : seq > since}

LoadRows(h) ==
    /\ handler[h] = "loading"
    /\ rows' = [rows EXCEPT ![h] = RowsAfter(last_replay[h])]
    /\ Become(h, "replaying")
    /\ UNCHANGED <<sessionVars, table, last_replay, wire, clientVars>>

SendRow(h) ==
    /\ handler[h] = "replaying"
    /\ \E seq \in rows[h] :
          /\ \A other \in rows[h] : seq <= other
          /\ Send(h, seq, "replaying")
          /\ last_replay' = [last_replay EXCEPT ![h] = seq]
          /\ rows' = [rows EXCEPT ![h] = @ \ {seq}]
    /\ UNCHANGED <<sessionVars, table, clientVars>>

\* A session the store no longer holds has nothing but its replay.
ReplayEnds(h) ==
    /\ handler[h] = "replaying"
    /\ rows[h] = {}
    /\ Become(h, IF active THEN "live" ELSE "over")
    /\ UNCHANGED <<sessionVars, table, last_replay, rows, wire, clientVars>>

\* Mutant: the live stage sends what the replay has already sent.
DeliverAll(h, item) ==
    IF item = SENTINEL THEN Become(h, "over") /\ UNCHANGED wire
    ELSE Send(h, item, "live")

\* What a handler does with what next_event gave it.
Deliver(h, item) ==
    IF item = SENTINEL THEN Become(h, "over") /\ UNCHANGED wire
    ELSE IF item <= last_replay[h] THEN UNCHANGED <<handler, wire>>
    ELSE Send(h, item, "live")

\* Whichever handler waits on the queue gets its head; there is one queue.
NextEvent(h) ==
    /\ handler[h] = "live"
    /\ queue # << >>
    /\ queue' = Tail(queue)
    /\ Deliver(h, Head(queue))
    /\ UNCHANGED <<published, ended, cards, closed, runner_seq, requests, writing, active,
                   table, last_replay, rows, clientVars>>

HandlerStep(h) == LoadRows(h) \/ SendRow(h) \/ ReplayEnds(h) \/ NextEvent(h)

(***************************************************************************)
(* The client                                                              *)
(***************************************************************************)

\* App.tsx connects whenever the selected session has no cards.
HasCards == \E i \in 1 .. Len(shown) : shown[i] \in cards

\* A view without cards connects, and asks for what follows the stored seq.
Connect ==
    /\ conn = 0
    /\ ~HasCards
    /\ \E h \in Handlers :
          /\ handler[h] = "unused"
          /\ \A g \in Handlers : g < h => handler[g] # "unused"
          /\ Become(h, "loading")
          /\ last_replay' = [last_replay EXCEPT ![h] = last_seq]
          /\ conn' = h
    /\ UNCHANGED <<sessionVars, table, rows, wire, last_seq, shown>>

\* onmessage; the terminal event clears the stored seq.
Receive ==
    /\ conn # 0
    /\ wire[conn] # << >>
    /\ LET seq == Head(wire[conn])
       IN  /\ shown' = Append(shown, seq)
           /\ last_seq' = IF ended /\ seq = published THEN 0 ELSE seq
    /\ wire' = [wire EXCEPT ![conn] = Tail(@)]
    /\ UNCHANGED <<sessionVars, table, handlerVars, conn>>

\* onclose, after everything sent has been received.
ServerClosed ==
    /\ conn # 0
    /\ handler[conn] = "over"
    /\ wire[conn] = << >>
    /\ conn' = 0
    /\ UNCHANGED <<sessionVars, table, handlerVars, wire, last_seq, shown>>

\* The connection is lost, or the page is loaded again, which empties its store;
\* what was on the wire is lost.
ConnectionLost ==
    /\ conn # 0
    /\ conn' = 0
    /\ wire' = [wire EXCEPT ![conn] = << >>]
    /\ shown' \in {shown, << >>}
    /\ UNCHANGED <<sessionVars, table, handlerVars, last_seq>>

ClientStep == Connect \/ Receive \/ ServerClosed \/ ConnectionLost

\* Nothing is left to be published; a handler may wait for ever.
Rest ==
    /\ ended \/ ~active
    /\ UNCHANGED vars

Next ==
    \/ RunnerPublishes
    \/ RoutePublishes
    \/ PersistEnds
    \/ CloseStream
    \/ Restart
    \/ \E h \in Handlers : HandlerStep(h)
    \/ ClientStep
    \/ Rest

\* Threads finish, tasks that are ready run; nobody has to publish or connect.
Fairness ==
    /\ WF_vars(PersistEnds)
    /\ WF_vars(CloseStream)
    /\ \A h \in Handlers : WF_vars(HandlerStep(h))
    /\ WF_vars(Receive)
    /\ WF_vars(ServerClosed)

Spec == Init /\ [][Next]_vars /\ Fairness

(***************************************************************************)
(* Properties                                                              *)
(***************************************************************************)

\* Replay and live stage, one connection after another, page loads in between:
\* the client never shows a card twice, nor a card after a later one
\* (events_ws.py:73-90, wsManager.ts:46-71, App.tsx:101-105).
ShownInOrder ==
    \A i, j \in 1 .. Len(shown) :
       i < j /\ {shown[i], shown[j]} \subseteq cards => shown[i] < shown[j]

\* The events in the queue: a sentinel in it is its last entry.
Waiting ==
    IF queue # << >> /\ queue[Len(queue)] = SENTINEL THEN Len(queue) - 1 ELSE Len(queue)

\* What overflow costs is the oldest events only: the queue holds the last ones
\* published, without a gap (session.py:127-134).
QueueKeepsNewest == \A i \in 1 .. Waiting : queue[i] = published - Waiting + i

\* The queue is a suffix of what has been published, and every variable has its type.
QueueInv == TypeOK /\ QueueKeepsNewest

\* The handler of the only connection there ever was ends, once the session has
\* ended (events_ws.py:44-47, session.py:159-161).
OnlyHandlerEnds ==
    [](\A h \in Handlers \ {1} : handler[h] = "unused")
        => (ended ~> handler[1] \in {"unused", "over"})

\* "The runner calls close_stream: next_event returns None" (events_ws.py:45):
\* whoever streams a session whose stream has been closed comes to its end.
HandlersEnd ==
    \A h \in Handlers : (closed /\ handler[h] = "live") ~> handler[h] = "over"

\* "If the session shows no card, connect and have what was missed replayed with
\* ?since_seq=0" (App.tsx:97-98): an empty view asks for the whole log.
EmptyViewAsksForAll ==
    [][conn' # conn /\ conn' # 0 /\ shown = << >> => last_replay'[conn'] = 0]_vars
=============================================================================
