------------------------------ MODULE SessionRun ------------------------------
(***************************************************************************)
(* One session of the sidecar: AgentRunner.run (runner.py) streaming the   *)
(* graph, the control routes (routes/sessions.py) acting on the same       *)
(* Session object (session.py) between two awaits of the runner, the       *)
(* session's row in SQLite, and a crash of the sidecar.                    *)
(*                                                                         *)
(* Everything runs on one asyncio event loop: an action is what a task     *)
(* does from one await to the next.  The graph is any run NodeStream       *)
(* allows, cut to MaxTurns turns.  The queue to the client and the table   *)
(* of events are in EventStream; log is what publish was called with.      *)
(***************************************************************************)
EXTENDS Naturals, Sequences

CONSTANTS
    MAX_REPLANS,
    MaxTurns,      \* bound: turns of the graph (MAX_LOOP_ITERATIONS bounds the real ones)
    MaxRequests    \* bound: pause, resume, stop and DELETE requests in all

ASSUME BoundsAssumption ==
    /\ MAX_REPLANS \in Nat
    /\ MaxTurns \in Nat
    /\ MaxRequests \in Nat

VARIABLES
    status,      \* Session.status
    log,         \* kinds of the events published; the seq of an event is its index
    pause_set,   \* Session.pause_event is set: the runner may go on
    stop_set,    \* Session.stop_event is set
    pc,          \* the await the runner is suspended at
    released,    \* the runner waits for pause_event, and its wait has been fulfilled
    step,        \* the node whose result the runner holds
    node,        \* \ the graph, see NodeStream
    outcome,     \*  |
    replans,     \* /
    turns,       \* turns the graph has begun
    handles,     \* what BrowserManager holds open
    row,         \* the session's status in SQLite, "gone" once deleted
    deleting,    \* the DELETE request, if any
    requests     \* requests served so far

flagVars == <<pause_set, stop_set>>
graphVars == <<node, outcome, replans, turns>>
storeVars == <<row, deleting>>
vars == <<status, log, flagVars, pc, released, step, graphVars, handles, storeVars,
          requests>>

Graph == INSTANCE NodeStream

Nodes == {"plan", "observe", "think", "act", "verify", "replan"}
Terminal == {"finished", "errored", "stopped"}

\* The events _dispatch_node_event publishes for a node.
EventOf ==
    [plan |-> "plan.created", replan |-> "plan.replanned", observe |-> "step.observed",
     think |-> "step.thinking", act |-> "step.acted", verify |-> "step.verified"]
ControlKinds == {"started", "paused", "resumed"} \cup Terminal
Kinds == ControlKinds \cup {EventOf[n] : n \in Nodes} \cup {"subtask.activated"}

\* Playwright, browser and context are opened in this order and closed in reverse.
OpenHandles ==
    {{}, {"playwright"}, {"playwright", "browser"}, {"playwright", "browser", "context"}}

\* The awaits of run(), in order.
Working == {"starting", "starting_row", "launching", "streaming", "blocked",
            "reporting", "activating"}
Ending == {"ending", "ending_row", "stopping_browser", "closed"}
Gone == {"down", "restarted"}

ValueType ==
    /\ status \in {"idle", "running", "paused"} \cup Terminal
    /\ pc \in {"created"} \cup Working \cup Ending \cup Gone
    /\ step \in Nodes \cup {"none"}
    /\ handles \in OpenHandles
    /\ row \in {"idle", "running", "gone"} \cup Terminal
    /\ deleting \in {"no", "waiting", "evicted", "done"}

FlagType ==
    /\ pause_set \in BOOLEAN
    /\ stop_set \in BOOLEAN
    /\ released \in BOOLEAN

CountType ==
    /\ turns \in 0 .. MaxTurns
    /\ requests \in 0 .. MaxRequests

LogType == log \in Seq(Kinds)

\* Every variable has its type, and the browser's handles are closed in the
\* reverse of the order they were opened in (browser.py:141-149).
TypeOK == ValueType /\ FlagType /\ CountType /\ LogType /\ Graph!StreamType

\* SqliteSessionStore.create has inserted the row, create_task has made the runner.
Init ==
    /\ status = "idle"
    /\ log = << >>
    /\ pause_set = TRUE
    /\ stop_set = FALSE
    /\ pc = "created"
    /\ released = FALSE
    /\ step = "none"
    /\ Graph!StreamInit
    /\ turns = 0
    /\ handles = {}
    /\ row = "idle"
    /\ deleting = "no"
    /\ requests = 0

(***************************************************************************)
(* The runner                                                              *)
(***************************************************************************)

Publish(kind) == log' = Append(log, kind)

\* _update_db_status: an UPDATE that may fail, or find no row to update.
WriteRow(value) == row' \in IF row = "gone" THEN {"gone"} ELSE {row, value}

\* _publish_finished, _publish_errored, _publish_stopped up to their first await.
Conclude(verdict) ==
    /\ status' = verdict
    /\ Publish(verdict)
    /\ pc' = "ending"

RunnerStarts ==
    /\ pc = "created"
    /\ status' = "running"
    /\ Publish("started")
    /\ pc' = "starting"
    /\ UNCHANGED <<flagVars, released, step, graphVars, handles, storeVars, requests>>

StartPersisted ==
    /\ pc = "starting"
    /\ pc' = "starting_row"
    /\ UNCHANGED <<status, log, flagVars, released, step, graphVars, handles,
                   storeVars, requests>>

StartRowWritten ==
    /\ pc = "starting_row"
    /\ WriteRow("running")
    /\ pc' = "launching"
    /\ UNCHANGED <<status, log, flagVars, released, step, graphVars, handles,
                   deleting, requests>>

\* manager.start() returns, and the graph enters its first node ...
LaunchOk ==
    /\ handles' = {"playwright", "browser", "context"}
    /\ pc' = "streaming"
    /\ UNCHANGED <<status, log>>

\* ... or raises after having opened some of what it opens.
LaunchFails ==
    /\ handles' \in OpenHandles
    /\ Conclude("errored")

Launch ==
    /\ pc = "launching"
    /\ LaunchOk \/ LaunchFails
    /\ UNCHANGED <<flagVars, released, step, graphVars, storeVars, requests>>

\* astream runs the node to its end; the last turn MaxTurns allows ends the graph.
GraphStep ==
    /\ Graph!RunNode
    /\ turns' = IF node = "observe" THEN turns + 1 ELSE turns
    /\ turns' <= MaxTurns
    /\ node = "verify" /\ turns = MaxTurns => node' = "END"

\* _dispatch_node_event up to its first await.  A think that has never decided
\* anything has no event: the runner goes on to the next node at once.
Dispatch(n) ==
    \/ /\ Publish(EventOf[n])
       /\ pc' = "reporting"
    \/ /\ n = "think"
       /\ pc' = "streaming"
       /\ UNCHANGED log

\* Mutant: the result of _handle_control_flags is ignored.
StopFoundGoesOn ==
    /\ stop_set
    /\ status' = "stopped"
    /\ Publish("stopped")
    /\ pc' = "reporting"

\* _handle_control_flags finds a stop; it is tested before and after the wait.
StopFound == stop_set /\ Conclude("stopped")

\* wait_if_paused suspends the runner, the result of the node in hand.
Block ==
    /\ ~stop_set /\ ~pause_set
    /\ pc' = "blocked"
    /\ UNCHANGED <<status, log>>

GoOn(n) ==
    /\ ~stop_set
    /\ Dispatch(n)
    /\ UNCHANGED status

NodeReturns ==
    /\ pc = "streaming"
    /\ GraphStep
    /\ step' = node
    /\ StopFound \/ Block \/ (pause_set /\ GoOn(node))
    /\ UNCHANGED <<flagVars, released, handles, storeVars, requests>>

\* astream raises what the node or LangGraph raised.
NodeRaises ==
    /\ pc = "streaming"
    /\ Graph!Raise
    /\ Conclude("errored")
    /\ UNCHANGED <<flagVars, released, step, turns, handles, storeVars, requests>>

\* Mutant: the runner waits with the result in hand and then forgets it.
WakeDropsResult ==
    /\ pc = "blocked"
    /\ released
    /\ released' = FALSE
    /\ \/ StopFound
       \/ ~stop_set /\ pc' = "streaming" /\ UNCHANGED <<status, log>>
    /\ UNCHANGED <<flagVars, step, graphVars, handles, storeVars, requests>>

\* An asyncio.Event keeps no one who has been released, even if it is cleared
\* again before he runs: pause_event is not looked at a second time.
Wake ==
    /\ pc = "blocked"
    /\ released
    /\ released' = FALSE
    /\ StopFound \/ GoOn(step)
    /\ UNCHANGED <<flagVars, step, graphVars, handles, storeVars, requests>>

\* _maybe_emit_subtask_activated, when the active step has changed.
ActivateSubtask ==
    /\ pc = "reporting"
    /\ step = "verify"
    /\ Publish("subtask.activated")
    /\ pc' = "activating"
    /\ UNCHANGED <<status, flagVars, released, step, graphVars, handles, storeVars,
                   requests>>

\* The event is in the table, or has been given up: astream runs the next node.
Reported ==
    /\ pc \in {"reporting", "activating"}
    /\ pc' = "streaming"
    /\ UNCHANGED <<status, log, flagVars, released, step, graphVars, handles,
                   storeVars, requests>>

\* The loop over astream is over: _publish_finished, which ends in the errored
\* branch if the state has an error, and in _publish_errored if SessionFinished
\* rejects the result the LLM gave (it has to be a string).
GraphEnds ==
    /\ pc = "streaming"
    /\ node = "END"
    /\ \/ outcome = "answer" /\ Conclude("finished")
       \/ Conclude("errored")
    /\ UNCHANGED <<flagVars, released, step, graphVars, handles, storeVars, requests>>

EndPersisted ==
    /\ pc = "ending"
    /\ pc' = "ending_row"
    /\ UNCHANGED <<status, log, flagVars, released, step, graphVars, handles,
                   storeVars, requests>>

\* Mutant: the row gets the verdict of the graph, whatever the session came to.
EndRowWrittenFromGraph ==
    /\ pc = "ending_row"
    /\ WriteRow(IF outcome = "answer" THEN "finished" ELSE "errored")
    /\ pc' = "stopping_browser"
    /\ UNCHANGED <<status, log, flagVars, released, step, graphVars, handles,
                   deleting, requests>>

EndRowWritten ==
    /\ pc = "ending_row"
    /\ WriteRow(status)
    /\ pc' = "stopping_browser"
    /\ UNCHANGED <<status, log, flagVars, released, step, graphVars, handles,
                   deleting, requests>>

\* manager.stop() closes the handles in turn; what it has not closed when one of
\* them raises stays open, and run() goes on to close_stream (EventStream).
StopBrowser ==
    /\ pc = "stopping_browser"
    /\ handles' \in {left \in OpenHandles : left \subseteq handles}
    /\ pc' = "closed"
    /\ UNCHANGED <<status, log, flagVars, released, step, graphVars, storeVars, requests>>

RunnerStep ==
    \/ RunnerStarts
    \/ StartPersisted
    \/ StartRowWritten
    \/ Launch
    \/ NodeReturns
    \/ NodeRaises
    \/ Wake
    \/ ActivateSubtask
    \/ Reported
    \/ GraphEnds
    \/ EndPersisted
    \/ EndRowWritten
    \/ StopBrowser

(***************************************************************************)
(* The routes                                                              *)
(***************************************************************************)

\* get_session finds the session in the store's cache of active sessions.
Request ==
    /\ pc \notin Gone
    /\ deleting \in {"no", "waiting"}
    /\ requests < MaxRequests
    /\ requests' = requests + 1

\* asyncio.Event.set: whoever waits now is released.
SetPauseEvent ==
    /\ pause_set' = TRUE
    /\ released' = (released \/ pc = "blocked")

\* Mutant: pause is accepted whatever the session's status.
PauseAnySession ==
    /\ Request
    /\ pause_set' = FALSE
    /\ status' = IF status = "running" THEN "paused" ELSE status
    /\ Publish("paused")
    /\ UNCHANGED <<stop_set, pc, released, step, graphVars, handles, storeVars>>

\* Mutant: pause changes the status and forgets the event.
PauseOnlyMarks ==
    /\ Request
    /\ status \in {"running", "paused"}
    /\ status' = "paused"
    /\ Publish("paused")
    /\ UNCHANGED <<flagVars, pc, released, step, graphVars, handles, storeVars>>

PauseSession ==
    /\ Request
    /\ status \in {"running", "paused"}
    /\ pause_set' = FALSE
    /\ status' = "paused"
    /\ Publish("paused")
    /\ UNCHANGED <<stop_set, pc, released, step, graphVars, handles, storeVars>>

\* Mutant: resume changes the status and wakes nobody.
ResumeOnlyMarks ==
    /\ Request
    /\ status = "paused"
    /\ status' = "running"
    /\ Publish("resumed")
    /\ UNCHANGED <<flagVars, pc, released, step, graphVars, handles, storeVars>>

ResumeSession ==
    /\ Request
    /\ status = "paused"
    /\ SetPauseEvent
    /\ status' = "running"
    /\ Publish("resumed")
    /\ UNCHANGED <<stop_set, pc, step, graphVars, handles, storeVars>>

\* Mutant: stop leaves a paused runner waiting.
RequestStopWhilePaused ==
    /\ stop_set' = TRUE
    /\ UNCHANGED <<status, log, pause_set, released, pc, step, graphVars, handles, row>>

RequestStop ==
    /\ stop_set' = TRUE
    /\ SetPauseEvent
    /\ UNCHANGED <<status, log, pc, step, graphVars, handles, row>>

StopSession ==
    /\ Request
    /\ RequestStop
    /\ UNCHANGED deleting

DeleteSession ==
    /\ Request
    /\ deleting = "no"
    /\ RequestStop
    /\ deleting' = "waiting"

\* _await_terminal saw a terminal status, or the ten seconds are over: evict.
Evict ==
    /\ deleting = "waiting"
    /\ pc \notin Gone
    /\ deleting' = "evicted"
    /\ UNCHANGED <<status, log, flagVars, pc, released, step, graphVars, handles,
                   row, requests>>

\* delete_persisted
DeleteRow ==
    /\ deleting = "evicted"
    /\ pc \notin Gone
    /\ deleting' = "done"
    /\ row' = "gone"
    /\ UNCHANGED <<status, log, flagVars, pc, released, step, graphVars, handles,
                   requests>>

RouteStep ==
    \/ PauseSession
    \/ ResumeSession
    \/ StopSession
    \/ DeleteSession
    \/ Evict
    \/ DeleteRow

(***************************************************************************)
(* The sidecar                                                             *)
(***************************************************************************)

\* The process dies; the session's memory, last seen by its clients, is lost.
Crash ==
    /\ pc \notin Gone
    /\ pc' = "down"
    /\ handles' = {}
    /\ UNCHANGED <<status, log, flagVars, released, step, graphVars, storeVars, requests>>

\* The startup hook's cleanup_stale_active.
Restart ==
    /\ pc = "down"
    /\ pc' = "restarted"
    /\ row' = IF row \in {"running", "paused"} THEN "errored" ELSE row
    /\ UNCHANGED <<status, log, flagVars, released, step, graphVars, handles,
                   deleting, requests>>

\* Nothing is left to happen.
Rest ==
    /\ pc \in {"closed", "restarted"}
    /\ UNCHANGED vars

Next == RunnerStep \/ RouteStep \/ Crash \/ Restart \/ Rest

\* The event loop runs whoever is ready, a node ends (the calls of the LLM and of
\* Playwright time out), a thread's write ends; no one has to send a request.
Fairness ==
    /\ WF_vars(RunnerStep)
    /\ WF_vars(Evict)
    /\ WF_vars(DeleteRow)

Spec == Init /\ [][Next]_vars /\ Fairness

(***************************************************************************)
(* Properties                                                              *)
(***************************************************************************)

Lifecycle == INSTANCE SessionLifecycle

\* Whatever the routes interleave with the runner, each change of the status is
\* told by one event, in order, and nothing is told after the terminal event
\* (runner.py:207-289, routes/sessions.py:82-126).
ImplementsLifecycle == Lifecycle!LifecycleSpec

\* A runner that waits for pause_event, and that nobody has released, waits in a
\* paused session that nobody has resumed or stopped: no wake-up is lost between
\* the routes and _handle_control_flags (runner.py:132-147, session.py:165-189).
BlockedIsPaused ==
    pc = "blocked" /\ ~released => status = "paused" /\ ~pause_set /\ ~stop_set

\* What DELETE polls for (routes/sessions.py:186-196) means what it takes it to
\* mean: once the status is terminal the runner runs no node and waits for nobody.
TerminalEndsWork ==
    status \in Terminal => pc \in Ending \cup Gone

\* The row never says more than the session has told its clients: it is terminal only
\* as the session is (runner.py:236-289), or has been called errored by a restart that
\* found it active (repositories/sessions.py:111-137).
RowFollowsSession ==
    row \in Terminal =>
        row = status \/ (pc = "restarted" /\ row = "errored")

\* A session that has been asked to stop, or to go, ends, even if it was paused,
\* had not started, or is paused again afterwards (session.py:177-181).
StopEnds == stop_set ~> pc \in {"closed"} \cup Gone

\* A session ends unless it is left paused for good.
EndsUnlessPaused ==
    <>(pc \in {"closed"} \cup Gone) \/ <>[](pc = "blocked" /\ status = "paused")

\* The astream loop goes on to run the next node.
EntersNode ==
    /\ pc' = "streaming"
    /\ node' \in Nodes
    /\ pc # "streaming" \/ node' # node

\* "Request to halt right before the next node is entered" (session.py:166).
PausedEntersNoNode == [][EntersNode => status # "paused"]_vars

\* "stale rows are set right by the startup hook" (runner.py:329): no row is left
\* that tells of a session still to come or still running.
RestartSettlesRow == pc = "restarted" => row \in Terminal \cup {"gone"}

\* "The list has active sessions too, their rows being updated along" (session.py:325):
\* a session that is left paused is not listed as running for good.
PausedIsListed == ~<>[](status = "paused" /\ row = "running")
=============================================================================
