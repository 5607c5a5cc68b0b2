------------------------------ MODULE SessionStore ------------------------------
(***************************************************************************)
(* SqliteSessionStore (session.py): the cache of Session objects, the      *)
(* tables behind it (storage/), the screenshots on disk, and the routes    *)
(* that create, read and delete sessions (routes/run.py,                   *)
(* routes/sessions.py), several of them at once, beside the runners.       *)
(*                                                                         *)
(* Of a runner only what leaves a trace here is kept: its status, its      *)
(* screenshots, and the awaits its writes are.  An action is what a task   *)
(* does between two awaits.                                                *)
(***************************************************************************)
EXTENDS Naturals, FiniteSets

CONSTANTS
    Sessions,
    Deletes,      \* bound: the DELETE requests, each about one session
    MaxShots      \* bound: screenshots of a session

ASSUME BoundsAssumption == MaxShots \in Nat

VARIABLES
    active,       \* the keys of _active
    status,       \* Session.status
    stop_set,     \* Session.stop_event is set
    paths,        \* length of Session.screenshot_paths
    subtasks,     \* the graph's state has the plan's subtasks
    latest_subtasks,  \* Session.latest_subtasks has them
    runner,       \* the await the session's runner is at
    row,          \* sessions: the row's status
    events,       \* events: the session has rows
    shots,        \* screenshots: its number of rows
    files,        \* files in <screenshot_dir>/<session id>
    request,      \* the session a DELETE is about
    found,        \* it was in the cache: active is not None
    forced,       \* it was evicted before its status was terminal
    del           \* how far the DELETE is, and its answer

planVars == <<subtasks, latest_subtasks>>
memoryVars == <<active, status, stop_set, paths, planVars, runner>>
diskVars == <<row, events, shots, files>>
deleteVars == <<request, found, forced, del>>
vars == <<memoryVars, diskVars, deleteVars>>

Terminal == {"finished", "errored", "stopped"}
Statuses == {"none", "idle", "running"} \cup Terminal
NoShots == [s \in Sessions |-> 0]
Nowhere == [s \in Sessions |-> FALSE]

TypeOK ==
    /\ active \subseteq Sessions
    /\ status \in [Sessions -> Statuses]
    /\ stop_set \in [Sessions -> BOOLEAN]
    /\ paths \in [Sessions -> 0 .. MaxShots]
    /\ subtasks \in [Sessions -> BOOLEAN]
    /\ latest_subtasks \in [Sessions -> BOOLEAN]
    /\ runner \in [Sessions -> {"none", "created", "starting", "working", "shot",
                                "recording", "ending", "over"}]
    /\ row \in [Sessions -> {"absent", "idle", "running"} \cup Terminal]
    /\ events \in [Sessions -> BOOLEAN]
    /\ shots \in [Sessions -> 0 .. MaxShots]
    /\ files \in [Sessions -> 0 .. MaxShots]
    /\ request \in [Deletes -> Sessions]
    /\ found \in [Deletes -> BOOLEAN]
    /\ forced \in [Deletes -> BOOLEAN]
    /\ del \in [Deletes -> {"unused", "waiting", "deleting", "cleaning", "ok",
                            "not_found", "failed", "lost"}]

Init ==
    /\ active = {}
    /\ status = [s \in Sessions |-> "none"]
    /\ stop_set = Nowhere
    /\ paths = NoShots
    /\ subtasks = Nowhere
    /\ latest_subtasks = Nowhere
    /\ runner = [s \in Sessions |-> "none"]
    /\ row = [s \in Sessions |-> "absent"]
    /\ events = Nowhere
    /\ shots = NoShots
    /\ files = NoShots
    /\ request \in [Deletes -> Sessions]
    /\ found = [d \in Deletes |-> FALSE]
    /\ forced = [d \in Deletes |-> FALSE]
    /\ del = [d \in Deletes |-> "unused"]

(***************************************************************************)
(* The tables                                                              *)
(***************************************************************************)

HasRow(s) == row[s] # "absent"

\* Mutant: a row that is not there is inserted.
UpsertRow(s, value) == row' \in {row, [row EXCEPT ![s] = value]}

\* update_status: an UPDATE, which may fail and which finds no deleted row.
UpdateRow(s, value) ==
    row' \in IF HasRow(s) THEN {row, [row EXCEPT ![s] = value]} ELSE {row}

\* Mutant: the foreign key is not enforced.
AppendEventUnchecked(s) == events' \in {events, [events EXCEPT ![s] = TRUE]}

\* EventRepository.append: may fail, and does without a row to refer to.
AppendEvent(s) ==
    events' \in IF HasRow(s) THEN {events, [events EXCEPT ![s] = TRUE]} ELSE {events}

\* ScreenshotRepository.append, likewise.
AppendShot(s) ==
    shots' \in IF HasRow(s) THEN {shots, [shots EXCEPT ![s] = @ + 1]} ELSE {shots}

\* SessionRepository.delete and the cascades of schema.sql.
DeleteCascade(s) ==
    /\ row' = [row EXCEPT ![s] = "absent"]
    /\ events' = [events EXCEPT ![s] = FALSE]
    /\ shots' = [shots EXCEPT ![s] = 0]

(***************************************************************************)
(* POST /run and the runner                                                *)
(***************************************************************************)

\* create puts the session into the cache before it inserts the row; if the insertion
\* raises, the request fails and the session stays in the cache without a runner.
RunTask(s) ==
    /\ status[s] = "none" /\ ~HasRow(s)
    /\ \A d \in Deletes : request[d] = s => del[d] = "unused"
    /\ active' = active \cup {s}
    /\ status' = [status EXCEPT ![s] = "idle"]
    /\ \/ /\ row' = [row EXCEPT ![s] = "idle"]
          /\ runner' = [runner EXCEPT ![s] = "created"]
       \/ UNCHANGED <<row, runner>>
    /\ UNCHANGED <<stop_set, paths, planVars, events, shots, files, deleteVars>>

At(s, place) == runner[s] = place
GoTo(s, place) == runner' = [runner EXCEPT ![s] = place]

\* _publish_started: the status first, the event and the row later.
Start(s) ==
    /\ At(s, "created")
    /\ status' = [status EXCEPT ![s] = "running"]
    /\ GoTo(s, "starting")
    /\ UNCHANGED <<active, stop_set, paths, planVars, diskVars, deleteVars>>

StartWritten(s) ==
    /\ At(s, "starting")
    /\ AppendEvent(s)
    /\ UpdateRow(s, "running")
    /\ GoTo(s, "working")
    /\ UNCHANGED <<active, status, stop_set, paths, planVars, shots, files, deleteVars>>

\* The plan node returns.
PlanMade(s) ==
    /\ At(s, "working") /\ ~subtasks[s]
    /\ subtasks' = [subtasks EXCEPT ![s] = TRUE]
    /\ UNCHANGED <<active, status, stop_set, paths, latest_subtasks, runner, diskVars, deleteVars>>

\* take_screenshot makes the directory if it is not there, and a file in it ...
Shoot(s) ==
    /\ At(s, "working") /\ files[s] < MaxShots /\ paths[s] < MaxShots
    /\ files' = [files EXCEPT ![s] = @ + 1]
    /\ GoTo(s, "shot")
    /\ UNCHANGED <<active, status, stop_set, paths, planVars, row, events, shots,
                   deleteVars>>

\* ... observe returns, and unless a stop is found its screenshot is remembered ...
ShotReported(s) ==
    /\ At(s, "shot") /\ ~stop_set[s]
    /\ AppendEvent(s)
    /\ paths' = [paths EXCEPT ![s] = @ + 1]
    /\ GoTo(s, "recording")
    /\ UNCHANGED <<active, status, stop_set, planVars, row, shots, files, deleteVars>>

\* ... and recorded.
ShotRecorded(s) ==
    /\ At(s, "recording")
    /\ AppendShot(s)
    /\ GoTo(s, "working")
    /\ UNCHANGED <<active, status, stop_set, paths, planVars, row, events, files,
                   deleteVars>>

End(s, verdict) ==
    /\ status' = [status EXCEPT ![s] = verdict]
    /\ GoTo(s, "ending")
    /\ UNCHANGED <<active, stop_set, paths, subtasks, diskVars, deleteVars>>

\* _publish_finished
EndByGraph(s) ==
    /\ At(s, "working")
    /\ \E verdict \in {"finished", "errored"} : End(s, verdict)
    /\ latest_subtasks' = [latest_subtasks EXCEPT ![s] = subtasks[s]]

\* _publish_errored, _publish_stopped
EndByException(s) ==
    /\ At(s, "working")
    /\ End(s, "errored")
    /\ UNCHANGED latest_subtasks

EndByStop(s) ==
    /\ runner[s] \in {"working", "shot"} /\ stop_set[s]
    /\ End(s, "stopped")
    /\ UNCHANGED latest_subtasks

EndWritten(s) ==
    /\ At(s, "ending")
    /\ AppendEvent(s)
    /\ UpdateRow(s, status[s])
    /\ GoTo(s, "over")
    /\ UNCHANGED <<active, status, stop_set, paths, planVars, shots, files, deleteVars>>

RunnerStep(s) ==
    \/ Start(s) \/ StartWritten(s)
    \/ PlanMade(s) \/ Shoot(s) \/ ShotReported(s) \/ ShotRecorded(s)
    \/ EndByGraph(s) \/ EndByException(s) \/ EndByStop(s) \/ EndWritten(s)

(***************************************************************************)
(* The routes                                                              *)
(***************************************************************************)

\* list_all, GET /sessions
Listed == {s \in Sessions : HasRow(s)}

\* GET /sessions/{id}: the cache first; "absent" is the 404.
Snapshot(s) == IF s \in active THEN status[s] ELSE row[s]

\* GET /sessions/{id}/artifact: the screenshots, and whether it has the subtasks.
ArtifactShots(s) == IF s \in active THEN paths[s] ELSE shots[s]
ArtifactSubtasks(s) == s \in active /\ latest_subtasks[s]

StopSession(s) ==
    /\ s \in active /\ ~stop_set[s]
    /\ stop_set' = [stop_set EXCEPT ![s] = TRUE]
    /\ UNCHANGED <<active, status, paths, planVars, runner, diskVars, deleteVars>>

\* delete_session looks the session up once; what it found decides the rest.
DeleteAsked(d) ==
    LET s == request[d] IN
    /\ del[d] = "unused" /\ status[s] # "none"
    /\ found' = [found EXCEPT ![d] = s \in active]
    /\ del' = [del EXCEPT ![d] = IF s \in active THEN "waiting" ELSE "deleting"]
    /\ stop_set' = [stop_set EXCEPT ![s] = @ \/ s \in active]
    /\ UNCHANGED <<active, status, paths, planVars, runner, diskVars, request,
                   forced>>

\* Mutant: no limit to the wait.
WaitedForEver(d) ==
    /\ del[d] = "waiting"
    /\ status[request[d]] \in Terminal
    /\ active' = active \ {request[d]}
    /\ del' = [del EXCEPT ![d] = "deleting"]
    /\ UNCHANGED <<status, stop_set, paths, planVars, runner, diskVars, request,
                   found, forced>>

\* Mutant: the wait is over at once.
WaitedNot(d) ==
    /\ del[d] = "waiting"
    /\ active' = active \ {request[d]}
    /\ del' = [del EXCEPT ![d] = "deleting"]
    /\ UNCHANGED <<status, stop_set, paths, planVars, runner, diskVars, request,
                   found, forced>>

\* _await_terminal returns, or the ten seconds are over: evict.
Waited(d) ==
    /\ del[d] = "waiting"
    /\ active' = active \ {request[d]}
    /\ forced' = [forced EXCEPT ![d] = status[request[d]] \notin Terminal]
    /\ del' = [del EXCEPT ![d] = "deleting"]
    /\ UNCHANGED <<status, stop_set, paths, planVars, runner, diskVars, request,
                   found>>

RowDeleted(d) ==
    LET s == request[d] IN
    /\ del[d] = "deleting"
    /\ DeleteCascade(s)
    /\ del' = [del EXCEPT ![d] = IF HasRow(s) \/ found[d] THEN "cleaning" ELSE "not_found"]
    /\ UNCHANGED <<memoryVars, files, request, found, forced>>

\* delete_persisted raises: the request fails, the session is out of the cache.
RowNotDeleted(d) ==
    /\ del[d] = "deleting"
    /\ del' = [del EXCEPT ![d] = "failed"]
    /\ UNCHANGED <<memoryVars, diskVars, request, found, forced>>

\* rmtree with ignore_errors: whatever it cannot remove stays, and the answer is ok.
FilesRemoved(d) ==
    /\ del[d] = "cleaning"
    /\ \E left \in 0 .. files[request[d]] :
          files' = [files EXCEPT ![request[d]] = left]
    /\ del' = [del EXCEPT ![d] = "ok"]
    /\ UNCHANGED <<memoryVars, row, events, shots, request, found, forced>>

DeleteStep(d) ==
    DeleteAsked(d) \/ Waited(d) \/ RowDeleted(d) \/ RowNotDeleted(d) \/ FilesRemoved(d)

\* The sidecar ends and is started again: what is on disk is left, and rows found
\* active are made errored; requests under way are lost.
Restart ==
    /\ active' = {}
    /\ status' = [s \in Sessions |-> IF status[s] = "none" THEN "none" ELSE "idle"]
    /\ stop_set' = Nowhere
    /\ paths' = NoShots
    /\ subtasks' = Nowhere
    /\ latest_subtasks' = Nowhere
    /\ runner' = [s \in Sessions |-> "none"]
    /\ row' = [s \in Sessions |-> IF row[s] = "running" THEN "errored" ELSE row[s]]
    /\ del' = [d \in Deletes |->
                 IF del[d] \in {"waiting", "deleting", "cleaning"} THEN "lost" ELSE del[d]]
    /\ UNCHANGED <<events, shots, files, request, found, forced>>

Next ==
    \/ \E s \in Sessions : RunTask(s) \/ RunnerStep(s) \/ StopSession(s)
    \/ \E d \in Deletes : DeleteStep(d)
    \/ Restart

\* A DELETE goes on: polls and the time limit, threads and their failures.
Fairness == \A d \in Deletes : WF_vars(DeleteStep(d) /\ del[d] # "unused")

Spec == Init /\ [][Next]_vars /\ Fairness

(***************************************************************************)
(* Properties                                                              *)
(***************************************************************************)

About(s) == {d \in Deletes : request[d] = s}

\* No row of a child table outlives its session's row, whichever writes are under way
\* when it is deleted (schema.sql:31, 42, db.py:43, routes/sessions.py:169).
ChildrenHaveParent ==
    \A s \in Sessions : ~HasRow(s) => ~events[s] /\ shots[s] = 0

\* What a DELETE says stays true: a session that has been deleted, or was not there, is
\* neither listed nor readable afterwards, though its runner goes on and a second DELETE
\* is under way (routes/sessions.py:153-183, session.py:369-393).
AnswerIsFinal ==
    \A d \in Deletes : del[d] \in {"ok", "not_found"} =>
        request[d] \notin Listed /\ Snapshot(request[d]) = "absent"

\* A DELETE of the session is past its wait, and none had to evict it by force.
LeftGracefully(s) ==
    /\ \E d \in About(s) : del[d] \in {"deleting", "cleaning", "ok", "not_found"}
    /\ \A d \in About(s) : ~forced[d]

\* Once a DELETE has seen the runner end, no more files come: the runner takes no further
\* screenshot, whatever of the row, the files and a second DELETE comes first, and all that
\* may be left is what rmtree could not remove (routes/sessions.py:156-181).
GracefulDeleteIsLast ==
    [][\A s \in Sessions : LeftGracefully(s) => files'[s] <= files[s]]_vars

\* Whenever an artifact is read, the screenshots it names are there, from the cache or
\* from the table, during a DELETE and after one that failed
\* (routes/sessions.py:169-181, 222-256, runner.py:170-176).
NamedShotsExist ==
    \A s \in active \cup Listed : ArtifactShots(s) <= files[s]

\* What is stored refers to what is there, and every variable has its type.
StoreInv == TypeOK /\ ChildrenHaveParent /\ NamedShotsExist

\* A DELETE is answered, even of a session whose runner hangs or never was there
\* (routes/sessions.py:156-167).
DeleteEnds ==
    \A d \in Deletes : del[d] = "waiting" ~> del[d] \in {"ok", "failed", "lost"}

\* "Deletes the session for good: the row, the child tables and the screenshots on disk"
\* (routes/sessions.py:135).
DeletedLeavesNothing ==
    \A d \in Deletes : del[d] = "ok" => files[request[d]] = 0

\* "The active cache keeps sessions that are running, paused or just made"
\* (session.py:217).
CacheKeepsLiveOnly ==
    \A s \in active : runner[s] # "over"

\* "A copy of the state's subtasks at the end, for the artifact" (session.py:77).
ArtifactHasPlan ==
    \A s \in active : runner[s] = "over" => ArtifactSubtasks(s) = subtasks[s]
=============================================================================
