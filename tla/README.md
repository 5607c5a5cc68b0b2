# A verification of okdoit

okdoit is a desktop application in which an LLM drives a web browser. A Python
sidecar (`server/`, `core/`) runs one *agent* per session, a LangGraph state machine
that plans, observes the page, lets the LLM decide, acts and verifies; an Electron
client (`desktop/`) starts sessions over HTTP, follows them over a WebSocket, and can
pause, resume, stop and delete them. SQLite keeps sessions and events across restarts.

This directory holds TLA+ models of the part of that program in which order matters,
TLC configurations that check them on small instances, and proofs, checked by TLAPS,
of the main results for every value of the constants. `PROJECT.json` lists the runs,
the mutants each property catches, the source lines each definition stands for, the
hazards and the theorems.

    tlc -workers 2 -config MCSessionRun.cfg MCSessionRun     # a run
    tlapm SessionRunProofs.tla                               # a proof

## 1. The system

| component | state | operations | interacts with |
|---|---|---|---|
| Agent loop `core/graph.py`, `core/nodes/*` | `AgentState`: plan and done flags, last action and its result, `error`, `iterations`, `consecutive_errors`, history, `plan_stale`, `replan_count` | the nodes plan, observe, think, act, verify, replan; the edges and the router | LLM, browser actions; streamed by the runner and the CLI |
| Session runner `server/internal/runner.py`, `event_builders.py` | none but its place in `run()` | start, stream the graph, check the flags, dispatch events, three terminal branches, update the row, stop the browser, close the stream | agent loop, session, browser, store |
| Session `server/internal/session.py` | `status`, `_seq`, the queue, `pause_event`, `stop_event` | publish, next_event, close_stream, pause, resume, request_stop, wait_if_paused | runner, routes, WebSocket handlers, events table |
| Control routes `routes/sessions.py`, `deps.py` | none | pause, resume, stop, delete, list, get | session, store |
| Session store and database `session.py`, `storage/` | cache of active sessions; tables of sessions, events, screenshots; `user_version` | create, delete, evict, cleanup at startup, update of the status; schema and migrations at the start | SQLite in worker threads |
| WebSocket route `routes/events_ws.py` | `last_replay_seq` of each connection | accept, replay the table, drain the queue | session, events table, client |
| Desktop event client `ws/wsManager.ts`, `App.tsx` | sockets, `lastSeq` in localStorage | connect, receive, disconnect; the effect that opens a connection | WebSocket route, client store |
| Desktop store `stores/sessionStore.ts` | sessions with status, steps, subtasks | reduceEvent, startSession, mergeHistorical, removeSession | client, polling of `GET /sessions` |
| Browser manager `core/browser.py` | handles on Playwright, browser, context | start, stop, bind to a task | runner, actions |
| Run route and lifespan `routes/run.py`, `app.py` | the runner task | insert the row, create the task; startup cleanup, shutdown | store, runner |
| Actions `core/actions/*` | the registry; the numbers in the page, the active tab | dispatch to a handler, chains of waits on the page, classification of errors | act, browser |
| LLM adapters, prompts, context `core/llm`, `core/context`, `prompt/` | none | one call each | plan, think, replan |
| CLI `agent.py` | none | stream the graph, print | agent loop |
| Electron main `desktop/electron/*` | the sidecar process, its port, settings | spawn, health check, restart, kill | sidecar |
| Desktop components, evaluation and build scripts | none of their own | rendering, HTTP calls, tools | store |

What is hard to get right, and what makes each part correct:

* **Agent loop.** Six nodes share one `error` field, a counter of consecutive errors, a
  hint for the next prompt and a flag that asks for a replan. A think that fails leaves
  the *old* action in place and act runs it again. Correct means: verify counts only
  failures of actions; the next prompt hears of each of them; a run ends, within its
  limits, and for the reason it gives; replans and repetitions are bounded.
* **Runner and routes.** Both change one session between each other's awaits. Correct
  means: each status change is told once, in order, and nothing follows a terminal
  event; no wake-up and no result of a node is lost; a pause or a stop takes effect; the
  row never runs ahead of the session; a stopped session ends.
* **Queue, table, handlers, client.** An event goes two ways, which fail independently,
  and handlers splice them together again. Correct means: the client sees each card once
  and in order, gets everything where nothing went wrong, and a handler ends.
* **Client store and polling.** A five-second poll, live events and the user's own
  requests write one sidebar, none ordered against the others. Correct means: no card is
  lost or doubled; live data is not replaced by an older snapshot; what is over ends up as
  over; what is deleted stays away.
* **Store of several sessions.** A DELETE, its twin, a runner that does not end and the
  writes in worker threads change cache, tables and files. Correct means: no child row
  without its session; an answered DELETE stays true, and nothing is added after it; an
  artifact names files that exist.
* **Boot of the database.** The process may die between any two statements, a second
  sidecar may start on the file, another release may have written it. Correct means:
  migrations are applied once and in order, and a serving sidecar finds the whole schema.
* **Electron main.** Callbacks of spawn, health check, kill timer, save and quit share one
  handle. Correct means: the handle is the sidecar in use, nothing runs unseen, a save
  that says it restarted the sidecar has.
* **Page actions.** The page replaces elements, opens and closes tabs between any two
  awaits of a handler. Correct means: an index means the element that was shown; an answer
  says what was done.
* **Reports.** Events are read off a state in which fields of earlier turns survive.
  Correct means: what the user is shown is what the agent does.


## 2. The modules

    PageActions                         (inside observe and act)
       |
    AgentLoop  --implements-->  NodeStream  <--runs on--  SessionRun  --implements-->  SessionLifecycle
       |  extended by                                        |  log = calls of publish
    LoopReport (what the events say)                      EventStream   (their way to one view)
                                                             |
    Sidecar --starts--> DatabaseBoot --> SessionStore     ClientStore   (the sidebar of all sessions)

| module | what it is |
|---|---|
| `AgentLoop` | the graph: one action per node, with success and failure paths and the edge taken after it |
| `NodeStream` | what the graph promises to whoever streams it: node order, bounded replans, a verdict at the end |
| `LoopReport` | extends `AgentLoop`: the events the runner makes of each node's state, and the client's counter, active step and last decision |
| `PageActions` | a turn against a page that goes on by itself: numbering, decision, every handler of the registry await by await, error codes, tabs |
| `SessionRun` | one session: runner, control routes, row, browser handles, crash and restart; one action per stretch between two awaits |
| `SessionLifecycle` | what a session promises to its client: a status and a log that tells every change of it |
| `EventStream` | queue, sentinel, events table, two successive handlers, the client with its stored seq |
| `ClientStore` | the sidebar: store, polls, connections, run and delete requests of several sessions |
| `SessionStore` | cache, tables and screenshots of several sessions beside their runners, DELETE await by await, crash |
| `DatabaseBoot` | schema, migrations and cleanup of successive or concurrent boots on one file, statement by statement |
| `Sidecar` | the Electron main process: boot, health check, save and restart, kill timer, quit and relaunch; the settings file |
| `MCAgentLoop`, `MCSessionRun`, `MCEventStream` | the same with history variables that only watch (`executed`, `repeats`, `active_since`; `ran`, `told`, `entered_paused`, `entered_stopped`; `dropped`), for properties about whole runs |
| `MCClientStore` | the databases a page may be loaded on |
| `MCPageActions` | every operation of the registry, and the words a target text may hold |
| `MCSessionStore`, `MCSidecar`, `MCDatabaseBoot` | the instance a run checks |
| `AgentLoopProofs` | theorems about `AgentLoop`, `MCAgentLoop` and `LoopReport` |
| `SessionRunProofs` | theorems about `SessionRun`, `MCSessionRun` and `SessionLifecycle` |
| `EventStreamProofs`, `ClientStoreProofs`, `SessionStoreProofs`, `DatabaseBootProofs`, `SidecarProofs`, `PageActionsProofs` | theorems about the module each is named after (and `MCEventStream`) |

`SessionRun` does not carry the graph's own state: it runs on any behaviour `NodeStream`
allows. That `AgentLoop` implements `NodeStream`, with `outcome <- Outcome` and
`replans <- replan_count`, is checked and proved, so the composition loses nothing.
`EventStream` in turn knows of an event only its seq, whether it is terminal and whether
the client makes a card of it; which events there are, and in which order, is the `log`
of `SessionRun`. A terminal event that is the last one is what `SessionLifecycle` proves
and `EventStream` builds in. `ClientStore` takes from `EventStream` that a connection
delivers the log in order from the last seq, and asks what the sidebar makes of it next to
the polls. `LoopReport` conjoins every action of `AgentLoop` with the dispatch of its
result; `PageActions` opens up the success or failure of `Observe` and `Act` there.

### How state and actions correspond to the code

* **AgentLoop.** The variables are the fields of `AgentState` a guard reads. `error` is
  not the text but the *author*: which node wrote it, or `"loop"` and
  `"max_iterations"` for the two messages verify itself writes; `result` and
  `last_action_error` are treated alike. That is what makes `EndReason` and
  `ErrorAtVerifyIsTheActs` say something. `subtasks` is the sequence of done flags;
  the active step is computed from it as in the code. An answer of the LLM is any
  decision it can parse to, or a failure; an action succeeds or fails. `superstep`
  counts what LangGraph counts against its recursion limit. Left out as unreachable:
  verify's own `except` (verify.py:128) and `_should_continue`, which nothing calls.
* **SessionRun.** `pc` names the await the runner is suspended at: the write of an event
  (`"starting"`, `"reporting"`, `"activating"`, `"ending"`), the update of the row
  (`"starting_row"`, `"ending_row"`), the browser (`"launching"`,
  `"stopping_browser"`), the next item of `astream` (`"streaming"`), `pause_event`
  (`"blocked"`). Everything between two of them is atomic, because it is in asyncio.
  `released` models `asyncio.Event` faithfully: `set` releases whoever waits *now*, and a
  `clear` before the released task runs does not take that back. A think that has never
  decided has no event, so the runner goes on without an await. An update of the row may
  fail, or find no row. `StopBrowser` may leave handles open, as `stop()` does when one
  close raises.
* **EventStream.** `Put` is the queue's drop-oldest; `writing` holds the events whose
  `asyncio.to_thread` write is on its way, which end in any order and may fail;
  `LoadRows` reads the table at one moment. The rows a handler has still to replay are a
  set of seqs, of which it sends the least: `ORDER BY seq` in the query, and a seq is
  stored once. `NextEvent` takes the head of the one queue for whichever handler is
  waiting. A handler learns of a lost client only when it sends. `last_seq` survives a
  page load and a restart of the sidecar, `shown` does not survive a page load.
* **LoopReport.** `published` holds the events of the last superstep, `ui` what the client
  has folded of them (`reduceEvent`). A decision is its label and its action; a screenshot
  is the number in its file name. `prev_active` is the runner's `_prev_active_subtask`,
  which is not AgentState's `prev_active_subtask`.
* **PageActions.** `phase` is the await a handler is suspended at, `before` what
  `pages_before` has read: `click` reads it first of all, for each locator anew,
  `click_index` after its scroll (`ClickIndexScrolls`), and the click itself is awaited
  only then. `tag` is the attribute
  `data-oi-idx`, which stays on an element until the next observation of its page, and
  `where` the document an element is in. A text target matches, by each locator in turn,
  any elements the page has at that moment; `TargetWords` are the words of an error text
  `map_exception_to_code` looks for. `touched` counts what an action really did to an
  element, which is what the answer is compared with. The page's own steps (`Renders`,
  `Opens`, `Closes`) are bounded by `MaxChanges`.
* **ClientStore.** An event is its place in the session's `log`. Answers to `GET /sessions`
  are computed at one moment, wait in `answers` and are merged at another. `view` is the
  status in the sidebar, `pos` the last place a connection has delivered. `Past` is what
  there may be of a session when the page is loaded: a row, a log that begins with its
  start, a runner that may still be at work, and the seq an earlier page has left in
  localStorage, from which `last_seq` starts (`?? loadLastSeq(sessionId)`). The history
  variable `kept` remembers that seq.
* **SessionStore.** Of a runner only its status, its screenshots and the awaits of its
  writes are kept; a DELETE is cut at each of its awaits, two of them may be under way for
  one session. `files` are the screenshots on disk, `shots` the rows that name them.
  `FilesRemoved` may leave any number of files: `rmtree` ignores its errors.
* **DatabaseBoot.** `at` is the version a boot has come to, `found` what it read first;
  each migration is one transaction, executescript's schema statements commit one by one.
  A run's row is inserted idle by `POST /run` and marked active by the runner's task.
  `Dies` may happen between any two. A second application may start on the file while the
  first still runs; the history variable `overlapped` remembers that it has, and what the
  code promises is stated for files on which it never did.
* **Sidecar.** A process and its port are one number. A handler's `pc` is its await; an
  action is one callback of the main process. `signalled` processes have been sent SIGTERM,
  `stubborn` ones ignore it. Handler 0 is the boot of `app.whenReady`. `BeforeQuit`
  signals the sidecar and waits for nothing; handlers and timers go on until `MainEnds`.
  The history variable `raced` remembers that a save has begun while another handler was
  under way, a process told to end was still there or the application was quitting, or
  that the quit has begun while a handler was under way.

## 3. The passing runs

| run | configuration | distinct states | asks |
|---|---|---|---|
| `agent_loop` | two actions, plans of up to 2 steps, 1 replan, 5 iterations, 2 consecutive errors, loop warning at 2 and stop at 3, history of 3, stuck after 3, 26 supersteps | 772,122 | four invariants beside the type, `StuckIsReal`, `Termination` |
| `loop_report` | the same with a history of 4 and a recursion limit of 20 | 2,694,767 | two invariants, `ActiveStepShown`, `ImplementsStream` |
| `session_run` | 2 turns, 1 replan, 3 requests | 910,057 | five invariants, `ImplementsLifecycle`, two liveness properties |
| `event_stream` | 2 connections, queue of 2, 3 events, 1 request | 452,033 | three invariants, `OnlyHandlerEnds` |
| `client_store` | one session, logs of 5 events, 2 answers under way, with and without a stored seq | 152,032 | two invariants, `SidebarConverges` |
| `session_store` | one session, two DELETEs, 2 screenshots | 41,354 | two invariants, `GracefulDeleteIsLast`, `DeleteEnds` |
| `database_boot` | 2 migrations, 2 schema statements, 3 boots, in turn or at once | 1,363,303 | three invariants, `BootEnds` |
| `sidecar` | 2 providers, one of which has a key, 2 saves, also at once, 1 launch | 557,909 | two invariants, `SaveEnds` |
| `page_actions` | two elements, one number, every handler, 2 pages, 2 changes of the page, 2 turns | 486,180 | one invariant, `OnlyClicksSwitch`, `ActionEnds` |

Some invariants are conjunctions of named parts, each stated and commented on its own:
`QueueInv` is the type and `QueueKeepsNewest`; `CardsInv` the type and `CardsArePrefix`;
`StoreInv` the type, `ChildrenHaveParent` and `NamedShotsExist`; `ProcessInv` the type,
`HandleIsNewest` and, unless `raced`, `OneChild` and `NothingRunsUnseen`; `IndexInv` the
type, `IndexMeansWhatWasShown` and `IndexTouchesMeant`.

What they show:

* **`agent_loop`**. `ErrorAtVerifyIsTheActs`: the error verify counts is the failure of
  the action just run. `FailureReachesPrompt`: the next decision is told of a failed
  action, and of nothing else. `EndReason`: an ended run carries the LLM's result or an
  error whose reason holds; the iteration limit is named exactly when it was passed.
  `RepeatsBounded`: executions of one action in a row are
  bounded, across failed thinks and replans. `StuckIsReal`: the stuck detector fires by
  itself only for one step of one plan that has been active long enough. `Termination`:
  with `MaxSupersteps` supersteps, every run ends by its own decision.
* **`loop_report`**. `ActiveStepShown`: though the runner sends only changes and a replan
  resets it and the client, the client marks the active step after every verify.
  `ShownActionIsExecuted`: what act executes is what the client was told, even when a
  failed think repeats an old action. `StepLabelsDistinct`: labels of decisions grow
  whatever fails. `ImplementsStream`: with a recursion limit that *is* reached, the graph
  implements the stream, including the exception.
* **`session_run`**. `BlockedIsPaused`: no wake-up is lost. `TerminalEndsWork`: what
  DELETE polls for means what it takes it to mean. `RowFollowsSession`: the row is
  terminal only as the session is, or errored after a restart that found it active.
  `ControlTakesEffect`: at most one more node is entered after a pause or a stop.
  `NoResultLost`: every node is reported, in order, but for the one in hand.
  `ImplementsLifecycle`: the refinement. `StopEnds`: a session asked to stop, or deleted,
  ends. `EndsUnlessPaused`: only a session left paused does not end.
* **`event_stream`**. `ShownInOrder`: across replay, live stage, reconnection and page
  load no card comes twice or late. `QueueKeepsNewest`: overflow costs the oldest only.
  `RunnerEventsGapless`: with the runner as the only publisher, and no mishap, the client
  has everything. `OnlyHandlerEnds`: a single handler ends with its session.
* **`client_store`**. `CardsArePrefix`: polls, replays, lost connections and selections
  neither lose nor double a card: an entry shows an unbroken stretch of the log, from the
  seq an earlier page has stored, the beginning if there is none. That it is not the
  beginning after a page load amid a session is in section 6 (`EmptyViewAsksForAll`).
  `ConnectedViewIsTrue`: once this page has been told of the status, no late answer puts a
  connected entry back. `SidebarConverges`: what is over in the database ends up as over in the
  sidebar.
* **`session_store`**. `ChildrenHaveParent`: no write, however late, survives the row's
  deletion. `AnswerIsFinal`: an answered DELETE stays true. `GracefulDeleteIsLast`: once a
  DELETE has seen the runner end, no screenshot is added, whatever fails and whatever a
  second DELETE does; all that may be left is what `rmtree` could not remove.
  `NamedShotsExist`: an artifact names files that
  exist. `DeleteEnds`: also with a runner that hangs.
* **`database_boot`**. `AppliedOnce`: over deaths, failures and releases, the version tells
  which migrations were committed, each once. `ServesMigrated`, `NoStaleRow`: what a
  serving sidecar can rely on. These hold on a file no two sidecars have shared, which is
  what the code assumes; the run has boots that do share it, and there `BootEnds` still
  says that none hangs: it serves, has failed on the other's lock or is dead.
* **`sidecar`**. `HandleIsNewest`: the handle is of a living process, the last spawned,
  whatever overlaps. `OneChild`, `NothingRunsUnseen`: a sidecar is spawned only when the one
  before is dead, and none escapes, also beyond the quit, unless a save or the quit has begun
  in the midst of another (`raced`); that the condition is needed is in section 6.
  `RestartIsSeen`: a save that says it restarted the sidecar has, with its settings or later
  ones. `SaveEnds`: a save answers, unless it waits for a process that ignores SIGTERM.
* **`page_actions`**. `IndexMeansWhatWasShown`: a number in the page is that of the
  element the prompt lists, whatever the page did. `IndexTouchesMeant`: an index action of
  this turn touches that element once, or none. `OnlyClicksSwitch`: a failed action leaves
  the agent on its tab. `ActionEnds`: every handler answers.

### Why the bounds are enough

* *AgentLoop.* Every limit of the code is a constant; each is chosen as the smallest at
  which the limit is reached *and* passed by. A turn adds two iterations, or one when its
  observe, think or action fails: 5 are two full turns and a third in which the limit is
  passed, or up to five that fail, enough for two errors in a row and a turn after them,
  for three equal actions in a row (stop), for a stuck step, and for a replan between any
  two of them. Two actions distinguish equal from unequal. Two plan steps distinguish
  first, middle and all done. 26 supersteps are exactly `MaxSupersteps` there, so the
  recursion limit never ends a run; the 20 of `loop_report` do end runs.
* *SessionRun.* The runner's state depends on a turn only through the node, so two turns
  show a turn after a turn; three requests are what a lost wake-up takes (pause, resume,
  pause), and a stop can be one of them. One replan takes the replan edge and exhausts it.
* *EventStream.* Three events are a start, one in the middle and a terminal one; a queue
  of two overflows with them and the sentinel; two connections are a handler that waits
  and its successor; one request is one concurrent write.

* *PageActions.* Two elements are the one that was meant and one that takes its place, and
  with a single number they compete for it; two changes of the page are one before and one
  after a check, or a tab opened before and one after `pages_before` is read; two pages
  are a tab and the one it opens; two turns make a decision outlive its turn.
* *ClientStore.* Five places are all kinds of events with a verdict; two answers under way
  can overtake each other. Entries of the sidebar share nothing but the selection, which
  the session may gain and lose.
* *SessionStore.* Sessions meet only in the cache and in SQLite's lock, so one is enough;
  two DELETEs of it race; two screenshots are one before and one after the eviction.
* *DatabaseBoot.* Two migrations are one that is done and one that fails; three boots are
  one that dies, one of another release and one that serves, in any overlap.
* *Sidecar.* Two saves are a restart of a restart, or one that meets another. Of an earlier
  launch only the settings file is read again: `Init` has none or a complete one, and one
  that a blank key has made incomplete opens the window without a sidecar, as none does.
  What an earlier launch leaves running has no handle. Two launches with one save (194,193
  states) have been checked as well; the two together are beyond a few minutes, and the
  proofs of section 5 hold for any number of both.

Every bound appears under its own name in a constant or a guard: `MaxSubtasks`,
`MaxTurns`, `MaxRequests`, `MaxEvents`, `Handlers`, `MaxAnswers`, `MaxShots`, `MaxChanges`,
`MaxPages`, `MaxBoots`, `MaxSaves`, `MaxOpen`, `MaxLaunches`. They bound the instance, not the
theorems, which hold for all values. Where the system comes to rest the specification says
so with a stuttering action (`Finished`, `Rest`) and deadlock is checked. Only
`database_boot`, `page_actions` and `clicked_not_found` do without: there every process may be
dead, or every turn taken.

## 4. Fairness

* `AgentLoop`: `WF(Next)`. A node is an awaited coroutine that catches its exceptions; its
  browser calls have timeouts, and its calls of the LLM those of the client libraries,
  which is an assumption about code outside the repository.
* `SessionRun`: weak fairness of the runner's steps, of `Evict` (the DELETE route polls
  with a timeout) and of `DeleteRow`. The event loop runs what is ready and worker threads
  end. Requests, crashes and restarts have no fairness: nobody must send a request, and in
  particular nobody must resume a paused session.
* `EventStream`: weak fairness of the writes, of `close_stream` once it has room, of each
  handler's steps, of the client's receiving and of the notice of a closed connection.
  Publishing, connecting, losing a connection and restarting have none.
* `LoopReport`: none; nothing there must happen.
* `ClientStore`: weak fairness of the answer to a list request, of its merge, and of the
  answers to run and delete: `setInterval` and the HTTP server go on while the page lives.
  The user, the connections and the end of a session have none.
* `SessionStore`: weak fairness of the steps of a DELETE that has been sent: it polls with a
  timeout, and worker threads end. A runner has none, so it may hang.
* `DatabaseBoot`: weak fairness of each boot's steps, which are sequential code.
* `Sidecar`: weak fairness of the kill timer, of spawn, of the health check's success and of
  its timeout, and of the exit of a process that has been signalled and is not stubborn, or that
  has been sent SIGKILL. The quit and the end of the main process have none: an application
  may stay open.
* `PageActions`: weak fairness of the agent's step: Playwright's waits have limits, and a
  page is assumed to answer `page.evaluate`, which has none (section 7). The page has none.

## 5. What is proved

Every invariant, action property and refinement of the passing runs is a theorem, for
every value of the constants. The theorems assume what the modules state: sizes that are
natural numbers (`BoundsAssumption`, `LimitsAssumption`, `SizesAssumption`,
`ConstantsAssumption`), `HistoryAssumption` (`1 <= WARN <= STOP <= HISTORY_MAX`, which the
code's constants satisfy), `TargetsAssumption` (the words of a target text are markers of
the error table) and `PastAssumption` (a log left behind begins with its start, a stored seq
is a place in it and not that of a verdict). TLC evaluates all of them. No theorem has a hypothesis of its own.

**AgentLoopProofs.** `TypeCorrect`, `ErrorProvenance`, `FailureIsReported`,
`EndReasonHolds`, `ReplanBudgetHolds`, `NeverRaisesHolds`, `StreamRefinement`,
`RepeatsBoundedHolds`, `StuckIsRealHolds`; about `LoopReport`: `ShowsActiveStep`,
`ExecutesWhatIsShown`, `LabelsDistinct`, `CounterFallsThen`.

* `TypeInv = TypeOK /\ RunningInv`. `TypeOK` bounds the error counter by
  `MAX_CONSECUTIVE_ERRORS`; that is inductive only if a run that goes on is strictly below
  it and every node before act belongs to a run that goes on: `RunningInv`.
* `OutcomeInv = DecisionInv /\ ErrorAtVerifyIsTheActs /\ FailureReachesPrompt /\ EndReason`.
  `EndReason` needs to know that an `is_done` on its way from think to verify carries the
  LLM's result and no error (`DecisionInv`), `FailureReachesPrompt` that verify moved
  act's error and no other (`ErrorAtVerifyIsTheActs`).
* `ReplanInv` adds to the budget that replan is *entered* below the cap. `SuperstepInv`
  bounds the supersteps at each node by four per iteration, plus the replans. Each bound
  comes twice: relative to the iterations, which every turn raises by one at least, and
  absolute, since observe is entered only up to the limit. Together: a recursion limit
  of at least `MaxSupersteps = 4 * MAX_LOOP_ITERATIONS + 5 + MAX_REPLANS` is never reached.
  With the code's 20 and 3 that is 88. The runner passes no `recursion_limit`, so the
  default of the installed LangGraph has to be at least that.
* `StreamRefinement`: each node's action maps to the action of `NodeStream` with its edge,
  the recursion limit to `Raise`, everything else to a stutter.
* `RepeatInv`: the end of verify's trimmed history holds every execution in a row but, on
  the way from act to verify, the last (`LastAre`). The history is long enough for the
  limit because `STOP <= HISTORY_MAX`, which is where that assumption is needed.
* `StuckInv`: the step verify has tracked is not ahead of the active one, and while they
  are the same the tracked start is no earlier than the step became active.
* `ReportInv = ReportType /\ LabelsPast /\ StepLabelsDistinct /\ ThoughtShown /\ ActiveSent`,
  about the events. `LabelsPast`: outside the stretch between think and act every label is
  *below* the iteration count; it is act's unconditional count that restores it when
  observe fails. `ThoughtShown`: the client, the last history item and `last_action` name
  one action; a failed think changes none of them, or shows the history item, which is the
  same. `ActiveSent`: what the runner remembers having sent is what the client marks. That
  is why sending only changes is enough, and why a replan has to reset both.

**SessionRunProofs.** `SessionInvariant` proves `SessionInv = TypeOK /\ HoldsResult /\
StatusAgrees /\ PauseAgrees /\ BlockedIsPaused /\ RowFollowsSession`, and from it follow
`TypeCorrect`, `BlockedIsPausedHolds`, `TerminalEndsWorkHolds`, `RowFollowsSessionHolds`,
`LifecycleRefinement`, `ClientSeesSession`, `NoResultLostHolds` and
`ControlTakesEffectHolds`; about `SessionLifecycle`: `TerminalIsLastHolds`,
`StatusIsToldHolds`.

* `StatusAgrees` ties the runner's place to the status: `Conclude` is told in a session that
  is alive, and pause, which asks for running or paused, comes before the end.
* `PauseAgrees` says that `pause_event` is cleared only in a paused session; without it
  a runner could block in a running one.
* `HoldsResult` says that a runner about to report has a node to report.
* `LifecycleRefinement` splits the steps into those that tell nothing, those that report
  a node and those that tell a control event (lemmas `ConcludeEnds`, `DispatchReports`,
  `WorkingIsAlive`).
* `LifecycleInv` proves the two promises of the abstract life cycle together: a session that
  is alive has told no terminal event *because* the last control event announced its
  status. `ClientSeesSession` composes it with the refinement: in the detailed session
  nothing follows a terminal event, and a client that folds the events, as `reduceEvent`
  does, has the server's status.
* `ToldInv` is `NoResultLost` and the type of `told`, the results among the events, which
  `MCSessionRun` collects as they are published: a statement about the log itself would
  need a fold over it. What is proved is that the nodes that ran are those told of, and at
  most the one in the runner's hands.
* `ControlInv`: a node entered in a paused session leaves the runner no other way than to
  block, and somebody who releases it has first resumed or stopped the session
  (`ReleasedIsBlocked` ties the release to the one that is blocked).

**EventStreamProofs.** `QueueInvHolds`, `ShownInOrderHolds`, `RunnerEventsGaplessHolds`, for
any number of events, requests and connections and any length of the queue.

* `StreamInv = TypeOK /\ Bounded /\ SentinelIsLast /\ WireIsOpen /\ Waiting <= published /\
  QueueKeepsNewest`. The lemma `PutIndex` says what drop-oldest does to a queue place by
  place; `SentinelIsLast` is why what it drops is an event.
* `OrderInv`: what is on the wire is in order and comes after every card shown, and what the
  handler has still to send comes after both: the rows beyond `last_replay` while it
  replays, the part of the queue beyond `last_replay` while it is live. The filter on
  `last_replay_seq` in the live stage is exactly what carries it over the splice.
* `GaplessInv`: while the runner is the only publisher and nothing goes wrong, the first
  connection has been sent an unbroken beginning, up to where its replay ended or where
  the queue begins; that these are the only two cases is the second filter again. The
  runner awaits each write (`OneWrite`), so no row is missing in between.

**ClientStoreProofs.** `CardsInvHolds`, `ConnectedViewIsTrueHolds`, from `ClientInv`, for any
number of sessions, events and polls under way at once.

* `ServerInv`: a runner writes a verdict into the row only after it has told it.
* `AnswersInv`: an answer on its way, however old, tells only of sessions that have a row or
  have been deleted, and a verdict it tells is still in the row. That is why merging it may
  patch a connected entry: it is true, or about something gone.
* `WireInv`: a connection belongs to an entry, and the seq remembered is the place it has
  come to, unless that is the verdict, when it is forgotten. Places begin at the seq an
  earlier page has stored (`kept`), which is never that of a verdict.
* `StagesInv`: no entry before `POST /run` has made the row, no connection after DELETE.
* `EntryInv`: an entry has the cards of the events received, those after `kept`, and says
  what they tell once one of them tells a status (`Told`), but for one that came back
  after it had been removed (section 6), which has no cards.

**SessionStoreProofs.** `StoreRefersToWhatIsThere`, `AnswerIsFinalHolds`,
`GracefulDeleteIsLastHolds`, from `StoreIndInv`, for any number of sessions, DELETEs and
screenshots, and whatever files a removal leaves. `DeletesDone` reads off the place of a
DELETE what it has done for good; `ShotsCounted` and `ShotsOnDisk` relate the four numbers
a screenshot goes through (files, the session's paths, the table, the runner's hand);
`EndedIsDone` says that a runner whose session has left the cache without force takes no
more screenshots, which is what the route polls for.

**DatabaseBootProofs.** `TypeCorrect`, `NothingSkipped`, `MigratedOnce`,
`ServedFileIsMigrated`, `NoRowLeftActive`, `VersionOnlyRises`, from
`BootInv = SharedInv /\ (~overlapped => LoneInv)`, for any number of boots and migrations.

* `SharedInv = TypeOK /\ NoMigrationSkipped /\ DealtWith`: what a boot's loop has passed has
  been committed by someone, which holds with two boots at once as well.
* `LoneInv` adds that at most one process is alive (`Lone`), that what it knows of the file
  is what is there (`KnowsFile`), and with it `AppliedOnce`, `ServesMigrated` and
  `NoStaleRow`. Without `Lone` the version a boot has read may be stale when it writes; a
  step that makes two processes be alive sets `overlapped` and never unsets it
  (`OverlapStays`), so `LoneInv` has to be kept only by the steps of the one there is.

**SidecarProofs.** `SidecarInvariant`, `HandleIsNewestHolds`, `RestartIsSeenHolds`,
`ProcessInvHolds`, for any number of launches and saves, of saves under way at once
(`MaxOpen`) and of pending timers.

* `SidecarInv = TypeOK /\ HandlesInv /\ SettingsInv /\ BudgetInv /\ RestartIsSeen`. A process
  is a number, and the type says there are enough of them: `BudgetInv` counts who may still
  spawn, the launches left and the saves that have not spawned yet. `SettingsInv` says that
  whoever is under way has the file written by itself or by a later save, which is why the
  process it spawns has the settings saved, or later ones.
* `ProcessInv` needs `OneAtATime`: as long as nothing has raced, one handler is under way
  (`OneUnderWay`), whoever is about to spawn has no process in the handle (`PortIsFree`), the
  process in the handle is the only child alive (`OneChild`), and when the application quits
  nobody is under way and the sidecar has been told to end (`QuitsAtRest`), so that what the
  main process leaves behind has been signalled. `raced` is set by what a save or the quit
  finds when it begins, and never unset: nothing in the main process keeps a second save from
  starting or the quit from coming in between. The form disables its buttons while it waits,
  but Escape closes it all the same (SettingsModal.tsx:21), and it can be opened again.

**PageActionsProofs.** `IndexInvHolds`, `OnlyClicksSwitchHolds`, from
`PageInv = IndexInv /\ PagesInOrder /\ OnActivePage /\ NotActedYet /\ MeantIsShown`, for any
number of elements, numbers, pages, turns and changes.

* `Retag` gives every number once (`NumbersDiffer`, from the elements' order) and takes it
  from all others of its page (`RetagMeansShown`); afterwards a number in a page can only
  disappear (`NumbersOnlyGo`), so that whatever still carries it is what the prompt lists.
* `NotActedYet` is why an index touches its element at most once: an index handler has one
  step that acts, and leaves for the answer or for the wait for a new tab.
* `PagesInOrder`: tabs are numbered as they open, those after the active page carry no
  numbers, and a click switches only to one that opened after `before`. From its reading of
  the pages to the switch a click's `before` is not below the active page (`PagesKnown`).

`TypeCorrect` of `SessionRun` and `DatabaseBoot`, `ReplanBudgetHolds`, `NeverRaisesHolds`,
`NothingSkipped`, `VersionOnlyRises`, `HandleIsNewestHolds` and `CounterFallsThen` are about
properties no run lists by themselves: the proof covers every instance, and `Termination`
would fail without `NeverRaises`.

**Only model-checked.** Liveness (`Termination`, `StopEnds`, `EndsUnlessPaused`,
`OnlyHandlerEnds`, `SidebarConverges`, `DeleteEnds`, `BootEnds`, `SaveEnds`,
`ActionEnds`), which needs `ENABLED` and is out of the prover's reach, and what section 6
says is violated. Nothing here is about recursive definitions or proved by induction over
data: where a property would be a fold over a log (`NoResultLost`, `CardsArePrefix`), it is
stated with a history variable or by what is at each place.

## 6. Where the code does not do what it says

A comment, a docstring or a prompt says the following, and the models refute it. The first
three are runs with `expect: violation`, and their quotes are under `findings` in
`PROJECT.json`. The others are stated in their module, and TLC refutes each when it is put
in place of the properties of that module's configuration (`MCAgentLoop.cfg` for `AgentLoop`,
and so on).

| property | what is said | what happens |
|---|---|---|
| `NothingMissed`, run `replay_gap` | only what has been sent is skipped (events_ws.py:85) | two writes may commit in the other order; a replay between them makes the live stage drop the late one |
| `SignalledEnds`, run `hung_sidecar` | the sidecar is stopped by SIGTERM, then SIGKILL (main.ts:10) | `killed` is true once the signal is sent: SIGKILL never follows |
| `NotFoundIsUntouched`, run `clicked_not_found` | all locators failed (interaction.py:102) | what fails after a click counts as a locator that found nothing, and the click is repeated |
| `ReasonNamesTrigger` of `AgentLoop` | the reason of a replan names its trigger (event_builders.py:66) | it is read from `plan_stale` after replan has reset it: a stuck plan is announced as completed |
| `PausedEntersNoNode` of `SessionRun` | pause halts before the next node (session.py:166) | the flags are checked before the event is written; a pause during that write lets one more node run |
| `RestartSettlesRow` of `SessionRun` | the startup cleanup covers failed row updates (runner.py:329) | it looks only at running and paused rows; an idle one stays idle |
| `PausedIsListed` of `SessionRun` | rows of active sessions are updated along (session.py:325) | pause and resume do not write the row: a paused session is listed as running |
| `HandlersEnd` of `EventStream` | close_stream ends the handler (events_ws.py:44) | one sentinel, one queue: a second handler waits for ever |
| `EmptyViewAsksForAll` of `EventStream` | an empty view replays from 0 (App.tsx:97) | `lastSeq` survives the page load, the cards do not: `ClientStore`'s properties are therefore relative to `kept` |
| `RemovedStaysRemoved` of `ClientStore` | a deleted session is removed from the store (App.tsx:114) | an older answer to the poll, merged later, adds it again |
| `DeletedLeavesNothing` of `SessionStore` | DELETE removes the screenshots (routes/sessions.py:135) | after a forced eviction the runner takes one more, and `rmtree` ignores what it cannot remove (routes/sessions.py:181) |
| `CacheKeepsLiveOnly` of `SessionStore` | the cache keeps running, paused and new sessions (session.py:217) | a session that has ended stays until it is deleted |
| `ArtifactHasPlan` of `SessionStore` | the subtasks are kept for the artifact (session.py:77) | they are kept only by the branch that finishes; a stopped or failed run has none |
| `RunKeepsRow` of `DatabaseBoot` | closing stale rows is safe with a single sidecar (repositories/sessions.py) | a second application on the same file closes the row of a run under way |
| `AllOrNothing` of `DatabaseBoot` | all migrations are one transaction (migrations.py) | each has its own: a failed boot leaves the file between two versions |
| `KilledWasAsked` of `Sidecar` | SIGKILL is for what survived SIGTERM (main.ts:201) | the timer reads the handle when it fires and may find the next sidecar |
| `OneSidecar` of `Sidecar` | no new one before the old one is dead (main.ts:210) | two saves at once spawn two |
| `NothingRunsUnseen` of `Sidecar`, without the condition of `ProcessInv` | the sidecar is cleaned up when the application ends (main.ts:10) | a boot or a save that is under way when `before-quit` comes spawns a sidecar afterwards, which nobody signals |
| `BlankKeepsKey` of `Sidecar` | a blank key keeps the current one (SettingsForm.tsx:139) | it is saved as it is, and the stored one is gone |
| `IndexOfItsTurn` of `PageActions` | an index is valid in its turn only (interaction.py:7) | a failed think has an old index dispatched on new numbers |
| `TimeoutIsUntouched` of `PageActions` | a timeout means the element was not found (result.py:178) | the load of the new tab raises the same after the click |
| `AllFailedIsNotFound` of `PageActions` | the code is ELEMENT_NOT_FOUND (interaction.py:75) | a target text that holds another marker changes it |
| `ObservesOpenPage` of `PageActions` | get_page returns the active page (browser.py:162) | a closed tab stays the active page |
| `ThoughtOfThisTurn` of `LoopReport` | step.thinking follows a parsed answer (step.py:11) | after a failed think the last decision is published again |
| `ActedIsExecution` of `LoopReport` | step.acted follows an execution (step.py:28) | the turn that is done publishes one, with an earlier outcome |
| `ObservedIsFresh` of `LoopReport` | step.observed follows indexing and screenshot (step.py:48) | a failed observation is published with an earlier screenshot |
| `ReplannedIsNew` of `LoopReport` | plan.replanned follows a replacement (plan.py:22) | a failed replan publishes the old plan |
| `ResultIsTheLLMs` of `LoopReport` | the LLM's result is delivered to the user (agent.md:29) | data extracted earlier goes first |

## 7. What is not modelled, and why

* LLM adapters, prompts, runtime context, DOM text, memory: text that only reaches the LLM,
  whose answer is arbitrary in the model.
* In `PageActions`: clamps of waits and of counts, file names, what extract and execute_js
  return; `get_page` before `start`; a page that copies `data-oi-idx` to another element;
  `page.evaluate`, which has no timeout and is assumed to return. The page script's choice
  of the elements that get a number (style, geometry, hit test, the most specific of a
  nest) is any set of them.
* `collected_data`: no node writes it, so the artifact's is always empty. The `artifacts`
  table: it is created and never written.
* The graceful shutdown in `SessionRun`: the process may end at any of its steps, which
  `Crash` covers; the stop requests themselves are in `SessionStore`.
* The limit of one hundred rows of `GET /sessions` (repositories/sessions.py:201).
* In `EventStream`, DELETE of a session whose handler still streams: its events are gone
  with the row (`SessionStore`), and the handler is told nothing.
* In `Sidecar`: a second instance of the application beside the first, a main process that
  is killed without `before-quit`, an `error` event of spawn, the
  encryption, the content security policy and the window's options.
* Collection of the runner's task, which only the event loop references (run.py:47).
* Rendering in the desktop's components, the CLI's printing, evaluation and build scripts.

Hazards without a property carry a note in `PROJECT.json` saying why.

## 8. The plan

Done: every module of section 2, and the proofs of all safety properties of the passing
runs. What would say more:

1. That `SessionRun` and `EventStream` together keep the order the client relies on is
   argued in section 2 and not stated as one theorem: the assumption of `EventStream`, a
   terminal event that is the last, could be an abstract module both refer to.
2. The same for `ClientStore`, whose `NextKinds` is meant to be the life cycle of
   `SessionLifecycle`.
3. Properties of `PageActions` about text targets, which may match anything: how often one
   action can touch elements, and which.
