----------------------------- MODULE LoopReport -----------------------------
(***************************************************************************)
(* What the user is told of a run: the runner turns the result of every    *)
(* node into events (server/internal/runner.py, event_builders.py), and    *)
(* the client folds them into the counter, the active step and the last    *)
(* decision it shows (sessionStore.ts).  The graph is AgentLoop; this      *)
(* module adds the fields of AgentState only the builders read, and the    *)
(* state the runner and the client keep.                                   *)
(*                                                                         *)
(* Events arrive in order and once here: the way they travel is            *)
(* EventStream.  Pause and stop, which the runner checks before it         *)
(* dispatches, are SessionRun.                                             *)
(***************************************************************************)
EXTENDS AgentLoop

VARIABLES
    history_items,    \* per decision the iteration and the action
    screenshot_path,  \* number in the file name step_<n>.png, -1 for None
    prev_active,      \* the runner's _prev_active_subtask
    published,        \* the events of the last superstep
    ui                \* what the client shows

report == <<history_items, screenshot_path, prev_active, published, ui>>

ReportInit ==
    /\ Init
    /\ history_items = << >>
    /\ screenshot_path = -1
    /\ prev_active = -1
    /\ published = << >>
    /\ ui = [iteration |-> 0, active |-> -1, thought |-> NoAction]

(***************************************************************************)
(* event_builders.py: every event is read off the state the node returned  *)
(***************************************************************************)

\* build_plan_created, build_plan_replanned
PlanEvent(type) == [type |-> type, subtasks |-> subtasks]

\* build_step_observed
StepObserved ==
    [type |-> "step.observed", iteration |-> iterations, path |-> screenshot_path]

\* Mutant: the first decision is reported instead of the last.
FirstThinking ==
    IF history_items = << >> THEN << >>
    ELSE <<[type |-> "step.thinking",
            iteration |-> Head(history_items).step,
            action |-> Head(history_items).action]>>

\* build_step_thinking: the last decision kept, whoever made it.
StepThinking ==
    IF history_items = << >> THEN << >>
    ELSE LET last == history_items[Len(history_items)]
         IN  <<[type |-> "step.thinking", iteration |-> last.step, action |-> last.action]>>

\* build_step_acted
StepActed ==
    [type |-> "step.acted", iteration |-> iterations,
     action |-> last_action, success |-> last_action_result = "ok"]

\* build_step_verified
StepVerified ==
    [type |-> "step.verified", iteration |-> iterations, is_done |-> is_done]

\* find_active_subtask_index and the runner's test of it.
ActiveChanged == CurrentSubtaskIndex \notin {-1, prev_active}

\* build_subtask_activated
SubtaskActivated == [type |-> "subtask.activated", index |-> CurrentSubtaskIndex]

(***************************************************************************)
(* reduceEvent of the client                                               *)
(***************************************************************************)

Reduce(shown, event) ==
    CASE event.type \in {"plan.created", "plan.replanned"} ->
            [shown EXCEPT !.active = 0]
      [] event.type = "subtask.activated" ->
            [shown EXCEPT !.active = event.index]
      [] event.type = "step.thinking" ->
            [shown EXCEPT !.iteration = event.iteration, !.thought = event.action]
      [] event.type \in {"step.observed", "step.acted", "step.verified"} ->
            [shown EXCEPT !.iteration = event.iteration]

\* A node publishes at most two events (runner.py:152).
ReduceAll(shown, events) ==
    IF events = << >> THEN shown
    ELSE IF Len(events) = 1 THEN Reduce(shown, events[1])
    ELSE Reduce(Reduce(shown, events[1]), events[2])

Publish(events) ==
    /\ published' = events
    /\ ui' = ReduceAll(ui, events)

(***************************************************************************)
(* One superstep of the graph and the dispatch of its result               *)
(***************************************************************************)

PlanReported ==
    /\ Plan
    /\ Publish(<<PlanEvent("plan.created")'>>)
    /\ UNCHANGED <<history_items, screenshot_path, prev_active>>

\* A failed observation leaves the screenshot of an earlier turn in the state.
ObserveReported ==
    /\ Observe
    /\ screenshot_path' = IF error' = "none" THEN iterations ELSE screenshot_path
    /\ Publish(<<StepObserved'>>)
    /\ UNCHANGED <<history_items, prev_active>>

\* _append_history_item: a refused answer leaves nothing.
NewHistoryItems ==
    IF error' = "none"
    THEN Append(history_items, [step |-> iterations, action |-> last_action'])
    ELSE history_items

ThinkReported ==
    /\ Think
    /\ history_items' = NewHistoryItems
    /\ Publish(StepThinking')
    /\ UNCHANGED <<screenshot_path, prev_active>>

ActReported ==
    /\ Act
    /\ Publish(<<StepActed'>>)
    /\ UNCHANGED <<history_items, screenshot_path, prev_active>>

\* _maybe_emit_subtask_activated reads the plan, which verify leaves alone.
VerifyReported ==
    /\ Verify
    /\ Publish(IF ActiveChanged THEN <<StepVerified', SubtaskActivated>>
                                ELSE <<StepVerified'>>)
    /\ prev_active' = IF ActiveChanged THEN CurrentSubtaskIndex ELSE prev_active
    /\ UNCHANGED <<history_items, screenshot_path>>

\* Mutant: the runner goes on comparing with the step of the old plan.
ReplanKeepsTracking ==
    /\ Replan
    /\ Publish(<<PlanEvent("plan.replanned")'>>)
    /\ UNCHANGED <<history_items, screenshot_path, prev_active>>

\* plan.replanned goes out whether or not the plan was replaced.
ReplanReported ==
    /\ Replan
    /\ Publish(<<PlanEvent("plan.replanned")'>>)
    /\ prev_active' = -1
    /\ UNCHANGED <<history_items, screenshot_path>>

\* No node returned: nothing to report.
Unreported ==
    /\ RecursionLimitReached \/ Finished
    /\ UNCHANGED report

ReportNext ==
    \/ PlanReported
    \/ ObserveReported
    \/ ThinkReported
    \/ ActReported
    \/ VerifyReported
    \/ ReplanReported
    \/ Unreported

ReportSpec == ReportInit /\ [][ReportNext]_<<vars, report>>

\* The result text _publish_finished sends: extracted data comes first.
ResultText == IF extracted THEN "extracted" ELSE result

(***************************************************************************)
(* Properties                                                              *)
(***************************************************************************)

\* After every verify the client marks the step that is active, if there is one,
\* although the runner only sends changes and forgets what it sent at a replan,
\* the client resets the mark at a replan, and a replan may keep the old plan
\* (runner.py:169 and 199, sessionStore.ts:158).
ActiveStepShown ==
    [][node = "verify" /\ superstep' # superstep /\ CurrentSubtaskIndex # -1
         => ui'.active = CurrentSubtaskIndex]_<<vars, report>>

\* The action the browser is about to execute is the one the client was told of,
\* also when a refused answer makes act repeat the action of an earlier turn
\* (act.py:28, event_builders.py:149).
ShownActionIsExecuted ==
    node = "act" /\ ~is_done => ui.thought = last_action

\* The iteration the client shows never goes back, unless think's answer was
\* refused and an older decision is reported again (event_builders.py:149).
CounterFallsOnRefusedThink ==
    [][ui'.iteration < ui.iteration => node = "think" /\ error' = "think"]_<<vars, report>>

\* The steps #n listed in the prompt, and the iterations in step.thinking, tell
\* the decisions apart, whichever nodes failed in between (think.py:186 and 245).
StepLabelsDistinct ==
    \A i, j \in DOMAIN history_items :
        i < j => history_items[i].step < history_items[j].step

\* step.thinking is published for an answer think has just parsed (step.py:11).
ThoughtOfThisTurn ==
    [][node = "think" /\ superstep' # superstep /\ published' # << >>
         => error' # "think"]_<<vars, report>>

\* step.acted is published when act has executed an action (step.py:28).
ActedIsExecution ==
    [][node = "act" /\ superstep' # superstep /\ published' # << >>
         => ~is_done]_<<vars, report>>

\* step.observed comes with the screenshot of the page at that moment
\* (step.py:48): never with one an earlier event has shown.
ObservedIsFresh ==
    [][node = "observe" /\ superstep' # superstep /\ screenshot_path' # -1
         => published'[1].path # screenshot_path]_<<vars, report>>

\* plan.replanned is published when new steps have replaced the old ones
\* (plan.py:22): none of them is done.
ReplannedIsNew ==
    [][node = "replan" /\ superstep' # superstep
         => \A i \in DOMAIN published'[1].subtasks : ~published'[1].subtasks[i]]_<<vars, report>>

\* The result the LLM gives with is_done is what the user receives (agent.md:29).
ResultIsTheLLMs ==
    node = "END" /\ error = "none" => ResultText = result
=============================================================================
