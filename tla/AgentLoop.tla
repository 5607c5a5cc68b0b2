------------------------------ MODULE AgentLoop ------------------------------
(***************************************************************************)
(* The Loop of the agent: the LangGraph state machine of core/graph.py and *)
(* the control part of its six nodes (core/nodes).  One step of this       *)
(* module is one superstep of the compiled graph, that is one whole node   *)
(* function together with the edge taken after it.                         *)
(*                                                                         *)
(* Kept: every field of AgentState that a guard, a router or the caller of *)
(* the graph reads.  Left out: prompts, messages, memory, DOM text and     *)
(* screenshots, which only feed the LLM; the LLM's answers and the outcome *)
(* of a browser action are arbitrary choices.                              *)
(***************************************************************************)
EXTENDS Integers, Sequences, FiniteSets

CONSTANTS
    Actions,                        \* action signatures the LLM may answer with
    NoAction,                       \* last_action before the first decision
    MaxSubtasks,                    \* bound: length of a plan the LLM returns
    MAX_REPLANS,
    MAX_LOOP_ITERATIONS,
    MAX_CONSECUTIVE_ERRORS,
    LOOP_WARN_THRESHOLD,
    LOOP_STOP_THRESHOLD,
    ACTION_HISTORY_MAX,
    SUBTASK_STUCK_ITER_THRESHOLD,
    RecursionLimit                  \* supersteps LangGraph allows before it raises

ASSUME LimitsAssumption ==
    /\ MaxSubtasks \in Nat
    /\ MAX_REPLANS \in Nat
    /\ MAX_LOOP_ITERATIONS \in Nat
    /\ MAX_CONSECUTIVE_ERRORS \in Nat \ {0}
    /\ SUBTASK_STUCK_ITER_THRESHOLD \in Nat \ {0}
    /\ RecursionLimit \in Nat
    /\ NoAction \notin Actions

ASSUME HistoryAssumption ==
    /\ LOOP_WARN_THRESHOLD \in Nat \ {0}
    /\ LOOP_STOP_THRESHOLD \in Nat
    /\ ACTION_HISTORY_MAX \in Nat
    /\ LOOP_WARN_THRESHOLD <= LOOP_STOP_THRESHOLD
    /\ LOOP_STOP_THRESHOLD <= ACTION_HISTORY_MAX

VARIABLES
    node,                \* the node to run next, "END", or "raised"
    subtasks,            \* the done flags of the plan's steps
    last_action,
    last_action_result,  \* "none", "ok" or "fail" (ActionResult.success)
    is_done,
    result,              \* who wrote AgentState.result
    extracted,           \* is extracted_result non-None
    error,               \* which node wrote AgentState.error, "none" for None
    last_action_error,   \* what the next prompt is told
    iterations,
    consecutive_errors,
    action_history,
    plan_stale,
    subtask_start_iter,
    prev_active_subtask,
    replan_count,
    superstep            \* supersteps LangGraph has executed

planVars == <<subtasks, plan_stale, replan_count>>
trackVars == <<subtask_start_iter, prev_active_subtask>>
actVars == <<last_action_result, extracted>>
verifyVars == <<consecutive_errors, action_history>>
vars == <<node, planVars, last_action, actVars, is_done, result, error,
          last_action_error, iterations, verifyVars, trackVars, superstep>>

Nodes == {"plan", "observe", "think", "act", "verify", "replan"}
ErrorOrigins == {"none", "plan", "observe", "think", "act", "replan",
                 "max_iterations", "loop"}
ResultOrigins == {"none", "llm", "max_iterations", "loop"}
Hints == {"none", "warning", "error", "error+warning"}

ControlType ==
    /\ node \in Nodes \cup {"END", "raised"}
    /\ last_action \in Actions \cup {NoAction}
    /\ last_action_result \in {"none", "ok", "fail"}
    /\ result \in ResultOrigins
    /\ error \in ErrorOrigins
    /\ last_action_error \in Hints

FlagType ==
    /\ is_done \in BOOLEAN
    /\ extracted \in BOOLEAN
    /\ plan_stale \in BOOLEAN

SequenceType ==
    /\ subtasks \in Seq(BOOLEAN)
    /\ action_history \in Seq(Actions)
    /\ Len(action_history) <= ACTION_HISTORY_MAX

CounterType ==
    /\ iterations \in Nat
    /\ consecutive_errors \in 0 .. MAX_CONSECUTIVE_ERRORS
    /\ subtask_start_iter \in Nat
    /\ prev_active_subtask \in Int
    /\ replan_count \in Nat
    /\ superstep \in 0 .. RecursionLimit

\* Every field has its type, the error counter stays within its limit and the
\* action history within its length (verify.py:98 and 177).
TypeOK == ControlType /\ FlagType /\ SequenceType /\ CounterType

(***************************************************************************)
(* Helpers of verify.py and think.py                                       *)
(***************************************************************************)

\* _current_subtask_index: 0-based index of the first step not done, which is
\* the number of done steps before it; -1 if all are done or there are none.
CurrentSubtaskIndex ==
    IF \A i \in 1 .. Len(subtasks) : subtasks[i]
    THEN -1
    ELSE Cardinality({i \in 1 .. Len(subtasks) : \A j \in 1 .. i : subtasks[j]})

\* _apply_step_done with step_done = True.
StepDone(tasks) ==
    [i \in 1 .. Len(tasks) |-> tasks[i] \/ \A j \in 1 .. (i - 1) : tasks[j]]

\* Mutant: the history is kept one entry shorter than the loop detector needs.
ShortHistory(history, action) ==
    IF action = NoAction
    THEN history
    ELSE LET longer == Append(history, action)
         IN  IF Len(longer) < LOOP_STOP_THRESHOLD
             THEN longer ELSE Tail(longer)

\* Mutant: the history is never trimmed.
UntrimmedHistory(history, action) ==
    IF action = NoAction THEN history ELSE Append(history, action)

\* _update_action_history of the signature of last_action.
UpdateActionHistory(history, action) ==
    IF action = NoAction
    THEN history
    ELSE LET longer == Append(history, action)
         IN  IF Len(longer) <= ACTION_HISTORY_MAX
             THEN longer
             ELSE SubSeq(longer, Len(longer) - ACTION_HISTORY_MAX + 1, Len(longer))

\* The last n entries exist and are the same action.
RepeatsLast(history, n) ==
    /\ Len(history) >= n
    /\ \A i \in (Len(history) - n + 1) .. Len(history) :
          history[i] = history[Len(history)]

\* _detect_loop
DetectLoop(history) ==
    IF Len(history) < LOOP_WARN_THRESHOLD THEN "none"
    ELSE IF RepeatsLast(history, LOOP_STOP_THRESHOLD) THEN "stop"
    ELSE IF RepeatsLast(history, LOOP_WARN_THRESHOLD) THEN "warn"
    ELSE "none"

NewHistory == UpdateActionHistory(action_history, last_action)
LoopState == DetectLoop(NewHistory)

\* Mutant: a step change does not restart the clock of the active step.
ClockNotRestarted == subtask_start_iter

\* _apply_subtask_tracking: the iteration at which the active step started ...
TrackedStart ==
    IF CurrentSubtaskIndex # prev_active_subtask THEN iterations ELSE subtask_start_iter

\* ... and whether it has been active for too long.
Stuck ==
    /\ CurrentSubtaskIndex # -1
    /\ iterations - TrackedStart >= SUBTASK_STUCK_ITER_THRESHOLD

\* Mutant: the router forgets the cap on replans.
ShouldReplanUncapped ==
    \/ plan_stale
    \/ /\ subtasks # << >>
       /\ CurrentSubtaskIndex = -1
       /\ ~is_done

\* _should_replan
ShouldReplan ==
    /\ replan_count < MAX_REPLANS
    /\ \/ plan_stale
       \/ /\ subtasks # << >>
          /\ CurrentSubtaskIndex = -1
          /\ ~is_done

\* _route_after_verify
RouteAfterVerify ==
    IF is_done THEN "END" ELSE IF ShouldReplan THEN "replan" ELSE "observe"

(***************************************************************************)
(* The graph                                                               *)
(***************************************************************************)

\* initial_state, with the run about to enter the graph.
Init ==
    /\ node = "plan"
    /\ subtasks = << >>
    /\ last_action = NoAction
    /\ last_action_result = "none"
    /\ is_done = FALSE
    /\ result = "none"
    /\ extracted = FALSE
    /\ error = "none"
    /\ last_action_error = "none"
    /\ iterations = 0
    /\ consecutive_errors = 0
    /\ action_history = << >>
    /\ plan_stale = FALSE
    /\ subtask_start_iter = 0
    /\ prev_active_subtask = -1
    /\ replan_count = 0
    /\ superstep = 0

\* LangGraph runs node n as the next superstep, unless the limit is used up.
Superstep(n) ==
    /\ node = n
    /\ superstep < RecursionLimit
    /\ superstep' = superstep + 1

\* LangGraph has a node to run and no superstep left: GraphRecursionError.
RecursionLimitReached ==
    /\ node \in Nodes
    /\ superstep = RecursionLimit
    /\ node' = "raised"
    /\ UNCHANGED <<planVars, last_action, actVars, is_done, result, error,
                   last_action_error, iterations, verifyVars, trackVars, superstep>>

\* A plan just parsed from the LLM's answer: no step of it is done.
FreshPlans == UNION {[1 .. n -> {FALSE}] : n \in 0 .. MaxSubtasks}

\* plan: the steps the LLM names (none if its answer cannot be parsed) ...
PlanOk ==
    /\ subtasks' \in FreshPlans
    /\ UNCHANGED error

\* ... or, when the call raises, no steps and an error.
PlanFails ==
    /\ subtasks' = << >>
    /\ error' = "plan"

Plan ==
    /\ Superstep("plan")
    /\ PlanOk \/ PlanFails
    /\ node' = "observe"
    /\ UNCHANGED <<plan_stale, replan_count, last_action, actVars, is_done, result,
                   last_action_error, iterations, verifyVars, trackVars>>

ObserveOk ==
    /\ iterations' = iterations + 1
    /\ error' = "none"

\* A failed observation counts no iteration; think still runs after it.
ObserveFails ==
    /\ error' = "observe"
    /\ UNCHANGED iterations

Observe ==
    /\ Superstep("observe")
    /\ ObserveOk \/ ObserveFails
    /\ node' = "think"
    /\ UNCHANGED <<planVars, last_action, actVars, is_done, result,
                   last_action_error, verifyVars, trackVars>>

\* think got an answer _parse_response accepts: is_done comes with a result.
\* plan_stale is only ever raised here, step_done closes the active step.
ThinkOk ==
    /\ last_action' \in Actions
    /\ is_done' \in BOOLEAN
    /\ result' \in IF is_done' THEN {"llm"} ELSE {"none", "llm"}
    /\ subtasks' \in {subtasks, StepDone(subtasks)}
    /\ plan_stale' \in {plan_stale, TRUE}
    /\ last_action_error' = "none"
    /\ error' = "none"

\* The call raised or the answer was refused: last_action keeps its old value.
ThinkFails ==
    /\ error' = "think"
    /\ UNCHANGED <<last_action, is_done, result, subtasks, plan_stale, last_action_error>>

Think ==
    /\ Superstep("think")
    /\ ThinkOk \/ ThinkFails
    /\ node' = "act"
    /\ UNCHANGED <<replan_count, actVars, iterations, verifyVars, trackVars>>

\* The LLM declared the task done: nothing is dispatched.
ActSkipped ==
    /\ is_done
    /\ UNCHANGED <<error, actVars>>

\* Mutant: a successful action leaves the error of an earlier node in place.
ActOkKeepsError ==
    /\ ~is_done
    /\ last_action # NoAction
    /\ last_action_result' = "ok"
    /\ extracted' \in BOOLEAN
    /\ UNCHANGED error

\* registry.dispatch succeeds on last_action, whichever turn decided it.
ActOk ==
    /\ ~is_done
    /\ last_action # NoAction
    /\ last_action_result' = "ok"
    /\ extracted' \in BOOLEAN
    /\ error' = "none"

\* _state_for_failure: no action to parse, no browser, or a failed dispatch.
ActFails ==
    /\ ~is_done
    /\ last_action_result' = "fail"
    /\ extracted' = FALSE
    /\ error' = "act"

\* Mutant: a failed action counts no iteration.
ActCountsSuccessOnly ==
    /\ Superstep("act")
    /\ ActSkipped \/ ActOk \/ ActFails
    /\ iterations' = IF last_action_result' = "fail" THEN iterations ELSE iterations + 1
    /\ node' = "verify"
    /\ UNCHANGED <<planVars, last_action, is_done, result, last_action_error,
                   verifyVars, trackVars>>

Act ==
    /\ Superstep("act")
    /\ ActSkipped \/ ActOk \/ ActFails
    /\ iterations' = iterations + 1
    /\ node' = "verify"
    /\ UNCHANGED <<planVars, last_action, is_done, result, last_action_error,
                   verifyVars, trackVars>>

\* Mutant: the limit is tested with >=, a turn too early.
VerifyIterationLimitReached ==
    /\ iterations >= MAX_LOOP_ITERATIONS
    /\ is_done' = TRUE
    /\ error' = "max_iterations"
    /\ result' = "max_iterations"
    /\ UNCHANGED <<last_action_error, plan_stale, verifyVars, trackVars>>

\* verify, first test: the iteration limit wins even over is_done.
VerifyIterationLimit ==
    /\ iterations > MAX_LOOP_ITERATIONS
    /\ is_done' = TRUE
    /\ error' = "max_iterations"
    /\ result' = "max_iterations"
    /\ UNCHANGED <<last_action_error, plan_stale, verifyVars, trackVars>>

VerifyAlreadyDone ==
    /\ iterations <= MAX_LOOP_ITERATIONS
    /\ is_done
    /\ UNCHANGED <<is_done, error, result, last_action_error, plan_stale,
                   verifyVars, trackVars>>

VerifyLoopStop ==
    /\ iterations <= MAX_LOOP_ITERATIONS /\ ~is_done
    /\ LoopState = "stop"
    /\ action_history' = NewHistory
    /\ is_done' = TRUE
    /\ error' = "loop"
    /\ result' = "loop"
    /\ UNCHANGED <<last_action_error, plan_stale, consecutive_errors, trackVars>>

VerifyTooManyErrors ==
    /\ iterations <= MAX_LOOP_ITERATIONS /\ ~is_done
    /\ LoopState # "stop"
    /\ error # "none"
    /\ consecutive_errors + 1 >= MAX_CONSECUTIVE_ERRORS
    /\ action_history' = NewHistory
    /\ is_done' = TRUE
    /\ consecutive_errors' = consecutive_errors + 1
    /\ UNCHANGED <<error, result, last_action_error, plan_stale, trackVars>>

\* Both ways to stay in the loop track the active step and may signal replan.
TrackSubtask ==
    /\ subtask_start_iter' = TrackedStart
    /\ prev_active_subtask' = CurrentSubtaskIndex
    /\ plan_stale' = (plan_stale \/ Stuck)

\* Mutant: the loop warning replaces the action's error instead of joining it.
VerifyRecoverOverwrites ==
    /\ iterations <= MAX_LOOP_ITERATIONS /\ ~is_done
    /\ LoopState # "stop"
    /\ error # "none"
    /\ consecutive_errors + 1 < MAX_CONSECUTIVE_ERRORS
    /\ action_history' = NewHistory
    /\ consecutive_errors' = consecutive_errors + 1
    /\ last_action_error' = IF LoopState = "warn" THEN "warning" ELSE "error"
    /\ error' = "none"
    /\ TrackSubtask
    /\ UNCHANGED <<is_done, result>>

\* An error that is still tolerated moves to the next prompt.
VerifyRecover ==
    /\ iterations <= MAX_LOOP_ITERATIONS /\ ~is_done
    /\ LoopState # "stop"
    /\ error # "none"
    /\ consecutive_errors + 1 < MAX_CONSECUTIVE_ERRORS
    /\ action_history' = NewHistory
    /\ consecutive_errors' = consecutive_errors + 1
    /\ last_action_error' = IF LoopState = "warn" THEN "error+warning" ELSE "error"
    /\ error' = "none"
    /\ TrackSubtask
    /\ UNCHANGED <<is_done, result>>

VerifyProgress ==
    /\ iterations <= MAX_LOOP_ITERATIONS /\ ~is_done
    /\ LoopState # "stop"
    /\ error = "none"
    /\ action_history' = NewHistory
    /\ consecutive_errors' = 0
    /\ last_action_error' = IF LoopState = "warn" THEN "warning" ELSE "none"
    /\ TrackSubtask
    /\ UNCHANGED <<is_done, error, result>>

\* verify, then the conditional edge, evaluated on the state verify returned.
Verify ==
    /\ Superstep("verify")
    /\ \/ VerifyIterationLimit
       \/ VerifyAlreadyDone
       \/ VerifyLoopStop
       \/ VerifyTooManyErrors
       \/ VerifyRecover
       \/ VerifyProgress
    /\ UNCHANGED <<subtasks, replan_count, last_action, actVars, iterations>>
    /\ node' = RouteAfterVerify'

ReplanOk ==
    /\ subtasks' \in FreshPlans \ {<< >>}
    /\ subtask_start_iter' = iterations
    /\ prev_active_subtask' = -1
    /\ error' = "none"

\* The answer held no steps: the old plan stays, and so does its clock.
ReplanEmpty == UNCHANGED <<subtasks, trackVars, error>>

ReplanFails ==
    /\ error' = "replan"
    /\ UNCHANGED <<subtasks, trackVars>>

Replan ==
    /\ Superstep("replan")
    /\ ReplanOk \/ ReplanEmpty \/ ReplanFails
    /\ plan_stale' = FALSE
    /\ replan_count' = replan_count + 1
    /\ node' = "observe"
    /\ UNCHANGED <<last_action, actVars, is_done, result, last_action_error,
                   iterations, verifyVars>>

\* The graph has ended or raised: the run takes no further step.
Finished ==
    /\ node \in {"END", "raised"}
    /\ UNCHANGED vars

Next ==
    \/ Plan
    \/ Observe
    \/ Think
    \/ Act
    \/ Verify
    \/ Replan
    \/ RecursionLimitReached
    \/ Finished

\* Every node is an awaited coroutine that catches its exceptions and returns.
Spec == Init /\ [][Next]_vars /\ WF_vars(Next)

(***************************************************************************)
(* Properties                                                              *)
(***************************************************************************)

\* Only the failure of this turn's own action is an error when verify reads the
\* error field (verify.py:93): what plan, observe, think or replan left there
\* has been cleared, or replaced by act, by then, and a failed action is never
\* cleared before verify has counted it.
ErrorAtVerifyIsTheActs ==
    node = "verify" /\ ~is_done =>
        /\ error \in {"none", "act"}
        /\ error = "act" <=> last_action_result = "fail"

\* Whatever observe, replan or a failed think do in between, the prompt of the
\* next decision names the failure of the action before it, and names one only
\* if there was one (last_action_error, verify.py:110 and 122).
FailureReachesPrompt ==
    node \in {"observe", "replan", "think"} =>
        (last_action_result = "fail"
           <=> last_action_error \in {"error", "error+warning"})

\* A run that ends without an error carries the LLM's own result; one that ends
\* with an error does so for the reason its error names, and the iteration limit
\* is named exactly when it was passed (verify.py:60-104).
EndReason ==
    node = "END" =>
        /\ is_done
        /\ error \in {"none", "act", "loop", "max_iterations"}
        /\ error = "none" => result = "llm" /\ last_action # NoAction
        /\ error = "act" => /\ last_action_result = "fail"
                            /\ consecutive_errors = MAX_CONSECUTIVE_ERRORS
        /\ error = "loop" => /\ result = "loop"
                             /\ RepeatsLast(action_history, LOOP_STOP_THRESHOLD)
        /\ error = "max_iterations" => result = "max_iterations"
        /\ error = "max_iterations" <=> iterations > MAX_LOOP_ITERATIONS

\* replan runs at most MAX_REPLANS times (graph.py:103), whatever keeps asking
\* for it: think, the stuck detector, or a plan whose steps are all done.
ReplanBudget == replan_count <= MAX_REPLANS

\* Four supersteps a turn, at most MAX_LOOP_ITERATIONS + 1 turns because act
\* counts an iteration even when observe fails, the replans and the plan.
MaxSupersteps == 4 * MAX_LOOP_ITERATIONS + 5 + MAX_REPLANS

\* A graph allowed MaxSupersteps supersteps always ends by its own decision: the
\* caller (session runner, CLI) never sees a GraphRecursionError.
NeverRaises == node # "raised"

\* Every run of the graph ends through verify (graph.py:81).
Termination == <>(node = "END")

(***************************************************************************)
(* What the session runner sees of the graph                               *)
(***************************************************************************)

\* infer_replan_reason, on the state the replan node returned.
InferReplanReason == IF plan_stale THEN "stuck" ELSE "plan completed"

\* runner.py:228 tells an errored run from a finished one by its error field.
Outcome ==
    IF node = "END" THEN (IF error = "none" THEN "answer" ELSE "error")
    ELSE IF node = "raised" THEN "raised"
    ELSE "running"

Stream == INSTANCE NodeStream WITH outcome <- Outcome, replans <- replan_count

\* The graph runs its nodes in the order the session runner relies on, replans at
\* most MAX_REPLANS times, and has a verdict exactly when it has ended.
ImplementsStream == Stream!StreamSpec

\* The reason plan.replanned gives the user names the trigger of the replan
\* (event_builders.py:66): a stale plan is reported as stuck.
ReasonNamesTrigger ==
    [][node = "replan" /\ plan_stale /\ superstep' # superstep
         => InferReplanReason' = "stuck"]_vars
=============================================================================
