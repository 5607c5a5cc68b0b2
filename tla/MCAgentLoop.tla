----------------------------- MODULE MCAgentLoop -----------------------------
(***************************************************************************)
(* Model checking of AgentLoop, with two history variables that watch the  *)
(* run from outside: how often in a row the same action was executed, and  *)
(* since which iteration the step now active has been active.              *)
(***************************************************************************)
EXTENDS AgentLoop

VARIABLES
    executed,     \* the action executed last
    repeats,      \* how many executions in a row were that action
    active_since  \* iterations when the active step last changed

ghosts == <<executed, repeats, active_since>>

MCInit ==
    /\ Init
    /\ executed = NoAction
    /\ repeats = 0
    /\ active_since = 0

WatchExecutions ==
    IF node = "act" /\ node' = "verify" /\ ~is_done /\ last_action # NoAction
    THEN /\ executed' = last_action
         /\ repeats' = IF last_action = executed THEN repeats + 1 ELSE 1
    ELSE UNCHANGED <<executed, repeats>>

WatchActiveStep ==
    active_since' = IF CurrentSubtaskIndex' # CurrentSubtaskIndex
                       \/ (node = "replan" /\ node' = "observe" /\ ReplanOk)
                    THEN iterations' ELSE active_since

MCNext == Next /\ WatchExecutions /\ WatchActiveStep

MCSpec == MCInit /\ [][MCNext]_<<vars, ghosts>> /\ WF_<<vars, ghosts>>(MCNext)

\* The same action is executed at most LOOP_STOP_THRESHOLD times in a row, also
\* when a failed think makes act repeat the action of an earlier turn, and when
\* a replan lies between two executions (verify.py:75-87).
RepeatsBounded == repeats <= LOOP_STOP_THRESHOLD

\* verify signals a stuck plan by itself only when one and the same step of one
\* and the same plan has been active for SUBTASK_STUCK_ITER_THRESHOLD iterations
\* (verify.py:264-271, replan.py:86-87).
StuckIsReal ==
    [][node = "verify" /\ ~plan_stale /\ plan_stale' =>
         iterations - active_since >= SUBTASK_STUCK_ITER_THRESHOLD]_<<vars, ghosts>>
=============================================================================
