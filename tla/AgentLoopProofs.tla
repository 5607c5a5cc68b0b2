--------------------------- MODULE AgentLoopProofs ---------------------------
(***************************************************************************)
(* Theorems about AgentLoop for every value of its constants; then about   *)
(* its runs as the history variables of MCAgentLoop see them; then about   *)
(* what the events of LoopReport show of a run, from one inductive         *)
(* invariant that relates the client's view, the runner's memory and the   *)
(* state of the graph.                                                     *)
(***************************************************************************)
EXTENDS MCAgentLoop, LoopReport, SequenceTheorems, FiniteSetTheorems, TLAPS

(***************************************************************************)
(* The helpers                                                             *)
(***************************************************************************)

\* The active step is -1 or a number of steps of the plan.
LEMMA CurrentSubtaskIndexType ==
    ASSUME subtasks \in Seq(BOOLEAN)
    PROVE  CurrentSubtaskIndex \in Int
<1> DEFINE prefix == {i \in 1 .. Len(subtasks) : \A j \in 1 .. i : subtasks[j]}
<1>1. IsFiniteSet(1 .. Len(subtasks))
  BY FS_Interval, LenProperties
<1>2. prefix \in SUBSET (1 .. Len(subtasks))
  OBVIOUS
<1>3. IsFiniteSet(prefix)
  BY <1>1, <1>2, FS_Subset
<1>4. Cardinality(prefix) \in Nat
  BY <1>3, FS_CardinalityType
<1> QED
  BY <1>4 DEF CurrentSubtaskIndex

\* A plan as the LLM returns it is a sequence of flags.
LEMMA FreshPlansType == FreshPlans \subseteq Seq(BOOLEAN)
<1> SUFFICES ASSUME NEW n \in 0 .. MaxSubtasks, NEW p \in [1 .. n -> {FALSE}]
             PROVE  p \in Seq(BOOLEAN)
  BY DEF FreshPlans
<1>1. n \in Nat
  BY LimitsAssumption
<1>2. p \in [1 .. n -> BOOLEAN]
  BY Zenon
<1> QED
  BY <1>1, <1>2, SeqDef

\* Closing the active step keeps a sequence of flags.
LEMMA StepDoneType ==
    ASSUME NEW s \in Seq(BOOLEAN)
    PROVE  StepDone(s) \in Seq(BOOLEAN)
<1>1. Len(s) \in Nat /\ s \in [1 .. Len(s) -> BOOLEAN]
  BY LenProperties
<1>2. StepDone(s) \in [1 .. Len(s) -> BOOLEAN]
  BY <1>1 DEF StepDone
<1> QED
  BY <1>1, <1>2, SeqDef

\* The history stays a sequence of actions of bounded length, ends with the new
\* action, and is unchanged when there is no action to record.
LEMMA UpdateActionHistoryProperties ==
    ASSUME NEW h \in Seq(Actions), Len(h) <= ACTION_HISTORY_MAX,
           NEW a \in Actions \cup {NoAction}
    PROVE  /\ UpdateActionHistory(h, a) \in Seq(Actions)
           /\ Len(UpdateActionHistory(h, a)) <= ACTION_HISTORY_MAX
<1>1. CASE a = NoAction
  BY <1>1 DEF UpdateActionHistory
<1>2. CASE a # NoAction
  <2> DEFINE longer == Append(h, a)
             m == Len(longer) - ACTION_HISTORY_MAX + 1
  <2>1. longer \in Seq(Actions) /\ Len(longer) = Len(h) + 1
    BY <1>2, AppendProperties
  <2>2. CASE Len(longer) <= ACTION_HISTORY_MAX
    BY <1>2, <2>1, <2>2 DEF UpdateActionHistory
  <2>3. CASE Len(longer) > ACTION_HISTORY_MAX
    <3>1. m \in Int /\ Len(longer) \in Int /\ m = 2 /\ m <= Len(longer)
      BY <2>1, <2>3, LenProperties, HistoryAssumption
    <3>2. \A i \in m .. Len(longer) : longer[i] \in Actions
      BY <2>1, <3>1, ElementOfSeq
    <3>3. /\ SubSeq(longer, m, Len(longer)) \in Seq(Actions)
          /\ Len(SubSeq(longer, m, Len(longer))) = Len(longer) - m + 1
      BY <3>1, <3>2, SubSeqProperties
    <3> QED
      BY <1>2, <2>1, <2>3, <3>1, <3>3, HistoryAssumption DEF UpdateActionHistory
  <2> QED
    BY <2>1, <2>2, <2>3, LenProperties, HistoryAssumption
<1> QED
  BY <1>1, <1>2

(***************************************************************************)
(* Type correctness                                                        *)
(***************************************************************************)

\* Errors are still tolerated as long as the run is not done, and the nodes that
\* come before a decision only run when it is not.
RunningInv ==
    /\ ~is_done => consecutive_errors < MAX_CONSECUTIVE_ERRORS
    /\ node \in {"plan", "observe", "think", "replan"} => ~is_done

TypeInv == TypeOK /\ RunningInv

\* A run starts with every field of its type.
LEMMA InitTypeInv == Init => TypeInv
<1> SUFFICES ASSUME Init PROVE TypeInv
  OBVIOUS
<1>1. ControlType
  BY DEF Init, ControlType, Nodes, ErrorOrigins, ResultOrigins, Hints
<1>2. FlagType
  BY DEF Init, FlagType
<1>3. SequenceType
  BY EmptySeq, HistoryAssumption DEF Init, SequenceType
<1>4. CounterType
  BY LimitsAssumption DEF Init, CounterType
<1>5. RunningInv
  BY LimitsAssumption DEF Init, RunningInv
<1> QED
  BY <1>1, <1>2, <1>3, <1>4, <1>5 DEF TypeInv, TypeOK

\* Every node keeps the types.
LEMMA NextTypeInv == TypeInv /\ [Next]_vars => TypeInv'
<1> SUFFICES ASSUME ControlType, FlagType, SequenceType, CounterType, RunningInv,
                    [Next]_vars
             PROVE  TypeInv'
  BY DEF TypeInv, TypeOK
<1> USE DEF planVars, trackVars, actVars, verifyVars
<1>1. CASE Plan
  <2>1. ControlType'
    BY <1>1
       DEF ControlType, Plan, PlanOk, PlanFails, Superstep, Nodes,
           ErrorOrigins, ResultOrigins, Hints
  <2>2. FlagType'
    BY <1>1 DEF FlagType, Plan, PlanOk, PlanFails
  <2>3. SequenceType'
    BY <1>1, FreshPlansType, EmptySeq DEF SequenceType, Plan, PlanOk, PlanFails
  <2>4. CounterType'
    BY <1>1, LimitsAssumption
       DEF CounterType, Plan, PlanOk, PlanFails, Superstep
  <2>5. RunningInv'
    BY <1>1 DEF RunningInv, Plan, PlanOk, PlanFails, Superstep
  <2> QED
    BY <2>1, <2>2, <2>3, <2>4, <2>5 DEF TypeInv, TypeOK
<1>2. CASE Observe
  <2>1. ControlType'
    BY <1>2
       DEF ControlType, Observe, ObserveOk, ObserveFails, Superstep, Nodes,
           ErrorOrigins, ResultOrigins, Hints
  <2>2. FlagType'
    BY <1>2 DEF FlagType, Observe, ObserveOk, ObserveFails
  <2>3. SequenceType'
    BY <1>2 DEF SequenceType, Observe, ObserveOk, ObserveFails
  <2>4. CounterType'
    BY <1>2, LimitsAssumption
       DEF CounterType, Observe, ObserveOk, ObserveFails, Superstep
  <2>5. RunningInv'
    BY <1>2 DEF RunningInv, Observe, ObserveOk, ObserveFails, Superstep
  <2> QED
    BY <2>1, <2>2, <2>3, <2>4, <2>5 DEF TypeInv, TypeOK
<1>3. CASE Think
  <2>1. ControlType'
    BY <1>3
       DEF ControlType, Think, ThinkOk, ThinkFails, Superstep, Nodes,
           ErrorOrigins, ResultOrigins, Hints
  <2>2. FlagType'
    BY <1>3 DEF FlagType, Think, ThinkOk, ThinkFails
  <2>3. SequenceType'
    BY <1>3, StepDoneType DEF SequenceType, Think, ThinkOk, ThinkFails
  <2>4. CounterType'
    BY <1>3, LimitsAssumption
       DEF CounterType, Think, ThinkOk, ThinkFails, Superstep
  <2>5. RunningInv'
    BY <1>3 DEF RunningInv, Think, ThinkOk, ThinkFails, Superstep
  <2> QED
    BY <2>1, <2>2, <2>3, <2>4, <2>5 DEF TypeInv, TypeOK
<1>4. CASE Act
  <2>1. ControlType'
    BY <1>4
       DEF ControlType, Act, ActSkipped, ActOk, ActFails, Superstep, Nodes,
           ErrorOrigins, ResultOrigins, Hints
  <2>2. FlagType'
    BY <1>4 DEF FlagType, Act, ActSkipped, ActOk, ActFails
  <2>3. SequenceType'
    BY <1>4 DEF SequenceType, Act, ActSkipped, ActOk, ActFails
  <2>4. CounterType'
    BY <1>4, LimitsAssumption
       DEF CounterType, Act, ActSkipped, ActOk, ActFails, Superstep
  <2>5. RunningInv'
    BY <1>4 DEF RunningInv, Act, ActSkipped, ActOk, ActFails, Superstep
  <2> QED
    BY <2>1, <2>2, <2>3, <2>4, <2>5 DEF TypeInv, TypeOK
<1>5. CASE Verify
  <2>1. ControlType'
    BY <1>5
       DEF ControlType, Verify, VerifyIterationLimit, VerifyAlreadyDone,
           VerifyLoopStop, VerifyTooManyErrors, VerifyRecover, VerifyProgress,
           Superstep, RouteAfterVerify, Nodes, ErrorOrigins, ResultOrigins,
           Hints
  <2>2. FlagType'
    BY <1>5
       DEF FlagType, Verify, VerifyIterationLimit, VerifyAlreadyDone,
           VerifyLoopStop, VerifyTooManyErrors, VerifyRecover, VerifyProgress,
           TrackSubtask
  <2>3. SequenceType'
    BY <1>5, UpdateActionHistoryProperties
       DEF SequenceType, ControlType, NewHistory, Verify,
           VerifyIterationLimit, VerifyAlreadyDone, VerifyLoopStop,
           VerifyTooManyErrors, VerifyRecover, VerifyProgress
  <2>4. CounterType'
    BY <1>5, LimitsAssumption, CurrentSubtaskIndexType
       DEF CounterType, RunningInv, SequenceType, TrackSubtask,
           TrackedStart, Verify, VerifyIterationLimit, VerifyAlreadyDone,
           VerifyLoopStop, VerifyTooManyErrors, VerifyRecover, VerifyProgress,
           Superstep
  <2>5. RunningInv'
    BY <1>5, LimitsAssumption
       DEF RunningInv, CounterType, FlagType, Verify, VerifyIterationLimit,
           VerifyAlreadyDone, VerifyLoopStop, VerifyTooManyErrors,
           VerifyRecover, VerifyProgress, Superstep, RouteAfterVerify
  <2> QED
    BY <2>1, <2>2, <2>3, <2>4, <2>5 DEF TypeInv, TypeOK
<1>6. CASE Replan
  <2>1. ControlType'
    BY <1>6
       DEF ControlType, Replan, ReplanOk, ReplanEmpty, ReplanFails,
           Superstep, Nodes, ErrorOrigins, ResultOrigins, Hints
  <2>2. FlagType'
    BY <1>6 DEF FlagType, Replan, ReplanOk, ReplanEmpty, ReplanFails
  <2>3. SequenceType'
    BY <1>6, FreshPlansType
       DEF SequenceType, Replan, ReplanOk, ReplanEmpty, ReplanFails
  <2>4. CounterType'
    BY <1>6, LimitsAssumption
       DEF CounterType, Replan, ReplanOk, ReplanEmpty, ReplanFails,
           Superstep
  <2>5. RunningInv'
    BY <1>6
       DEF RunningInv, Replan, ReplanOk, ReplanEmpty, ReplanFails,
           Superstep
  <2> QED
    BY <2>1, <2>2, <2>3, <2>4, <2>5 DEF TypeInv, TypeOK
<1>7. CASE RecursionLimitReached
  <2>1. ControlType'
    BY <1>7
       DEF ControlType, RecursionLimitReached, Nodes, ErrorOrigins,
           ResultOrigins, Hints
  <2>2. FlagType'
    BY <1>7 DEF FlagType, RecursionLimitReached
  <2>3. SequenceType'
    BY <1>7 DEF SequenceType, RecursionLimitReached
  <2>4. CounterType'
    BY <1>7, LimitsAssumption DEF CounterType, RecursionLimitReached
  <2>5. RunningInv'
    BY <1>7 DEF RunningInv, RecursionLimitReached
  <2> QED
    BY <2>1, <2>2, <2>3, <2>4, <2>5 DEF TypeInv, TypeOK
<1>8. CASE UNCHANGED vars
  BY <1>8 DEF TypeInv, TypeOK, ControlType, FlagType, SequenceType, CounterType,
              RunningInv, vars
<1> QED
  BY <1>1, <1>2, <1>3, <1>4, <1>5, <1>6, <1>7, <1>8 DEF Next, Finished

\* Every field of AgentState that steers the graph keeps its type, the error
\* counter stays within its limit and the history within its length.
THEOREM TypeCorrect == Spec => []TypeOK
<1>1. Spec => []TypeInv
  BY InitTypeInv, NextTypeInv, PTL DEF Spec
<1>2. TypeInv => TypeOK
  BY DEF TypeInv
<1> QED
  BY <1>1, <1>2, PTL

(***************************************************************************)
(* Where errors come from and how a run ends                               *)
(***************************************************************************)

\* Before the first turn nothing has been executed or reported yet; a decision
\* that declares the task done reaches verify with its result and no error.
DecisionInv ==
    /\ node = "plan" => last_action_result = "none" /\ last_action_error = "none"
    /\ node \in {"act", "verify"} /\ is_done =>
          result = "llm" /\ error = "none" /\ last_action # NoAction

OutcomeInv ==
    DecisionInv /\ ErrorAtVerifyIsTheActs /\ FailureReachesPrompt /\ EndReason

\* Only plan starts a run, and only an accepted answer sets is_done before act.
LEMMA NextDecisionInv ==
    TypeInv /\ DecisionInv /\ [Next]_vars => DecisionInv'
<1> SUFFICES ASSUME TypeInv, DecisionInv, [Next]_vars
             PROVE  DecisionInv'
  OBVIOUS
<1> USE DEF TypeInv, TypeOK, ControlType, FlagType, planVars, trackVars, actVars,
            verifyVars
<1>1. CASE Plan
  BY <1>1 DEF DecisionInv, Plan, PlanOk, PlanFails, Superstep
<1>2. CASE Observe
  BY <1>2 DEF DecisionInv, Observe, ObserveOk, ObserveFails, Superstep
<1>3. CASE Think
  <2>1. node = "think" /\ node' = "act" /\ ~is_done
    BY <1>3 DEF Think, Superstep, RunningInv
  <2>2. CASE ThinkOk
    <3>1. is_done' => result' = "llm"
      BY <2>2 DEF ThinkOk
    <3>2. error' = "none" /\ last_action' # NoAction
      BY <2>2, LimitsAssumption DEF ThinkOk
    <3> QED
      BY <2>1, <3>1, <3>2 DEF DecisionInv
  <2>3. CASE ThinkFails
    BY <2>1, <2>3 DEF DecisionInv, ThinkFails
  <2> QED
    BY <1>3, <2>2, <2>3 DEF Think
<1>4. CASE Act
  BY <1>4 DEF DecisionInv, Act, ActSkipped, ActOk, ActFails, Superstep
<1>5. CASE Verify
  BY <1>5
     DEF DecisionInv, RunningInv, Verify, VerifyIterationLimit,
         VerifyAlreadyDone, VerifyLoopStop, VerifyTooManyErrors, VerifyRecover,
         VerifyProgress, Superstep, RouteAfterVerify
<1>6. CASE Replan
  BY <1>6 DEF DecisionInv, Replan, ReplanOk, ReplanEmpty, ReplanFails, Superstep
<1>7. CASE RecursionLimitReached
  BY <1>7 DEF DecisionInv, RecursionLimitReached, Nodes
<1>8. CASE UNCHANGED vars
  BY <1>8 DEF DecisionInv, vars
<1> QED
  BY <1>1, <1>2, <1>3, <1>4, <1>5, <1>6, <1>7, <1>8 DEF Next, Finished

\* act overwrites the error of every earlier node, with None or with its own.
LEMMA NextErrorAtVerify ==
    TypeInv /\ ErrorAtVerifyIsTheActs /\ [Next]_vars => ErrorAtVerifyIsTheActs'
<1> SUFFICES ASSUME TypeInv, ErrorAtVerifyIsTheActs, [Next]_vars
             PROVE  ErrorAtVerifyIsTheActs'
  OBVIOUS
<1> USE DEF TypeInv, TypeOK, ControlType, FlagType, planVars, trackVars, actVars,
            verifyVars
<1>1. CASE Plan
  BY <1>1 DEF ErrorAtVerifyIsTheActs, Plan, PlanOk, PlanFails, Superstep
<1>2. CASE Observe
  BY <1>2
     DEF ErrorAtVerifyIsTheActs, Observe, ObserveOk, ObserveFails,
         Superstep
<1>3. CASE Think
  BY <1>3 DEF ErrorAtVerifyIsTheActs, Think, ThinkOk, ThinkFails, Superstep
<1>4. CASE Act
  BY <1>4
     DEF ErrorAtVerifyIsTheActs, Act, ActSkipped, ActOk, ActFails,
         Superstep
<1>5. CASE Verify
  BY <1>5
     DEF ErrorAtVerifyIsTheActs, Verify, VerifyIterationLimit,
         VerifyAlreadyDone, VerifyLoopStop, VerifyTooManyErrors, VerifyRecover,
         VerifyProgress, Superstep, RouteAfterVerify
<1>6. CASE Replan
  BY <1>6
     DEF ErrorAtVerifyIsTheActs, Replan, ReplanOk, ReplanEmpty,
         ReplanFails, Superstep
<1>7. CASE RecursionLimitReached
  BY <1>7 DEF ErrorAtVerifyIsTheActs, RecursionLimitReached, Nodes
<1>8. CASE UNCHANGED vars
  BY <1>8 DEF ErrorAtVerifyIsTheActs, vars
<1> QED
  BY <1>1, <1>2, <1>3, <1>4, <1>5, <1>6, <1>7, <1>8 DEF Next, Finished

\* verify moves act's error into the hint, and nothing touches it before think.
LEMMA NextFailureReachesPrompt ==
    TypeInv /\ FailureReachesPrompt /\ ErrorAtVerifyIsTheActs /\ DecisionInv /\ [Next]_vars
        => FailureReachesPrompt'
<1> SUFFICES ASSUME TypeInv, FailureReachesPrompt, ErrorAtVerifyIsTheActs, DecisionInv,
                    [Next]_vars
             PROVE  FailureReachesPrompt'
  OBVIOUS
<1> USE DEF TypeInv, TypeOK, ControlType, FlagType, planVars, trackVars, actVars,
            verifyVars
<1>1. CASE Plan
  BY <1>1
     DEF FailureReachesPrompt, ErrorAtVerifyIsTheActs, DecisionInv, Plan,
         PlanOk, PlanFails, Superstep
<1>2. CASE Observe
  BY <1>2
     DEF FailureReachesPrompt, ErrorAtVerifyIsTheActs, DecisionInv,
         Observe, ObserveOk, ObserveFails, Superstep
<1>3. CASE Think
  BY <1>3
     DEF FailureReachesPrompt, ErrorAtVerifyIsTheActs, DecisionInv, Think,
         ThinkOk, ThinkFails, Superstep
<1>4. CASE Act
  BY <1>4
     DEF FailureReachesPrompt, ErrorAtVerifyIsTheActs, DecisionInv, Act,
         ActSkipped, ActOk, ActFails, Superstep
<1>5. CASE Verify
  BY <1>5
     DEF FailureReachesPrompt, ErrorAtVerifyIsTheActs, DecisionInv,
         RunningInv, Verify, VerifyIterationLimit, VerifyAlreadyDone,
         VerifyLoopStop, VerifyTooManyErrors, VerifyRecover, VerifyProgress,
         Superstep, RouteAfterVerify
<1>6. CASE Replan
  BY <1>6
     DEF FailureReachesPrompt, ErrorAtVerifyIsTheActs, DecisionInv, Replan,
         ReplanOk, ReplanEmpty, ReplanFails, Superstep
<1>7. CASE RecursionLimitReached
  BY <1>7
     DEF FailureReachesPrompt, ErrorAtVerifyIsTheActs, DecisionInv,
         RecursionLimitReached, Nodes
<1>8. CASE UNCHANGED vars
  BY <1>8 DEF FailureReachesPrompt, vars
<1> QED
  BY <1>1, <1>2, <1>3, <1>4, <1>5, <1>6, <1>7, <1>8 DEF Next, Finished

\* Each way verify ends a run leaves its own trace.
LEMMA NextEndReason ==
    TypeInv /\ EndReason /\ ErrorAtVerifyIsTheActs /\ DecisionInv /\ [Next]_vars
        => EndReason'
<1> SUFFICES ASSUME TypeInv, EndReason, ErrorAtVerifyIsTheActs, DecisionInv,
                    [Next]_vars
             PROVE  EndReason'
  OBVIOUS
<1> USE DEF TypeInv, TypeOK, ControlType, FlagType, CounterType, planVars, trackVars,
            actVars, verifyVars
<1>1. CASE Plan
  BY <1>1
     DEF EndReason, ErrorAtVerifyIsTheActs, DecisionInv, Plan, PlanOk,
         PlanFails, Superstep
<1>2. CASE Observe
  BY <1>2
     DEF EndReason, ErrorAtVerifyIsTheActs, DecisionInv, Observe,
         ObserveOk, ObserveFails, Superstep
<1>3. CASE Think
  BY <1>3
     DEF EndReason, ErrorAtVerifyIsTheActs, DecisionInv, Think, ThinkOk,
         ThinkFails, Superstep
<1>4. CASE Act
  BY <1>4
     DEF EndReason, ErrorAtVerifyIsTheActs, DecisionInv, Act, ActSkipped,
         ActOk, ActFails, Superstep
<1>5. CASE Verify
  BY <1>5, LimitsAssumption
     DEF EndReason, ErrorAtVerifyIsTheActs, DecisionInv, RunningInv,
         LoopState, DetectLoop, Verify, VerifyIterationLimit,
         VerifyAlreadyDone, VerifyLoopStop, VerifyTooManyErrors, VerifyRecover,
         VerifyProgress, Superstep, RouteAfterVerify
<1>6. CASE Replan
  BY <1>6
     DEF EndReason, ErrorAtVerifyIsTheActs, DecisionInv, Replan, ReplanOk,
         ReplanEmpty, ReplanFails, Superstep
<1>7. CASE RecursionLimitReached
  BY <1>7
     DEF EndReason, ErrorAtVerifyIsTheActs, DecisionInv,
         RecursionLimitReached, Nodes
<1>8. CASE UNCHANGED vars
  BY <1>8 DEF EndReason, vars
<1> QED
  BY <1>1, <1>2, <1>3, <1>4, <1>5, <1>6, <1>7, <1>8 DEF Next, Finished

\* Nothing has been decided, and nothing has failed, when a run starts.
LEMMA InitOutcomeInv == Init => OutcomeInv
BY DEF Init, OutcomeInv, DecisionInv, ErrorAtVerifyIsTheActs, FailureReachesPrompt,
       EndReason

\* Who wrote the error, the hint and the result is known in every state.
LEMMA OutcomeInvariant == Spec => [](TypeInv /\ OutcomeInv)
<1>1. Init => TypeInv /\ OutcomeInv
  BY InitTypeInv, InitOutcomeInv
<1>2. TypeInv /\ OutcomeInv /\ [Next]_vars => TypeInv' /\ OutcomeInv'
  BY NextTypeInv, NextDecisionInv, NextErrorAtVerify, NextFailureReachesPrompt,
     NextEndReason
     DEF OutcomeInv
<1> QED
  BY <1>1, <1>2, PTL DEF Spec

\* An error verify counts is always the failure of the action just executed.
THEOREM ErrorProvenance == Spec => []ErrorAtVerifyIsTheActs
BY OutcomeInvariant, PTL DEF OutcomeInv

\* The next decision is always told of a failed action, and of nothing else.
THEOREM FailureIsReported == Spec => []FailureReachesPrompt
BY OutcomeInvariant, PTL DEF OutcomeInv

\* A run ends with the LLM's result, or with an error that says truly why.
THEOREM EndReasonHolds == Spec => []EndReason
BY OutcomeInvariant, PTL DEF OutcomeInv

(***************************************************************************)
(* How long a run can get                                                  *)
(***************************************************************************)

\* The router sends a run to replan only below the cap.
ReplanInv == ReplanBudget /\ (node = "replan" => replan_count < MAX_REPLANS)

\* Every completed turn costs four supersteps and at least one iteration, and a
\* turn is entered only with at most MAX_LOOP_ITERATIONS of them on the clock.
SuperstepInv ==
    /\ node = "plan" => iterations = 0 /\ replan_count = 0 /\ superstep = 0
    /\ node = "observe" => /\ iterations <= MAX_LOOP_ITERATIONS
                           /\ superstep <= 4 * iterations + replan_count + 1
    /\ node = "think" => /\ superstep <= 4 * iterations + replan_count + 2
                         /\ superstep <= 4 * MAX_LOOP_ITERATIONS + replan_count + 2
    /\ node = "act" => /\ superstep <= 4 * iterations + replan_count + 3
                       /\ superstep <= 4 * MAX_LOOP_ITERATIONS + replan_count + 3
    /\ node = "verify" => /\ superstep <= 4 * iterations + replan_count
                          /\ superstep <= 4 * MAX_LOOP_ITERATIONS + replan_count + 4
    /\ node = "replan" => /\ iterations <= MAX_LOOP_ITERATIONS
                          /\ superstep <= 4 * iterations + replan_count + 1

\* Only replan counts a replan, and it is entered below the cap.
LEMMA NextReplanInv ==
    TypeInv /\ ReplanInv /\ [Next]_vars => ReplanInv'
<1> SUFFICES ASSUME TypeInv, ReplanInv, [Next]_vars
             PROVE  ReplanInv'
  OBVIOUS
<1> USE DEF TypeInv, TypeOK, CounterType, planVars, trackVars, actVars, verifyVars
<1>1. CASE Plan
  BY <1>1, LimitsAssumption
     DEF ReplanInv, ReplanBudget, Plan, PlanOk, PlanFails, Superstep
<1>2. CASE Observe
  BY <1>2, LimitsAssumption
     DEF ReplanInv, ReplanBudget, Observe, ObserveOk, ObserveFails,
         Superstep
<1>3. CASE Think
  BY <1>3, LimitsAssumption
     DEF ReplanInv, ReplanBudget, Think, ThinkOk, ThinkFails, Superstep
<1>4. CASE Act
  BY <1>4, LimitsAssumption
     DEF ReplanInv, ReplanBudget, Act, ActSkipped, ActOk, ActFails,
         Superstep
<1>5. CASE Verify
  <2>1. UNCHANGED replan_count
    BY <1>5 DEF Verify
  <2>2. node' = "replan" => replan_count' < MAX_REPLANS
    <3>1. node' = "replan" => ShouldReplan'
      BY <1>5 DEF Verify, RouteAfterVerify
    <3> QED
      BY <3>1 DEF ShouldReplan
  <2> QED
    BY <2>1, <2>2 DEF ReplanInv, ReplanBudget
<1>6. CASE Replan
  BY <1>6, LimitsAssumption
     DEF ReplanInv, ReplanBudget, Replan, ReplanOk, ReplanEmpty,
         ReplanFails, Superstep
<1>7. CASE RecursionLimitReached
  BY <1>7, LimitsAssumption
     DEF ReplanInv, ReplanBudget, RecursionLimitReached, Nodes
<1>8. CASE UNCHANGED vars
  BY <1>8 DEF ReplanInv, ReplanBudget, vars
<1> QED
  BY <1>1, <1>2, <1>3, <1>4, <1>5, <1>6, <1>7, <1>8 DEF Next, Finished

\* One superstep per node, one iteration per act at least.
LEMMA NextSuperstepInv ==
    TypeInv /\ SuperstepInv /\ [Next]_vars => SuperstepInv'
<1> SUFFICES ASSUME TypeInv, SuperstepInv, [Next]_vars
             PROVE  SuperstepInv'
  OBVIOUS
<1> USE DEF TypeInv, TypeOK, ControlType, CounterType, planVars, trackVars, actVars,
            verifyVars
<1>1. CASE Plan
  BY <1>1, LimitsAssumption DEF SuperstepInv, Plan, PlanOk, PlanFails, Superstep
<1>2. CASE Observe
  BY <1>2, LimitsAssumption
     DEF SuperstepInv, Observe, ObserveOk, ObserveFails, Superstep
<1>3. CASE Think
  BY <1>3, LimitsAssumption
     DEF SuperstepInv, Think, ThinkOk, ThinkFails, Superstep
<1>4. CASE Act
  BY <1>4, LimitsAssumption
     DEF SuperstepInv, Act, ActSkipped, ActOk, ActFails, Superstep
<1>5. CASE Verify
  BY <1>5, LimitsAssumption
     DEF SuperstepInv, RunningInv, Verify, VerifyIterationLimit,
         VerifyAlreadyDone, VerifyLoopStop, VerifyTooManyErrors, VerifyRecover,
         VerifyProgress, Superstep, RouteAfterVerify
<1>6. CASE Replan
  BY <1>6, LimitsAssumption
     DEF SuperstepInv, Replan, ReplanOk, ReplanEmpty, ReplanFails,
         Superstep
<1>7. CASE RecursionLimitReached
  BY <1>7, LimitsAssumption DEF SuperstepInv, RecursionLimitReached, Nodes
<1>8. CASE UNCHANGED vars
  BY <1>8 DEF SuperstepInv, vars
<1> QED
  BY <1>1, <1>2, <1>3, <1>4, <1>5, <1>6, <1>7, <1>8 DEF Next, Finished

\* The supersteps are bounded by the iterations and the replans.
LEMMA SuperstepInvariant == Spec => [](TypeInv /\ ReplanInv /\ SuperstepInv)
<1>1. Init => TypeInv /\ ReplanInv /\ SuperstepInv
  BY InitTypeInv, LimitsAssumption DEF Init, ReplanInv, ReplanBudget, SuperstepInv
<1>2. TypeInv /\ ReplanInv /\ SuperstepInv /\ [Next]_vars
        => TypeInv' /\ ReplanInv' /\ SuperstepInv'
  BY NextTypeInv, NextReplanInv, NextSuperstepInv
<1> QED
  BY <1>1, <1>2, PTL DEF Spec

\* Whatever asks for a new plan, replan runs at most MAX_REPLANS times.
THEOREM ReplanBudgetHolds == Spec => []ReplanBudget
BY SuperstepInvariant, PTL DEF ReplanInv

\* With MaxSupersteps supersteps allowed (88 for the limits of the code) LangGraph
\* never cuts a run short, whatever the LLM answers and the browser does.
THEOREM NeverRaisesHolds ==
    ASSUME RecursionLimit >= MaxSupersteps
    PROVE  Spec => []NeverRaises
<1>1. Init => NeverRaises
  BY DEF Init, NeverRaises
<1>2. ASSUME TypeInv, ReplanInv, SuperstepInv, NeverRaises, [Next]_vars
      PROVE  NeverRaises'
  <2> USE DEF TypeInv, TypeOK, CounterType, NeverRaises
  <2>1. CASE RecursionLimitReached
    <3>1. superstep <= 4 * MAX_LOOP_ITERATIONS + replan_count + 4
      BY <1>2, <2>1, LimitsAssumption DEF RecursionLimitReached, Nodes, SuperstepInv
    <3>2. replan_count <= MAX_REPLANS
      BY <1>2 DEF ReplanInv, ReplanBudget
    <3>3. superstep = RecursionLimit
      BY <2>1 DEF RecursionLimitReached
    <3> QED
      BY <1>2, <3>1, <3>2, <3>3, LimitsAssumption DEF MaxSupersteps
  <2>2. CASE Plan \/ Observe \/ Think \/ Act \/ Replan
    BY <2>2 DEF Plan, Observe, Think, Act, Replan
  <2>3. CASE Verify
    BY <2>3 DEF Verify, RouteAfterVerify
  <2>4. CASE Finished \/ UNCHANGED vars
    BY <1>2, <2>4 DEF Finished, vars
  <2> QED
    BY <1>2, <2>1, <2>2, <2>3, <2>4 DEF Next
<1> QED
  BY <1>1, <1>2, SuperstepInvariant, PTL DEF Spec

(***************************************************************************)
(* AgentLoop implements NodeStream                                         *)
(***************************************************************************)

\* Every superstep is a step of the abstract stream; the LLM, the browser and the
\* bookkeeping of the nodes are invisible in it.
THEOREM StreamRefinement == Spec => ImplementsStream
<1> USE DEF Stream!RunNode, Stream!Raise, Stream!streamVars, Stream!Nodes, Outcome
<1>1. Init => Stream!StreamInit
  BY DEF Init, Stream!StreamInit
<1>2. ASSUME TypeInv, ReplanInv, [Next]_vars
      PROVE  [Stream!RunNode \/ Stream!Raise]_Stream!streamVars
  <2>1. CASE Plan
    BY <2>1 DEF Plan, Superstep, Stream!RunStraight, Stream!Edge
  <2>2. CASE Observe
    BY <2>2 DEF Observe, Superstep, planVars, Stream!RunStraight, Stream!Edge
  <2>3. CASE Think
    BY <2>3 DEF Think, Superstep, Stream!RunStraight, Stream!Edge
  <2>4. CASE Act
    BY <2>4 DEF Act, Superstep, planVars, Stream!RunStraight, Stream!Edge
  <2>5. CASE Verify
    <3>1. node = "verify" /\ UNCHANGED replan_count
      BY <2>5 DEF Verify, Superstep
    <3>2. node' \in {"END", "observe", "replan"}
      BY <2>5 DEF Verify, RouteAfterVerify
    <3>3. node' = "replan" => ShouldReplan'
      BY <2>5 DEF Verify, RouteAfterVerify
    <3>4. node' = "replan" => replan_count < MAX_REPLANS
      BY <3>1, <3>3 DEF ShouldReplan
    <3>5. CASE node' = "END"
      BY <3>1, <3>5 DEF Stream!VerifyEnds
    <3>6. CASE node' # "END"
      BY <3>1, <3>2, <3>4, <3>6 DEF Stream!VerifyContinues
    <3> QED
      BY <3>5, <3>6
  <2>6. CASE Replan
    BY <2>6 DEF Replan, Superstep, Stream!RunReplan
  <2>7. CASE RecursionLimitReached
    BY <2>7 DEF RecursionLimitReached, Nodes, planVars
  <2>8. CASE UNCHANGED vars
    BY <2>8 DEF vars, planVars
  <2> QED
    BY <1>2, <2>1, <2>2, <2>3, <2>4, <2>5, <2>6, <2>7, <2>8 DEF Next, Finished
<1> QED
  BY <1>1, <1>2, SuperstepInvariant, PTL
     DEF Spec, ImplementsStream, Stream!StreamSpec

(***************************************************************************)
(* Repetitions and the active step, with the history variables             *)
(***************************************************************************)

\* The last n entries of a history are action a.
LastAre(h, n, a) ==
    n <= Len(h) /\ \A i \in (Len(h) - n + 1) .. Len(h) : h[i] = a

\* The history verify keeps has every execution in a row but, until verify has run,
\* the last; and a run that goes on is short of the limit.
RepeatInv ==
    /\ repeats \in 0 .. LOOP_STOP_THRESHOLD
    /\ node \notin {"verify", "END", "raised"} =>
           repeats < LOOP_STOP_THRESHOLD /\ LastAre(action_history, repeats, executed)
    /\ node = "verify" /\ ~is_done /\ last_action = NoAction =>
           repeats < LOOP_STOP_THRESHOLD /\ LastAre(action_history, repeats, executed)
    /\ node = "verify" /\ ~is_done /\ last_action # NoAction =>
           /\ executed = last_action
           /\ repeats >= 1
           /\ LastAre(action_history, repeats - 1, executed)

\* One more entry makes the row one longer, trimmed or not.
LEMMA UpdateLengthensRow ==
    ASSUME NEW h \in Seq(Actions), Len(h) <= ACTION_HISTORY_MAX, NEW a \in Actions,
           NEW n \in 1 .. LOOP_STOP_THRESHOLD, LastAre(h, n - 1, a)
    PROVE  LastAre(UpdateActionHistory(h, a), n, a)
<1> DEFINE longer == Append(h, a)
<1>0. a # NoAction /\ Len(h) \in Nat /\ n \in Nat /\ LOOP_STOP_THRESHOLD \in Nat
      /\ ACTION_HISTORY_MAX \in Nat /\ LOOP_STOP_THRESHOLD <= ACTION_HISTORY_MAX
  BY LimitsAssumption, HistoryAssumption, LenProperties
<1>1. longer \in Seq(Actions) /\ Len(longer) = Len(h) + 1
  BY AppendProperties
<1>2. \A i \in 1 .. Len(h) : longer[i] = h[i]
  BY AppendProperties
<1>3. longer[Len(h) + 1] = a
  BY AppendProperties
<1> HIDE DEF longer
<1>4. LastAre(longer, n, a)
  BY <1>0, <1>1, <1>2, <1>3 DEF LastAre
<1>5. CASE Len(longer) <= ACTION_HISTORY_MAX
  BY <1>0, <1>4, <1>5 DEF UpdateActionHistory, longer
<1>6. CASE Len(longer) > ACTION_HISTORY_MAX
  <2> DEFINE m == Len(longer) - ACTION_HISTORY_MAX + 1
             kept == SubSeq(longer, m, Len(longer))
  <2>1. m = 2 /\ Len(longer) = ACTION_HISTORY_MAX + 1
    BY <1>0, <1>1, <1>6
  <2>2. \A i \in m .. Len(longer) : longer[i] \in Actions
    BY <1>1, <2>1, ElementOfSeq, LenProperties
  <2>3. m \in Int /\ Len(longer) \in Int /\ m <= Len(longer)
    BY <1>0, <1>1, <2>1
  <2>4. Len(kept) = Len(longer) - m + 1
    BY <2>2, <2>3, SubSeqProperties
  <2>5. \A i \in 1 .. (Len(longer) - m + 1) : kept[i] = longer[m + i - 1]
    BY <2>2, <2>3, SubSeqProperties
  <2>6. UpdateActionHistory(h, a) = kept
    BY <1>0, <1>6 DEF UpdateActionHistory, longer
  <2> HIDE DEF kept
  <2>7. Len(kept) = ACTION_HISTORY_MAX /\ n <= Len(kept)
    BY <1>0, <2>1, <2>4
  <2>8. ASSUME NEW i \in (Len(kept) - n + 1) .. Len(kept)
        PROVE  kept[i] = a
    <3>1. i \in 1 .. (Len(longer) - m + 1) /\ m + i - 1 = i + 1
      BY <1>0, <2>1, <2>7
    <3>2. i + 1 \in (Len(longer) - n + 1) .. Len(longer)
      BY <1>0, <2>1, <2>7
    <3>3. longer[i + 1] = a
      BY <1>4, <3>2 DEF LastAre
    <3> QED
      BY <2>5, <3>1, <3>3
  <2> QED
    BY <2>6, <2>7, <2>8 DEF LastAre
<1> QED
  BY <1>0, <1>1, <1>5, <1>6

\* A row as long as the limit is what the detector stops at.
LEMMA FullRowStops ==
    ASSUME NEW h \in Seq(Actions), NEW a, LastAre(h, LOOP_STOP_THRESHOLD, a)
    PROVE  DetectLoop(h) = "stop"
BY HistoryAssumption, LenProperties DEF LastAre, DetectLoop, RepeatsLast

\* verify lets a run go on only with a row that is short of the limit.
LEMMA GoingOnIsShort ==
    ASSUME SequenceType, ControlType, RepeatInv, node = "verify", ~is_done,
           LoopState # "stop"
    PROVE  repeats < LOOP_STOP_THRESHOLD /\ LastAre(NewHistory, repeats, executed)
<1>1. CASE last_action = NoAction
  BY <1>1 DEF RepeatInv, NewHistory, UpdateActionHistory
<1>2. CASE last_action # NoAction
  <2>1. last_action \in Actions /\ repeats \in 1 .. LOOP_STOP_THRESHOLD
        /\ LastAre(action_history, repeats - 1, last_action)
        /\ executed = last_action
    BY <1>2 DEF RepeatInv, ControlType
  <2>2. LastAre(NewHistory, repeats, executed)
    BY <2>1, UpdateLengthensRow DEF SequenceType, NewHistory
  <2>3. NewHistory \in Seq(Actions)
    BY UpdateActionHistoryProperties DEF SequenceType, ControlType, NewHistory
  <2>4. repeats # LOOP_STOP_THRESHOLD
    BY <2>2, <2>3, FullRowStops DEF LoopState
  <2> QED
    BY <2>1, <2>2, <2>4, HistoryAssumption
<1> QED
  BY <1>1, <1>2

\* Every node keeps the row and the history together.
LEMMA RepeatStep ==
    ASSUME TypeInv, RepeatInv, [MCNext]_<<vars, ghosts>>
    PROVE  RepeatInv'
<1> USE HistoryAssumption DEF planVars, trackVars, actVars, verifyVars, ghosts
<1>1. CASE Plan /\ WatchExecutions
  BY <1>1 DEF Plan, Superstep, WatchExecutions, RepeatInv
<1>2. CASE Observe /\ WatchExecutions
  BY <1>2 DEF Observe, Superstep, WatchExecutions, RepeatInv
<1>3. CASE Think /\ WatchExecutions
  BY <1>3 DEF Think, Superstep, WatchExecutions, RepeatInv
<1>4. CASE Act /\ WatchExecutions
  <2>1. /\ node = "act" /\ node' = "verify" /\ UNCHANGED <<last_action, is_done>>
        /\ UNCHANGED action_history
    BY <1>4 DEF Act, Superstep
  <2>2. repeats \in Nat /\ repeats < LOOP_STOP_THRESHOLD
        /\ LastAre(action_history, repeats, executed)
    BY <2>1 DEF RepeatInv
  <2>3. CASE ~is_done /\ last_action # NoAction
    <3>1. executed' = last_action
          /\ repeats' = IF last_action = executed THEN repeats + 1 ELSE 1
      BY <1>4, <2>1, <2>3 DEF WatchExecutions
    <3>2. LastAre(action_history, 0, last_action)
      BY LenProperties DEF LastAre, TypeInv, TypeOK, SequenceType
    <3> QED
      BY <2>1, <2>2, <2>3, <3>1, <3>2 DEF RepeatInv
  <2>4. CASE ~(~is_done /\ last_action # NoAction)
    BY <1>4, <2>1, <2>2, <2>4 DEF RepeatInv, WatchExecutions
  <2> QED
    BY <2>3, <2>4
<1>5. CASE Verify /\ WatchExecutions
  <2>1. node = "verify" /\ node' # "verify" /\ UNCHANGED <<executed, repeats>>
    BY <1>5 DEF Verify, Superstep, RouteAfterVerify, WatchExecutions
  <2>2. repeats \in 0 .. LOOP_STOP_THRESHOLD
    BY DEF RepeatInv
  <2>3. CASE is_done'
    BY <1>5, <2>1, <2>2, <2>3 DEF Verify, RouteAfterVerify, RepeatInv
  <2>4. CASE ~is_done'
    <3>1. ~is_done /\ LoopState # "stop" /\ action_history' = NewHistory
      BY <1>5, <2>4 DEF Verify, VerifyIterationLimit, VerifyAlreadyDone,
                        VerifyLoopStop, VerifyTooManyErrors, VerifyRecover, VerifyProgress
    <3>2. repeats < LOOP_STOP_THRESHOLD /\ LastAre(NewHistory, repeats, executed)
      BY <2>1, <3>1, GoingOnIsShort DEF TypeInv, TypeOK
    <3> QED
      BY <2>1, <2>2, <3>1, <3>2 DEF RepeatInv
  <2> QED
    BY <2>3, <2>4
<1>6. CASE Replan /\ WatchExecutions
  BY <1>6 DEF Replan, Superstep, WatchExecutions, RepeatInv
<1>7. CASE RecursionLimitReached /\ WatchExecutions
  BY <1>7 DEF RecursionLimitReached, Nodes, WatchExecutions, RepeatInv
<1>8. CASE UNCHANGED vars /\ (WatchExecutions \/ UNCHANGED ghosts)
  BY <1>8 DEF vars, WatchExecutions, RepeatInv
<1> QED
  BY <1>1, <1>2, <1>3, <1>4, <1>5, <1>6, <1>7, <1>8 DEF MCNext, Next, Finished

\* The history variables only watch: what holds of every run holds here too.
LEMMA WatchedTypes == MCSpec => []TypeInv
<1>1. MCInit => TypeInv
  BY InitTypeInv DEF MCInit
<1>2. TypeInv /\ [MCNext]_<<vars, ghosts>> => TypeInv'
  BY NextTypeInv DEF MCNext
<1> QED
  BY <1>1, <1>2, PTL DEF MCSpec

\* No action is executed more often in a row than the loop detector allows, whatever
\* thinks fail and whatever is replanned in between, for every limit and history length.
THEOREM RepeatsBoundedHolds == MCSpec => []RepeatsBounded
<1>1. MCInit => RepeatInv
  BY HistoryAssumption, EmptySeq DEF MCInit, Init, RepeatInv, LastAre
<1>2. TypeInv /\ RepeatInv /\ [MCNext]_<<vars, ghosts>> => RepeatInv'
  BY RepeatStep
<1>3. RepeatInv => RepeatsBounded
  BY HistoryAssumption DEF RepeatInv, RepeatsBounded
<1> QED
  BY <1>1, <1>2, <1>3, WatchedTypes, PTL DEF MCSpec

\* The step verify has tracked is not ahead of the active one; while they agree, the
\* active step has been active since the tracked start at least.
StuckInv ==
    /\ active_since \in Nat
    /\ active_since <= iterations
    /\ node = "plan" => prev_active_subtask = -1
    /\ CurrentSubtaskIndex # -1 => prev_active_subtask <= CurrentSubtaskIndex
    /\ CurrentSubtaskIndex # -1 /\ CurrentSubtaskIndex = prev_active_subtask =>
           active_since <= subtask_start_iter

\* The steps done before the first open one can be counted.
LEMMA DonePrefixIsCounted ==
    ASSUME NEW tasks \in Seq(BOOLEAN)
    PROVE  Cardinality({i \in 1 .. Len(tasks) : \A j \in 1 .. i : tasks[j]}) \in Nat
<1> DEFINE prefix == {i \in 1 .. Len(tasks) : \A j \in 1 .. i : tasks[j]}
<1>1. IsFiniteSet(1 .. Len(tasks)) /\ prefix \in SUBSET (1 .. Len(tasks))
  BY FS_Interval, LenProperties
<1> QED
  BY <1>1, FS_Subset, FS_CardinalityType

\* Closing the active step never moves the plan back.
LEMMA StepDoneMovesOn ==
    ASSUME subtasks \in Seq(BOOLEAN), subtasks' = StepDone(subtasks),
           CurrentSubtaskIndex' # -1
    PROVE  CurrentSubtaskIndex # -1 /\ CurrentSubtaskIndex <= CurrentSubtaskIndex'
<1> DEFINE I == 1 .. Len(subtasks)
           before == {i \in I : \A j \in 1 .. i : subtasks[j]}
           after == {i \in I : \A j \in 1 .. i : subtasks'[j]}
<1>1. Len(subtasks) \in Nat
  BY LenProperties
<1>2. subtasks' = [i \in I |-> subtasks[i] \/ \A j \in 1 .. (i - 1) : subtasks[j]]
  BY DEF StepDone
<1>3. Len(subtasks') = Len(subtasks)
  BY <1>1, <1>2, StepDoneType, LenProperties
<1>4. \A i \in I : subtasks[i] => subtasks'[i]
  BY <1>2
<1>5. ~\A i \in I : subtasks'[i]
  BY <1>3 DEF CurrentSubtaskIndex
<1>6. before \subseteq after
  BY <1>1, <1>4
<1>7. IsFiniteSet(I) /\ after \in SUBSET I
  BY <1>1, FS_Interval
<1>8. IsFiniteSet(after)
  BY <1>7, FS_Subset
<1>9. Cardinality(before) <= Cardinality(after)
  BY <1>6, <1>8, FS_Subset
<1>10. CurrentSubtaskIndex = Cardinality(before)
  BY <1>4, <1>5 DEF CurrentSubtaskIndex
<1>11. CurrentSubtaskIndex' = Cardinality(after)
  BY <1>3, <1>5 DEF CurrentSubtaskIndex
<1>12. Cardinality(before) \in Nat
  BY <1>6, <1>8, FS_Subset, FS_CardinalityType
<1> QED
  BY <1>9, <1>10, <1>11, <1>12

\* A step that leaves the plan alone leaves the active step alone.
LEMMA SamePlanSameStep ==
    ASSUME UNCHANGED subtasks
    PROVE  CurrentSubtaskIndex' = CurrentSubtaskIndex
BY DEF CurrentSubtaskIndex

\* Every node keeps the clock of the active step.
LEMMA StuckStep ==
    ASSUME TypeInv, TypeInv', StuckInv, [MCNext]_<<vars, ghosts>>
    PROVE  StuckInv'
<1> USE DEF planVars, trackVars, actVars, verifyVars, ghosts
<1> DEFINE idx == CurrentSubtaskIndex
<1>1. /\ iterations \in Nat /\ iterations' \in Nat /\ subtask_start_iter \in Nat
      /\ prev_active_subtask \in Int /\ active_since \in Nat
      /\ subtasks \in Seq(BOOLEAN) /\ subtasks' \in Seq(BOOLEAN)
  BY DEF TypeInv, TypeOK, CounterType, SequenceType, StuckInv
<1>2. idx \in Int /\ (idx # -1 => idx \in Nat)
  BY <1>1, CurrentSubtaskIndexType, DonePrefixIsCounted DEF CurrentSubtaskIndex
<1>3. idx' # -1 => idx' \in Nat
  BY <1>1, DonePrefixIsCounted DEF CurrentSubtaskIndex
<1>4. CASE Plan /\ WatchActiveStep
  BY <1>1, <1>2, <1>3, <1>4 DEF Plan, Superstep, StuckInv, WatchActiveStep
<1>5. CASE Observe /\ WatchActiveStep
  <2>1. iterations <= iterations'
    BY <1>1, <1>5 DEF Observe, ObserveOk, ObserveFails
  <2> QED
    BY <1>1, <1>5, <2>1, SamePlanSameStep DEF Observe, Superstep, StuckInv, WatchActiveStep
<1>6. CASE Think /\ WatchActiveStep
  <2>1. subtasks' = subtasks \/ subtasks' = StepDone(subtasks)
    BY <1>6 DEF Think, ThinkOk, ThinkFails
  <2>2. idx' = idx \/ (idx' # -1 => idx # -1 /\ idx <= idx')
    BY <1>1, <2>1, StepDoneMovesOn, SamePlanSameStep
  <2>3. /\ node = "think" /\ node' = "act"
        /\ UNCHANGED <<iterations, subtask_start_iter, prev_active_subtask>>
    BY <1>6 DEF Think, Superstep
  <2> HIDE DEF idx
  <2> QED
    BY <1>1, <1>2, <1>3, <1>6, <2>2, <2>3 DEF StuckInv, WatchActiveStep, idx
<1>7. CASE Act /\ WatchActiveStep
  BY <1>1, <1>7, SamePlanSameStep DEF Act, Superstep, StuckInv, WatchActiveStep
<1>8. CASE Verify /\ WatchActiveStep
  <2>1. node = "verify" /\ node' # "plan" /\ UNCHANGED <<subtasks, iterations>>
    BY <1>8 DEF Verify, Superstep, RouteAfterVerify
  <2>2. idx' = idx /\ active_since' = active_since
    BY <1>8, <2>1, SamePlanSameStep DEF WatchActiveStep
  <2>3. UNCHANGED trackVars \/ TrackSubtask
    BY <1>8 DEF Verify, VerifyIterationLimit, VerifyAlreadyDone, VerifyLoopStop,
                VerifyTooManyErrors, VerifyRecover, VerifyProgress
  <2>4. \/ prev_active_subtask' = prev_active_subtask
           /\ subtask_start_iter' = subtask_start_iter
        \/ prev_active_subtask' = idx
           /\ subtask_start_iter' = IF idx # prev_active_subtask THEN iterations
                                    ELSE subtask_start_iter
    BY <2>3 DEF TrackSubtask, TrackedStart
  <2> QED
    BY <1>1, <1>2, <2>1, <2>2, <2>4 DEF StuckInv
<1>9. CASE Replan /\ WatchActiveStep
  <2>1. node = "replan" /\ node' = "observe" /\ UNCHANGED iterations
    BY <1>9 DEF Replan, Superstep
  <2>2. CASE ReplanOk
    BY <1>1, <1>3, <1>9, <2>1, <2>2 DEF ReplanOk, StuckInv, WatchActiveStep
  <2>3. CASE ~ReplanOk
    <3>1. UNCHANGED <<subtasks, trackVars>>
      BY <1>9, <2>3 DEF Replan, ReplanEmpty, ReplanFails
    <3> QED
      BY <1>9, <2>1, <2>3, <3>1, SamePlanSameStep DEF StuckInv, WatchActiveStep
  <2> QED
    BY <2>2, <2>3
<1>10. CASE RecursionLimitReached /\ WatchActiveStep
  BY <1>10, SamePlanSameStep DEF RecursionLimitReached, StuckInv, WatchActiveStep
<1>11. CASE UNCHANGED vars /\ (WatchActiveStep \/ UNCHANGED ghosts)
  BY <1>11, SamePlanSameStep DEF vars, StuckInv, WatchActiveStep
<1> QED
  BY <1>4, <1>5, <1>6, <1>7, <1>8, <1>9, <1>10, <1>11 DEF MCNext, Next, Finished

\* Whenever verify asks for a replan of its own accord, one step of one plan has been
\* active for as long as the threshold says, for every threshold from one on.
THEOREM StuckIsRealHolds == MCSpec => StuckIsReal
<1>1. MCInit => StuckInv
  BY DEF MCInit, Init, StuckInv, CurrentSubtaskIndex
<1>2. TypeInv /\ TypeInv' /\ StuckInv /\ [MCNext]_<<vars, ghosts>> => StuckInv'
  BY StuckStep
<1>3. TypeInv /\ StuckInv /\ [MCNext]_<<vars, ghosts>> =>
        [node = "verify" /\ ~plan_stale /\ plan_stale' =>
            iterations - active_since >= SUBTASK_STUCK_ITER_THRESHOLD]_<<vars, ghosts>>
  <2> SUFFICES ASSUME TypeInv, StuckInv, MCNext, node = "verify", ~plan_stale, plan_stale'
               PROVE  iterations - active_since >= SUBTASK_STUCK_ITER_THRESHOLD
    OBVIOUS
  <2>1. Verify
    BY DEF MCNext, Next, Plan, Observe, Think, Act, Replan, Superstep,
           RecursionLimitReached, Finished, planVars, vars
  <2>2. Stuck
    BY <2>1 DEF Verify, VerifyIterationLimit, VerifyAlreadyDone, VerifyLoopStop,
                VerifyTooManyErrors, VerifyRecover, VerifyProgress, TrackSubtask
  <2> QED
    BY <2>2, LimitsAssumption DEF Stuck, TrackedStart, StuckInv, TypeInv, TypeOK, CounterType
<1> QED
  BY <1>1, <1>2, <1>3, WatchedTypes, PTL DEF MCSpec, StuckIsReal

(***************************************************************************)
(* What is reported of a run                                               *)
(***************************************************************************)

Items == [step : Nat, action : Actions]

\* ui is a record of three fields.
UiRecord ==
    ui = [iteration |-> ui.iteration, active |-> ui.active, thought |-> ui.thought]

ReportType ==
    /\ iterations \in Nat
    /\ history_items \in Seq(Items)
    /\ UiRecord
    /\ ui.iteration \in Nat

\* No decision is younger than the iteration count; only between think and act,
\* or in a run that raised there, can one be as old.
LabelsPast ==
    \A i \in DOMAIN history_items :
        /\ history_items[i].step <= iterations
        /\ node \notin {"act", "raised"} => history_items[i].step < iterations

\* The client shows the decision act is given, the last one kept.
ThoughtShown ==
    /\ ui.thought = last_action
    /\ history_items # << >> => history_items[Len(history_items)].action = last_action

\* What the runner remembers having sent is what the client shows.
ActiveSent ==
    /\ prev_active # -1 => ui.active = prev_active
    /\ node = "plan" => prev_active = -1

ReportInv ==
    /\ ReportType
    /\ LabelsPast
    /\ StepLabelsDistinct
    /\ ThoughtShown
    /\ ui.iteration <= iterations
    /\ ActiveSent

steps == <<vars, report>>

\* The events of a plan reset the active step and nothing else.
LEMMA ReducePlan ==
    ASSUME UiRecord, NEW E, E.type \in {"plan.created", "plan.replanned"}
    PROVE  ReduceAll(ui, <<E>>) =
             [iteration |-> ui.iteration, active |-> 0, thought |-> ui.thought]
BY DEF ReduceAll, Reduce, UiRecord

\* The events of a step without a decision set the counter and nothing else.
LEMMA ReduceStep ==
    ASSUME UiRecord, NEW E,
           E.type \in {"step.observed", "step.acted", "step.verified"}
    PROVE  ReduceAll(ui, <<E>>) =
             [iteration |-> E.iteration, active |-> ui.active, thought |-> ui.thought]
BY DEF ReduceAll, Reduce, UiRecord

\* step.thinking sets the counter and the decision shown.
LEMMA ReduceThinking ==
    ASSUME UiRecord, NEW E, E.type = "step.thinking"
    PROVE  ReduceAll(ui, <<E>>) =
             [iteration |-> E.iteration, active |-> ui.active, thought |-> E.action]
BY DEF ReduceAll, Reduce, UiRecord

\* step.verified, and the active step that may follow it.
LEMMA ReduceVerified ==
    ASSUME UiRecord, NEW E, E.type = "step.verified",
           NEW F, F.type = "subtask.activated"
    PROVE  ReduceAll(ui, <<E, F>>) =
             [iteration |-> E.iteration, active |-> F.index, thought |-> ui.thought]
BY DEF ReduceAll, Reduce, UiRecord

\* When the count does not fall, and rises after a decision, the labels stay in
\* the past.
LEMMA LabelsKept ==
    ASSUME ReportType, LabelsPast, StepLabelsDistinct,
           UNCHANGED history_items,
           iterations' \in Nat, iterations' >= iterations,
           node \notin {"act", "raised"} \/ iterations' > iterations
    PROVE  LabelsPast' /\ StepLabelsDistinct'
<1>1. ASSUME NEW i \in DOMAIN history_items
      PROVE  history_items[i].step < iterations'
  <2>1. history_items[i] \in Items
    BY DEF ReportType
  <2>2. history_items[i].step \in Nat /\ iterations \in Nat
    BY <2>1 DEF ReportType, Items
  <2>3. /\ history_items[i].step <= iterations
        /\ node \notin {"act", "raised"} => history_items[i].step < iterations
    BY DEF LabelsPast
  <2> QED
    BY <2>2, <2>3
<1>2. ASSUME NEW i \in DOMAIN history_items
      PROVE  history_items[i].step <= iterations'
  <2>1. history_items[i] \in Items
    BY DEF ReportType
  <2>2. history_items[i].step \in Nat
    BY <2>1 DEF Items
  <2> QED
    BY <2>2, <1>1
<1> QED
  BY <1>1, <1>2 DEF LabelsPast, StepLabelsDistinct

\* The runner starts with nothing sent and the client with nothing shown.
LEMMA InitReport == ReportInit => ReportInv
BY DEF ReportInit, Init, ReportInv, ReportType, UiRecord, LabelsPast, StepLabelsDistinct,
       ThoughtShown, ActiveSent, Items

\* The plan comes first: the client marks its first step, the runner none yet.
LEMMA PlanStep ==
    ASSUME ReportInv, PlanReported
    PROVE  ReportInv' /\ ui'.iteration = ui.iteration
<1>1. /\ node = "plan" /\ node' = "observe"
      /\ UNCHANGED <<iterations, last_action, history_items, prev_active>>
  BY DEF PlanReported, Plan, Superstep
<1>2. ui' = [iteration |-> ui.iteration, active |-> 0, thought |-> ui.thought]
  BY ReducePlan DEF PlanReported, Publish, PlanEvent, ReportInv, ReportType
<1> QED
  BY <1>1, <1>2 DEF ReportInv, ReportType, UiRecord, LabelsPast, StepLabelsDistinct,
                    ThoughtShown, ActiveSent

\* An observation counts an iteration or leaves the count; it is what is shown.
LEMMA ObserveStep ==
    ASSUME ReportInv, ObserveReported
    PROVE  ReportInv' /\ ui'.iteration >= ui.iteration
<1>1. /\ node = "observe" /\ node' = "think"
      /\ iterations' \in Nat /\ iterations' >= iterations
      /\ UNCHANGED <<last_action, history_items, prev_active>>
  BY DEF ObserveReported, Observe, Superstep, ObserveOk, ObserveFails, ReportInv, ReportType
<1>2. ui' = [iteration |-> iterations', active |-> ui.active, thought |-> ui.thought]
  BY ReduceStep DEF ObserveReported, Publish, StepObserved, ReportInv, ReportType
<1>3. LabelsPast' /\ StepLabelsDistinct'
  BY <1>1, LabelsKept DEF ReportInv
<1> QED
  BY <1>1, <1>2, <1>3 DEF ReportInv, ReportType, UiRecord, ThoughtShown, ActiveSent

\* think got an answer: it is kept, shown, and younger than all before it.
LEMMA ThinkOkStep ==
    ASSUME ReportInv, ThinkReported, error' # "think"
    PROVE  ReportInv' /\ ui'.iteration >= ui.iteration
<1> DEFINE item == [step |-> iterations, action |-> last_action']
           n == Len(history_items)
<1>1. /\ node = "think" /\ node' = "act"
      /\ last_action' \in Actions /\ error' = "none"
      /\ UNCHANGED <<iterations, prev_active>>
  BY DEF ThinkReported, Think, Superstep, ThinkOk, ThinkFails
<1>2. history_items' = Append(history_items, item)
  BY <1>1 DEF ThinkReported, NewHistoryItems
<1>3. item \in Items /\ history_items \in Seq(Items) /\ n \in Nat
  BY <1>1 DEF ReportInv, ReportType, Items
<1>4. /\ history_items' \in Seq(Items) /\ history_items' # << >>
      /\ Len(history_items') = n + 1 /\ history_items'[n + 1] = item
      /\ DOMAIN history_items = 1 .. n /\ DOMAIN history_items' = 1 .. (n + 1)
      /\ \A i \in 1 .. n : history_items'[i] = history_items[i]
  BY <1>2, <1>3
<1>5. published' = <<[type |-> "step.thinking", iteration |-> iterations,
                      action |-> last_action']>>
  BY <1>4 DEF ThinkReported, Publish, StepThinking
<1>6. ui' = [iteration |-> iterations, active |-> ui.active, thought |-> last_action']
  BY <1>5, ReduceThinking DEF ThinkReported, Publish, ReportInv, ReportType
<1>7. \A i \in 1 .. n : history_items[i] \in Items /\ history_items[i].step < iterations
  BY <1>1, <1>3, <1>4 DEF ReportInv, LabelsPast
<1>8. LabelsPast'
  <2> SUFFICES ASSUME NEW i \in 1 .. (n + 1)
               PROVE  history_items'[i].step <= iterations
    BY <1>1, <1>4 DEF LabelsPast
  <2>1. CASE i = n + 1
    BY <2>1, <1>4 DEF ReportInv, ReportType
  <2>2. CASE i \in 1 .. n
    BY <2>2, <1>4, <1>7 DEF Items, ReportInv, ReportType
  <2> QED
    BY <2>1, <2>2, <1>3
<1>9. StepLabelsDistinct'
  <2> SUFFICES ASSUME NEW i \in 1 .. (n + 1), NEW j \in 1 .. (n + 1), i < j
               PROVE  history_items'[i].step < history_items'[j].step
    BY <1>4 DEF StepLabelsDistinct
  <2>1. i \in 1 .. n /\ history_items'[i] = history_items[i]
    BY <1>3, <1>4
  <2>2. CASE j = n + 1
    BY <2>1, <2>2, <1>4, <1>7
  <2>3. CASE j \in 1 .. n
    BY <2>1, <2>3, <1>4 DEF ReportInv, StepLabelsDistinct
  <2> QED
    BY <2>2, <2>3, <1>3
<1> QED
  BY <1>1, <1>4, <1>6, <1>8, <1>9
  DEF ReportInv, ReportType, UiRecord, ThoughtShown, ActiveSent

\* think's answer was refused: the last decision kept is shown again.
LEMMA ThinkFailsStep ==
    ASSUME ReportInv, ThinkReported, error' = "think"
    PROVE  ReportInv'
<1>1. /\ node = "think" /\ node' = "act"
      /\ UNCHANGED <<iterations, last_action, history_items, prev_active>>
  BY DEF ThinkReported, Think, Superstep, ThinkOk, ThinkFails, NewHistoryItems
<1>2. LabelsPast' /\ StepLabelsDistinct'
  BY <1>1 DEF ReportInv, LabelsPast, StepLabelsDistinct
<1>3. CASE history_items = << >>
  <2>1. ui' = ui
    BY <1>1, <1>3 DEF ThinkReported, Publish, StepThinking, ReduceAll
  <2> QED
    BY <1>1, <1>2, <2>1 DEF ReportInv, ReportType, UiRecord, ThoughtShown, ActiveSent
<1>4. CASE history_items # << >>
  <2> DEFINE last == history_items[Len(history_items)]
  <2>1. published' = <<[type |-> "step.thinking", iteration |-> last.step,
                        action |-> last.action]>>
    BY <1>1, <1>4 DEF ThinkReported, Publish, StepThinking
  <2>2. ui' = [iteration |-> last.step, active |-> ui.active, thought |-> last.action]
    BY <2>1, ReduceThinking DEF ThinkReported, Publish, ReportInv, ReportType
  <2>3. Len(history_items) \in DOMAIN history_items /\ last \in Items
    BY <1>4 DEF ReportInv, ReportType
  <2>4. last.step \in Nat /\ last.step <= iterations
    BY <2>3 DEF ReportInv, LabelsPast, Items
  <2>5. last.action = last_action
    BY <1>4 DEF ReportInv, ThoughtShown
  <2> QED
    BY <1>1, <1>2, <2>2, <2>4, <2>5
    DEF ReportInv, ReportType, UiRecord, ThoughtShown, ActiveSent
<1> QED
  BY <1>3, <1>4

\* Whatever act does, it counts an iteration: every decision is in the past now.
LEMMA ActStep ==
    ASSUME ReportInv, ActReported
    PROVE  ReportInv' /\ ui'.iteration >= ui.iteration
<1>1. /\ node = "act" /\ node' = "verify"
      /\ iterations \in Nat /\ iterations' = iterations + 1
      /\ UNCHANGED <<last_action, history_items, prev_active>>
  BY DEF ActReported, Act, Superstep, ReportInv, ReportType
<1>2. ui' = [iteration |-> iterations', active |-> ui.active, thought |-> ui.thought]
  BY ReduceStep DEF ActReported, Publish, StepActed, ReportInv, ReportType
<1>3. LabelsPast' /\ StepLabelsDistinct'
  BY <1>1, LabelsKept DEF ReportInv
<1> QED
  BY <1>1, <1>2, <1>3 DEF ReportInv, ReportType, UiRecord, ThoughtShown, ActiveSent

\* verify changes neither count nor plan; a step newly active is remembered and
\* shown together.
LEMMA VerifyStep ==
    ASSUME ReportInv, VerifyReported
    PROVE  /\ ReportInv' /\ ui'.iteration >= ui.iteration
           /\ CurrentSubtaskIndex # -1 => ui'.active = CurrentSubtaskIndex
<1>1. /\ node = "verify" /\ node' \in {"END", "replan", "observe"}
      /\ iterations \in Nat
      /\ UNCHANGED <<iterations, last_action, history_items>>
  BY DEF VerifyReported, Verify, Superstep, RouteAfterVerify, ReportInv, ReportType
<1>2. LabelsPast' /\ StepLabelsDistinct'
  BY <1>1 DEF ReportInv, LabelsPast, StepLabelsDistinct
<1> DEFINE E == StepVerified'
<1>3. E.type = "step.verified" /\ E.iteration = iterations
  BY <1>1 DEF StepVerified
<1>4. CASE ActiveChanged
  <2> DEFINE F == [type |-> "subtask.activated", index |-> CurrentSubtaskIndex]
  <2>1. ui' = ReduceAll(ui, <<E, F>>)
    BY <1>4 DEF VerifyReported, Publish, SubtaskActivated
  <2>2. F.type = "subtask.activated" /\ F.index = CurrentSubtaskIndex
    OBVIOUS
  <2>3. ui' = [iteration |-> iterations, active |-> CurrentSubtaskIndex,
               thought |-> ui.thought]
    <3> HIDE DEF E, F
    <3> QED
      BY <2>1, <2>2, <1>3, ReduceVerified DEF ReportInv, ReportType
  <2>4. prev_active' = CurrentSubtaskIndex
    BY <1>4 DEF VerifyReported
  <2> QED
    BY <1>1, <1>2, <2>3, <2>4 DEF ReportInv, ReportType, UiRecord, ThoughtShown, ActiveSent
<1>5. CASE ~ActiveChanged
  <2>1. ui' = ReduceAll(ui, <<E>>)
    BY <1>5 DEF VerifyReported, Publish
  <2>2. ui' = [iteration |-> iterations, active |-> ui.active, thought |-> ui.thought]
    <3> HIDE DEF E
    <3> QED
      BY <2>1, <1>3, ReduceStep DEF ReportInv, ReportType
  <2>3. prev_active' = prev_active /\ CurrentSubtaskIndex \in {-1, prev_active}
    BY <1>5 DEF VerifyReported, ActiveChanged
  <2> QED
    BY <1>1, <1>2, <2>2, <2>3 DEF ReportInv, ReportType, UiRecord, ThoughtShown, ActiveSent
<1> QED
  BY <1>4, <1>5

\* Runner and client forget the active step together.
LEMMA ReplanStep ==
    ASSUME ReportInv, ReplanReported
    PROVE  ReportInv' /\ ui'.iteration = ui.iteration
<1>1. /\ node = "replan" /\ node' = "observe" /\ prev_active' = -1
      /\ UNCHANGED <<iterations, last_action, history_items>>
  BY DEF ReplanReported, Replan, Superstep
<1>2. ui' = [iteration |-> ui.iteration, active |-> 0, thought |-> ui.thought]
  BY ReducePlan DEF ReplanReported, Publish, PlanEvent, ReportInv, ReportType
<1> QED
  BY <1>1, <1>2 DEF ReportInv, ReportType, UiRecord, LabelsPast, StepLabelsDistinct,
                    ThoughtShown, ActiveSent

\* The run has raised or ended, or nothing happens.
LEMMA QuietStep ==
    ASSUME ReportInv, Unreported \/ UNCHANGED steps
    PROVE  ReportInv' /\ UNCHANGED report
<1>1. /\ node' = node \/ node' = "raised"
      /\ UNCHANGED <<iterations, last_action, report>>
  BY DEF Unreported, RecursionLimitReached, Finished, vars, steps
<1>2. UNCHANGED <<history_items, prev_active, ui>>
  BY <1>1 DEF report
<1> QED
  BY <1>1, <1>2 DEF ReportInv, ReportType, UiRecord, LabelsPast, StepLabelsDistinct,
                    ThoughtShown, ActiveSent

\* Every node, and every dispatch of its result, keeps the invariant.
LEMMA ReportInductive == ReportInv /\ [ReportNext]_steps => ReportInv'
BY PlanStep, ObserveStep, ThinkOkStep, ThinkFailsStep, ActStep, VerifyStep, ReplanStep,
   QuietStep DEF ReportNext

\* The invariant holds throughout every run.
LEMMA ReportInvariant == ReportSpec => []ReportInv
BY InitReport, ReportInductive, PTL DEF ReportSpec, steps

\* Whatever nodes fail and whatever limits the loop has, no two decisions of a
\* run carry the same label.
THEOREM LabelsDistinct == ReportSpec => []StepLabelsDistinct
<1>1. ReportInv => StepLabelsDistinct
  BY DEF ReportInv
<1> QED
  BY <1>1, ReportInvariant, PTL

\* The client always shows the action that is about to be executed.
THEOREM ExecutesWhatIsShown == ReportSpec => []ShownActionIsExecuted
<1>1. ReportInv => ShownActionIsExecuted
  BY DEF ReportInv, ThoughtShown, ShownActionIsExecuted
<1> QED
  BY <1>1, ReportInvariant, PTL

\* Of every plan, after every verify, the client marks the active step.
THEOREM ShowsActiveStep == ReportSpec => ActiveStepShown
<1>1. ReportInv /\ [ReportNext]_steps =>
        [node = "verify" /\ superstep' # superstep /\ CurrentSubtaskIndex # -1
           => ui'.active = CurrentSubtaskIndex]_steps
  <2> SUFFICES ASSUME ReportInv, ReportNext, node = "verify", superstep' # superstep,
                      CurrentSubtaskIndex # -1
               PROVE  ui'.active = CurrentSubtaskIndex
    OBVIOUS
  <2>1. VerifyReported
    BY DEF ReportNext, PlanReported, Plan, ObserveReported, Observe, ThinkReported, Think,
           ActReported, Act, ReplanReported, Replan, Superstep, Unreported,
           RecursionLimitReached, Finished, vars
  <2> QED
    BY <2>1, VerifyStep
<1> QED
  BY <1>1, ReportInvariant, PTL DEF ReportSpec, ActiveStepShown, steps

\* The iteration shown falls only when an older decision is reported again.
THEOREM CounterFallsThen == ReportSpec => CounterFallsOnRefusedThink
<1>1. ReportInv /\ [ReportNext]_steps =>
        [ui'.iteration < ui.iteration => node = "think" /\ error' = "think"]_steps
  <2> SUFFICES ASSUME ReportInv, ReportNext, ~(node = "think" /\ error' = "think")
               PROVE  ~(ui'.iteration < ui.iteration)
    OBVIOUS
  <2>1. ui.iteration \in Nat
    BY DEF ReportInv, ReportType
  <2>2. ReportInv' /\ (ui'.iteration = ui.iteration \/ ui'.iteration >= ui.iteration)
    <3>1. ThinkReported => error' # "think"
      BY DEF ThinkReported, Think, Superstep
    <3>2. Unreported => ui' = ui
      BY DEF Unreported, report
    <3> QED
      BY <3>1, <3>2, PlanStep, ObserveStep, ThinkOkStep, ActStep, VerifyStep, ReplanStep,
         QuietStep DEF ReportNext
  <2>3. ui'.iteration \in Nat
    BY <2>2 DEF ReportInv, ReportType
  <2> QED
    BY <2>1, <2>2, <2>3
<1> QED
  BY <1>1, ReportInvariant, PTL DEF ReportSpec, CounterFallsOnRefusedThink, steps
=============================================================================
