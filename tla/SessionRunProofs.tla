--------------------------- MODULE SessionRunProofs ---------------------------
(***************************************************************************)
(* SessionRun for every number of turns, replans and requests: its types,  *)
(* its safety invariants, and that it implements SessionLifecycle; what    *)
(* SessionLifecycle promises; what the history variables of MCSessionRun   *)
(* see of a session.                                                       *)
(***************************************************************************)
EXTENDS MCSessionRun, SequenceTheorems, TLAPS

\* How far the runner has come agrees with the status.
StatusAgrees ==
    /\ pc = "created" => status = "idle"
    /\ pc \in Working => status \in {"running", "paused"}
    /\ pc \in Ending => status \in Terminal

\* pause_event is cleared only in a paused session.
PauseAgrees == pc \in {"created"} \cup Working /\ ~pause_set => status = "paused"

\* A runner about to tell of a node has one to tell of.
HoldsResult == pc \in {"blocked", "reporting"} => step \in Nodes

SessionInv ==
    /\ TypeOK /\ HoldsResult /\ StatusAgrees /\ PauseAgrees
    /\ BlockedIsPaused /\ RowFollowsSession

\* Publishing a kind of event keeps the log a log.
LEMMA PublishType ==
    ASSUME LogType, NEW kind \in Kinds, Publish(kind)
    PROVE  LogType'
BY AppendProperties DEF LogType, Publish

\* Each node's event is one of the kinds.
LEMMA KindsOfNodes == \A n \in Nodes : EventOf[n] \in Kinds
BY DEF Nodes, EventOf, Kinds

\* So are the control events and subtask.activated.
LEMMA OtherKinds ==
    /\ {"started", "paused", "resumed", "finished", "errored", "stopped"} \subseteq Kinds
    /\ "subtask.activated" \in Kinds
BY DEF Kinds, ControlKinds, Terminal

\* A graph that has ended or raised runs no node.
LEMMA GraphRunsANode == Graph!RunNode => node \in Nodes
BY DEF Graph!RunNode, Graph!RunStraight, Graph!RunReplan, Graph!VerifyContinues,
       Graph!VerifyEnds, Graph!Edge, Nodes

\* The flags stay Booleans.
LEMMA FlagTypeStep ==
    ASSUME FlagType, Next
    PROVE  FlagType'
<1>1. CASE Wake
  BY <1>1 DEF Wake, FlagType, flagVars
<1>2. CASE PauseSession
  BY <1>2 DEF PauseSession, FlagType, flagVars
<1>3. CASE ResumeSession
  BY <1>3 DEF ResumeSession, SetPauseEvent, FlagType, flagVars
<1>4. CASE StopSession
  BY <1>4 DEF StopSession, RequestStop, SetPauseEvent, FlagType, flagVars
<1>5. CASE DeleteSession
  BY <1>5 DEF DeleteSession, RequestStop, SetPauseEvent, FlagType, flagVars
<1>6. CASE RunnerStarts \/ StartPersisted \/ StartRowWritten \/ Launch \/ NodeReturns
         \/ NodeRaises \/ ActivateSubtask \/ Reported \/ GraphEnds \/ EndPersisted
         \/ EndRowWritten \/ StopBrowser \/ Evict \/ DeleteRow \/ Crash \/ Restart
         \/ Rest
  BY <1>6 DEF RunnerStarts, StartPersisted, StartRowWritten, Launch, NodeReturns,
         NodeRaises, ActivateSubtask, Reported, GraphEnds, EndPersisted, EndRowWritten,
         StopBrowser, Evict, DeleteRow, Crash, Restart, Rest, vars, FlagType, flagVars
<1> QED
  BY <1>1, <1>2, <1>3, <1>4, <1>5, <1>6 DEF Next, RunnerStep, RouteStep

\* The bounded counters stay within their bounds.
LEMMA CountTypeStep ==
    ASSUME BoundsAssumption, CountType, Next
    PROVE  CountType'
<1>1. CASE NodeReturns
  BY <1>1 DEF NodeReturns, GraphStep, CountType, BoundsAssumption, graphVars
<1>2. CASE PauseSession
  BY <1>2 DEF PauseSession, Request, CountType, BoundsAssumption, graphVars
<1>3. CASE ResumeSession
  BY <1>3 DEF ResumeSession, Request, CountType, BoundsAssumption, graphVars
<1>4. CASE StopSession
  BY <1>4 DEF StopSession, Request, RequestStop, CountType, BoundsAssumption, graphVars
<1>5. CASE DeleteSession
  BY <1>5 DEF DeleteSession, Request, RequestStop, CountType, BoundsAssumption,
         graphVars
<1>6. CASE RunnerStarts \/ StartPersisted \/ StartRowWritten \/ Launch \/ NodeRaises
         \/ Wake \/ ActivateSubtask \/ Reported \/ GraphEnds \/ EndPersisted
         \/ EndRowWritten \/ StopBrowser \/ Evict \/ DeleteRow \/ Crash \/ Restart
         \/ Rest
  BY <1>6 DEF RunnerStarts, StartPersisted, StartRowWritten, Launch, NodeRaises, Wake,
         ActivateSubtask, Reported, GraphEnds, EndPersisted, EndRowWritten, StopBrowser,
         Evict, DeleteRow, Crash, Restart, Rest, vars, CountType, BoundsAssumption,
         graphVars
<1> QED
  BY <1>1, <1>2, <1>3, <1>4, <1>5, <1>6 DEF Next, RunnerStep, RouteStep

\* The graph keeps the types NodeStream states.
LEMMA GraphTypeStep ==
    ASSUME Graph!StreamType, Next
    PROVE  Graph!StreamType'
<1>1. CASE NodeReturns
  BY <1>1 DEF NodeReturns, GraphStep, graphVars, Graph!StreamType, Graph!RunNode,
         Graph!RunStraight, Graph!RunReplan, Graph!VerifyContinues, Graph!VerifyEnds,
         Graph!Raise, Graph!Nodes, Graph!Edge
<1>2. CASE NodeRaises
  BY <1>2 DEF NodeRaises, graphVars, Graph!StreamType, Graph!RunNode, Graph!RunStraight,
         Graph!RunReplan, Graph!VerifyContinues, Graph!VerifyEnds, Graph!Raise,
         Graph!Nodes, Graph!Edge
<1>3. CASE StopSession
  BY <1>3 DEF StopSession, RequestStop, graphVars, Graph!StreamType, Graph!RunNode,
         Graph!RunStraight, Graph!RunReplan, Graph!VerifyContinues, Graph!VerifyEnds,
         Graph!Raise, Graph!Nodes, Graph!Edge
<1>4. CASE DeleteSession
  BY <1>4 DEF DeleteSession, RequestStop, graphVars, Graph!StreamType, Graph!RunNode,
         Graph!RunStraight, Graph!RunReplan, Graph!VerifyContinues, Graph!VerifyEnds,
         Graph!Raise, Graph!Nodes, Graph!Edge
<1>5. CASE RunnerStarts \/ StartPersisted \/ StartRowWritten \/ Launch \/ Wake
         \/ ActivateSubtask \/ Reported \/ GraphEnds \/ EndPersisted \/ EndRowWritten
         \/ StopBrowser \/ PauseSession \/ ResumeSession \/ Evict \/ DeleteRow
         \/ Crash \/ Restart \/ Rest
  BY <1>5 DEF RunnerStarts, StartPersisted, StartRowWritten, Launch, Wake,
         ActivateSubtask, Reported, GraphEnds, EndPersisted, EndRowWritten, StopBrowser,
         PauseSession, ResumeSession, Evict, DeleteRow, Crash, Restart, Rest, vars,
         graphVars, Graph!StreamType, Graph!RunNode, Graph!RunStraight, Graph!RunReplan,
         Graph!VerifyContinues, Graph!VerifyEnds, Graph!Raise, Graph!Nodes, Graph!Edge
<1> QED
  BY <1>1, <1>2, <1>3, <1>4, <1>5 DEF Next, RunnerStep, RouteStep

\* Every action appends an event of a known kind, or nothing.
LEMMA LogTypeStep ==
    ASSUME SessionInv, Next
    PROVE  LogType'
<1>1. CASE RunnerStarts
  BY <1>1, PublishType, OtherKinds DEF RunnerStarts, SessionInv, TypeOK, LogType
<1>2. CASE Launch
  BY <1>2, PublishType, OtherKinds DEF Launch, LaunchOk, LaunchFails, Conclude,
         SessionInv, TypeOK, LogType
<1>3. CASE NodeReturns
  BY <1>3, PublishType, KindsOfNodes, OtherKinds, GraphRunsANode DEF NodeReturns,
         GraphStep, StopFound, Block, GoOn, Dispatch, Conclude, SessionInv, TypeOK,
         LogType
<1>4. CASE NodeRaises
  BY <1>4, PublishType, OtherKinds DEF NodeRaises, Conclude, SessionInv, TypeOK, LogType
<1>5. CASE Wake
  BY <1>5, PublishType, KindsOfNodes, OtherKinds DEF Wake, StopFound, GoOn, Dispatch,
         Conclude, HoldsResult, SessionInv, TypeOK, LogType
<1>6. CASE ActivateSubtask
  BY <1>6, PublishType, OtherKinds DEF ActivateSubtask, SessionInv, TypeOK, LogType
<1>7. CASE GraphEnds
  BY <1>7, PublishType, OtherKinds DEF GraphEnds, Conclude, SessionInv, TypeOK, LogType
<1>8. CASE PauseSession
  BY <1>8, PublishType, OtherKinds DEF PauseSession, Request, SessionInv, TypeOK,
         LogType
<1>9. CASE ResumeSession
  BY <1>9, PublishType, OtherKinds DEF ResumeSession, Request, SetPauseEvent,
         SessionInv, TypeOK, LogType
<1>10. CASE StopSession
  BY <1>10 DEF StopSession, Request, RequestStop, SetPauseEvent, SessionInv, TypeOK,
         LogType
<1>11. CASE DeleteSession
  BY <1>11 DEF DeleteSession, Request, RequestStop, SetPauseEvent, SessionInv, TypeOK,
         LogType
<1>12. CASE StartPersisted \/ StartRowWritten \/ Reported \/ EndPersisted
         \/ EndRowWritten \/ StopBrowser \/ Evict \/ DeleteRow \/ Crash \/ Restart
         \/ Rest
  BY <1>12 DEF StartPersisted, StartRowWritten, Reported, EndPersisted, EndRowWritten,
         StopBrowser, Evict, DeleteRow, Crash, Restart, Rest, vars, SessionInv, TypeOK,
         LogType
<1> QED
  BY <1>1, <1>2, <1>3, <1>4, <1>5, <1>6, <1>7, <1>8, <1>9, <1>10, <1>11, <1>12
     DEF Next, RunnerStep, RouteStep

\* Every action gives the variables with a fixed range a value of their range.
LEMMA ValueTypeStep ==
    ASSUME SessionInv, Next
    PROVE  ValueType'
<1> USE DEF SessionInv, TypeOK, ValueType, OpenHandles, storeVars, Terminal, Working,
            Ending, Gone
<1>1. CASE RunnerStarts
  BY <1>1 DEF RunnerStarts
<1>2. CASE StartPersisted
  BY <1>2 DEF StartPersisted
<1>3. CASE StartRowWritten
  BY <1>3 DEF StartRowWritten, WriteRow
<1>4. CASE Launch
  BY <1>4 DEF Launch, LaunchOk, LaunchFails, Conclude
<1>5. CASE NodeReturns
  BY <1>5, GraphRunsANode DEF NodeReturns, GraphStep, StopFound, Block, GoOn, Dispatch,
         Conclude
<1>6. CASE NodeRaises
  BY <1>6 DEF NodeRaises, Conclude
<1>7. CASE Wake
  BY <1>7 DEF Wake, StopFound, GoOn, Dispatch, Conclude
<1>8. CASE ActivateSubtask
  BY <1>8 DEF ActivateSubtask
<1>9. CASE Reported
  BY <1>9 DEF Reported
<1>10. CASE GraphEnds
  BY <1>10 DEF GraphEnds, Conclude
<1>11. CASE EndPersisted
  BY <1>11 DEF EndPersisted
<1>12. CASE EndRowWritten
  BY <1>12 DEF EndRowWritten, WriteRow, StatusAgrees
<1>13. CASE StopBrowser
  BY <1>13 DEF StopBrowser
<1>14. CASE PauseSession
  BY <1>14 DEF PauseSession, Request
<1>15. CASE ResumeSession
  BY <1>15 DEF ResumeSession, Request, SetPauseEvent
<1>16. CASE StopSession
  BY <1>16 DEF StopSession, Request, RequestStop, SetPauseEvent
<1>17. CASE DeleteSession
  BY <1>17 DEF DeleteSession, Request, RequestStop, SetPauseEvent
<1>18. CASE Evict
  BY <1>18 DEF Evict
<1>19. CASE DeleteRow
  BY <1>19 DEF DeleteRow
<1>20. CASE Crash
  BY <1>20 DEF Crash
<1>21. CASE Restart
  BY <1>21 DEF Restart
<1>22. CASE Rest
  BY <1>22 DEF Rest, vars
<1> QED
  BY <1>1, <1>2, <1>3, <1>4, <1>5, <1>6, <1>7, <1>8, <1>9, <1>10, <1>11, <1>12, <1>13,
     <1>14, <1>15, <1>16, <1>17, <1>18, <1>19, <1>20, <1>21, <1>22
     DEF Next, RunnerStep, RouteStep

\* Every action keeps the status, the flags and the row in agreement with the
\* await the runner is suspended at.
LEMMA AgreementStep ==
    ASSUME SessionInv, Next
    PROVE  (/\ HoldsResult /\ StatusAgrees /\ PauseAgrees
            /\ BlockedIsPaused /\ RowFollowsSession)'
<1> USE DEF SessionInv, TypeOK, ValueType, FlagType, flagVars, storeVars, HoldsResult,
            StatusAgrees, PauseAgrees, BlockedIsPaused, RowFollowsSession, Terminal,
            Working, Ending, Gone
<1>1. CASE RunnerStarts
  BY <1>1 DEF RunnerStarts
<1>2. CASE StartPersisted
  BY <1>2 DEF StartPersisted
<1>3. CASE StartRowWritten
  BY <1>3 DEF StartRowWritten, WriteRow
<1>4. CASE Launch
  BY <1>4 DEF Launch, LaunchOk, LaunchFails, Conclude
<1>5. CASE NodeReturns
  BY <1>5, GraphRunsANode DEF NodeReturns, GraphStep, StopFound, Block, GoOn, Dispatch,
         Conclude
<1>6. CASE NodeRaises
  BY <1>6 DEF NodeRaises, Conclude
<1>7. CASE Wake
  BY <1>7 DEF Wake, StopFound, GoOn, Dispatch, Conclude
<1>8. CASE ActivateSubtask
  BY <1>8 DEF ActivateSubtask
<1>9. CASE Reported
  BY <1>9 DEF Reported
<1>10. CASE GraphEnds
  BY <1>10 DEF GraphEnds, Conclude
<1>11. CASE EndPersisted
  BY <1>11 DEF EndPersisted
<1>12. CASE EndRowWritten
  BY <1>12 DEF EndRowWritten, WriteRow
<1>13. CASE StopBrowser
  BY <1>13 DEF StopBrowser
<1>14. CASE PauseSession
  BY <1>14 DEF PauseSession, Request
<1>15. CASE ResumeSession
  BY <1>15 DEF ResumeSession, Request, SetPauseEvent
<1>16. CASE StopSession
  BY <1>16 DEF StopSession, Request, RequestStop, SetPauseEvent
<1>17. CASE DeleteSession
  BY <1>17 DEF DeleteSession, Request, RequestStop, SetPauseEvent
<1>18. CASE Evict
  BY <1>18 DEF Evict
<1>19. CASE DeleteRow
  BY <1>19 DEF DeleteRow
<1>20. CASE Crash
  BY <1>20 DEF Crash
<1>21. CASE Restart
  BY <1>21 DEF Restart
<1>22. CASE Rest
  BY <1>22 DEF Rest, vars
<1> QED
  BY <1>1, <1>2, <1>3, <1>4, <1>5, <1>6, <1>7, <1>8, <1>9, <1>10, <1>11, <1>12, <1>13,
     <1>14, <1>15, <1>16, <1>17, <1>18, <1>19, <1>20, <1>21, <1>22
     DEF Next, RunnerStep, RouteStep

\* Concluding a session that is alive is the end of its life cycle.
LEMMA ConcludeEnds ==
    ASSUME Lifecycle!Alive, NEW verdict \in Terminal, Conclude(verdict)
    PROVE  Lifecycle!End
BY DEF Conclude, Publish, Terminal, Lifecycle!End, Lifecycle!Tell, Lifecycle!Terminal,
       Lifecycle!Announces

\* Dispatching the result of a node tells of progress, or tells nothing.
LEMMA DispatchReports ==
    ASSUME Lifecycle!Alive, NEW n \in Nodes, Dispatch(n), UNCHANGED status
    PROVE  Lifecycle!Report \/ UNCHANGED <<status, log>>
BY DEF Dispatch, Publish, EventOf, Nodes, Lifecycle!Report, Lifecycle!Progress

\* A runner at work has a session that is alive.
LEMMA WorkingIsAlive ==
    ASSUME SessionInv, pc \in Working
    PROVE  Lifecycle!Alive
BY DEF SessionInv, StatusAgrees, Lifecycle!Alive

\* A step of the session is a step of its life cycle, or tells nothing.
LEMMA LifecycleStep ==
    ASSUME SessionInv, Next
    PROVE  [Lifecycle!LifecycleNext]_<<status, log>>
<1>1. CASE RunnerStarts
  BY <1>1 DEF RunnerStarts, Publish, SessionInv, StatusAgrees, Lifecycle!LifecycleNext,
         Lifecycle!Start, Lifecycle!Tell, Lifecycle!Announces, Lifecycle!Terminal
<1>2. CASE Launch
  <2>1. Lifecycle!Alive
    BY <1>2, WorkingIsAlive DEF Launch, Working
  <2> QED
    BY <1>2, <2>1, ConcludeEnds DEF Launch, LaunchOk, LaunchFails, Terminal,
           Lifecycle!LifecycleNext
<1>3. CASE NodeReturns
  <2>1. Lifecycle!Alive /\ node \in Nodes
    BY <1>3, WorkingIsAlive, GraphRunsANode DEF NodeReturns, GraphStep, Working
  <2>2. CASE StopFound
    BY <2>1, <2>2, ConcludeEnds DEF StopFound, Terminal, Lifecycle!LifecycleNext
  <2>3. CASE Block
    BY <2>3 DEF Block
  <2>4. CASE GoOn(node)
    BY <2>1, <2>4, DispatchReports DEF GoOn, Lifecycle!LifecycleNext
  <2> QED
    BY <1>3, <2>2, <2>3, <2>4 DEF NodeReturns
<1>4. CASE NodeRaises \/ GraphEnds
  <2>1. Lifecycle!Alive
    BY <1>4, WorkingIsAlive DEF NodeRaises, GraphEnds, Working
  <2> QED
    BY <1>4, <2>1, ConcludeEnds DEF NodeRaises, GraphEnds, Terminal,
           Lifecycle!LifecycleNext
<1>5. CASE Wake
  <2>1. Lifecycle!Alive /\ step \in Nodes
    BY <1>5, WorkingIsAlive DEF Wake, Working, SessionInv, HoldsResult
  <2>2. CASE StopFound
    BY <2>1, <2>2, ConcludeEnds DEF StopFound, Terminal, Lifecycle!LifecycleNext
  <2>3. CASE GoOn(step)
    BY <2>1, <2>3, DispatchReports DEF GoOn, Lifecycle!LifecycleNext
  <2> QED
    BY <1>5, <2>2, <2>3 DEF Wake
<1>6. CASE ActivateSubtask
  <2>1. Lifecycle!Alive
    BY <1>6, WorkingIsAlive DEF ActivateSubtask, Working
  <2> QED
    BY <1>6, <2>1 DEF ActivateSubtask, Publish, Lifecycle!LifecycleNext,
           Lifecycle!Report, Lifecycle!Progress
<1>7. CASE PauseSession
  BY <1>7 DEF PauseSession, Publish, Lifecycle!LifecycleNext, Lifecycle!Pause,
         Lifecycle!Alive, Lifecycle!Tell, Lifecycle!Announces, Lifecycle!Terminal
<1>8. CASE ResumeSession
  BY <1>8 DEF ResumeSession, Publish, Lifecycle!LifecycleNext, Lifecycle!Resume,
         Lifecycle!Tell, Lifecycle!Announces, Lifecycle!Terminal
<1>9. CASE StartPersisted \/ StartRowWritten \/ Reported \/ EndPersisted
        \/ EndRowWritten \/ StopBrowser \/ StopSession \/ DeleteSession \/ Evict
        \/ DeleteRow \/ Crash \/ Restart \/ Rest
  BY <1>9 DEF StartPersisted, StartRowWritten, Reported, EndPersisted, EndRowWritten,
         StopBrowser, StopSession, DeleteSession, RequestStop, Evict, DeleteRow, Crash,
         Restart, Rest, vars
<1> QED
  BY <1>1, <1>2, <1>3, <1>4, <1>5, <1>6, <1>7, <1>8, <1>9
     DEF Next, RunnerStep, RouteStep

\* A created session satisfies the invariant.
LEMMA InitInv == BoundsAssumption /\ Init => SessionInv
<1> SUFFICES ASSUME BoundsAssumption, Init PROVE SessionInv
  OBVIOUS
<1>1. ValueType
  BY DEF Init, ValueType, OpenHandles, Terminal
<1>2. FlagType
  BY DEF Init, FlagType
<1>3. CountType
  BY DEF Init, CountType, BoundsAssumption
<1>4. LogType
  BY DEF Init, LogType
<1>5. Graph!StreamType
  BY DEF Init, Graph!StreamInit, Graph!StreamType, Graph!Nodes
<1>6. HoldsResult /\ StatusAgrees /\ PauseAgrees
  BY DEF Init, HoldsResult, StatusAgrees, PauseAgrees, Working, Ending
<1>7. BlockedIsPaused /\ RowFollowsSession
  BY DEF Init, BlockedIsPaused, RowFollowsSession, Terminal
<1> QED
  BY <1>1, <1>2, <1>3, <1>4, <1>5, <1>6, <1>7 DEF SessionInv, TypeOK

\* Every step keeps it.
LEMMA InvStep == SessionInv /\ [Next]_vars => SessionInv'
<1> SUFFICES ASSUME SessionInv, [Next]_vars PROVE SessionInv'
  OBVIOUS
<1>1. CASE Next
  BY <1>1, BoundsAssumption, FlagTypeStep, CountTypeStep, GraphTypeStep, LogTypeStep,
     ValueTypeStep, AgreementStep DEF SessionInv, TypeOK
<1>2. CASE UNCHANGED vars
  <2>1. TypeOK'
    BY <1>2 DEF vars, flagVars, graphVars, storeVars, SessionInv, TypeOK, ValueType,
           FlagType, CountType, LogType, Graph!StreamType
  <2>2. (HoldsResult /\ StatusAgrees /\ PauseAgrees)'
    BY <1>2 DEF vars, flagVars, SessionInv, HoldsResult, StatusAgrees, PauseAgrees
  <2>3. (BlockedIsPaused /\ RowFollowsSession)'
    BY <1>2 DEF vars, flagVars, storeVars, SessionInv, BlockedIsPaused, RowFollowsSession
  <2> QED
    BY <2>1, <2>2, <2>3 DEF SessionInv
<1> QED
  BY <1>1, <1>2

\* The inductive invariant of a session: every variable has its type, the flags
\* agree with the await the runner is suspended at, and the row with the status.
THEOREM SessionInvariant == Spec => []SessionInv
BY BoundsAssumption, InitInv, InvStep, PTL DEF Spec

\* Types, and the order in which the browser's handles are closed.
THEOREM TypeCorrect == Spec => []TypeOK
<1>1. SessionInv => TypeOK
  BY DEF SessionInv
<1> QED
  BY <1>1, SessionInvariant, PTL

\* No wake-up is lost between the control routes and the runner.
THEOREM BlockedIsPausedHolds == Spec => []BlockedIsPaused
<1>1. SessionInv => BlockedIsPaused
  BY DEF SessionInv
<1> QED
  BY <1>1, SessionInvariant, PTL

\* A terminal status means what DELETE takes it to mean.
THEOREM TerminalEndsWorkHolds == Spec => []TerminalEndsWork
<1>1. SessionInv => TerminalEndsWork
  BY DEF SessionInv, TypeOK, ValueType, StatusAgrees, TerminalEndsWork, Terminal,
         Working, Ending, Gone
<1> QED
  BY <1>1, SessionInvariant, PTL

\* The row never says more than the session.
THEOREM RowFollowsSessionHolds == Spec => []RowFollowsSession
<1>1. SessionInv => RowFollowsSession
  BY DEF SessionInv
<1> QED
  BY <1>1, SessionInvariant, PTL

\* Every interleaving of the runner, the routes and a crash tells the client the
\* life of the session as SessionLifecycle promises it.
THEOREM LifecycleRefinement == Spec => ImplementsLifecycle
<1>1. Init => Lifecycle!LifecycleInit
  BY DEF Init, Lifecycle!LifecycleInit
<1>2. SessionInv /\ [Next]_vars => [Lifecycle!LifecycleNext]_<<status, log>>
  BY LifecycleStep DEF vars
<1> QED
  BY <1>1, <1>2, SessionInvariant, PTL
     DEF Spec, ImplementsLifecycle, Lifecycle!LifecycleSpec

(***************************************************************************)
(* What SessionLifecycle promises, of every behaviour it allows            *)
(***************************************************************************)

LifecycleInv ==
    Lifecycle!LifecycleType /\ Lifecycle!TerminalIsLast /\ Lifecycle!StatusIsTold

\* Every control event announces a status.
LEMMA AnnouncesType ==
    \A kind \in Lifecycle!Control :
        Lifecycle!Announces[kind] \in {"running", "paused"} \cup Lifecycle!Terminal
BY DEF Lifecycle!Announces, Lifecycle!Control, Lifecycle!Terminal

\* A session that is alive has told no terminal event.
LEMMA AliveHasNotEnded ==
    ASSUME LifecycleInv, Lifecycle!Alive
    PROVE  \A i \in 1 .. Len(log) : log[i] \notin Lifecycle!Terminal
<1> SUFFICES ASSUME NEW i \in 1 .. Len(log), log[i] \in Lifecycle!Terminal
             PROVE  FALSE
  OBVIOUS
<1>1. log \in Seq(Lifecycle!Control \cup Lifecycle!Progress) /\ Len(log) \in Nat
  BY LenProperties DEF LifecycleInv, Lifecycle!LifecycleType
<1>2. i = Len(log) /\ log # << >>
  BY <1>1, EmptySeq DEF LifecycleInv, Lifecycle!TerminalIsLast
<1>3. PICK k \in 1 .. Len(log) :
        /\ log[k] \in Lifecycle!Control
        /\ status = Lifecycle!Announces[log[k]]
        /\ \A j \in (k + 1) .. Len(log) : log[j] \in Lifecycle!Progress
  BY <1>2 DEF LifecycleInv, Lifecycle!StatusIsTold
<1>4. log[i] \in Lifecycle!Control /\ log[i] \notin Lifecycle!Progress
  BY DEF Lifecycle!Control, Lifecycle!Terminal, Lifecycle!Progress
<1>5. k = i
  BY <1>1, <1>2, <1>3, <1>4
<1> QED
  BY <1>3, <1>5 DEF Lifecycle!Alive, Lifecycle!Announces, Lifecycle!Terminal

\* Telling one more event keeps the log typed and its old entries in place.
LEMMA AppendToLog ==
    ASSUME LifecycleInv, NEW kind \in Lifecycle!Control \cup Lifecycle!Progress
    PROVE  /\ Append(log, kind) \in Seq(Lifecycle!Control \cup Lifecycle!Progress)
           /\ Len(log) \in Nat
           /\ Len(Append(log, kind)) = Len(log) + 1
           /\ Append(log, kind) # << >>
           /\ Append(log, kind)[Len(log) + 1] = kind
           /\ \A i \in 1 .. Len(log) : Append(log, kind)[i] = log[i]
<1>1. log \in Seq(Lifecycle!Control \cup Lifecycle!Progress)
  BY DEF LifecycleInv, Lifecycle!LifecycleType
<1> QED
  BY <1>1, AppendProperties, LenProperties

\* A control event announces its status; no terminal event comes before it.
LEMMA TellKeepsInv ==
    ASSUME LifecycleInv, NEW kind \in Lifecycle!Control, Lifecycle!Tell(kind),
           \A i \in 1 .. Len(log) : log[i] \notin Lifecycle!Terminal
    PROVE  LifecycleInv'
<1>1. log' = Append(log, kind) /\ status' = Lifecycle!Announces[kind]
  BY DEF Lifecycle!Tell
<1>2. /\ log' \in Seq(Lifecycle!Control \cup Lifecycle!Progress)
      /\ Len(log) \in Nat
      /\ Len(log') = Len(log) + 1
      /\ log' # << >>
      /\ log'[Len(log) + 1] = kind
      /\ \A i \in 1 .. Len(log) : log'[i] = log[i]
  BY <1>1, AppendToLog
<1>3. Lifecycle!LifecycleType'
  BY <1>1, <1>2, AnnouncesType DEF Lifecycle!LifecycleType
<1>4. Lifecycle!TerminalIsLast'
  BY <1>2 DEF Lifecycle!TerminalIsLast
<1>5. Lifecycle!StatusIsTold'
  <2> DEFINE n == Len(log')
  <2>1. n \in 1 .. Len(log') /\ log'[n] = kind
    BY <1>2
  <2>2. \A j \in (n + 1) .. Len(log') : log'[j] \in Lifecycle!Progress
    BY <1>2
  <2> QED
    BY <1>1, <1>2, <2>1, <2>2 DEF Lifecycle!StatusIsTold
<1> QED
  BY <1>3, <1>4, <1>5 DEF LifecycleInv

\* A progress event changes nothing but the length of the log.
LEMMA ReportKeepsInv ==
    ASSUME LifecycleInv, Lifecycle!Report
    PROVE  LifecycleInv'
<1>1. PICK kind \in Lifecycle!Progress : log' = Append(log, kind)
  BY DEF Lifecycle!Report
<1>2. /\ log' \in Seq(Lifecycle!Control \cup Lifecycle!Progress)
      /\ Len(log) \in Nat
      /\ Len(log') = Len(log) + 1
      /\ log' # << >>
      /\ log'[Len(log) + 1] = kind
      /\ \A i \in 1 .. Len(log) : log'[i] = log[i]
  BY <1>1, AppendToLog
<1>3. status' = status
  BY DEF Lifecycle!Report
<1>4. Lifecycle!LifecycleType'
  BY <1>2, <1>3 DEF LifecycleInv, Lifecycle!LifecycleType
<1>5. \A i \in 1 .. Len(log) : log[i] \notin Lifecycle!Terminal
  BY AliveHasNotEnded DEF Lifecycle!Report
<1>6. Lifecycle!TerminalIsLast'
  BY <1>2, <1>5 DEF Lifecycle!TerminalIsLast
<1>7. log # << >>
  BY DEF LifecycleInv, Lifecycle!StatusIsTold, Lifecycle!Report, Lifecycle!Alive
<1>8. PICK i \in 1 .. Len(log) :
        /\ log[i] \in Lifecycle!Control
        /\ status = Lifecycle!Announces[log[i]]
        /\ \A j \in (i + 1) .. Len(log) : log[j] \in Lifecycle!Progress
  BY <1>7 DEF LifecycleInv, Lifecycle!StatusIsTold
<1>9. i \in 1 .. Len(log') /\ log'[i] = log[i]
  BY <1>2, <1>8
<1>10. \A j \in (i + 1) .. Len(log') : log'[j] \in Lifecycle!Progress
  <2> SUFFICES ASSUME NEW j \in (i + 1) .. Len(log') PROVE log'[j] \in Lifecycle!Progress
    OBVIOUS
  <2>1. CASE j = Len(log) + 1
    BY <1>2, <2>1
  <2>2. CASE j # Len(log) + 1
    <3>1. j \in (i + 1) .. Len(log) /\ j \in 1 .. Len(log)
      BY <1>2, <1>8, <2>2
    <3> QED
      BY <1>2, <1>8, <3>1
  <2> QED
    BY <2>1, <2>2
<1>11. Lifecycle!StatusIsTold'
  BY <1>2, <1>3, <1>8, <1>9, <1>10 DEF Lifecycle!StatusIsTold
<1> QED
  BY <1>4, <1>6, <1>11 DEF LifecycleInv

\* The log tells the status, and ends with its terminal event.
LEMMA LifecycleInvariant == Lifecycle!LifecycleSpec => []LifecycleInv
<1>1. Lifecycle!LifecycleInit => LifecycleInv
  BY EmptySeq
     DEF Lifecycle!LifecycleInit, LifecycleInv, Lifecycle!LifecycleType, Lifecycle!TerminalIsLast,
         Lifecycle!StatusIsTold
<1>2. LifecycleInv /\ [Lifecycle!LifecycleNext]_<<status, log>> => LifecycleInv'
  <2> SUFFICES ASSUME LifecycleInv, [Lifecycle!LifecycleNext]_<<status, log>>
               PROVE  LifecycleInv'
    OBVIOUS
  <2>1. CASE Lifecycle!Start
    <3>1. log = << >>
      BY <2>1 DEF Lifecycle!Start, LifecycleInv, Lifecycle!StatusIsTold,
                     Lifecycle!Announces, Lifecycle!Control, Lifecycle!Terminal
    <3>2. \A i \in 1 .. Len(log) : log[i] \notin Lifecycle!Terminal
      BY <3>1, EmptySeq
    <3>3. "started" \in Lifecycle!Control /\ Lifecycle!Tell("started")
      BY <2>1 DEF Lifecycle!Start, Lifecycle!Control
    <3> QED
      BY <3>2, <3>3, TellKeepsInv
  <2>2. CASE Lifecycle!Pause
    <3>1. "paused" \in Lifecycle!Control /\ Lifecycle!Tell("paused") /\ Lifecycle!Alive
      BY <2>2 DEF Lifecycle!Pause, Lifecycle!Control
    <3> QED
      BY <3>1, AliveHasNotEnded, TellKeepsInv
  <2>3. CASE Lifecycle!Resume
    <3>1. "resumed" \in Lifecycle!Control /\ Lifecycle!Tell("resumed") /\ Lifecycle!Alive
      BY <2>3 DEF Lifecycle!Resume, Lifecycle!Control, Lifecycle!Alive
    <3> QED
      BY <3>1, AliveHasNotEnded, TellKeepsInv
  <2>4. CASE Lifecycle!End
    <3>1. Lifecycle!Alive
      BY <2>4 DEF Lifecycle!End
    <3>2. PICK kind \in Lifecycle!Terminal : Lifecycle!Tell(kind)
      BY <2>4 DEF Lifecycle!End
    <3>3. kind \in Lifecycle!Control
      BY DEF Lifecycle!Control
    <3> QED
      BY <3>1, <3>2, <3>3, AliveHasNotEnded, TellKeepsInv
  <2>5. CASE Lifecycle!Report
    BY <2>5, ReportKeepsInv
  <2>6. CASE UNCHANGED <<status, log>>
    BY <2>6 DEF LifecycleInv, Lifecycle!LifecycleType, Lifecycle!TerminalIsLast,
                Lifecycle!StatusIsTold
  <2> QED
    BY <2>1, <2>2, <2>3, <2>4, <2>5, <2>6 DEF Lifecycle!LifecycleNext
<1> QED
  BY <1>1, <1>2, PTL DEF Lifecycle!LifecycleSpec

\* No event follows a terminal one, in any session of any length.
THEOREM TerminalIsLastHolds == Lifecycle!LifecycleSpec => []Lifecycle!TerminalIsLast
BY LifecycleInvariant, PTL DEF LifecycleInv

\* The log alone determines the status, in any session of any length.
THEOREM StatusIsToldHolds == Lifecycle!LifecycleSpec => []Lifecycle!StatusIsTold
BY LifecycleInvariant, PTL DEF LifecycleInv

\* Hence a client may close its stream on a terminal event and misses nothing, and
\* one that folds the events it gets has the session's status.
THEOREM ClientSeesSession ==
    Spec => []Lifecycle!TerminalIsLast /\ []Lifecycle!StatusIsTold
BY LifecycleRefinement, TerminalIsLastHolds, StatusIsToldHolds, PTL DEF ImplementsLifecycle

(***************************************************************************)
(* What the history variables of MCSessionRun see                          *)
(***************************************************************************)

\* A control event is the result of no node.
LEMMA ControlIsNoResult ==
    ResultKinds \cap (ControlKinds \cup {"step.thinking", "subtask.activated"}) = {}
BY DEF ResultKinds, ControlKinds, Terminal, EventOf, Nodes

\* The event published is the one the history sees.
LEMMA WatchLogPublish ==
    ASSUME LogType, NEW kind, Publish(kind), WatchLog
    PROVE  told' = IF kind \in ResultKinds THEN Append(told, kind) ELSE told
<1>1. log \in Seq(Kinds) /\ log' = Append(log, kind)
  BY DEF LogType, Publish
<1>2. Len(log') = Len(log) + 1 /\ log'[Len(log')] = kind /\ log' # log
  BY <1>1, AppendProperties, LenProperties
<1> QED
  BY <1>2 DEF WatchLog

\* A runner that is blocked is the only one somebody can have released.
ReleasedIsBlocked == released => pc \in {"blocked"} \cup Gone

\* The nodes that ran are the nodes told of, and the one in hand.
ToldInv ==
    /\ told \in Seq(ResultKinds)
    /\ NoResultLost

\* A node entered in a paused session, or in one asked to stop, is the last one
\* before the runner waits or ends.
ControlInv ==
    /\ ReleasedIsBlocked
    /\ status = "paused" => ~pause_set \/ stop_set
    /\ entered_paused \in 0 .. 1
    /\ entered_paused = 1 =>
           /\ status = "paused"
           /\ \/ pc \in {"streaming"} \cup Gone
              \/ pc = "blocked" /\ (~released \/ stop_set)
    /\ entered_stopped \in 0 .. 1
    /\ entered_stopped = 1 => stop_set /\ pc \in {"streaming"} \cup Ending \cup Gone

\* Telling of a result a moment after the node has run.
LEMMA DispatchTells ==
    ASSUME LogType, WatchLog, NEW n \in Nodes, GoOn(n)
    PROVE  told' = IF n = "think" THEN told ELSE Append(told, EventOf[n])
<1>1. CASE Publish(EventOf[n])
  <2>1. EventOf[n] \in ResultKinds <=> n # "think"
    BY DEF ResultKinds, EventOf, Nodes
  <2> QED
    BY <1>1, <2>1, WatchLogPublish
<1>2. CASE n = "think" /\ UNCHANGED log
  BY <1>2 DEF WatchLog
<1> QED
  BY <1>1, <1>2 DEF GoOn, Dispatch

\* No other action runs a node ...
LEMMA OnlyNodeReturnsRuns ==
    ASSUME WatchNodes, ~NodeReturns
    PROVE  ran' = ran
BY DEF WatchNodes

\* ... so an action that runs none and tells of none keeps the histories.
LEMMA ToldKept ==
    ASSUME ToldInv, ran' = ran, told' = told, ResultInHand' = ResultInHand,
           pc' \notin Gone => pc \notin Gone
    PROVE  ToldInv'
BY DEF ToldInv, NoResultLost

\* A request runs no node.
LEMMA RoutesRunNoNode == UNCHANGED <<pc, graphVars>> => ~NodeReturns
BY DEF NodeReturns, graphVars, GraphStep, StopFound, Block, GoOn, Dispatch, Conclude,
       Graph!RunNode, Graph!RunStraight, Graph!RunReplan, Graph!VerifyContinues,
       Graph!VerifyEnds, Graph!Edge, Nodes

\* Every action keeps what was run and what was told together.
LEMMA ToldStep ==
    ASSUME SessionInv, ToldInv, Next, WatchNodes, WatchLog
    PROVE  ToldInv'
<1> USE DEF SessionInv, TypeOK, LogType, Gone, Terminal, Working, Ending
<1>1. /\ LogType
      /\ pc \in Working => status \notin Terminal
      /\ pc \in {"blocked", "reporting"} => step \in Nodes
  BY DEF StatusAgrees, HoldsResult
<1>2. CASE NodeReturns
  <2>1. pc = "streaming" /\ step' = node /\ node \in Nodes /\ ran = told
    BY <1>1, <1>2, GraphRunsANode
       DEF NodeReturns, GraphStep, ToldInv, NoResultLost, ResultInHand
  <2>2. ran' = IF node = "think" THEN ran ELSE Append(ran, EventOf[node])
    BY <1>2 DEF WatchNodes
  <2>3. node # "think" => EventOf[node] \in ResultKinds
    BY <2>1 DEF ResultKinds
  <2>4. CASE StopFound
    <3>1. told' = told /\ status' = "stopped"
      BY <1>1, <2>4, WatchLogPublish, ControlIsNoResult
         DEF StopFound, Conclude, ControlKinds
    <3> QED
      BY <2>1, <2>2, <2>3, <3>1 DEF ToldInv, NoResultLost, ResultInHand
  <2>5. CASE Block
    <3>1. told' = told /\ pc' = "blocked"
      BY <2>5 DEF Block, WatchLog
    <3> QED
      BY <2>1, <2>2, <2>3, <3>1 DEF ToldInv, NoResultLost, ResultInHand
  <2>6. CASE GoOn(node)
    <3>1. told' = IF node = "think" THEN told ELSE Append(told, EventOf[node])
      BY <1>1, <2>1, <2>6, DispatchTells
    <3>2. ResultInHand' = << >>
      BY <1>1, <2>1, <2>6 DEF GoOn, Dispatch, ResultInHand
    <3> QED
      BY <2>1, <2>2, <2>3, <3>1, <3>2 DEF ToldInv, NoResultLost
  <2> QED
    BY <1>2, <2>4, <2>5, <2>6 DEF NodeReturns
<1>3. CASE Wake
  <2>1. pc = "blocked" /\ step' = step /\ step \in Nodes /\ UNCHANGED graphVars
    BY <1>1, <1>3 DEF Wake
  <2>2. ran' = ran
    BY <2>1, OnlyNodeReturnsRuns DEF NodeReturns
  <2>3. ran = told \o IF step = "think" THEN << >> ELSE <<EventOf[step]>>
    BY <2>1 DEF ToldInv, NoResultLost, ResultInHand
  <2>4. step # "think" => EventOf[step] \in ResultKinds
    BY <2>1 DEF ResultKinds
  <2>5. CASE StopFound
    <3>1. told' = told /\ status' = "stopped"
      BY <1>1, <2>5, WatchLogPublish, ControlIsNoResult
         DEF StopFound, Conclude, ControlKinds
    <3> QED
      BY <2>1, <2>2, <2>3, <3>1 DEF ToldInv, NoResultLost, ResultInHand
  <2>6. CASE GoOn(step)
    <3>1. told' = IF step = "think" THEN told ELSE Append(told, EventOf[step])
      BY <1>1, <2>1, <2>6, DispatchTells
    <3>2. ResultInHand' = << >>
      BY <1>1, <2>1, <2>6 DEF GoOn, Dispatch, ResultInHand
    <3> QED
      BY <2>1, <2>2, <2>3, <2>4, <3>1, <3>2 DEF ToldInv, NoResultLost
  <2> QED
    BY <1>3, <2>5, <2>6 DEF Wake
<1>4. CASE RunnerStarts \/ Launch \/ NodeRaises \/ ActivateSubtask \/ GraphEnds
  <2>1. pc \in Working \cup {"created"} /\ pc # "blocked" /\ status \notin Terminal
        /\ pc' \notin {"blocked"} \cup Gone /\ step' = step /\ status' # "stopped"
    BY <1>1, <1>4 DEF RunnerStarts, Launch, LaunchOk, LaunchFails, NodeRaises,
       ActivateSubtask, GraphEnds, Conclude, StatusAgrees
  <2>2. ~NodeReturns
    BY <1>4 DEF RunnerStarts, Launch, NodeRaises, ActivateSubtask, GraphEnds, NodeReturns,
       Conclude, GraphStep, StopFound, Block, GoOn, Dispatch, Graph!RunNode,
       Graph!RunStraight, Graph!RunReplan, Graph!VerifyContinues, Graph!VerifyEnds,
       Graph!Edge
  <2>3. told' = told
    BY <1>1, <1>4, WatchLogPublish, ControlIsNoResult
       DEF RunnerStarts, Launch, LaunchOk, LaunchFails, NodeRaises, ActivateSubtask,
       GraphEnds, Conclude, ControlKinds, WatchLog
  <2> QED
    BY <2>1, <2>2, <2>3, OnlyNodeReturnsRuns, ToldKept DEF ResultInHand
<1>5. CASE StartPersisted \/ StartRowWritten \/ Reported \/ EndPersisted \/ EndRowWritten
           \/ StopBrowser
  <2>1. pc \notin {"blocked"} \cup Gone /\ pc' \notin {"blocked"} \cup Gone
        /\ UNCHANGED <<step, status, log, graphVars>>
    BY <1>5 DEF StartPersisted, StartRowWritten, Reported, EndPersisted, EndRowWritten,
       StopBrowser
  <2>2. ~NodeReturns
    BY <1>5 DEF StartPersisted, StartRowWritten, Reported, EndPersisted, EndRowWritten,
       StopBrowser, NodeReturns
  <2> QED
    BY <2>1, <2>2, OnlyNodeReturnsRuns, ToldKept DEF ResultInHand, WatchLog
<1>6. CASE PauseSession \/ ResumeSession
  <2>1. status \notin Terminal /\ status' \notin Terminal
        /\ UNCHANGED <<pc, step, graphVars>>
    BY <1>6 DEF PauseSession, ResumeSession
  <2>2. told' = told
    BY <1>1, <1>6, WatchLogPublish, ControlIsNoResult
       DEF PauseSession, ResumeSession, ControlKinds
  <2> QED
    BY <2>1, <2>2, RoutesRunNoNode, OnlyNodeReturnsRuns, ToldKept DEF ResultInHand
<1>7. CASE StopSession \/ DeleteSession \/ Evict \/ DeleteRow \/ Rest
  <2>1. UNCHANGED <<pc, step, status, log, graphVars>>
    BY <1>7 DEF StopSession, DeleteSession, RequestStop, Evict, DeleteRow, Rest, vars
  <2> QED
    BY <2>1, RoutesRunNoNode, OnlyNodeReturnsRuns, ToldKept DEF ResultInHand, WatchLog
<1>8. CASE Crash \/ Restart
  <2>1. pc' \in Gone /\ UNCHANGED log
    BY <1>8 DEF Crash, Restart
  <2> QED
    BY <2>1 DEF ToldInv, NoResultLost, WatchLog
<1> QED
  BY <1>2, <1>3, <1>4, <1>5, <1>6, <1>7, <1>8 DEF Next, RunnerStep, RouteStep

\* Every action lets the runner past at most one node once it has been told to wait
\* or to stop.
LEMMA ControlStep ==
    ASSUME SessionInv, ControlInv, Next, WatchPause, WatchStop
    PROVE  ControlInv'
<1> USE DEF SessionInv, TypeOK, ValueType, FlagType, StatusAgrees, PauseAgrees,
            BlockedIsPaused, ControlInv, ReleasedIsBlocked, WatchPause, WatchStop,
            EntersNode, flagVars, graphVars, Terminal, Working, Ending, Gone
<1>1. CASE RunnerStarts
  BY <1>1 DEF RunnerStarts
<1>2. CASE StartPersisted
  BY <1>2 DEF StartPersisted
<1>3. CASE StartRowWritten
  BY <1>3 DEF StartRowWritten
<1>4. CASE Launch
  BY <1>4 DEF Launch, LaunchOk, LaunchFails, Conclude
<1>5. CASE NodeReturns
  BY <1>5 DEF NodeReturns, StopFound, Block, GoOn, Dispatch, Conclude
<1>6. CASE NodeRaises
  BY <1>6 DEF NodeRaises, Conclude
<1>7. CASE Wake
  BY <1>7 DEF Wake, StopFound, GoOn, Dispatch, Conclude
<1>8. CASE ActivateSubtask
  BY <1>8 DEF ActivateSubtask
<1>9. CASE Reported
  BY <1>9 DEF Reported
<1>10. CASE GraphEnds
  BY <1>10 DEF GraphEnds, Conclude
<1>11. CASE EndPersisted
  BY <1>11 DEF EndPersisted
<1>12. CASE EndRowWritten
  BY <1>12 DEF EndRowWritten
<1>13. CASE StopBrowser
  BY <1>13 DEF StopBrowser
<1>14. CASE PauseSession
  BY <1>14 DEF PauseSession, Request
<1>15. CASE ResumeSession
  BY <1>15 DEF ResumeSession, Request, SetPauseEvent
<1>16. CASE StopSession
  BY <1>16 DEF StopSession, Request, RequestStop, SetPauseEvent
<1>17. CASE DeleteSession
  BY <1>17 DEF DeleteSession, Request, RequestStop, SetPauseEvent
<1>18. CASE Evict
  BY <1>18 DEF Evict
<1>19. CASE DeleteRow
  BY <1>19 DEF DeleteRow
<1>20. CASE Crash
  BY <1>20 DEF Crash
<1>21. CASE Restart
  BY <1>21 DEF Restart
<1>22. CASE Rest
  BY <1>22 DEF Rest, vars
<1> QED
  BY <1>1, <1>2, <1>3, <1>4, <1>5, <1>6, <1>7, <1>8, <1>9, <1>10, <1>11, <1>12, <1>13,
     <1>14, <1>15, <1>16, <1>17, <1>18, <1>19, <1>20, <1>21, <1>22
     DEF Next, RunnerStep, RouteStep

\* The history variables only watch: the sessions they see are sessions.
LEMMA WatchedInv == MCSpec => []SessionInv
<1>1. MCInit => SessionInv
  BY BoundsAssumption, InitInv DEF MCInit
<1>2. SessionInv /\ [MCNext]_<<vars, ghosts>> => SessionInv'
  BY InvStep DEF MCNext
<1> QED
  BY <1>1, <1>2, PTL DEF MCSpec

\* No result of a node is lost or told twice, however pauses, stops and crashes
\* interleave with the runner, in a session of any length.
THEOREM NoResultLostHolds == MCSpec => []NoResultLost
<1>1. MCInit => ToldInv
  BY EmptySeq DEF MCInit, Init, ToldInv, NoResultLost, ResultInHand
<1>2. SessionInv /\ ToldInv /\ [MCNext]_<<vars, ghosts>> => ToldInv'
  <2> SUFFICES ASSUME SessionInv, ToldInv, [MCNext]_<<vars, ghosts>> PROVE ToldInv'
    OBVIOUS
  <2>1. CASE MCNext
    BY <2>1, ToldStep DEF MCNext
  <2>2. CASE UNCHANGED <<vars, ghosts>>
    BY <2>2 DEF vars, ghosts, ToldInv, NoResultLost, ResultInHand
  <2> QED
    BY <2>1, <2>2
<1>3. ToldInv => NoResultLost
  BY DEF ToldInv
<1> QED
  BY <1>1, <1>2, <1>3, WatchedInv, PTL DEF MCSpec

\* A pause and a stop take effect after one more node at the latest, whatever else is
\* requested, and however often.
THEOREM ControlTakesEffectHolds == MCSpec => []ControlTakesEffect
<1>1. MCInit => ControlInv
  BY DEF MCInit, Init, ControlInv, ReleasedIsBlocked
<1>2. SessionInv /\ ControlInv /\ [MCNext]_<<vars, ghosts>> => ControlInv'
  <2> SUFFICES ASSUME SessionInv, ControlInv, [MCNext]_<<vars, ghosts>> PROVE ControlInv'
    OBVIOUS
  <2>1. CASE MCNext
    BY <2>1, ControlStep DEF MCNext
  <2>2. CASE UNCHANGED <<vars, ghosts>>
    BY <2>2 DEF vars, ghosts, flagVars, ControlInv, ReleasedIsBlocked
  <2> QED
    BY <2>1, <2>2
<1>3. ControlInv => ControlTakesEffect
  BY DEF ControlInv, ControlTakesEffect
<1> QED
  BY <1>1, <1>2, <1>3, WatchedInv, PTL DEF MCSpec
=============================================================================
