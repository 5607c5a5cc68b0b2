------------------------- MODULE SessionStoreProofs -------------------------
(***************************************************************************)
(* SessionStore for any sessions, DELETE requests and screenshots: what is *)
(* stored refers to what is there, an answered DELETE stays true, and no   *)
(* file comes after one that saw the runner end.                           *)
(***************************************************************************)
EXTENDS SessionStore, TLAPS

\* A session nobody has created has left no trace.
Untouched ==
    \A s \in Sessions : status[s] = "none" =>
        s \notin active /\ ~HasRow(s) /\ runner[s] = "none" /\ paths[s] = 0

\* How far a DELETE has come tells what it has done, for good.
DeletesDone ==
    \A d \in Deletes :
        /\ del[d] # "unused" => status[request[d]] # "none"
        /\ forced[d] => del[d] \notin {"unused", "waiting"}
        /\ del[d] \in {"deleting", "cleaning", "ok", "not_found"} =>
               request[d] \notin active
        /\ del[d] \in {"cleaning", "ok", "not_found"} => ~HasRow(request[d])

\* The screenshot a runner holds is on disk, not yet remembered, and has its place;
\* the one it is recording is remembered and not yet in the table.
ShotsCounted ==
    \A s \in Sessions :
        /\ runner[s] = "shot" => paths[s] < MaxShots
        /\ runner[s] # "none" => shots[s] <= paths[s]
        /\ runner[s] = "recording" => shots[s] < paths[s]

\* As long as a session can be read, what it remembers and what is recorded of it
\* are on disk.
ShotsOnDisk ==
    \A s \in Sessions : s \in active \/ HasRow(s) =>
        /\ shots[s] <= files[s]
        /\ paths[s] <= files[s]
        /\ runner[s] = "shot" => paths[s] < files[s]

\* A runner whose session has a verdict, or has left the cache without force, takes
\* no more screenshots.
Done(s) == runner[s] \in {"none", "ending", "over"}
EndedIsDone ==
    \A s \in Sessions :
        /\ status[s] \in Terminal => Done(s)
        /\ s \notin active /\ (\A e \in About(s) : ~forced[e]) => Done(s)

StoreIndInv ==
    /\ TypeOK /\ Untouched /\ DeletesDone /\ ChildrenHaveParent
    /\ ShotsCounted /\ ShotsOnDisk /\ EndedIsDone
\* Every variable keeps its type: a screenshot that is recorded has been counted.
LEMMA TypeStep ==
    ASSUME StoreIndInv, [Next]_vars
    PROVE  TypeOK'
<1> USE BoundsAssumption DEF StoreIndInv, TypeOK, Statuses, Terminal, Untouched,
      ShotsCounted, ChildrenHaveParent, memoryVars, planVars, diskVars, deleteVars
<1>1. ASSUME NEW s \in Sessions, RunTask(s) PROVE TypeOK'
  BY <1>1 DEF RunTask
<1>2. ASSUME NEW s \in Sessions, Start(s) PROVE TypeOK'
  BY <1>2 DEF Start, GoTo, At
<1>3. ASSUME NEW s \in Sessions, StartWritten(s) PROVE TypeOK'
  BY <1>3 DEF StartWritten, GoTo, At, AppendEvent, UpdateRow, HasRow
<1>4. ASSUME NEW s \in Sessions, PlanMade(s) PROVE TypeOK'
  BY <1>4 DEF PlanMade, At
<1>5. ASSUME NEW s \in Sessions, Shoot(s) PROVE TypeOK'
  BY <1>5 DEF Shoot, GoTo, At
<1>6. ASSUME NEW s \in Sessions, ShotReported(s) PROVE TypeOK'
  <2>1. events' \in [Sessions -> BOOLEAN]
    BY <1>6 DEF StoreIndInv, TypeOK, ShotReported, AppendEvent
  <2>2. paths' \in [Sessions -> 0 .. MaxShots]
    BY <1>6, BoundsAssumption DEF StoreIndInv, TypeOK, ShotReported, ShotsCounted, At
  <2>3. runner' \in [Sessions -> {"none", "created", "starting", "working", "shot",
                                  "recording", "ending", "over"}]
    BY <1>6 DEF StoreIndInv, TypeOK, ShotReported, GoTo
  <2> QED
    BY <1>6, <2>1, <2>2, <2>3 DEF StoreIndInv, TypeOK, ShotReported, planVars, deleteVars
<1>7. ASSUME NEW s \in Sessions, ShotRecorded(s) PROVE TypeOK'
  BY <1>7 DEF ShotRecorded, GoTo, At, AppendShot, HasRow
<1>8. ASSUME NEW s \in Sessions, EndByGraph(s) PROVE TypeOK'
  BY <1>8 DEF EndByGraph, At, End, GoTo
<1>9. ASSUME NEW s \in Sessions, EndByException(s) PROVE TypeOK'
  BY <1>9 DEF EndByException, At, End, GoTo
<1>10. ASSUME NEW s \in Sessions, EndByStop(s) PROVE TypeOK'
  BY <1>10 DEF EndByStop, At, End, GoTo
<1>11. ASSUME NEW s \in Sessions, EndWritten(s) PROVE TypeOK'
  BY <1>11 DEF EndWritten, GoTo, At, AppendEvent, UpdateRow, HasRow
<1>12. ASSUME NEW s \in Sessions, StopSession(s) PROVE TypeOK'
  BY <1>12 DEF StopSession
<1>13. ASSUME NEW d \in Deletes, DeleteAsked(d) PROVE TypeOK'
  BY <1>13 DEF DeleteAsked
<1>14. ASSUME NEW d \in Deletes, Waited(d) PROVE TypeOK'
  BY <1>14 DEF Waited
<1>15. ASSUME NEW d \in Deletes, RowDeleted(d) PROVE TypeOK'
  BY <1>15 DEF RowDeleted, DeleteCascade, HasRow
<1>16. ASSUME NEW d \in Deletes, RowNotDeleted(d) PROVE TypeOK'
  BY <1>16 DEF RowNotDeleted
<1>17. ASSUME NEW d \in Deletes, FilesRemoved(d) PROVE TypeOK'
  BY <1>17 DEF FilesRemoved
<1>18. CASE Restart
  BY <1>18 DEF Restart, NoShots, Nowhere
<1>19. CASE UNCHANGED vars
  BY <1>19 DEF vars
<1> QED
  BY <1>1, <1>2, <1>3, <1>4, <1>5, <1>6, <1>7, <1>8, <1>9, <1>10, <1>11, <1>12, <1>13,
         <1>14, <1>15, <1>16, <1>17, <1>18, <1>19 DEF Next, RunnerStep, DeleteStep

\* Whatever happens to a session happens after its creation.
LEMMA UntouchedStep ==
    ASSUME StoreIndInv, [Next]_vars
    PROVE  Untouched'
<1> USE DEF StoreIndInv, TypeOK, Untouched, DeletesDone, HasRow, memoryVars, planVars,
      diskVars, deleteVars
<1>1. ASSUME NEW s \in Sessions, RunTask(s) PROVE Untouched'
  BY <1>1 DEF RunTask
<1>2. ASSUME NEW s \in Sessions, Start(s) PROVE Untouched'
  BY <1>2 DEF Start, GoTo, At
<1>3. ASSUME NEW s \in Sessions, StartWritten(s) PROVE Untouched'
  BY <1>3 DEF StartWritten, GoTo, At, AppendEvent, UpdateRow
<1>4. ASSUME NEW s \in Sessions, Shoot(s) PROVE Untouched'
  BY <1>4 DEF Shoot, GoTo, At
<1>5. ASSUME NEW s \in Sessions, ShotReported(s) PROVE Untouched'
  BY <1>5 DEF ShotReported, GoTo, At, AppendEvent
<1>6. ASSUME NEW s \in Sessions, ShotRecorded(s) PROVE Untouched'
  BY <1>6 DEF ShotRecorded, GoTo, At, AppendShot
<1>7. ASSUME NEW s \in Sessions, EndByGraph(s) PROVE Untouched'
  BY <1>7 DEF EndByGraph, At, End, GoTo
<1>8. ASSUME NEW s \in Sessions, EndByException(s) PROVE Untouched'
  BY <1>8 DEF EndByException, At, End, GoTo
<1>9. ASSUME NEW s \in Sessions, EndByStop(s) PROVE Untouched'
  BY <1>9 DEF EndByStop, At, End, GoTo
<1>10. ASSUME NEW s \in Sessions, EndWritten(s) PROVE Untouched'
  BY <1>10 DEF EndWritten, GoTo, At, AppendEvent, UpdateRow
<1>11. ASSUME NEW s \in Sessions, PlanMade(s) \/ StopSession(s)
     PROVE  Untouched'
  BY <1>11 DEF PlanMade, StopSession
<1>12. ASSUME NEW d \in Deletes, Waited(d) PROVE Untouched'
  BY <1>12 DEF Waited
<1>13. ASSUME NEW d \in Deletes, RowDeleted(d) PROVE Untouched'
  BY <1>13 DEF RowDeleted, DeleteCascade
<1>14. ASSUME NEW d \in Deletes, DeleteAsked(d) \/ RowNotDeleted(d) \/ FilesRemoved(d)
     PROVE  Untouched'
  BY <1>14 DEF DeleteAsked, RowNotDeleted, FilesRemoved
<1>15. CASE Restart
  BY <1>15 DEF Restart, NoShots, Nowhere
<1>16. CASE UNCHANGED vars
  BY <1>16 DEF vars
<1> QED
  BY <1>1, <1>2, <1>3, <1>4, <1>5, <1>6, <1>7, <1>8, <1>9, <1>10, <1>11, <1>12, <1>13,
         <1>14, <1>15, <1>16 DEF Next, RunnerStep, DeleteStep

\* A session that has left the cache, or whose row is gone, does not come back.
LEMMA DeletesStep ==
    ASSUME StoreIndInv, [Next]_vars
    PROVE  DeletesDone'
<1> USE DEF StoreIndInv, TypeOK, Untouched, DeletesDone, HasRow, memoryVars, planVars,
      diskVars, deleteVars
<1>1. ASSUME NEW s \in Sessions, RunTask(s) PROVE DeletesDone'
  BY <1>1 DEF RunTask
<1>2. ASSUME NEW s \in Sessions, Start(s) PROVE DeletesDone'
  BY <1>2 DEF Start, GoTo, At
<1>3. ASSUME NEW s \in Sessions, StartWritten(s) PROVE DeletesDone'
  BY <1>3 DEF StartWritten, GoTo, At, AppendEvent, UpdateRow
<1>4. ASSUME NEW s \in Sessions, EndByGraph(s) PROVE DeletesDone'
  BY <1>4 DEF EndByGraph, At, End, GoTo
<1>5. ASSUME NEW s \in Sessions, EndByException(s) PROVE DeletesDone'
  BY <1>5 DEF EndByException, At, End, GoTo
<1>6. ASSUME NEW s \in Sessions, EndByStop(s) PROVE DeletesDone'
  BY <1>6 DEF EndByStop, At, End, GoTo
<1>7. ASSUME NEW s \in Sessions, EndWritten(s) PROVE DeletesDone'
  BY <1>7 DEF EndWritten, GoTo, At, AppendEvent, UpdateRow
<1>8. ASSUME NEW s \in Sessions, PlanMade(s) \/ Shoot(s) \/ ShotReported(s) \/
ShotRecorded(s) \/ StopSession(s)
     PROVE  DeletesDone'
  BY <1>8 DEF PlanMade, Shoot, ShotReported, ShotRecorded, StopSession
<1>9. ASSUME NEW d \in Deletes, DeleteAsked(d) PROVE DeletesDone'
  BY <1>9 DEF DeleteAsked
<1>10. ASSUME NEW d \in Deletes, Waited(d) PROVE DeletesDone'
  BY <1>10 DEF Waited
<1>11. ASSUME NEW d \in Deletes, RowDeleted(d) PROVE DeletesDone'
  BY <1>11 DEF RowDeleted, DeleteCascade
<1>12. ASSUME NEW d \in Deletes, RowNotDeleted(d) PROVE DeletesDone'
  BY <1>12 DEF RowNotDeleted
<1>13. ASSUME NEW d \in Deletes, FilesRemoved(d) PROVE DeletesDone'
  BY <1>13 DEF FilesRemoved
<1>14. CASE Restart
  BY <1>14 DEF Restart
<1>15. CASE UNCHANGED vars
  BY <1>15 DEF vars
<1> QED
  BY <1>1, <1>2, <1>3, <1>4, <1>5, <1>6, <1>7, <1>8, <1>9, <1>10, <1>11, <1>12, <1>13,
         <1>14, <1>15 DEF Next, RunnerStep, DeleteStep

\* A child row is written to a session's row only, and goes with it.
LEMMA ChildrenStep ==
    ASSUME StoreIndInv, [Next]_vars
    PROVE  ChildrenHaveParent'
<1> USE DEF StoreIndInv, TypeOK, ChildrenHaveParent, HasRow, memoryVars, planVars,
      diskVars, deleteVars
<1>1. ASSUME NEW s \in Sessions, RunTask(s) PROVE ChildrenHaveParent'
  BY <1>1 DEF RunTask
<1>2. ASSUME NEW s \in Sessions, StartWritten(s) PROVE ChildrenHaveParent'
  BY <1>2 DEF StartWritten, GoTo, At, AppendEvent, UpdateRow
<1>3. ASSUME NEW s \in Sessions, ShotReported(s) PROVE ChildrenHaveParent'
  BY <1>3 DEF ShotReported, GoTo, At, AppendEvent
<1>4. ASSUME NEW s \in Sessions, ShotRecorded(s) PROVE ChildrenHaveParent'
  BY <1>4 DEF ShotRecorded, GoTo, At, AppendShot
<1>5. ASSUME NEW s \in Sessions, EndWritten(s) PROVE ChildrenHaveParent'
  <2>1. \A t \in Sessions : row'[t] = "absent" => row[t] = "absent"
    BY <1>5 DEF StoreIndInv, TypeOK, EndWritten, UpdateRow, HasRow, Statuses, Terminal, At, Untouched
  <2>2. \A t \in Sessions : events'[t] => events[t] \/ HasRow(t)
    BY <1>5 DEF StoreIndInv, TypeOK, EndWritten, AppendEvent, HasRow
  <2> QED
    BY <1>5, <2>1, <2>2 DEF StoreIndInv, EndWritten, ChildrenHaveParent, HasRow
<1>6. ASSUME NEW s \in Sessions, Start(s) \/ PlanMade(s) \/ Shoot(s) \/ EndByGraph(s)
\/ EndByException(s) \/ EndByStop(s) \/ StopSession(s)
     PROVE  ChildrenHaveParent'
  BY <1>6 DEF Start, PlanMade, Shoot, EndByGraph, EndByException, EndByStop,
         StopSession, End
<1>7. ASSUME NEW d \in Deletes, RowDeleted(d) PROVE ChildrenHaveParent'
  BY <1>7 DEF RowDeleted, DeleteCascade
<1>8. ASSUME NEW d \in Deletes, DeleteAsked(d) \/ Waited(d) \/ RowNotDeleted(d) \/
FilesRemoved(d)
     PROVE  ChildrenHaveParent'
  BY <1>8 DEF DeleteAsked, Waited, RowNotDeleted, FilesRemoved
<1>9. CASE Restart
  BY <1>9 DEF Restart
<1>10. CASE UNCHANGED vars
  BY <1>10 DEF vars
<1> QED
  BY <1>1, <1>2, <1>3, <1>4, <1>5, <1>6, <1>7, <1>8, <1>9, <1>10 DEF Next, RunnerStep,
         DeleteStep

\* Screenshots are taken, remembered and recorded in this order, one at a time.
LEMMA CountStep ==
    ASSUME StoreIndInv, [Next]_vars
    PROVE  ShotsCounted'
<1> USE BoundsAssumption DEF StoreIndInv, TypeOK, ShotsCounted, ChildrenHaveParent,
      Untouched, HasRow, memoryVars, planVars, diskVars, deleteVars
<1>1. ASSUME NEW s \in Sessions, RunTask(s) PROVE ShotsCounted'
  BY <1>1 DEF RunTask
<1>2. ASSUME NEW s \in Sessions, Start(s) PROVE ShotsCounted'
  BY <1>2 DEF Start, GoTo, At
<1>3. ASSUME NEW s \in Sessions, StartWritten(s) PROVE ShotsCounted'
  BY <1>3 DEF StartWritten, GoTo, At, AppendEvent, UpdateRow
<1>4. ASSUME NEW s \in Sessions, Shoot(s) PROVE ShotsCounted'
  BY <1>4 DEF Shoot, GoTo, At
<1>5. ASSUME NEW s \in Sessions, ShotReported(s) PROVE ShotsCounted'
  BY <1>5 DEF ShotReported, GoTo, At, AppendEvent
<1>6. ASSUME NEW s \in Sessions, ShotRecorded(s) PROVE ShotsCounted'
  BY <1>6 DEF ShotRecorded, GoTo, At, AppendShot
<1>7. ASSUME NEW s \in Sessions, EndByGraph(s) PROVE ShotsCounted'
  BY <1>7 DEF EndByGraph, At, End, GoTo
<1>8. ASSUME NEW s \in Sessions, EndByException(s) PROVE ShotsCounted'
  BY <1>8 DEF EndByException, At, End, GoTo
<1>9. ASSUME NEW s \in Sessions, EndByStop(s) PROVE ShotsCounted'
  BY <1>9 DEF EndByStop, At, End, GoTo
<1>10. ASSUME NEW s \in Sessions, EndWritten(s) PROVE ShotsCounted'
  BY <1>10 DEF EndWritten, GoTo, At, AppendEvent, UpdateRow
<1>11. ASSUME NEW s \in Sessions, PlanMade(s) \/ StopSession(s)
     PROVE  ShotsCounted'
  BY <1>11 DEF PlanMade, StopSession
<1>12. ASSUME NEW d \in Deletes, RowDeleted(d) PROVE ShotsCounted'
  BY <1>12 DEF RowDeleted, DeleteCascade
<1>13. ASSUME NEW d \in Deletes, DeleteAsked(d) \/ Waited(d) \/ RowNotDeleted(d) \/
FilesRemoved(d)
     PROVE  ShotsCounted'
  BY <1>13 DEF DeleteAsked, Waited, RowNotDeleted, FilesRemoved
<1>14. CASE Restart
  BY <1>14 DEF Restart, NoShots, Nowhere
<1>15. CASE UNCHANGED vars
  BY <1>15 DEF vars
<1> QED
  BY <1>1, <1>2, <1>3, <1>4, <1>5, <1>6, <1>7, <1>8, <1>9, <1>10, <1>11, <1>12, <1>13,
         <1>14, <1>15 DEF Next, RunnerStep, DeleteStep

\* Files are removed only when nobody can read of them.
LEMMA DiskStep ==
    ASSUME StoreIndInv, [Next]_vars
    PROVE  ShotsOnDisk'
<1> USE DEF StoreIndInv, TypeOK, ShotsOnDisk, ShotsCounted, DeletesDone, Untouched,
      ChildrenHaveParent, HasRow, memoryVars, planVars, diskVars, deleteVars
<1>1. ASSUME NEW s \in Sessions, RunTask(s) PROVE ShotsOnDisk'
  BY <1>1 DEF RunTask
<1>2. ASSUME NEW s \in Sessions, Start(s) PROVE ShotsOnDisk'
  BY <1>2 DEF Start, GoTo, At
<1>3. ASSUME NEW s \in Sessions, StartWritten(s) PROVE ShotsOnDisk'
  BY <1>3 DEF StartWritten, GoTo, At, AppendEvent, UpdateRow
<1>4. ASSUME NEW s \in Sessions, Shoot(s) PROVE ShotsOnDisk'
  BY <1>4 DEF Shoot, GoTo, At
<1>5. ASSUME NEW s \in Sessions, ShotReported(s) PROVE ShotsOnDisk'
  BY <1>5 DEF ShotReported, GoTo, At, AppendEvent
<1>6. ASSUME NEW s \in Sessions, ShotRecorded(s) PROVE ShotsOnDisk'
  BY <1>6 DEF ShotRecorded, GoTo, At, AppendShot
<1>7. ASSUME NEW s \in Sessions, EndByGraph(s) PROVE ShotsOnDisk'
  BY <1>7 DEF EndByGraph, At, End, GoTo
<1>8. ASSUME NEW s \in Sessions, EndByException(s) PROVE ShotsOnDisk'
  BY <1>8 DEF EndByException, At, End, GoTo
<1>9. ASSUME NEW s \in Sessions, EndByStop(s) PROVE ShotsOnDisk'
  BY <1>9 DEF EndByStop, At, End, GoTo
<1>10. ASSUME NEW s \in Sessions, EndWritten(s) PROVE ShotsOnDisk'
  BY <1>10 DEF EndWritten, GoTo, At, AppendEvent, UpdateRow
<1>11. ASSUME NEW s \in Sessions, PlanMade(s) \/ StopSession(s)
     PROVE  ShotsOnDisk'
  BY <1>11 DEF PlanMade, StopSession
<1>12. ASSUME NEW d \in Deletes, Waited(d) PROVE ShotsOnDisk'
  BY <1>12 DEF Waited
<1>13. ASSUME NEW d \in Deletes, RowDeleted(d) PROVE ShotsOnDisk'
  BY <1>13 DEF RowDeleted, DeleteCascade
<1>14. ASSUME NEW d \in Deletes, FilesRemoved(d) PROVE ShotsOnDisk'
  BY <1>14 DEF FilesRemoved
<1>15. ASSUME NEW d \in Deletes, DeleteAsked(d) \/ RowNotDeleted(d)
     PROVE  ShotsOnDisk'
  BY <1>15 DEF DeleteAsked, RowNotDeleted
<1>16. CASE Restart
  BY <1>16 DEF Restart, NoShots, Nowhere
<1>17. CASE UNCHANGED vars
  BY <1>17 DEF vars
<1> QED
  BY <1>1, <1>2, <1>3, <1>4, <1>5, <1>6, <1>7, <1>8, <1>9, <1>10, <1>11, <1>12, <1>13,
         <1>14, <1>15, <1>16, <1>17 DEF Next, RunnerStep, DeleteStep

\* A session leaves the cache after its runner has ended, or by force.
LEMMA EndedStep ==
    ASSUME StoreIndInv, [Next]_vars
    PROVE  EndedIsDone'
<1> USE DEF StoreIndInv, TypeOK, EndedIsDone, Untouched, Done, About, Terminal,
      memoryVars, planVars, diskVars, deleteVars
<1>1. ASSUME NEW s \in Sessions, RunTask(s) PROVE EndedIsDone'
  BY <1>1 DEF RunTask
<1>2. ASSUME NEW s \in Sessions, Start(s) PROVE EndedIsDone'
  BY <1>2 DEF Start, GoTo, At
<1>3. ASSUME NEW s \in Sessions, StartWritten(s) PROVE EndedIsDone'
  BY <1>3 DEF StartWritten, GoTo, At, AppendEvent, UpdateRow, HasRow
<1>4. ASSUME NEW s \in Sessions, Shoot(s) PROVE EndedIsDone'
  BY <1>4 DEF Shoot, GoTo, At
<1>5. ASSUME NEW s \in Sessions, ShotReported(s) PROVE EndedIsDone'
  BY <1>5 DEF ShotReported, GoTo, At, AppendEvent
<1>6. ASSUME NEW s \in Sessions, ShotRecorded(s) PROVE EndedIsDone'
  BY <1>6 DEF ShotRecorded, GoTo, At, AppendShot, HasRow
<1>7. ASSUME NEW s \in Sessions, EndByGraph(s) PROVE EndedIsDone'
  BY <1>7 DEF EndByGraph, At, End, GoTo
<1>8. ASSUME NEW s \in Sessions, EndByException(s) PROVE EndedIsDone'
  BY <1>8 DEF EndByException, At, End, GoTo
<1>9. ASSUME NEW s \in Sessions, EndByStop(s) PROVE EndedIsDone'
  BY <1>9 DEF EndByStop, At, End, GoTo
<1>10. ASSUME NEW s \in Sessions, EndWritten(s) PROVE EndedIsDone'
  BY <1>10 DEF EndWritten, GoTo, At, AppendEvent, UpdateRow, HasRow
<1>11. ASSUME NEW s \in Sessions, PlanMade(s) \/ StopSession(s)
     PROVE  EndedIsDone'
  BY <1>11 DEF PlanMade, StopSession
<1>12. ASSUME NEW d \in Deletes, Waited(d) PROVE EndedIsDone'
  BY <1>12 DEF Waited
<1>13. ASSUME NEW d \in Deletes, DeleteAsked(d) \/ RowDeleted(d) \/ RowNotDeleted(d) \/
FilesRemoved(d)
     PROVE  EndedIsDone'
  BY <1>13 DEF DeleteAsked, RowDeleted, RowNotDeleted, FilesRemoved, DeleteCascade
<1>14. CASE Restart
  BY <1>14 DEF Restart
<1>15. CASE UNCHANGED vars
  BY <1>15 DEF vars
<1> QED
  BY <1>1, <1>2, <1>3, <1>4, <1>5, <1>6, <1>7, <1>8, <1>9, <1>10, <1>11, <1>12, <1>13,
         <1>14, <1>15 DEF Next, RunnerStep, DeleteStep

\* A store no session has been created in satisfies the invariant.
LEMMA InitInv == Init => StoreIndInv
<1> SUFFICES ASSUME Init PROVE StoreIndInv
  OBVIOUS
<1>1. TypeOK /\ ChildrenHaveParent
  BY BoundsAssumption DEF Init, TypeOK, NoShots, Nowhere, Statuses, ChildrenHaveParent
<1>2. Untouched /\ DeletesDone
  BY DEF Init, Untouched, DeletesDone, HasRow, NoShots
<1>3. ShotsCounted /\ ShotsOnDisk /\ EndedIsDone
  BY DEF Init, ShotsCounted, ShotsOnDisk, HasRow, EndedIsDone, Done, Terminal
<1> QED
  BY <1>1, <1>2, <1>3 DEF StoreIndInv

\* Every step keeps it.
LEMMA InvStep == StoreIndInv /\ [Next]_vars => StoreIndInv'
<1> SUFFICES ASSUME StoreIndInv, [Next]_vars PROVE StoreIndInv'
  OBVIOUS
<1> QED
  BY TypeStep, UntouchedStep, DeletesStep, ChildrenStep, CountStep, DiskStep, EndedStep
     DEF StoreIndInv

\* The inductive invariant of the store: what a DELETE, a runner and a restart have
\* each done is told by how far they are.
THEOREM StoreInvariant == Spec => []StoreIndInv
BY InitInv, InvStep, PTL DEF Spec

\* No write, however late, leaves a row whose session is gone, and every screenshot an
\* artifact names is on disk, for any number of sessions, DELETEs and restarts.
THEOREM StoreRefersToWhatIsThere == Spec => []StoreInv
<1>1. StoreIndInv => NamedShotsExist
  BY DEF StoreIndInv, TypeOK, ShotsOnDisk, NamedShotsExist, ArtifactShots, Listed
<1>2. StoreIndInv => StoreInv
  BY <1>1 DEF StoreIndInv, StoreInv
<1> QED
  BY <1>2, StoreInvariant, PTL

\* A session a DELETE has answered for is neither listed nor readable ever after.
THEOREM AnswerIsFinalHolds == Spec => []AnswerIsFinal
<1>1. StoreIndInv => AnswerIsFinal
  BY DEF StoreIndInv, TypeOK, DeletesDone, AnswerIsFinal, Listed, Snapshot, HasRow
<1> QED
  BY <1>1, StoreInvariant, PTL

\* If no DELETE of the session had to evict it by force, no file of it comes after the wait
\* of one, for any number of sessions, DELETEs and restarts.
THEOREM GracefulDeleteIsLastHolds == Spec => GracefulDeleteIsLast
<1>1. ASSUME StoreIndInv, [Next]_vars, NEW s \in Sessions, LeftGracefully(s)
      PROVE  files'[s] <= files[s]
  <2>1. Done(s) /\ files[s] \in Nat
    BY <1>1 DEF StoreIndInv, TypeOK, DeletesDone, EndedIsDone, LeftGracefully, About
  <2>2. CASE UNCHANGED files
    BY <2>1, <2>2
  <2>3. ASSUME NEW t \in Sessions, Shoot(t) PROVE files'[s] <= files[s]
    BY <1>1, <2>1, <2>3 DEF Shoot, At, Done, StoreIndInv, TypeOK
  <2>4. ASSUME NEW d \in Deletes, FilesRemoved(d) PROVE files'[s] <= files[s]
    BY <1>1, <2>1, <2>4 DEF FilesRemoved, StoreIndInv, TypeOK
  <2>5. \/ UNCHANGED files
        \/ \E t \in Sessions : Shoot(t)
        \/ \E d \in Deletes : FilesRemoved(d)
    BY <1>1 DEF Next, vars, diskVars, RunnerStep, DeleteStep, RunTask, Start, StartWritten,
         PlanMade, ShotReported, ShotRecorded, EndByGraph, EndByException, EndByStop,
         End, EndWritten, StopSession, DeleteAsked, Waited, RowDeleted, RowNotDeleted,
         Restart
  <2> QED
    BY <2>2, <2>3, <2>4, <2>5
<1>2. StoreIndInv /\ [Next]_vars
        => [\A s \in Sessions : LeftGracefully(s) => files'[s] <= files[s]]_vars
  BY <1>1
<1> QED
  BY <1>2, StoreInvariant, PTL DEF Spec, GracefulDeleteIsLast
=============================================================================
