--------------------------- MODULE DatabaseBootProofs ---------------------------
(***************************************************************************)
(* What DatabaseBoot promises for every list of migrations, every schema   *)
(* and any number of sidecar processes.  First what holds even when two    *)
(* sidecars boot on one file, then what needs them to run one at a time.   *)
(***************************************************************************)
EXTENDS DatabaseBoot, TLAPS

\* Where a process is with the list: every target it has dealt with has been
\* committed, and it is in a transaction only for a target its program knows.
DealtWith ==
    \A b \in Boots :
        /\ stage[b] \in {"migrating"} \cup InTransaction =>
               /\ at[b] \in Versions
               /\ \A t \in 1 .. at[b] : applied[t] >= 1
        /\ stage[b] \in InTransaction => at[b] < release[b]
        /\ stage[b] = "schema" => at[b] \in 0 .. Statements
        /\ stage[b] = "unused" => at[b] = 0

SharedInv == TypeOK /\ NoMigrationSkipped /\ DealtWith

\* A fresh file, and no process.
LEMMA SharedInit == Init => SharedInv
<1> SUFFICES ASSUME Init PROVE SharedInv
  OBVIOUS
<1> USE ConstantsAssumption
    DEF Versions, Boots, NoProcess, InTransaction, Running, Booting
<1>1. overlapped \in BOOLEAN
  BY DEF Init
<1>2. user_version = 0 /\ stage = [b \in Boots |-> "unused"] /\ at = [b \in Boots |-> 0]
  BY DEF Init
<1>3. TypeOK
  BY <1>1, SMT DEF Init, TypeOK
<1>4. NoMigrationSkipped /\ DealtWith
  BY <1>2, SMT DEF NoMigrationSkipped, DealtWith
<1> QED
  BY <1>3, <1>4 DEF SharedInv

\* Every step of any process keeps it.
LEMMA SharedStep == SharedInv /\ [Next]_vars => SharedInv'
<1> SUFFICES ASSUME SharedInv, [Next]_vars PROVE SharedInv'
  OBVIOUS
<1> USE ConstantsAssumption
    DEF Versions, Boots, NoProcess, InTransaction, Running, Booting
<1>1. ASSUME NEW b \in Boots, NEW r \in Versions, Start(b, r) PROVE SharedInv'
  <2>1. TypeOK'
    BY <1>1, SMTT(30) DEF Start, SharedInv, TypeOK, file, sessions
  <2>2. NoMigrationSkipped'
    BY <1>1, SMT
    DEF Start, SharedInv, TypeOK, NoMigrationSkipped, DealtWith, file,
        sessions
  <2>3. DealtWith'
    BY <1>1, SMTT(30) DEF Start, SharedInv, TypeOK, DealtWith, file, sessions
  <2> QED
    BY <2>1, <2>2, <2>3 DEF SharedInv
<1>2. ASSUME NEW b \in Boots, CreateStatement(b) PROVE SharedInv'
  <2>1. TypeOK'
    BY <1>2, SMTT(30) DEF CreateStatement, SharedInv, TypeOK, file, sessions
  <2>2. NoMigrationSkipped'
    BY <1>2, SMT
    DEF CreateStatement, SharedInv, TypeOK, NoMigrationSkipped, DealtWith, file,
        sessions
  <2>3. DealtWith'
    BY <1>2, SMTT(30)
    DEF CreateStatement, SharedInv, TypeOK, DealtWith, file, sessions
  <2> QED
    BY <2>1, <2>2, <2>3 DEF SharedInv
<1>3. ASSUME NEW b \in Boots, ReadVersion(b) PROVE SharedInv'
  <2>1. TypeOK'
    BY <1>3, SMTT(30) DEF ReadVersion, SharedInv, TypeOK, file, sessions
  <2>2. NoMigrationSkipped'
    BY <1>3, SMT
    DEF ReadVersion, SharedInv, TypeOK, NoMigrationSkipped, DealtWith, file,
        sessions
  <2>3. DealtWith'
    BY <1>3, SMTT(30)
    DEF ReadVersion, SharedInv, TypeOK, NoMigrationSkipped, DealtWith, file,
        sessions
  <2> QED
    BY <2>1, <2>2, <2>3 DEF SharedInv
<1>4. ASSUME NEW b \in Boots, BeginMigration(b) PROVE SharedInv'
  <2>1. TypeOK'
    BY <1>4, SMTT(30) DEF BeginMigration, SharedInv, TypeOK, file, sessions
  <2>2. NoMigrationSkipped'
    BY <1>4, SMT
    DEF BeginMigration, SharedInv, TypeOK, NoMigrationSkipped, DealtWith, file,
        sessions
  <2>3. DealtWith'
    BY <1>4, SMTT(30)
    DEF BeginMigration, SharedInv, TypeOK, DealtWith, file, sessions
  <2> QED
    BY <2>1, <2>2, <2>3 DEF SharedInv
<1>5. ASSUME NEW b \in Boots, StampVersion(b) PROVE SharedInv'
  <2>1. TypeOK'
    BY <1>5, SMTT(30) DEF StampVersion, SharedInv, TypeOK, file, sessions
  <2>2. NoMigrationSkipped'
    BY <1>5, SMT
    DEF StampVersion, SharedInv, TypeOK, NoMigrationSkipped, DealtWith, file,
        sessions
  <2>3. DealtWith'
    BY <1>5, SMTT(30)
    DEF StampVersion, SharedInv, TypeOK, DealtWith, file, sessions
  <2> QED
    BY <2>1, <2>2, <2>3 DEF SharedInv
<1>6. ASSUME NEW b \in Boots, CommitMigration(b) PROVE SharedInv'
  <2> DEFINE target == at[b] + 1
  <2>1. target \in 1 .. N
    BY <1>6, SMT DEF CommitMigration, SharedInv, TypeOK, DealtWith
  <2>2. /\ user_version' = target
        /\ applied' = [applied EXCEPT ![target] = @ + 1]
        /\ at' = [at EXCEPT ![b] = target]
        /\ stage' = [stage EXCEPT ![b] = "migrating"]
        /\ lock' = NoProcess
        /\ UNCHANGED <<created, row, run, release, found, overlapped>>
    BY <1>6 DEF CommitMigration, sessions
  <2>3. applied' \in [1 .. N -> Nat] /\ \A t \in 1 .. N : applied'[t] >= applied[t]
    <3>1. applied \in [1 .. N -> Nat]
      BY DEF SharedInv, TypeOK
    <3> QED
      BY <2>1, <2>2, <3>1
  <2>4. applied'[target] >= 1
    BY <2>1, <2>2, SMT DEF SharedInv, TypeOK
  <2>5. \A t \in 1 .. at[b] : applied[t] >= 1
    BY <1>6 DEF CommitMigration, SharedInv, DealtWith
  <2>6. \A t \in 1 .. target : applied'[t] >= 1
    <3>1. SUFFICES ASSUME NEW t \in 1 .. target PROVE applied'[t] >= 1
      OBVIOUS
    <3>2. t \in 1 .. N /\ at[b] \in Nat
      BY <2>1, <3>1, SMT DEF SharedInv, TypeOK
    <3>3. CASE t = target
      BY <2>4, <3>3
    <3>4. CASE t \in 1 .. at[b]
      <4>1. applied \in [1 .. N -> Nat]
        BY DEF SharedInv, TypeOK
      <4> QED
        BY <2>3, <2>5, <3>2, <3>4, <4>1
    <3> QED
      BY <3>1, <3>2, <3>3, <3>4
  <2>7. TypeOK'
    BY <2>1, <2>2, <2>3, SMT DEF SharedInv, TypeOK
  <2>8. NoMigrationSkipped'
    BY <2>2, <2>6 DEF NoMigrationSkipped
  <2>9. DealtWith'
    BY <2>1, <2>2, <2>3, <2>6, SMT DEF SharedInv, TypeOK, DealtWith
  <2> QED
    BY <2>7, <2>8, <2>9 DEF SharedInv
<1>7. ASSUME NEW b \in Boots, MigrationRaises(b) PROVE SharedInv'
  <2>1. TypeOK'
    BY <1>7, SMTT(30) DEF MigrationRaises, SharedInv, TypeOK, file, sessions
  <2>2. NoMigrationSkipped'
    BY <1>7, SMT
    DEF MigrationRaises, SharedInv, TypeOK, NoMigrationSkipped, DealtWith, file,
        sessions
  <2>3. DealtWith'
    BY <1>7, SMTT(30)
    DEF MigrationRaises, SharedInv, TypeOK, DealtWith, file, sessions
  <2> QED
    BY <2>1, <2>2, <2>3 DEF SharedInv
<1>8. ASSUME NEW b \in Boots, DatabaseLocked(b) PROVE SharedInv'
  <2>1. TypeOK'
    BY <1>8, SMTT(30) DEF DatabaseLocked, SharedInv, TypeOK, file, sessions
  <2>2. NoMigrationSkipped'
    BY <1>8, SMT
    DEF DatabaseLocked, SharedInv, TypeOK, NoMigrationSkipped, DealtWith, file,
        sessions
  <2>3. DealtWith'
    BY <1>8, SMTT(30)
    DEF DatabaseLocked, SharedInv, TypeOK, DealtWith, file, sessions
  <2> QED
    BY <2>1, <2>2, <2>3 DEF SharedInv
<1>9. ASSUME NEW b \in Boots, CleanupStaleActive(b) PROVE SharedInv'
  <2>1. TypeOK'
    BY <1>9, SMTT(30) DEF CleanupStaleActive, SharedInv, TypeOK, file, sessions
  <2>2. NoMigrationSkipped'
    BY <1>9, SMT
    DEF CleanupStaleActive, SharedInv, TypeOK, NoMigrationSkipped, DealtWith, file,
        sessions
  <2>3. DealtWith'
    BY <1>9, SMTT(30)
    DEF CleanupStaleActive, SharedInv, TypeOK, DealtWith, file, sessions
  <2> QED
    BY <2>1, <2>2, <2>3 DEF SharedInv
<1>10. ASSUME NEW b \in Boots, RunStarts(b) \/ RunIsActive(b) PROVE SharedInv'
  <2>1. TypeOK'
    <3>1. CASE RunStarts(b)
      BY <3>1, SMTT(30) DEF RunStarts, SharedInv, TypeOK, file, sessions
    <3>2. CASE RunIsActive(b)
      BY <3>2, SMTT(30) DEF RunIsActive, SharedInv, TypeOK, file, sessions
    <3> QED
      BY <1>10, <3>1, <3>2
  <2>2. NoMigrationSkipped'
    BY <1>10, SMT
    DEF RunStarts, RunIsActive, SharedInv, TypeOK, NoMigrationSkipped, DealtWith, file,
        sessions
  <2>3. DealtWith'
    BY <1>10, SMTT(30)
    DEF RunStarts, RunIsActive, SharedInv, TypeOK, DealtWith, file, sessions
  <2> QED
    BY <2>1, <2>2, <2>3 DEF SharedInv
<1>11. ASSUME NEW b \in Boots, RunEnds(b) PROVE SharedInv'
  <2>1. TypeOK'
    BY <1>11, SMTT(30) DEF RunEnds, SharedInv, TypeOK, file, sessions
  <2>2. NoMigrationSkipped'
    BY <1>11, SMT
    DEF RunEnds, SharedInv, TypeOK, NoMigrationSkipped, DealtWith, file,
        sessions
  <2>3. DealtWith'
    BY <1>11, SMTT(30) DEF RunEnds, SharedInv, TypeOK, DealtWith, file, sessions
  <2> QED
    BY <2>1, <2>2, <2>3 DEF SharedInv
<1>12. ASSUME NEW b \in Boots, Die(b) PROVE SharedInv'
  <2>1. TypeOK'
    BY <1>12, SMTT(30) DEF Die, SharedInv, TypeOK, file, sessions
  <2>2. NoMigrationSkipped'
    BY <1>12, SMT
    DEF Die, SharedInv, TypeOK, NoMigrationSkipped, DealtWith, file,
        sessions
  <2>3. DealtWith'
    BY <1>12, SMTT(30) DEF Die, SharedInv, TypeOK, DealtWith, file, sessions
  <2> QED
    BY <2>1, <2>2, <2>3 DEF SharedInv
<1>13. CASE UNCHANGED vars
  BY <1>13, SMT
  DEF vars, file, sessions, SharedInv, TypeOK, NoMigrationSkipped, DealtWith
<1> QED
  BY <1>1, <1>2, <1>3, <1>4, <1>5, <1>6, <1>7, <1>8,
     <1>9, <1>10, <1>11, <1>12, <1>13
  DEF Next, BootStep

\* Every variable keeps its type.
THEOREM TypeCorrect == Spec => []TypeOK
<1>1. SharedInv => TypeOK
  BY DEF SharedInv
<1> QED
  BY SharedInit, SharedStep, <1>1, PTL DEF Spec

\* PRAGMA user_version never claims a migration that was not committed, with
\* any number of sidecars booting on one file at once.
THEOREM NothingSkipped == Spec => []NoMigrationSkipped
<1>1. SharedInv => NoMigrationSkipped
  BY DEF SharedInv
<1> QED
  BY SharedInit, SharedStep, <1>1, PTL DEF Spec

(***************************************************************************)
(* One sidecar at a time                                                   *)
(***************************************************************************)

Lone == \A a, b \in Alive : a = b

\* The process that is alive knows where the file is: what it takes the
\* version and the schema to be is what they are.
KnowsFile ==
    \A b \in Boots :
        /\ stage[b] = "schema" => created >= at[b]
        /\ stage[b] \in {"migrating"} \cup InTransaction =>
               created = Statements /\ at[b] = user_version

LoneInv ==
    SharedInv /\ Lone /\ KnowsFile /\ AppliedOnce /\ ServesMigrated /\ NoStaleRow

\* One process at a time: a step of b concerns the only one alive.
LEMMA LoneStep ==
    ASSUME ~overlapped', SharedInv, Lone, [Next]_vars
    PROVE  Lone'
<1> USE DEF SharedInv, TypeOK, Lone, Alive, InTransaction, Running, Booting,
        file, sessions
<1>1. ASSUME NEW b \in Boots, NEW r \in Versions, Start(b, r) PROVE Lone'
  <2>1. Alive = {} /\ stage' = [stage EXCEPT ![b] = "schema"]
    BY <1>1 DEF Start
  <2> QED
    BY <2>1, SMT
<1>2. ASSUME NEW b \in Boots, CreateStatement(b) PROVE Lone'
  BY <1>2, SMT DEF CreateStatement
<1>3. ASSUME NEW b \in Boots, ReadVersion(b) PROVE Lone'
  BY <1>3, SMT DEF ReadVersion
<1>4. ASSUME NEW b \in Boots, BeginMigration(b) PROVE Lone'
  BY <1>4, SMT DEF BeginMigration
<1>5. ASSUME NEW b \in Boots, StampVersion(b) PROVE Lone'
  BY <1>5, SMT DEF StampVersion
<1>6. ASSUME NEW b \in Boots, CommitMigration(b) PROVE Lone'
  BY <1>6, SMT DEF CommitMigration
<1>7. ASSUME NEW b \in Boots, MigrationRaises(b) PROVE Lone'
  BY <1>7, SMT DEF MigrationRaises
<1>8. ASSUME NEW b \in Boots, DatabaseLocked(b) PROVE Lone'
  BY <1>8, SMT DEF DatabaseLocked
<1>9. ASSUME NEW b \in Boots, CleanupStaleActive(b) PROVE Lone'
  BY <1>9, SMT DEF CleanupStaleActive
<1>10. ASSUME NEW b \in Boots, RunStarts(b) \/ RunIsActive(b) PROVE Lone'
  BY <1>10, SMT DEF RunStarts, RunIsActive
<1>11. ASSUME NEW b \in Boots, RunEnds(b) PROVE Lone'
  BY <1>11, SMT DEF RunEnds
<1>12. ASSUME NEW b \in Boots, Die(b) PROVE Lone'
  BY <1>12, SMT DEF Die
<1>13. CASE UNCHANGED vars
  BY <1>13 DEF vars
<1> QED
  BY <1>1, <1>2, <1>3, <1>4, <1>5, <1>6, <1>7, <1>8,
     <1>9, <1>10, <1>11, <1>12, <1>13
  DEF Next, BootStep

\* A boot goes on from the file as it is: nobody else changes it meanwhile.
LEMMA KnowsFileStep ==
    ASSUME ~overlapped', LoneInv, [Next]_vars
    PROVE  KnowsFile'
<1> USE ConstantsAssumption
    DEF LoneInv, SharedInv, TypeOK, Lone, Alive, DealtWith, KnowsFile,
        InTransaction, Running, Booting, file, sessions
<1>1. ASSUME NEW b \in Boots, NEW r \in Versions, Start(b, r) PROVE KnowsFile'
  BY <1>1, SMT DEF Start
<1>2. ASSUME NEW b \in Boots, CreateStatement(b) PROVE KnowsFile'
  BY <1>2, SMT DEF CreateStatement
<1>3. ASSUME NEW b \in Boots, ReadVersion(b) PROVE KnowsFile'
  BY <1>3, SMT DEF ReadVersion
<1>4. ASSUME NEW b \in Boots, BeginMigration(b) PROVE KnowsFile'
  BY <1>4, SMT DEF BeginMigration
<1>5. ASSUME NEW b \in Boots, StampVersion(b) PROVE KnowsFile'
  BY <1>5, SMT DEF StampVersion
<1>6. ASSUME NEW b \in Boots, CommitMigration(b) PROVE KnowsFile'
  BY <1>6, SMT DEF CommitMigration
<1>7. ASSUME NEW b \in Boots, MigrationRaises(b) PROVE KnowsFile'
  BY <1>7, SMT DEF MigrationRaises
<1>8. ASSUME NEW b \in Boots, DatabaseLocked(b) PROVE KnowsFile'
  BY <1>8, SMT DEF DatabaseLocked
<1>9. ASSUME NEW b \in Boots, CleanupStaleActive(b) PROVE KnowsFile'
  BY <1>9, SMT DEF CleanupStaleActive
<1>10. ASSUME NEW b \in Boots, RunStarts(b) \/ RunIsActive(b) PROVE KnowsFile'
  BY <1>10, SMT DEF RunStarts, RunIsActive
<1>11. ASSUME NEW b \in Boots, RunEnds(b) PROVE KnowsFile'
  BY <1>11, SMT DEF RunEnds
<1>12. ASSUME NEW b \in Boots, Die(b) PROVE KnowsFile'
  BY <1>12, SMT DEF Die
<1>13. CASE UNCHANGED vars
  BY <1>13 DEF vars
<1> QED
  BY <1>1, <1>2, <1>3, <1>4, <1>5, <1>6, <1>7, <1>8,
     <1>9, <1>10, <1>11, <1>12, <1>13
  DEF Next, BootStep

\* Only a commit touches what is applied and the version, and it commits the
\* target that follows the version of the file.
LEMMA AppliedOnceStep ==
    ASSUME ~overlapped', ~overlapped, LoneInv, [Next]_vars
    PROVE  AppliedOnce'
<1>1. applied \in [1 .. N -> Nat] /\ user_version \in Nat
  BY ConstantsAssumption, SMT DEF LoneInv, SharedInv, TypeOK, Versions
<1>2. ASSUME NEW b \in Boots, CommitMigration(b) PROVE AppliedOnce'
  <2>1. /\ user_version' = user_version + 1
        /\ applied' = [applied EXCEPT ![user_version + 1] = @ + 1]
    <3>1. stage[b] \in InTransaction
      BY <1>2 DEF CommitMigration, InTransaction
    <3>2. at[b] = user_version
      BY <3>1 DEF LoneInv, KnowsFile
    <3> QED
      BY <1>2, <3>2 DEF CommitMigration
  <2> QED
    BY <1>1, <2>1, SMT DEF LoneInv, AppliedOnce
<1>3. CASE UNCHANGED <<user_version, applied>>
  BY <1>3 DEF LoneInv, AppliedOnce
<1> QED
  BY <1>2, <1>3
  DEF Next, BootStep, Start, CreateStatement, ReadVersion, BeginMigration,
      StampVersion, MigrationRaises, DatabaseLocked, CleanupStaleActive,
      RunStarts, RunIsActive, RunEnds, Die, file, vars

\* The clean-up comes last, after the whole list; no other boot is under way
\* while a sidecar serves.
LEMMA ServesMigratedStep ==
    ASSUME ~overlapped', LoneInv, [Next]_vars
    PROVE  ServesMigrated'
<1> USE ConstantsAssumption
    DEF LoneInv, SharedInv, TypeOK, Lone, Alive, KnowsFile, ServesMigrated,
        InTransaction, Running, Booting, file, sessions, Versions
<1>1. ASSUME NEW b \in Boots, NEW r \in Versions, Start(b, r) PROVE ServesMigrated'
  BY <1>1, SMT DEF Start
<1>2. ASSUME NEW b \in Boots, CreateStatement(b) PROVE ServesMigrated'
  BY <1>2, SMT DEF CreateStatement
<1>3. ASSUME NEW b \in Boots, ReadVersion(b) PROVE ServesMigrated'
  BY <1>3, SMT DEF ReadVersion
<1>4. ASSUME NEW b \in Boots, BeginMigration(b) PROVE ServesMigrated'
  BY <1>4, SMT DEF BeginMigration
<1>5. ASSUME NEW b \in Boots, StampVersion(b) PROVE ServesMigrated'
  BY <1>5, SMT DEF StampVersion
<1>6. ASSUME NEW b \in Boots, CommitMigration(b) PROVE ServesMigrated'
  BY <1>6, SMT DEF CommitMigration
<1>7. ASSUME NEW b \in Boots, MigrationRaises(b) PROVE ServesMigrated'
  BY <1>7, SMT DEF MigrationRaises
<1>8. ASSUME NEW b \in Boots, DatabaseLocked(b) PROVE ServesMigrated'
  BY <1>8, SMT DEF DatabaseLocked
<1>9. ASSUME NEW b \in Boots, CleanupStaleActive(b) PROVE ServesMigrated'
  BY <1>9, SMT DEF CleanupStaleActive
<1>10. ASSUME NEW b \in Boots, RunStarts(b) \/ RunIsActive(b) PROVE ServesMigrated'
  BY <1>10, SMT DEF RunStarts, RunIsActive
<1>11. ASSUME NEW b \in Boots, RunEnds(b) PROVE ServesMigrated'
  BY <1>11, SMT DEF RunEnds
<1>12. ASSUME NEW b \in Boots, Die(b) PROVE ServesMigrated'
  BY <1>12, SMT DEF Die
<1>13. CASE UNCHANGED vars
  BY <1>13 DEF vars
<1> QED
  BY <1>1, <1>2, <1>3, <1>4, <1>5, <1>6, <1>7, <1>8,
     <1>9, <1>10, <1>11, <1>12, <1>13
  DEF Next, BootStep

\* The clean-up closes every active row, and only the live sidecar writes one.
LEMMA NoStaleRowStep ==
    ASSUME ~overlapped', LoneInv, [Next]_vars
    PROVE  NoStaleRow'
<1> USE ConstantsAssumption
    DEF LoneInv, SharedInv, TypeOK, Lone, Alive, NoStaleRow, InTransaction,
        Running, Booting, file, sessions
<1>1. ASSUME NEW b \in Boots, NEW r \in Versions, Start(b, r) PROVE NoStaleRow'
  BY <1>1, SMT DEF Start
<1>2. ASSUME NEW b \in Boots, CreateStatement(b) PROVE NoStaleRow'
  BY <1>2, SMT DEF CreateStatement
<1>3. ASSUME NEW b \in Boots, ReadVersion(b) PROVE NoStaleRow'
  BY <1>3, SMT DEF ReadVersion
<1>4. ASSUME NEW b \in Boots, BeginMigration(b) PROVE NoStaleRow'
  BY <1>4, SMT DEF BeginMigration
<1>5. ASSUME NEW b \in Boots, StampVersion(b) PROVE NoStaleRow'
  BY <1>5, SMT DEF StampVersion
<1>6. ASSUME NEW b \in Boots, CommitMigration(b) PROVE NoStaleRow'
  BY <1>6, SMT DEF CommitMigration
<1>7. ASSUME NEW b \in Boots, MigrationRaises(b) PROVE NoStaleRow'
  BY <1>7, SMT DEF MigrationRaises
<1>8. ASSUME NEW b \in Boots, DatabaseLocked(b) PROVE NoStaleRow'
  BY <1>8, SMT DEF DatabaseLocked
<1>9. ASSUME NEW b \in Boots, CleanupStaleActive(b) PROVE NoStaleRow'
  BY <1>9, SMT DEF CleanupStaleActive
<1>10. ASSUME NEW b \in Boots, RunStarts(b) \/ RunIsActive(b) PROVE NoStaleRow'
  BY <1>10, SMT DEF RunStarts, RunIsActive
<1>11. ASSUME NEW b \in Boots, RunEnds(b) PROVE NoStaleRow'
  BY <1>11, SMT DEF RunEnds
<1>12. ASSUME NEW b \in Boots, Die(b) PROVE NoStaleRow'
  BY <1>12, SMT DEF Die
<1>13. CASE UNCHANGED vars
  BY <1>13 DEF vars
<1> QED
  BY <1>1, <1>2, <1>3, <1>4, <1>5, <1>6, <1>7, <1>8,
     <1>9, <1>10, <1>11, <1>12, <1>13
  DEF Next, BootStep

\* A fresh file, and nobody to disagree about it.
LEMMA LoneInitially == Init => LoneInv
  BY SharedInit, ConstantsAssumption, SMT
  DEF Init, LoneInv, Lone, Alive, KnowsFile, AppliedOnce, ServesMigrated,
      NoStaleRow, Versions, Boots, InTransaction, Running, Booting

\* The strengthened invariant: with two at once, only the first part is left.
BootInv == SharedInv /\ (~overlapped => LoneInv)

\* A file that two sidecars have shared stays one: history is not undone.
LEMMA OverlapStays ==
    ASSUME [Next]_vars, ~overlapped'
    PROVE  ~overlapped
  BY DEF Next, BootStep, Start, CreateStatement, ReadVersion, BeginMigration,
     StampVersion, CommitMigration, MigrationRaises, DatabaseLocked,
     CleanupStaleActive, RunStarts, RunIsActive, RunEnds, Die, vars

LEMMA BootInitially == Init => BootInv
  BY LoneInitially, SharedInit DEF BootInv

LEMMA BootInvStep == BootInv /\ [Next]_vars => BootInv'
<1> SUFFICES ASSUME BootInv, [Next]_vars PROVE BootInv'
  OBVIOUS
<1>1. SharedInv'
  BY SharedStep DEF BootInv
<1>2. ASSUME ~overlapped' PROVE LoneInv'
  <2>1. ~overlapped /\ LoneInv
    BY <1>2, OverlapStays DEF BootInv
  <2>2. Lone'
    BY <1>2, <2>1, LoneStep DEF LoneInv
  <2>3. KnowsFile' /\ AppliedOnce' /\ ServesMigrated' /\ NoStaleRow'
    BY <1>2, <2>1, KnowsFileStep, AppliedOnceStep, ServesMigratedStep, NoStaleRowStep
  <2> QED
    BY <1>1, <2>2, <2>3 DEF LoneInv
<1> QED
  BY <1>1, <1>2 DEF BootInv

\* As long as sidecars have run one at a time, every migration up to the version
\* of the file has been committed exactly once and no later one at all, whatever
\* boots failed, died half-way or were of another release.
THEOREM MigratedOnce == Spec => []AppliedOnce
<1>1. BootInv => AppliedOnce
  BY DEF BootInv, LoneInv, AppliedOnce
<1> QED
  BY BootInitially, BootInvStep, <1>1, PTL DEF Spec

\* As long as sidecars have run one at a time, one answers requests only on a
\* file that has the whole schema and every migration its program knows.
THEOREM ServedFileIsMigrated == Spec => []ServesMigrated
<1>1. BootInv => ServesMigrated
  BY DEF BootInv, LoneInv, ServesMigrated
<1> QED
  BY BootInitially, BootInvStep, <1>1, PTL DEF Spec

\* As long as sidecars have run one at a time, once one serves no row of a
\* process that is gone is active.
THEOREM NoRowLeftActive == Spec => []NoStaleRow
<1>1. BootInv => NoStaleRow
  BY DEF BootInv, LoneInv, NoStaleRow
<1> QED
  BY BootInitially, BootInvStep, <1>1, PTL DEF Spec

\* Only a commit changes the version, and it moves it up by one.
LEMMA VersionStep ==
    ASSUME LoneInv, [Next]_vars
    PROVE  user_version' >= user_version
<1> user_version \in Int
  BY DEF LoneInv, SharedInv, TypeOK, Versions
<1>1. ASSUME NEW b \in Boots, CommitMigration(b) PROVE user_version' >= user_version
  BY <1>1, SMT DEF CommitMigration, LoneInv, KnowsFile, InTransaction
<1>2. ASSUME user_version' = user_version PROVE user_version' >= user_version
  BY <1>2
<1> QED
  BY <1>1, <1>2
  DEF Next, BootStep, Start, CreateStatement, ReadVersion, BeginMigration,
      StampVersion, MigrationRaises, DatabaseLocked, CleanupStaleActive,
      RunStarts, RunIsActive, RunEnds, Die, file, vars

\* No process ever takes the file back to a version it has left, as long as they
\* have run one at a time.
THEOREM VersionOnlyRises == Spec => VersionNeverFalls
<1>1. BootInv /\ [Next]_vars => [overlapped \/ user_version' >= user_version]_vars
  BY VersionStep DEF BootInv
<1> QED
  BY BootInitially, BootInvStep, <1>1, PTL DEF Spec, VersionNeverFalls
================================================================================
