------------------------------ MODULE DatabaseBoot ------------------------------
(***************************************************************************)
(* What a sidecar does to the SQLite file before it serves its first       *)
(* request: the lifespan hook of server/internal/app.py creates the schema *)
(* (storage/db.py), applies the migrations the file has not seen           *)
(* (storage/migrations.py) and closes the rows a killed sidecar left       *)
(* active (storage/repositories/sessions.py).                              *)
(*                                                                         *)
(* A process may die between any two statements, and the next one finds    *)
(* the file as the last commit left it.  MIGRATIONS is empty in v1; the    *)
(* module takes it to be any list 1 .. N of target versions, of which a    *)
(* release of the program knows the first few.                             *)
(***************************************************************************)
EXTENDS Integers

CONSTANTS
    N,           \* the last target_version of MIGRATIONS
    Statements,  \* how many CREATE ... IF NOT EXISTS schema.sql has
    MaxBoots     \* bound: sidecar processes started

ASSUME ConstantsAssumption ==
    N \in Nat /\ Statements \in Nat /\ MaxBoots \in Nat

VARIABLES
    \* the file
    created,      \* statements of schema.sql that have taken effect
    user_version, \* PRAGMA user_version
    applied,      \* how often each migration has been committed
    row,          \* the status column of each process's session
    lock,         \* the process with an open write transaction, or NoProcess
    \* the processes
    stage,
    release,      \* the last migration the process's program knows
    at,           \* statements it has executed, then the target it has dealt with
    found,        \* the user_version it read
    run,          \* its session, in memory
    overlapped    \* history: two of them have been alive at once

file == <<created, user_version, applied>>
sessions == <<row, run>>
vars == <<file, sessions, lock, stage, release, at, found, overlapped>>

Boots == 1 .. MaxBoots
Versions == 0 .. N
NoProcess == 0

InTransaction == {"applying", "stamped"}
Booting == {"schema", "migrating"} \cup InTransaction
Running == Booting \cup {"serving"}
Alive == {b \in Boots : stage[b] \in Running}

TypeOK ==
    /\ overlapped \in BOOLEAN
    /\ created \in 0 .. Statements
    /\ user_version \in Versions
    /\ applied \in [1 .. N -> Nat]
    /\ row \in [Boots -> {"none", "idle", "active", "ended", "errored"}]
    /\ run \in [Boots -> {"none", "idle", "active", "ended"}]
    /\ lock \in Boots \cup {NoProcess}
    /\ stage \in [Boots -> {"unused", "failed", "dead"} \cup Running]
    /\ release \in [Boots -> Versions]
    /\ at \in [Boots -> Nat]
    /\ found \in [Boots -> Versions]

Init ==
    /\ created = 0
    /\ user_version = 0
    /\ applied = [t \in 1 .. N |-> 0]
    /\ row = [b \in Boots |-> "none"]
    /\ run = [b \in Boots |-> "none"]
    /\ lock = NoProcess
    /\ stage = [b \in Boots |-> "unused"]
    /\ release = [b \in Boots |-> 0]
    /\ at = [b \in Boots |-> 0]
    /\ found = [b \in Boots |-> 0]
    /\ overlapped = FALSE

(***************************************************************************)
(* The life of a process                                                   *)
(***************************************************************************)
Start(b, r) ==
    /\ stage[b] = "unused"
    /\ stage' = [stage EXCEPT ![b] = "schema"]
    /\ release' = [release EXCEPT ![b] = r]
    /\ overlapped' = (overlapped \/ Alive # {})
    /\ UNCHANGED <<file, sessions, lock, at, found>>

\* One statement of executescript, which commits each on its own and does
\* nothing when what it creates is there.
CreateStatement(b) ==
    /\ stage[b] = "schema"
    /\ at[b] < Statements
    /\ at[b] < created \/ lock = NoProcess
    /\ at' = [at EXCEPT ![b] = @ + 1]
    /\ created' = IF created > at[b] THEN created ELSE at[b] + 1
    /\ UNCHANGED <<user_version, applied, sessions, lock, stage, release,
                   found, overlapped>>

\* current_version, read once and outside any transaction; the loop skips
\* every target up to it.
ReadVersion(b) ==
    /\ stage[b] = "schema"
    /\ at[b] = Statements
    /\ stage' = [stage EXCEPT ![b] = "migrating"]
    /\ found' = [found EXCEPT ![b] = user_version]
    /\ at' = [at EXCEPT ![b] = user_version]
    /\ UNCHANGED <<file, sessions, lock, release, overlapped>>

\* BEGIN, and the first write of the migration, which takes the write lock.
BeginMigration(b) ==
    /\ stage[b] = "migrating"
    /\ at[b] < release[b]
    /\ lock = NoProcess
    /\ lock' = b
    /\ stage' = [stage EXCEPT ![b] = "applying"]
    /\ UNCHANGED <<file, sessions, release, at, found, overlapped>>

\* Mutant: The version is written before BEGIN.
StampOutside(b) ==
    /\ stage[b] = "applying"
    /\ user_version' = at[b] + 1
    /\ stage' = [stage EXCEPT ![b] = "stamped"]
    /\ UNCHANGED <<created, applied, sessions, lock, release, at, found, overlapped>>

\* PRAGMA user_version, inside the transaction: nothing shows before COMMIT.
StampVersion(b) ==
    /\ stage[b] = "applying"
    /\ stage' = [stage EXCEPT ![b] = "stamped"]
    /\ UNCHANGED <<file, sessions, lock, release, at, found, overlapped>>

CommitMigration(b) ==
    LET target == at[b] + 1 IN
    /\ stage[b] = "stamped"
    /\ user_version' = target
    /\ applied' = [applied EXCEPT ![target] = @ + 1]
    /\ at' = [at EXCEPT ![b] = target]
    /\ lock' = NoProcess
    /\ stage' = [stage EXCEPT ![b] = "migrating"]
    /\ UNCHANGED <<created, sessions, release, found, overlapped>>

\* Mutant: The exception is logged and not raised again.
RaiseLogged(b) ==
    /\ stage[b] \in InTransaction
    /\ lock' = NoProcess
    /\ at' = [at EXCEPT ![b] = @ + 1]
    /\ stage' = [stage EXCEPT ![b] = "migrating"]
    /\ UNCHANGED <<file, sessions, release, found, overlapped>>

\* Mutant: A failed migration is tried again.
RaiseRetried(b) ==
    /\ stage[b] \in InTransaction
    /\ lock' = NoProcess
    /\ stage' = [stage EXCEPT ![b] = "migrating"]
    /\ UNCHANGED <<file, sessions, release, at, found, overlapped>>

\* The migration, the PRAGMA or the COMMIT raises: ROLLBACK, and the boot is
\* given up.
MigrationRaises(b) ==
    /\ stage[b] \in InTransaction
    /\ lock' = NoProcess
    /\ stage' = [stage EXCEPT ![b] = "failed"]
    /\ UNCHANGED <<file, sessions, release, at, found, overlapped>>

\* Another process keeps the write lock for longer than busy_timeout.
DatabaseLocked(b) ==
    /\ stage[b] \in {"schema", "migrating"}
    /\ lock # NoProcess
    /\ stage' = [stage EXCEPT ![b] = "failed"]
    /\ UNCHANGED <<file, sessions, lock, release, at, found, overlapped>>

\* Mutant: Only the rows of the sidecar before this one are closed.
CleanupLast(b) ==
    /\ stage[b] = "migrating"
    /\ at[b] >= release[b]
    /\ lock = NoProcess
    /\ row' = [s \in Boots |->
                  IF row[s] = "active" /\ s = b - 1 THEN "errored" ELSE row[s]]
    /\ stage' = [stage EXCEPT ![b] = "serving"]
    /\ UNCHANGED <<file, run, lock, release, at, found, overlapped>>

\* cleanup_stale_active closes every running or paused row, whoever wrote it.
CleanupStaleActive(b) ==
    /\ stage[b] = "migrating"
    /\ at[b] >= release[b]
    /\ lock = NoProcess
    /\ row' = [s \in Boots |-> IF row[s] = "active" THEN "errored" ELSE row[s]]
    /\ stage' = [stage EXCEPT ![b] = "serving"]
    /\ UNCHANGED <<file, run, lock, release, at, found, overlapped>>

\* POST /run inserts the row, as idle, before it answers.
RunStarts(b) ==
    /\ stage[b] = "serving"
    /\ lock = NoProcess
    /\ run[b] = "none"
    /\ run' = [run EXCEPT ![b] = "idle"]
    /\ row' = [row EXCEPT ![b] = "idle"]
    /\ UNCHANGED <<file, lock, stage, release, at, found, overlapped>>

\* The runner's task has come to its turn, and marks the session as running.
RunIsActive(b) ==
    /\ stage[b] = "serving"
    /\ lock = NoProcess
    /\ run[b] = "idle"
    /\ run' = [run EXCEPT ![b] = "active"]
    /\ row' = [row EXCEPT ![b] = "active"]
    /\ UNCHANGED <<file, lock, stage, release, at, found, overlapped>>

\* It has ended, or failed before it was marked.
RunEnds(b) ==
    /\ stage[b] = "serving"
    /\ lock = NoProcess
    /\ run[b] \in {"idle", "active"}
    /\ run' = [run EXCEPT ![b] = "ended"]
    /\ row' = [row EXCEPT ![b] = "ended"]
    /\ UNCHANGED <<file, lock, stage, release, at, found, overlapped>>

\* Killed, or the application quits: SQLite drops what was not committed.
Die(b) ==
    /\ b \in Alive
    /\ stage' = [stage EXCEPT ![b] = "dead"]
    /\ lock' = IF lock = b THEN NoProcess ELSE lock
    /\ UNCHANGED <<file, sessions, release, at, found, overlapped>>

BootStep(b) ==
    \/ CreateStatement(b)
    \/ ReadVersion(b)
    \/ BeginMigration(b)
    \/ StampVersion(b)
    \/ CommitMigration(b)
    \/ MigrationRaises(b)
    \/ CleanupStaleActive(b)

Next ==
    \E b \in Boots :
        \/ \E r \in Versions : Start(b, r)
        \/ BootStep(b)
        \/ DatabaseLocked(b)
        \/ RunStarts(b)
        \/ RunIsActive(b)
        \/ RunEnds(b)
        \/ Die(b)

\* The boot is sequential code: a process that is not killed goes on with it.
Spec == Init /\ [][Next]_vars /\ \A b \in Boots : WF_vars(BootStep(b))

(***************************************************************************)
(* Properties                                                              *)
(***************************************************************************)

\* As long as sidecars run one at a time, and whatever boots fail, die half-way or
\* run another release, every migration
\* up to user_version has been committed exactly once and no later one at all
\* (apply: BEGIN, migration, PRAGMA user_version, COMMIT).
AppliedOnce ==
    ~overlapped => \A t \in 1 .. N : applied[t] = IF t <= user_version THEN 1 ELSE 0

\* Even when two sidecars boot on one file at once, the version never claims a
\* migration that was not committed: PRAGMA user_version is part of its
\* transaction.
NoMigrationSkipped == \A t \in 1 .. user_version : applied[t] >= 1

\* As long as they run one at a time, a sidecar answers requests only on a file that
\* has the whole schema and every migration its own program knows (a failed apply
\* aborts the boot).
ServesMigrated ==
    ~overlapped => \A b \in Boots :
        stage[b] = "serving" => created = Statements /\ user_version >= release[b]

\* As long as they run one at a time, once a sidecar serves no session of a process
\* that is gone is listed as active (cleanup_stale_active, "a stale active session is
\* not shown").
NoStaleRow ==
    ~overlapped => \A b, s \in Boots :
        stage[b] = "serving" /\ s \notin Alive => row[s] # "active"

\* A session under way in a live sidecar is listed as active: starting a
\* sidecar closes only what was left behind ("a single sidecar is assumed, so
\* it is safe", cleanup_stale_active).
RunKeepsRow ==
    \A b \in Alive : run[b] = "active" => row[b] = "active"

\* The apply of a boot that fails leaves the version it found ("applies them in
\* order in a single transaction ... ROLLBACK on partial failure",
\* migrations.py).
AllOrNothing ==
    \A b \in Boots : stage[b] = "failed" => at[b] = found[b]

\* As long as they run one at a time, none takes the file back: an older
\* release leaves a newer file alone (target <= version is skipped).
VersionNeverFalls == [][overlapped \/ user_version' >= user_version]_vars

\* A boot comes to an end, also beside another one: the sidecar serves, or its process is gone.
BootEnds ==
    \A b \in Boots : stage[b] = "schema" ~> stage[b] \notin Booting
================================================================================
