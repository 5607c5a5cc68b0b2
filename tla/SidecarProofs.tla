----------------------------- MODULE SidecarProofs -----------------------------
(***************************************************************************)
(* Theorems about the Electron main process, for any number of launches,   *)
(* of saves and of providers.                                              *)
(*                                                                         *)
(* A number is left for every process that is spawned, the handle is of    *)
(* the last one, and a save that says it restarted the sidecar has, with   *)
(* several saves under way as well (SidecarInv).  That no process escapes  *)
(* holds as long as neither a save nor the quit has begun in the midst of  *)
(* another: then the one child alive is in the handle (OneAtATime).        *)
(***************************************************************************)
EXTENDS Sidecar, FiniteSetTheorems, WellFoundedInduction, NaturalsInduction, TLAPS

N == MaxSaves + MaxLaunches
Saves == 1 .. MaxSaves

\* What the numbers stand for: a handler waits for a process that has been spawned, the
\* handle is one of this main process' children, and the environment has the last port.
HandlesInv ==
    /\ children \subseteq Spawned /\ signalled \subseteq Spawned
    /\ \A h \in Handlers : target[h] \in {NoProcess} \cup Spawned
    /\ HandleIsNewest
    /\ sidecar # NoProcess => sidecar \in children
    /\ app = "quit" => sidecar = NoProcess /\ \A h \in Handlers : pc[h] \notin UnderWay
    /\ Newest \in children => env_port = Newest

\* Saves are made one after the other, so that the file has been written last by one
\* that is as late as any under way.
SettingsInv ==
    /\ \A g, h \in Saves : g < h /\ pc[g] = "idle" => pc[h] = "idle"
    /\ pc[0] \notin Stopping
    /\ \A h \in Handlers : pc[h] \in UnderWay => settings.saved_by >= h
    /\ \A h \in Handlers :
           pc[h] \in {"booting", "restarted"} =>
               target[h] \in Spawned /\ spawned_with[target[h]] >= h

\* Saves that have not spawned a process, and may do so yet.
Unspent == {h \in Saves : pc[h] \in {"idle", "port"} \cup Stopping}

\* A launch and a save spawn one process at most.
BudgetInv ==
    Newest + (MaxLaunches - launches) + (IF pc[0] = "port" THEN 1 ELSE 0)
        + Cardinality(Unspent) <= N

SidecarInv == TypeOK /\ HandlesInv /\ SettingsInv /\ BudgetInv /\ RestartIsSeen

\* One handler is under way at a time.
OneUnderWay == \A g, h \in Handlers : pc[g] \in UnderWay /\ pc[h] \in UnderWay => g = h

\* Who is about to spawn a process has none in the handle.
PortIsFree == \A h \in Handlers : pc[h] = "port" => sidecar = NoProcess

\* When the application quits, nobody is under way and the sidecar has been told to end.
QuitsAtRest ==
    app = "quitting" =>
        (\A h \in Handlers : pc[h] \notin UnderWay) /\ sidecar \in signalled \cup {NoProcess}

\* What neither a save nor the quit has begun in the midst of another keeps.
OneAtATime ==
    ~raced => OneUnderWay /\ PortIsFree /\ OneChild /\ QuitsAtRest /\ NothingRunsUnseen

(***************************************************************************)
(* The numbers of the processes                                            *)
(***************************************************************************)

\* A set of numbers up to n has a greatest.
LEMMA GreatestNumber ==
    ASSUME NEW n \in Nat, NEW S, S \subseteq 0 .. n, S # {}
    PROVE  Max(S) \in S /\ \A m \in S : m <= Max(S)
<1> DEFINE less == {ss \in Nat \X Nat : ss[1] < ss[2]}
           T == {n - m : m \in S}
<1>1. IsWellFoundedOn(less, Nat)
  <2>1. less = OpToRel(<, Nat)
    BY Zenon DEF OpToRel
  <2> QED
    BY <2>1, NatLessThanWellFounded, Zenon
<1>2. T \subseteq Nat /\ T # {}
  <2>1. \A m \in S : m \in 0 .. n
    OBVIOUS
  <2>2. \A m \in S : n - m \in Nat
    BY <2>1
  <2> QED
    BY <2>2
<1>3. PICK t \in T : \A u \in T : <<u, t>> \notin less
  <2> HIDE DEF less, T
  <2> QED
    BY <1>1, <1>2, WFMin
<1>4. PICK g \in S : t = n - g
  BY <1>3
<1>5. \A m \in S : m <= g
  <2> SUFFICES ASSUME NEW m \in S PROVE m <= g
    OBVIOUS
  <2>1. ~(n - m < t)
    BY <1>2, <1>3
  <2> QED
    BY <1>4, <2>1
<1> QED
  BY <1>4, <1>5 DEF Max

\* One more than the greatest is the greatest then.
LEMMA OneMore ==
    ASSUME NEW n \in Nat, NEW S, S \subseteq 0 .. n, S # {},
           NEW m \in 0 .. n, \A k \in S : k <= m
    PROVE  Max(S \cup {m + 1}) = m + 1
<1>1. S \cup {m + 1} \subseteq 0 .. n + 1 /\ n + 1 \in Nat
  OBVIOUS
<1>2. Max(S \cup {m + 1}) \in S \cup {m + 1} /\ m + 1 <= Max(S \cup {m + 1})
  BY <1>1, GreatestNumber, Zenon
<1>3. ASSUME NEW g \in S \cup {m + 1}, m + 1 <= g PROVE g = m + 1
  <2>1. \A k \in S : k \in Nat /\ k <= m
    OBVIOUS
  <2>2. g \notin S
    BY <1>3, <2>1
  <2> QED
    BY <2>2
<1> QED
  BY <1>2, <1>3

\* The bounds are numbers.
LEMMA Bounds ==
    /\ MaxSaves \in Nat /\ MaxLaunches \in Nat /\ N \in Nat
    /\ Processes = 1 .. N /\ Handlers = 0 .. MaxSaves /\ 0 \in Handlers
BY BoundsAssumption DEF N, Processes, Handlers

\* The newest process is the last of those that have been spawned.
LEMMA NewestIsLast ==
    /\ Newest \in 0 .. N
    /\ Newest = NoProcess \/ Newest \in Spawned
    /\ \A p \in Spawned : p <= Newest
<1>1. Spawned \cup {NoProcess} \subseteq 0 .. N /\ Spawned \cup {NoProcess} # {}
  BY Bounds DEF Spawned, NoProcess
<1> QED
  BY <1>1, Bounds, GreatestNumber DEF Newest

\* Nothing but Spawn makes a process.
LEMMA SameProcesses ==
    ASSUME TypeOK,
           \/ UNCHANGED process
           \/ \E p \in Spawned, x \in {"serving", "dead"} : process' = [process EXCEPT ![p] = x]
    PROVE  Spawned' = Spawned /\ Newest' = Newest
<1>1. Spawned' = Spawned
  BY DEF TypeOK, Spawned
<1> QED
  BY <1>1 DEF Newest

\* Spawn makes the next one.
LEMMA NextProcess ==
    ASSUME TypeOK, Newest + 1 \in Processes,
           process' = [process EXCEPT ![Newest + 1] = "starting"]
    PROVE  /\ Spawned' = Spawned \cup {Newest + 1}
           /\ Alive' = Alive \cup {Newest + 1}
           /\ Newest' = Newest + 1
           /\ Newest + 1 \notin Spawned
<1>1. Spawned' = Spawned \cup {Newest + 1} /\ Alive' = Alive \cup {Newest + 1}
  BY DEF TypeOK, Spawned, Alive
<1>2. Newest \in 0 .. N /\ \A p \in Spawned \cup {NoProcess} : p <= Newest
  BY NewestIsLast DEF NoProcess
<1>3. Spawned \cup {NoProcess} \subseteq 0 .. N /\ Spawned \cup {NoProcess} # {}
  BY Bounds DEF Spawned, NoProcess
<1>4. Max((Spawned \cup {NoProcess}) \cup {Newest + 1}) = Newest + 1
  BY <1>2, <1>3, Bounds, OneMore
<1>5. Spawned' \cup {NoProcess} = (Spawned \cup {NoProcess}) \cup {Newest + 1}
  BY <1>1
<1>6. Newest' = Max(Spawned' \cup {NoProcess})
  BY DEF Newest
<1> QED
  BY <1>1, <1>2, <1>4, <1>5, <1>6

(***************************************************************************)
(* How many can be spawned                                                 *)
(***************************************************************************)

\* The saves that count are counted.
LEMMA Counted == IsFiniteSet(Unspent) /\ Cardinality(Unspent) \in Nat
<1>1. IsFiniteSet(Saves)
  BY Bounds, FS_Interval DEF Saves
<1>2. Unspent \in SUBSET Saves
  BY DEF Unspent
<1> QED
  BY <1>1, <1>2, FS_Subset, FS_CardinalityType

\* Whoever may spawn a process finds a number for it.
LEMMA NumberLeft ==
    ASSUME TypeOK, BudgetInv, NEW h \in Handlers, pc[h] = "port"
    PROVE  Newest + 1 \in Processes
<1>1. /\ launches \in 0 .. MaxLaunches /\ Newest \in 0 .. N /\ Cardinality(Unspent) \in Nat
      /\ Newest + (MaxLaunches - launches) + (IF pc[0] = "port" THEN 1 ELSE 0)
           + Cardinality(Unspent) <= N
  BY NewestIsLast, Counted DEF TypeOK, BudgetInv
<1>2. CASE h = 0
  BY <1>1, <1>2, Bounds
<1>3. CASE h # 0
  <2>1. h \in Unspent
    BY <1>3, Bounds DEF Unspent, Saves, Handlers
  <2>2. Cardinality(Unspent) # 0
    BY <2>1, Counted, FS_EmptySet
  <2> QED
    BY <1>1, <2>2, Bounds
<1> QED
  BY <1>2, <1>3

\* Smaller summands have a smaller sum.
LEMMA LessSpent ==
    \A n, l, c, d, e, u, v \in Int : n + l + d + u <= c /\ e <= d /\ v <= u => n + l + e + v <= c
OBVIOUS

\* A step that spawns nothing keeps the budget.
LEMMA BudgetKept ==
    ASSUME TypeOK, BudgetInv, Newest' = Newest, launches' = launches,
           pc'[0] = "port" => pc[0] = "port",
           \A h \in Saves : pc'[h] \in {"idle", "port"} \cup Stopping =>
                                pc[h] \in {"idle", "port"} \cup Stopping
    PROVE  BudgetInv'
<1>1. Unspent' \in SUBSET Unspent
  BY DEF Unspent
<1>2. Cardinality(Unspent') \in Nat /\ Cardinality(Unspent') <= Cardinality(Unspent)
  BY <1>1, Counted, FS_Subset, FS_CardinalityType
<1>3. Newest \in Nat /\ MaxLaunches - launches \in Int /\ Cardinality(Unspent) \in Nat
  BY NewestIsLast, Counted, Bounds DEF TypeOK
<1> DEFINE u == Cardinality(Unspent)  v == Cardinality(Unspent')
           d == IF pc[0] = "port" THEN 1 ELSE 0
           e == IF pc'[0] = "port" THEN 1 ELSE 0
<1>4. Newest + (MaxLaunches - launches) + d + u <= N
  BY DEF BudgetInv
<1>5. Newest + (MaxLaunches - launches) + e + v <= N
  <2>1. d \in {0, 1} /\ e \in {0, 1} /\ e <= d
    OBVIOUS
  <2>2. u \in Nat /\ v \in Nat /\ v <= u /\ N \in Int
    BY <1>2, <1>3, Bounds
  <2> HIDE DEF u, v, d, e
  <2> QED
    BY <1>3, <1>4, <2>1, <2>2, LessSpent
<1> QED
  BY <1>5 DEF BudgetInv, Unspent

\* A launch may spawn one more, and takes one launch for it.
LEMMA LaunchBudget ==
    ASSUME TypeOK, BudgetInv, Launch
    PROVE  BudgetInv'
<1>1. Unspent' = Unspent /\ Newest' = Newest
  <2>1. \A h \in Saves : pc'[h] = pc[h]
    BY Bounds DEF Launch, TypeOK, Saves, Handlers
  <2>2. process' = process
    BY DEF Launch, processVars
  <2> QED
    BY <2>1, <2>2, SameProcesses DEF Unspent
<1>2. launches' = launches + 1 /\ launches \in Nat
  BY DEF Launch, Opens, TypeOK
<1>3. Newest \in Nat /\ Cardinality(Unspent) \in Nat
  BY NewestIsLast, Counted
<1> DEFINE u == Cardinality(Unspent)
           d == IF pc[0] = "port" THEN 1 ELSE 0
           e == IF pc'[0] = "port" THEN 1 ELSE 0
<1>4. Newest + (MaxLaunches - launches) + d + u <= N
  BY DEF BudgetInv
<1>5. Newest + (MaxLaunches - (launches + 1)) + e + u <= N
  <2>1. d \in {0, 1} /\ e \in {0, 1} /\ u \in Nat
    BY <1>3
  <2> HIDE DEF u, d, e
  <2> QED
    BY <1>2, <1>3, <1>4, <2>1, Bounds
<1> QED
  BY <1>1, <1>2, <1>5 DEF BudgetInv

\* Spawning takes what the launch or the save had to its credit.
LEMMA SpawnBudget ==
    ASSUME TypeOK, BudgetInv, NEW h \in Handlers, Spawn(h), Newest' = Newest + 1
    PROVE  BudgetInv'
<1>1. pc[h] = "port" /\ pc' = [pc EXCEPT ![h] = "booting"] /\ launches' = launches
  BY DEF Spawn, launchVars
<1>3. launches \in 0 .. MaxLaunches /\ Newest \in Nat
  BY NewestIsLast DEF TypeOK
<1> DEFINE u == Cardinality(Unspent)
           d == IF pc[0] = "port" THEN 1 ELSE 0
           e == IF pc'[0] = "port" THEN 1 ELSE 0
<1>4. Newest + (MaxLaunches - launches) + d + u <= N
  BY DEF BudgetInv
<1>5. u \in Nat /\ d \in {0, 1} /\ e \in {0, 1}
  BY Counted
<1>6. CASE h = 0
  <2>1. Unspent' = Unspent
    BY <1>1, <1>6 DEF Unspent, TypeOK, Saves, Handlers
  <2>2. d = 1 /\ e = 0
    BY <1>1, <1>6, Bounds DEF TypeOK
  <2>3. Newest + 1 + (MaxLaunches - launches) + e + u <= N
    <3> HIDE DEF u, d, e
    <3> QED
      BY <1>3, <1>4, <1>5, <2>2, Bounds
  <2> QED
    BY <1>1, <2>1, <2>3 DEF BudgetInv
<1>7. CASE h # 0
  <2>1. Unspent' = Unspent \ {h} /\ h \in Unspent
    BY <1>1, <1>7, Bounds DEF Unspent, TypeOK, Saves, Handlers, Stopping
  <2>2. Cardinality(Unspent') = u - 1
    BY <2>1, Counted, FS_RemoveElement
  <2>3. e = d
    BY <1>1, <1>7, Bounds DEF TypeOK
  <2>4. Newest + 1 + (MaxLaunches - launches) + e + (u - 1) <= N
    <3> HIDE DEF u, d, e
    <3> QED
      BY <1>3, <1>4, <1>5, <2>3, Bounds
  <2> QED
    BY <1>1, <2>2, <2>4 DEF BudgetInv
<1> QED
  BY <1>6, <1>7

(***************************************************************************)
(* Handle, file and window                                                 *)
(***************************************************************************)

\* The file names the save that wrote it.
LEMMA Signed == TypeOK => settings.saved_by \in Handlers
BY Bounds DEF TypeOK, NoFile

\* A launch starts from an empty handle.
LEMMA LaunchKeeps ==
    ASSUME SidecarInv, Launch
    PROVE  SidecarInv'
<1>1. Spawned' = Spawned /\ Newest' = Newest
  BY SameProcesses DEF SidecarInv, Launch, processVars
<1>2. TypeOK'
  BY Bounds DEF SidecarInv, TypeOK, Launch, Opens, processVars, UnderWay, NoWindow, NoProcess
<1>3. HandlesInv'
  BY <1>1, NewestIsLast, Bounds
     DEF SidecarInv, HandlesInv, HandleIsNewest, TypeOK, Launch, Opens, processVars, NoProcess
<1>4. SettingsInv'
  <2>1. /\ \A h \in Saves : pc'[h] = pc[h]
        /\ pc'[0] \in {"port", "idle"}
        /\ \A h \in Handlers : h = 0 \/ h \in Saves
        /\ \A h \in Saves : h \in Handlers /\ h # 0
    BY Bounds DEF SidecarInv, TypeOK, Launch, Saves, Handlers
  <2>2. UNCHANGED <<settings, target, spawned_with>>
    BY DEF Launch, processVars
  <2>3. settings.saved_by >= 0
    BY Signed, Bounds DEF SidecarInv
  <2> QED
    BY <1>1, <2>1, <2>2, <2>3 DEF SidecarInv, SettingsInv, Stopping
<1>5. BudgetInv'
  BY LaunchBudget DEF SidecarInv
<1>6. RestartIsSeen'
  BY DEF RestartIsSeen, Launch, Opens
<1> QED
  BY <1>2, <1>3, <1>4, <1>5, <1>6 DEF SidecarInv

\* A process that is spawned is the newest, with the settings of the file.
LEMMA SpawnKeeps ==
    ASSUME SidecarInv, NEW h \in Handlers, Spawn(h)
    PROVE  SidecarInv'
<1> DEFINE p == Newest + 1
<1>1. p \in Processes /\ p \in Nat \ {0}
  BY NumberLeft, Bounds DEF SidecarInv, Spawn
<1>2. /\ Spawned' = Spawned \cup {p} /\ Alive' = Alive \cup {p} /\ Newest' = p
      /\ p \notin Spawned
  BY <1>1, NextProcess DEF SidecarInv, Spawn
<1>3. /\ env_port' = p /\ sidecar' = p /\ children' = children \cup {p}
      /\ target' = [target EXCEPT ![h] = p] /\ pc' = [pc EXCEPT ![h] = "booting"]
      /\ spawned_with' = [spawned_with EXCEPT ![p] = settings.saved_by]
      /\ app' = app /\ settings' = settings /\ pc[h] = "port" /\ signalled' = signalled
      /\ UNCHANGED <<launches, window, timers, sigkilled, stubborn, raced>>
      /\ process' = [process EXCEPT ![p] = "starting"]
  BY DEF Spawn, launchVars
<1>4. TypeOK'
  <2>1. settings.saved_by \in Handlers
    BY Signed DEF SidecarInv
  <2> QED
    BY <1>1, <1>3, <2>1 DEF SidecarInv, TypeOK, UnderWay
<1>5. HandlesInv'
  <2>1. app # "quit"
    BY <1>3 DEF SidecarInv, HandlesInv, UnderWay
  <2> QED
    BY <1>1, <1>2, <1>3, <2>1 DEF SidecarInv, HandlesInv, HandleIsNewest, TypeOK, NoProcess
<1>6. SettingsInv'
  <2>1. settings.saved_by >= h
    BY <1>3 DEF SidecarInv, SettingsInv, UnderWay
  <2>2. \A g \in Handlers : target[g] # p
    BY <1>1, <1>2 DEF SidecarInv, HandlesInv, NoProcess
  <2> QED
    BY <1>1, <1>2, <1>3, <2>1, <2>2, Bounds
       DEF SidecarInv, SettingsInv, TypeOK, UnderWay, Stopping, Saves, Handlers
<1>7. BudgetInv'
  BY <1>2, SpawnBudget DEF SidecarInv
<1>8. RestartIsSeen'
  <2>1. \A g \in Handlers : pc'[g] = "restarted" => target'[g] # p
    BY <1>1, <1>2, <1>3 DEF SidecarInv, HandlesInv, TypeOK, NoProcess
  <2> QED
    BY <1>2, <2>1 DEF RestartIsSeen
<1> QED
  BY <1>4, <1>5, <1>6, <1>7, <1>8 DEF SidecarInv

\* A boot that has ended has told the window the port of the newest process.
LEMMA BootEndKeeps ==
    ASSUME SidecarInv, NEW h \in Handlers, BootOk(h) \/ BootTimeout(h)
    PROVE  SidecarInv'
<1>1. /\ pc[h] = "booting" /\ window' \in {window, env_port}
      /\ \E x \in {"restarted", "failed"} : pc' = [pc EXCEPT ![h] = x]
      /\ pc'[h] = "restarted" => window' = env_port
      /\ UNCHANGED <<app, launches, settings, env_port, children, sidecar, timers, target,
                     process, spawned_with, signalled, sigkilled, stubborn, raced>>
  BY DEF BootOk, BootTimeout, launchVars, bootVars, processVars, SidecarInv, TypeOK
<1>2. Spawned' = Spawned /\ Alive' = Alive /\ Newest' = Newest
  BY <1>1, SameProcesses DEF SidecarInv, Alive
<1>3. TypeOK'
  BY <1>1 DEF SidecarInv, TypeOK, Answers
<1>4. HandlesInv'
  BY <1>1, <1>2 DEF SidecarInv, HandlesInv, HandleIsNewest, TypeOK, UnderWay, Stopping
<1>5. SettingsInv'
  BY <1>1, <1>2 DEF SidecarInv, SettingsInv, TypeOK, UnderWay, Stopping, Handlers, Saves
<1>6. BudgetInv'
  <2>1. /\ pc'[0] = "port" => pc[0] = "port"
        /\ \A g \in Saves : pc'[g] \in {"idle", "port"} \cup Stopping => pc'[g] = pc[g]
    BY <1>1, Bounds DEF SidecarInv, TypeOK, Saves, Handlers, Stopping
  <2> QED
    BY <1>1, <1>2, <2>1, BudgetKept DEF SidecarInv
<1>7. RestartIsSeen'
  <2> SUFFICES ASSUME NEW g \in Handlers, pc'[g] = "restarted", target[g] = Newest,
                      Newest \in children, app = "open"
               PROVE  window' = Newest /\ spawned_with[Newest] >= g
    BY <1>1, <1>2 DEF RestartIsSeen
  <2>1. env_port = Newest
    BY DEF SidecarInv, HandlesInv
  <2>2. pc[g] \in {"booting", "restarted"}
    BY <1>1 DEF SidecarInv, TypeOK
  <2>3. spawned_with[Newest] >= g
    BY <2>2 DEF SidecarInv, SettingsInv
  <2>4. window' = Newest
    BY <1>1, <2>1 DEF SidecarInv, TypeOK, RestartIsSeen
  <2> QED
    BY <2>3, <2>4
<1> QED
  BY <1>3, <1>4, <1>5, <1>6, <1>7 DEF SidecarInv

\* A process that ends takes the handle with it, and lets those go on who wait for it.
LEMMA ExitsKeeps ==
    ASSUME SidecarInv, NEW p \in Alive, Exits(p), app # "quit",
           UNCHANGED <<launchVars, settings, window, bootVars, timers, target, spawned_with,
                       signalled, sigkilled, stubborn, raced>>
    PROVE  SidecarInv'
<1>1. /\ process' = [process EXCEPT ![p] = "dead"] /\ p \in Spawned /\ p \in Processes
      /\ sidecar' = NoProcess
      /\ UNCHANGED <<app, launches, settings, window, env_port, children, timers, target,
                     spawned_with, signalled, sigkilled, stubborn, raced>>
  BY DEF Exits, Alive, Spawned, launchVars, bootVars
<1>2. /\ pc' \in [Handlers -> {"idle"} \cup UnderWay \cup Answers]
      /\ \A h \in Handlers :
            \/ pc'[h] = pc[h]
            \/ pc[h] = "stopping" /\ pc'[h] = "port" /\ target[h] = p
            \/ pc[h] = "stopping_only" /\ pc'[h] = "saved" /\ target[h] = p
  BY DEF Exits, SidecarInv, TypeOK, UnderWay, Answers
<1>3. Spawned' = Spawned /\ Newest' = Newest
  BY <1>1, SameProcesses DEF SidecarInv
<1>4. TypeOK'
  BY <1>1, <1>2 DEF SidecarInv, TypeOK
<1>5. HandlesInv'
  BY <1>1, <1>2, <1>3 DEF SidecarInv, HandlesInv, HandleIsNewest
<1>6. SettingsInv'
  BY <1>1, <1>2, <1>3, Bounds DEF SidecarInv, SettingsInv, UnderWay, Stopping, Handlers, Saves
<1>7. BudgetInv'
  <2>1. pc'[0] = "port" => pc[0] = "port"
    <3>1. pc[0] # "stopping"
      BY DEF SidecarInv, SettingsInv, Stopping
    <3> QED
      BY <1>2, <3>1, Bounds
  <2>2. \A g \in Saves : pc'[g] \in {"idle", "port"} \cup Stopping =>
                             pc[g] \in {"idle", "port"} \cup Stopping
    BY <1>2, Bounds DEF Stopping, Saves, Handlers
  <2> QED
    BY <1>1, <1>3, <2>1, <2>2, BudgetKept DEF SidecarInv
<1>8. RestartIsSeen'
  BY <1>1, <1>2, <1>3 DEF SidecarInv, RestartIsSeen
<1> QED
  BY <1>4, <1>5, <1>6, <1>7, <1>8 DEF SidecarInv

\* A step in which no process is spawned, no handler goes on and nothing is saved.
LEMMA AsideKeeps ==
    ASSUME SidecarInv, Spawned' = Spawned, Newest' = Newest,
           sidecar \in Alive => sidecar \in Alive',
           process' \in [Processes -> {"none", "starting", "serving", "dead"}],
           timers' \in Nat, raced' \in BOOLEAN,
           signalled' \subseteq Spawned, sigkilled' \subseteq Processes,
           stubborn' \subseteq Processes,
           \/ UNCHANGED <<app, window>>
           \/ app' = "quitting" /\ window' \in {window, NoWindow},
           UNCHANGED <<launches, settings, bootVars, sidecar, spawned_with, pc, target>>
    PROVE  SidecarInv'
<1>1. UNCHANGED <<launches, settings, env_port, children, sidecar, spawned_with, pc, target>>
  BY DEF bootVars
<1>2. TypeOK'
  BY <1>1 DEF SidecarInv, TypeOK, Spawned
<1>3. HandlesInv'
  BY <1>1 DEF SidecarInv, HandlesInv, HandleIsNewest
<1>4. SettingsInv'
  BY <1>1 DEF SidecarInv, SettingsInv
<1>5. BudgetInv'
  BY <1>1, BudgetKept DEF SidecarInv
<1>6. RestartIsSeen'
  BY <1>1 DEF SidecarInv, RestartIsSeen
<1> QED
  BY <1>2, <1>3, <1>4, <1>5, <1>6 DEF SidecarInv

\* The timeout, and the quit, tell the process in the handle to end, or do nothing.
LEMMA TellsKeeps ==
    ASSUME SidecarInv, TimerFires \/ BeforeQuit
    PROVE  SidecarInv'
<1>1. /\ UNCHANGED <<launches, settings, bootVars, sidecar, spawned_with, pc, target, process,
                     stubborn>>
      /\ signalled' \in {signalled, signalled \cup {sidecar}}
      /\ sigkilled' \in {sigkilled, sigkilled \cup {sidecar}}
      /\ CanStop \/ UNCHANGED <<signalled, sigkilled>>
      /\ timers' \in {timers - 1, timers, timers + 1} /\ timers' >= 0
      /\ \/ UNCHANGED <<app, window>>
         \/ app' = "quitting" /\ window' \in {window, NoWindow}
  BY DEF TimerFires, BeforeQuit, launchVars, SidecarInv, TypeOK
<1>0. raced' \in BOOLEAN
  BY Zenon DEF TimerFires, BeforeQuit, SidecarInv, TypeOK
<1>2. Spawned' = Spawned /\ Newest' = Newest /\ Alive' = Alive
  BY <1>1, SameProcesses DEF SidecarInv, Alive
<1>3. CanStop => sidecar \in Spawned /\ sidecar \in Processes
  BY DEF CanStop, SidecarInv, HandlesInv, Spawned
<1>4. signalled' \subseteq Spawned /\ sigkilled' \subseteq Processes
  BY <1>1, <1>3 DEF SidecarInv, HandlesInv, TypeOK
<1>5. timers' \in Nat
  BY <1>1 DEF SidecarInv, TypeOK
<1> QED
  BY <1>0, <1>1, <1>2, <1>4, <1>5, AsideKeeps DEF SidecarInv, TypeOK

\* A process starts to serve, hangs or ends; the handle goes if it was a child.
LEMMA ProcessKeeps ==
    ASSUME SidecarInv, NEW p \in Processes, Serve(p) \/ Hang(p) \/ Exit(p)
    PROVE  SidecarInv'
<1>0. timers \in Nat /\ raced \in BOOLEAN /\ signalled \subseteq Spawned /\ sigkilled \subseteq Processes
      /\ stubborn \subseteq Processes
      /\ process \in [Processes -> {"none", "starting", "serving", "dead"}]
  BY DEF SidecarInv, TypeOK, HandlesInv
<1>1. CASE Serve(p)
  <2>1. /\ process' = [process EXCEPT ![p] = "serving"] /\ p \in Spawned
        /\ UNCHANGED <<mainVars, spawned_with, signalled, sigkilled, stubborn, raced>>
    BY <1>1 DEF Serve, Spawned
  <2>2. Spawned' = Spawned /\ Newest' = Newest
    BY <2>1, SameProcesses DEF SidecarInv
  <2>3. Alive \subseteq Alive'
    BY <1>0, <2>1 DEF Alive
  <2> QED
    BY <1>0, <2>1, <2>2, <2>3, AsideKeeps DEF mainVars, launchVars
<1>2. CASE Hang(p)
  <2>1. UNCHANGED <<mainVars, process, spawned_with, signalled, sigkilled, raced>>
        /\ stubborn' \subseteq Processes
    BY <1>0, <1>2 DEF Hang
  <2>2. Spawned' = Spawned /\ Newest' = Newest /\ Alive' = Alive
    BY <2>1, SameProcesses DEF SidecarInv, Alive
  <2> QED
    BY <1>0, <2>1, <2>2, AsideKeeps DEF mainVars, launchVars
<1>3. CASE Exit(p)
  <2>1. /\ UNCHANGED <<launchVars, settings, window, bootVars, timers, target, spawned_with,
                       signalled, sigkilled, stubborn, raced>>
        /\ p \in Alive
    BY <1>3 DEF Exit
  <2>2. CASE app # "quit" /\ p \in children
    BY <1>0, <1>3, <2>1, <2>2, ExitsKeeps DEF Exit
  <2>3. CASE ~(app # "quit" /\ p \in children)
    <3>1. process' = [process EXCEPT ![p] = "dead"] /\ UNCHANGED <<sidecar, pc>>
      BY <1>3, <2>3 DEF Exit
    <3>2. Spawned' = Spawned /\ Newest' = Newest
      BY <2>1, <3>1, SameProcesses DEF SidecarInv, Alive, Spawned
    <3>3. sidecar # NoProcess => sidecar # p
      BY <2>3 DEF SidecarInv, HandlesInv, TypeOK
    <3>4. \A q \in Alive \ {p} : q \in Alive'
      BY <1>0, <3>1 DEF Alive
    <3>5. sidecar \in Alive => sidecar \in Alive'
      BY <3>3, <3>4, Bounds DEF Alive, NoProcess
    <3>6. process' \in [Processes -> {"none", "starting", "serving", "dead"}]
      BY <1>0, <3>1
    <3> QED
      BY <1>0, <2>1, <3>1, <3>2, <3>5, <3>6, AsideKeeps DEF launchVars
  <2> QED
    BY <2>2, <2>3
<1> QED
  BY <1>1, <1>2, <1>3

\* A main process that quits leaves no handler and no handle behind.
LEMMA MainEndsKeeps ==
    ASSUME SidecarInv, MainEnds
    PROVE  SidecarInv'
<1>1. /\ app' = "quit" /\ window' = NoWindow /\ sidecar' = NoProcess /\ timers' = 0
      /\ pc' = [h \in Handlers |-> IF pc[h] \in UnderWay THEN "lost" ELSE pc[h]]
      /\ UNCHANGED <<launches, settings, env_port, children, target, process, spawned_with,
                     signalled, sigkilled, stubborn, raced>>
  BY DEF MainEnds, bootVars, processVars
<1>2. Spawned' = Spawned /\ Newest' = Newest
  BY <1>1, SameProcesses DEF SidecarInv
<1>3. \A h \in Handlers : pc'[h] = pc[h] \/ (pc'[h] = "lost" /\ pc[h] \in UnderWay)
  BY <1>1
<1>4. TypeOK'
  <2>1. pc' \in [Handlers -> {"idle"} \cup UnderWay \cup Answers]
    BY <1>1 DEF SidecarInv, TypeOK, Answers
  <2> QED
    BY <1>1, <2>1 DEF SidecarInv, TypeOK
<1>5. HandlesInv'
  BY <1>1, <1>2 DEF SidecarInv, HandlesInv, HandleIsNewest, UnderWay, Stopping
<1>6. SettingsInv'
  <2>1. \A h \in Saves : pc[h] = "idle" => pc'[h] = "idle"
    BY <1>1, Bounds DEF Saves, Handlers, UnderWay, Stopping
  <2>2. \A h \in Saves : pc'[h] = "idle" => pc[h] = "idle"
    BY <1>3, Bounds DEF Saves, Handlers
  <2> QED
    BY <1>1, <1>2, <1>3, <2>1, <2>2, Bounds DEF SidecarInv, SettingsInv, UnderWay, Stopping
<1>7. BudgetInv'
  <2>1. pc'[0] = "port" => pc[0] = "port"
    BY <1>3, Bounds
  <2>2. \A g \in Saves : pc'[g] \in {"idle", "port"} \cup Stopping =>
                             pc[g] \in {"idle", "port"} \cup Stopping
    BY <1>3, Bounds DEF Stopping, Saves, Handlers
  <2> QED
    BY <1>1, <1>2, <2>1, <2>2, BudgetKept DEF SidecarInv
<1>8. RestartIsSeen'
  BY <1>1 DEF RestartIsSeen
<1> QED
  BY <1>4, <1>5, <1>6, <1>7, <1>8 DEF SidecarInv

\* What a save writes, it may write.
LEMMA SavedFile ==
    ASSUME NEW h \in Saves, NEW provider \in Providers, NEW typed \in BOOLEAN,
           CanSubmit(provider, typed), SaveSettings(h, provider, typed)
    PROVE  /\ settings' \in [provider : Providers, keys : SUBSET KeyProviders,
                             saved_by : Handlers]
           /\ settings'.saved_by = h
BY Bounds DEF CanSubmit, SaveSettings, Saves, Handlers

\* A save comes after all that are under way.
LEMMA SaveKeeps ==
    ASSUME SidecarInv, NEW h \in Saves, Save(h)
    PROVE  SidecarInv'
<1>1. /\ pc[h] = "idle" /\ \A g \in 1 .. h - 1 : pc[g] # "idle"
      /\ app # "quit" /\ h \in Handlers /\ h # 0 /\ raced' \in BOOLEAN
      /\ timers' \in {timers, timers + 1}
      /\ UNCHANGED <<app, launches, window, env_port, children, process, spawned_with,
                     sigkilled, stubborn>>
  BY Bounds DEF Save, Opened, MeetsAnother, SomeUnderWay, launchVars, bootVars, Saves, Handlers,
                SidecarInv, TypeOK
<1>2. /\ settings' \in [provider : Providers, keys : SUBSET KeyProviders, saved_by : Handlers]
      /\ settings'.saved_by = h
  BY SavedFile DEF Save
<1>3. \/ /\ sidecar # NoProcess /\ signalled' = signalled \cup {sidecar}
         /\ target' = [target EXCEPT ![h] = sidecar] /\ sidecar' = sidecar
         /\ \E x \in Stopping : pc' = [pc EXCEPT ![h] = x]
      \/ /\ signalled' = signalled /\ target' = target /\ sidecar' = NoProcess
         /\ \E x \in {"port", "saved"} : pc' = [pc EXCEPT ![h] = x]
  BY DEF Save, CanStop, Stopping
<1>4. PICK x \in Stopping \cup {"port", "saved"} : pc' = [pc EXCEPT ![h] = x]
  BY <1>3
<1>5. Spawned' = Spawned /\ Newest' = Newest /\ Alive' = Alive
  BY <1>1, SameProcesses DEF SidecarInv, Alive
<1>6. \A g \in Handlers : g # h => pc'[g] = pc[g] /\ target'[g] = target[g]
  BY <1>3, <1>4 DEF SidecarInv, TypeOK
<1>7. pc'[h] = x /\ x \notin {"idle", "booting", "restarted"}
  BY <1>1, <1>4 DEF SidecarInv, TypeOK, Stopping
<1>8. TypeOK'
  <2>1. timers' \in Nat
    BY <1>1 DEF SidecarInv, TypeOK
  <2>2. pc' \in [Handlers -> {"idle"} \cup UnderWay \cup Answers]
    BY <1>4 DEF SidecarInv, TypeOK, UnderWay, Answers
  <2>3. target' \in [Handlers -> {NoProcess} \cup Processes] /\ signalled' \subseteq Processes
        /\ sidecar' \in {NoProcess} \cup Processes
    BY <1>3 DEF SidecarInv, TypeOK
  <2> QED
    BY <1>1, <1>2, <2>1, <2>2, <2>3 DEF SidecarInv, TypeOK
<1>9. HandlesInv'
  <2>1. sidecar # NoProcess => sidecar \in Spawned
    BY DEF SidecarInv, HandlesInv
  <2>2. \A g \in Handlers : target'[g] \in {NoProcess} \cup Spawned
    BY <1>3, <2>1 DEF SidecarInv, HandlesInv, TypeOK
  <2>3. signalled' \subseteq Spawned
    BY <1>3, <2>1 DEF SidecarInv, HandlesInv
  <2> QED
    BY <1>1, <1>3, <1>5, <2>2, <2>3 DEF SidecarInv, HandlesInv, HandleIsNewest
<1>10. SettingsInv'
  <2>1. \A g \in Handlers : pc[g] \in UnderWay => g <= h
    <3> SUFFICES ASSUME NEW g \in Handlers, pc[g] \in UnderWay, g > h PROVE FALSE
      BY Bounds DEF Saves
    <3>1. g \in Saves /\ h < g
      BY Bounds DEF Saves
    <3> QED
      BY <1>1, <3>1 DEF SidecarInv, SettingsInv, UnderWay, Stopping
  <2>2. \A g, k \in Saves : g < k /\ pc'[g] = "idle" => pc'[k] = "idle"
    <3> SUFFICES ASSUME NEW g \in Saves, NEW k \in Saves, g < k, pc'[g] = "idle"
                 PROVE  pc'[k] = "idle"
      OBVIOUS
    <3>1. g \in Handlers /\ k \in Handlers /\ pc[g] = "idle" /\ g # h
      BY <1>6, <1>7, Bounds DEF Saves
    <3>2. k # h
      <4>1. k = h => g \in 1 .. h - 1
        BY Bounds DEF Saves
      <4> QED
        BY <1>1, <3>1, <4>1
    <3> QED
      BY <1>6, <3>1, <3>2 DEF SidecarInv, SettingsInv
  <2>3. \A g \in Handlers : pc'[g] \in UnderWay => h >= g
    BY <1>6, <2>1, Bounds DEF Saves
  <2>4. pc'[0] \notin Stopping
    BY <1>1, <1>6, Bounds DEF SidecarInv, SettingsInv
  <2> QED
    BY <1>1, <1>2, <1>5, <1>6, <1>7, <2>2, <2>3, <2>4 DEF SidecarInv, SettingsInv
<1>11. BudgetInv'
  <2>1. /\ pc'[0] = pc[0]
        /\ \A g \in Saves : g # h => pc'[g] = pc[g]
    BY <1>1, <1>6, Bounds DEF Saves
  <2> QED
    BY <1>1, <1>5, <2>1, BudgetKept DEF SidecarInv
<1>12. RestartIsSeen'
  BY <1>1, <1>5, <1>6, <1>7 DEF SidecarInv, RestartIsSeen
<1> QED
  BY <1>8, <1>9, <1>10, <1>11, <1>12 DEF SidecarInv

\* A save that fails has been made, and changes nothing else.
LEMMA SaveFailsKeeps ==
    ASSUME SidecarInv, NEW h \in Saves, SaveFails(h)
    PROVE  SidecarInv'
<1>1. /\ pc[h] = "idle" /\ \A g \in 1 .. h - 1 : pc[g] # "idle"
      /\ pc' = [pc EXCEPT ![h] = "failed"] /\ h \in Handlers /\ h # 0
      /\ UNCHANGED <<app, launches, settings, window, env_port, children, sidecar, timers,
                     target, process, spawned_with, signalled, sigkilled, stubborn, raced>>
  BY Bounds DEF SaveFails, Opened, launchVars, bootVars, processVars, Saves, Handlers
<1>2. Spawned' = Spawned /\ Newest' = Newest /\ Alive' = Alive
  BY <1>1, SameProcesses DEF SidecarInv, Alive
<1>3. pc'[h] = "failed" /\ \A g \in Handlers : g # h => pc'[g] = pc[g]
  BY <1>1 DEF SidecarInv, TypeOK
<1>4. TypeOK'
  BY <1>1 DEF SidecarInv, TypeOK, Answers
<1>5. HandlesInv'
  BY <1>1, <1>2, <1>3 DEF SidecarInv, HandlesInv, HandleIsNewest, UnderWay, Stopping
<1>6. SettingsInv'
  <2>1. \A g, k \in Saves : g < k /\ pc'[g] = "idle" => pc'[k] = "idle"
    <3> SUFFICES ASSUME NEW g \in Saves, NEW k \in Saves, g < k, pc'[g] = "idle"
                 PROVE  pc'[k] = "idle"
      OBVIOUS
    <3>1. g \in Handlers /\ k \in Handlers /\ pc[g] = "idle" /\ g # h
      BY <1>3, Bounds DEF Saves
    <3>2. k # h
      <4>1. k = h => g \in 1 .. h - 1
        BY Bounds DEF Saves
      <4> QED
        BY <1>1, <3>1, <4>1
    <3> QED
      BY <1>3, <3>1, <3>2 DEF SidecarInv, SettingsInv
  <2>2. pc'[0] \notin Stopping
    BY <1>1, <1>3, Bounds DEF SidecarInv, SettingsInv
  <2> QED
    BY <1>1, <1>2, <1>3, <2>1, <2>2 DEF SidecarInv, SettingsInv, UnderWay, Stopping
<1>7. BudgetInv'
  <2>1. pc'[0] = pc[0]
    BY <1>1, <1>3, Bounds
  <2>2. \A g \in Saves : pc'[g] \in {"idle", "port"} \cup Stopping =>
                             pc[g] \in {"idle", "port"} \cup Stopping
    BY <1>1, <1>3, Bounds DEF Stopping, Saves, Handlers
  <2> QED
    BY <1>1, <1>2, <2>1, <2>2, BudgetKept DEF SidecarInv
<1>8. RestartIsSeen'
  BY <1>1, <1>2, <1>3 DEF SidecarInv, RestartIsSeen
<1> QED
  BY <1>4, <1>5, <1>6, <1>7, <1>8 DEF SidecarInv

\* At first nothing has been started.
LEMMA InitSidecar == Init => SidecarInv
<1> SUFFICES ASSUME Init PROVE SidecarInv
  OBVIOUS
<1>1. Spawned = {} /\ Newest = 0
  <2>1. Spawned = {}
    BY DEF Init, Spawned
  <2>2. Max({NoProcess}) \in {NoProcess}
    <3>1. {NoProcess} \subseteq 0 .. 0 /\ {NoProcess} # {} /\ 0 \in Nat
      BY DEF NoProcess
    <3> QED
      BY <3>1, GreatestNumber
  <2> QED
    BY <2>1, <2>2 DEF Newest, NoProcess
<1>2. TypeOK
  <2>1. raced \in BOOLEAN
    BY Zenon DEF Init
  <2> QED
    BY <2>1, Bounds DEF Init, TypeOK, Handlers
<1>3. HandlesInv /\ SettingsInv
  BY <1>1, Bounds DEF Init, HandlesInv, SettingsInv, HandleIsNewest, UnderWay, Stopping, Saves,
                      Handlers
<1>4. Unspent = Saves
  BY Bounds DEF Init, Unspent, Saves, Handlers
<1>5. Cardinality(Saves) = MaxSaves
  BY Bounds, FS_Interval DEF Saves
<1>6. BudgetInv
  BY <1>1, <1>4, <1>5, Bounds DEF Init, BudgetInv, N
<1>7. RestartIsSeen
  BY DEF Init, RestartIsSeen
<1> QED
  BY <1>2, <1>3, <1>6, <1>7 DEF SidecarInv

\* What looks at the variables only does not change with them unchanged.
LEMMA RestKeeps ==
    ASSUME SidecarInv, UNCHANGED vars
    PROVE  SidecarInv'
<1>1. UNCHANGED <<app, launches, settings, window, env_port, children, sidecar, timers, pc,
                  target, process, spawned_with, signalled, sigkilled, stubborn, raced>>
  BY DEF vars, mainVars, launchVars, bootVars, processVars
<1>2. Spawned' = Spawned /\ Alive' = Alive /\ Newest' = Newest
  BY <1>1, SameProcesses DEF SidecarInv, Alive
<1>3. Unspent' = Unspent
  BY <1>1 DEF Unspent
<1> QED
  BY <1>1, <1>2, <1>3
     DEF SidecarInv, TypeOK, HandlesInv, HandleIsNewest, SettingsInv, BudgetInv, RestartIsSeen

\* Every step keeps SidecarInv.
LEMMA StepKeepsSidecar ==
    ASSUME SidecarInv, [Next]_vars
    PROVE  SidecarInv'
<1>1. CASE Next
  BY <1>1, LaunchKeeps, MainEndsKeeps, TellsKeeps, SpawnKeeps, BootEndKeeps, SaveKeeps,
     SaveFailsKeeps, ProcessKeeps, RestKeeps DEF Next, Rest, Saves
<1>2. CASE UNCHANGED vars
  BY <1>2, RestKeeps
<1> QED
  BY <1>1, <1>2

\* Every process has a number and every variable its type, however often the settings
\* are saved, by however many forms at once.
THEOREM SidecarInvariant == Spec => []SidecarInv
BY InitSidecar, StepKeepsSidecar, PTL DEF Spec

\* The handle is of a living process, the last that was spawned, also with several saves
\* under way.
THEOREM HandleIsNewestHolds == Spec => []HandleIsNewest
BY SidecarInvariant, PTL DEF SidecarInv, HandlesInv

\* Settings that have been saved with a restart are those of the sidecar the window
\* talks to, also with several saves under way.
THEOREM RestartIsSeenHolds == Spec => []RestartIsSeen
BY SidecarInvariant, PTL DEF SidecarInv

(***************************************************************************)
(* One at a time                                                           *)
(***************************************************************************)

\* A process that ends is not alive.
LEMMA Fates ==
    ASSUME TypeOK, NEW p \in Processes, process' = [process EXCEPT ![p] = "dead"]
    PROVE  Alive' = Alive \ {p}
BY DEF TypeOK, Alive

\* Whoever spawns a process is alone under way, and there was no child alive.
LEMMA SpawnsAlone ==
    ASSUME SidecarInv, OneAtATime, NEW h \in Handlers, Spawn(h)
    PROVE  OneAtATime'
<1> SUFFICES ASSUME ~raced PROVE OneAtATime'
  BY DEF Spawn, OneAtATime
<1> DEFINE p == Newest + 1
<1>1. p \in Processes /\ p # NoProcess
  BY NumberLeft, Bounds DEF SidecarInv, Spawn, NoProcess
<1>2. Alive' = Alive \cup {p} /\ p \notin Spawned
  BY <1>1, NextProcess DEF SidecarInv, Spawn
<1>3. /\ sidecar' = p /\ children' = children \cup {p} /\ pc[h] = "port"
      /\ pc' = [pc EXCEPT ![h] = "booting"] /\ UNCHANGED <<app, signalled>>
  BY DEF Spawn, launchVars
<1>4. sidecar = NoProcess /\ app = "open"
  BY <1>3 DEF OneAtATime, PortIsFree, QuitsAtRest, UnderWay, SidecarInv, HandlesInv, TypeOK
<1>5. \A g \in Handlers : pc[g] \in UnderWay => g = h
  BY <1>3 DEF OneAtATime, OneUnderWay, UnderWay
<1>6. \A g \in Handlers :
        pc'[g] \in UnderWay => g = h /\ pc[g] \in UnderWay /\ pc'[g] = "booting"
  BY <1>3, <1>5 DEF SidecarInv, TypeOK, UnderWay
<1>7. NoProcess \notin Alive
  BY Bounds DEF NoProcess, Alive
<1>8. OneUnderWay' /\ PortIsFree'
  BY <1>6 DEF OneUnderWay, PortIsFree, UnderWay
<1>9. OneChild' /\ QuitsAtRest' /\ NothingRunsUnseen'
  BY <1>2, <1>3, <1>4, <1>7 DEF OneAtATime, OneChild, QuitsAtRest, NothingRunsUnseen
<1> QED
  BY <1>8, <1>9 DEF OneAtATime

\* A save that meets no other stops the one child, or there is none and it goes on at once.
LEMMA SavesAlone ==
    ASSUME SidecarInv, OneAtATime, NEW h \in Saves, Save(h)
    PROVE  OneAtATime'
<1> SUFFICES ASSUME ~raced' PROVE OneAtATime'
  BY DEF OneAtATime
<1>0. ~raced /\ ~MeetsAnother
  BY Zenon DEF Save
<1>1. /\ ~raced /\ \A g \in Handlers : pc[g] \notin UnderWay
      /\ children \cap signalled \cap Alive = {}
      /\ app = "open" /\ h \in Handlers
  BY <1>0, Bounds DEF Save, Opened, MeetsAnother, SomeUnderWay, Saves, SidecarInv, TypeOK
<1>2. sidecar # NoProcess => sidecar \notin signalled
  BY <1>1 DEF SidecarInv, HandlesInv, HandleIsNewest
<1>3. NoProcess \notin Alive
  BY Bounds DEF NoProcess, Alive
<1>4. UNCHANGED <<app, children, process>> /\ Alive' = Alive
  BY DEF Save, launchVars, bootVars, Alive
<1>5. CASE CanStop
  <2>1. /\ signalled' = signalled \cup {sidecar} /\ sidecar' = sidecar
        /\ \E x \in Stopping : pc' = [pc EXCEPT ![h] = x]
    BY <1>5 DEF Save, Stopping
  <2>2. /\ \A g \in Handlers : pc'[g] \in UnderWay => g = h
        /\ pc'[h] \in Stopping
    BY <1>1, <2>1 DEF SidecarInv, TypeOK
  <2>3. \A g \in Handlers : pc'[g] # "port"
    BY <2>2 DEF UnderWay, Stopping
  <2> QED
    BY <1>1, <1>4, <2>1, <2>2, <2>3
       DEF OneAtATime, OneUnderWay, PortIsFree, OneChild, QuitsAtRest, NothingRunsUnseen
<1>6. CASE ~CanStop
  <2>1. sidecar = NoProcess
    BY <1>2, <1>6 DEF CanStop
  <2>2. /\ signalled' = signalled /\ sidecar' = NoProcess
        /\ \E x \in {"port", "saved"} : pc' = [pc EXCEPT ![h] = x]
    BY <1>6 DEF Save
  <2>3. \A g \in Handlers : pc'[g] \in UnderWay => g = h
    BY <1>1, <2>2 DEF SidecarInv, TypeOK
  <2> QED
    BY <1>1, <1>4, <2>1, <2>2, <2>3
       DEF OneAtATime, OneUnderWay, PortIsFree, OneChild, QuitsAtRest, NothingRunsUnseen
<1> QED
  BY <1>5, <1>6

\* A launch finds what is alive told to end, and no child of its own.
LEMMA LaunchesAlone ==
    ASSUME SidecarInv, OneAtATime, Launch
    PROVE  OneAtATime'
<1>1. /\ app = "quit" /\ app' = "open" /\ children' = {} /\ sidecar' = NoProcess
      /\ \E x \in {"port", "idle"} : pc' = [pc EXCEPT ![0] = x]
      /\ UNCHANGED <<process, signalled, raced>>
  BY DEF Launch, Opens, processVars
<1>2. sidecar = NoProcess /\ \A h \in Handlers : pc[h] \notin UnderWay
  BY <1>1 DEF SidecarInv, HandlesInv
<1>3. \A h \in Handlers : pc'[h] \in UnderWay => h = 0
  BY <1>1, <1>2, Bounds DEF SidecarInv, TypeOK
<1>4. Alive' = Alive
  BY <1>1 DEF Alive
<1> QED
  BY <1>1, <1>2, <1>3, <1>4
     DEF OneAtATime, OneUnderWay, PortIsFree, OneChild, QuitsAtRest, NothingRunsUnseen

\* A boot that ends and a save that fails leave one fewer under way, or as many.
LEMMA EndsAlone ==
    ASSUME SidecarInv, OneAtATime, NEW h \in Handlers, pc[h] \notin Stopping,
           \E x \in Answers : pc' = [pc EXCEPT ![h] = x],
           UNCHANGED <<app, children, sidecar, process, signalled, raced>>
    PROVE  OneAtATime'
<1>1. \A g \in Handlers : pc'[g] \in UnderWay => pc'[g] = pc[g]
  BY DEF SidecarInv, TypeOK, UnderWay, Stopping, Answers
<1>2. Alive' = Alive
  BY DEF Alive
<1>3. \A g \in Handlers : pc'[g] = "port" => pc[g] = "port"
  BY <1>1 DEF UnderWay
<1> QED
  BY <1>1, <1>2, <1>3
     DEF OneAtATime, OneUnderWay, PortIsFree, OneChild, QuitsAtRest, NothingRunsUnseen

\* What tells the sidecar to end, the timeout and the quit, finds no other child alive; a
\* quit that meets nobody under way leaves nobody to go on.
LEMMA TellsAlone ==
    ASSUME SidecarInv, OneAtATime, TimerFires \/ BeforeQuit
    PROVE  OneAtATime'
<1> SUFFICES ASSUME ~raced' PROVE OneAtATime'
  BY DEF OneAtATime
<1>0. ~raced /\ (BeforeQuit => ~SomeUnderWay)
  <2>1. CASE TimerFires
    <3>1. raced' = raced /\ ~BeforeQuit
      BY <2>1 DEF TimerFires, BeforeQuit, launchVars, SidecarInv, TypeOK
    <3> QED
      BY <3>1, Zenon
  <2>2. CASE BeforeQuit
    BY <2>2, Zenon DEF BeforeQuit
  <2> QED
    BY <2>1, <2>2
<1>1. /\ UNCHANGED <<children, sidecar, process, pc>>
      /\ signalled' = IF CanStop THEN signalled \cup {sidecar} ELSE signalled
      /\ \/ app' = app
         \/ /\ app = "open" /\ app' = "quitting"
            /\ \A h \in Handlers : pc[h] \notin UnderWay
  BY <1>0 DEF TimerFires, BeforeQuit, SomeUnderWay, launchVars, bootVars
<1>2. Alive' = Alive
  BY <1>1 DEF Alive
<1>3. OneUnderWay' /\ PortIsFree' /\ OneChild' /\ NothingRunsUnseen'
  BY <1>0, <1>1, <1>2 DEF OneAtATime, OneUnderWay, PortIsFree, OneChild, NothingRunsUnseen
<1>4. QuitsAtRest'
  BY <1>0, <1>1 DEF OneAtATime, QuitsAtRest, CanStop
<1> QED
  BY <1>3, <1>4 DEF OneAtATime

\* A child that ends is the one in the handle; others are nobody's.
LEMMA ProcessAlone ==
    ASSUME SidecarInv, OneAtATime, NEW p \in Processes, Serve(p) \/ Hang(p) \/ Exit(p)
    PROVE  OneAtATime'
<1> SUFFICES ASSUME ~raced PROVE OneAtATime'
  BY DEF OneAtATime, Serve, Hang, Exit
<1>0. UNCHANGED <<app, children, signalled>>
  BY DEF Serve, Hang, Exit, mainVars, launchVars, bootVars
<1>1. CASE Exit(p) /\ app # "quit" /\ p \in children
  <2>1. /\ p \in Alive /\ process' = [process EXCEPT ![p] = "dead"] /\ sidecar' = NoProcess
        /\ \A h \in Handlers : pc'[h] \in UnderWay => pc[h] \in UnderWay
    BY <1>1 DEF Exit, Exits, UnderWay, Stopping
  <2>2. p = sidecar
    BY <1>1, <2>1 DEF OneAtATime, OneChild
  <2>3. Alive' = Alive \ {p}
    BY <2>1, Fates DEF SidecarInv
  <2> QED
    BY <1>0, <2>1, <2>2, <2>3
       DEF OneAtATime, OneUnderWay, PortIsFree, OneChild, QuitsAtRest, NothingRunsUnseen
<1>2. CASE ~(Exit(p) /\ app # "quit" /\ p \in children)
  <2>1. /\ UNCHANGED <<sidecar, pc>>
        /\ process \in [Processes -> {"none", "starting", "serving", "dead"}]
        /\ \/ UNCHANGED process
           \/ process[p] = "starting" /\ process' = [process EXCEPT ![p] = "serving"]
           \/ process' = [process EXCEPT ![p] = "dead"]
    BY <1>2 DEF Serve, Hang, Exit, mainVars, SidecarInv, TypeOK
  <2>2. Alive' \subseteq Alive
    BY <2>1 DEF Alive
  <2> QED
    BY <1>0, <2>1, <2>2
       DEF OneAtATime, OneUnderWay, PortIsFree, OneChild, QuitsAtRest, NothingRunsUnseen
<1> QED
  BY <1>1, <1>2

\* When the main process ends, the sidecar has been told to.
LEMMA MainEndsAlone ==
    ASSUME SidecarInv, OneAtATime, MainEnds
    PROVE  OneAtATime'
<1>1. /\ app = "quitting" /\ app' = "quit" /\ sidecar' = NoProcess
      /\ pc' = [h \in Handlers |-> IF pc[h] \in UnderWay THEN "lost" ELSE pc[h]]
      /\ UNCHANGED <<process, signalled, raced>>
  BY DEF MainEnds, processVars
<1>2. /\ \A h \in Handlers : pc'[h] \notin UnderWay /\ pc'[h] # "port"
      /\ Alive' = Alive /\ NoProcess \notin Alive
  BY <1>1, Bounds DEF UnderWay, Stopping, Alive, NoProcess
<1> QED
  BY <1>1, <1>2
     DEF OneAtATime, OneUnderWay, PortIsFree, OneChild, QuitsAtRest, NothingRunsUnseen

\* Every step keeps OneAtATime.
LEMMA StepKeepsOne ==
    ASSUME SidecarInv, OneAtATime, [Next]_vars
    PROVE  OneAtATime'
<1>1. CASE UNCHANGED vars
  <2>1. UNCHANGED <<app, children, sidecar, process, signalled, pc, raced>>
    BY <1>1 DEF vars, mainVars, launchVars, bootVars, processVars
  <2> QED
    BY <2>1 DEF OneAtATime, OneUnderWay, PortIsFree, OneChild, QuitsAtRest,
                NothingRunsUnseen, Alive
<1>2. ASSUME NEW h \in Handlers, BootOk(h) \/ BootTimeout(h) PROVE OneAtATime'
  <2>1. /\ pc[h] \notin Stopping /\ \E x \in Answers : pc' = [pc EXCEPT ![h] = x]
        /\ UNCHANGED <<app, children, sidecar, process, signalled, raced>>
    BY <1>2 DEF BootOk, BootTimeout, Answers, Stopping, launchVars, bootVars, processVars
  <2> QED
    BY <2>1, EndsAlone
<1>3. ASSUME NEW h \in Saves, SaveFails(h) PROVE OneAtATime'
  <2>1. /\ pc[h] \notin Stopping /\ \E x \in Answers : pc' = [pc EXCEPT ![h] = x]
        /\ UNCHANGED <<app, children, sidecar, process, signalled, raced>>
        /\ h \in Handlers
    BY <1>3, Bounds
       DEF SaveFails, Opened, Answers, Stopping, launchVars, bootVars, processVars, Saves
  <2> QED
    BY <2>1, EndsAlone
<1>4. CASE Next
  BY <1>1, <1>2, <1>3, <1>4, LaunchesAlone, MainEndsAlone, TellsAlone, SpawnsAlone, SavesAlone,
     ProcessAlone DEF Next, Rest, Saves
<1> QED
  BY <1>1, <1>4

\* At first nothing is alive.
LEMMA InitOne == Init => OneAtATime
BY Bounds DEF Init, OneAtATime, OneUnderWay, PortIsFree, OneChild, QuitsAtRest,
              NothingRunsUnseen, Alive, UnderWay, Stopping, Handlers

\* The handle is of the newest process, alive; and unless a save or the quit has begun in
\* the midst of another, no process escapes: whatever is alive is in the handle or has been
\* told to end, however many saves, timers and launches there are.
THEOREM ProcessInvHolds == Spec => []ProcessInv
<1>1. SidecarInv /\ OneAtATime => ProcessInv
  BY DEF SidecarInv, HandlesInv, OneAtATime, ProcessInv
<1>2. SidecarInv /\ OneAtATime /\ [Next]_vars => SidecarInv' /\ OneAtATime'
  BY StepKeepsSidecar, StepKeepsOne
<1> QED
  BY <1>1, <1>2, InitSidecar, InitOne, PTL DEF Spec
================================================================================
