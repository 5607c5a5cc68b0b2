-------------------------------- MODULE Sidecar --------------------------------
(***************************************************************************)
(* The Electron main process (electron/main.ts) and the settings it keeps  *)
(* (electron/settings.ts): it spawns the sidecar, waits for its /health,   *)
(* restarts it when settings are saved and stops it when the application   *)
(* quits.                                                                  *)
(*                                                                         *)
(* JavaScript runs one callback at a time; an action is one callback, up   *)
(* to its next await.  Processes are numbered as they are spawned, each    *)
(* with a port of its own, so that a number stands for both.  Handler 0 is *)
(* the boot of app.whenReady, handler h > 0 the h-th call of settings:save.*)
(***************************************************************************)
EXTENDS Integers, FiniteSets, FiniteSetsExt

CONSTANTS
    Providers,
    KeyProviders,   \* those REQUIRED_KEY_ENV names a key for
    MaxSaves,       \* bound: calls of settings:save
    MaxOpen,        \* bound: calls under way at once (Esc closes a form that is saving)
    MaxLaunches     \* bound: times the application is started

ASSUME BoundsAssumption ==
    /\ KeyProviders \subseteq Providers
    /\ MaxSaves \in Nat /\ MaxOpen \in Nat /\ MaxLaunches \in Nat

VARIABLES
    app,         \* "open", "quitting" once before-quit has come, "quit"
    launches,
    settings,    \* the file: NoFile, or provider, stored keys and who saved it
    window,      \* NoWindow, or the port its preload has read
    env_port,    \* process.env.OKDOIT_PORT, 0 before the first boot
    children,    \* the processes this main process has spawned
    sidecar,     \* the global handle: NoProcess or a process
    process,     \* what each process is at
    spawned_with,\* whose settings its environment holds
    signalled,   \* ChildProcess.killed: SIGTERM or SIGKILL has been sent
    sigkilled,   \* SIGKILL has been sent
    stubborn,    \* does not react to SIGTERM
    timers,      \* pending timeouts of stopSidecar
    pc,          \* where each handler is, or its answer
    target,      \* the process it waits for
    raced        \* history: a save or the quit has begun in the midst of another

processVars == <<process, spawned_with, signalled, sigkilled, stubborn>>
launchVars == <<app, launches>>
bootVars == <<env_port, children>>
mainVars == <<launchVars, settings, window, bootVars, sidecar, timers, pc, target>>
vars == <<mainVars, processVars, raced>>

Processes == 1 .. MaxSaves + MaxLaunches
Handlers == 0 .. MaxSaves
NoProcess == 0
NoWindow == -1
NoFile == [provider |-> "none", keys |-> {}, saved_by |-> 0]

Stopping == {"stopping", "stopping_only"}
UnderWay == Stopping \cup {"port", "booting"}
Answers == {"saved", "restarted", "failed", "lost"}

TypeOK ==
    /\ app \in {"open", "quitting", "quit"}
    /\ launches \in 0 .. MaxLaunches
    /\ settings \in {NoFile} \cup
           [provider : Providers, keys : SUBSET KeyProviders, saved_by : Handlers]
    /\ window \in {NoWindow, 0} \cup Processes
    /\ env_port \in {0} \cup Processes
    /\ children \subseteq Processes
    /\ sidecar \in {NoProcess} \cup Processes
    /\ process \in [Processes -> {"none", "starting", "serving", "dead"}]
    /\ spawned_with \in [Processes -> Handlers]
    /\ sigkilled \subseteq Processes
    /\ signalled \subseteq Processes
    /\ stubborn \subseteq Processes
    /\ timers \in Nat
    /\ pc \in [Handlers -> {"idle"} \cup UnderWay \cup Answers]
    /\ target \in [Handlers -> {NoProcess} \cup Processes]
    /\ raced \in BOOLEAN

Alive == {p \in Processes : process[p] \in {"starting", "serving"}}
Spawned == {p \in Processes : process[p] # "none"}
Newest == Max(Spawned \cup {NoProcess})

\* isReady
Ready(file) ==
    file # NoFile /\ (file.provider \in KeyProviders => file.provider \in file.keys)

\* app.whenReady: boot if the settings are complete, else show the window at once.
Opens(file) ==
    /\ app' = "open"
    /\ window' = IF Ready(file) THEN NoWindow ELSE 0
    /\ env_port' = 0
    /\ children' = {}
    /\ sidecar' = NoProcess
    /\ timers' = 0

Init ==
    /\ app = "quit"
    /\ launches = 0
    /\ settings \in {NoFile} \cup
           {[provider |-> p, keys |-> {p} \cap KeyProviders, saved_by |-> 0] : p \in Providers}
    /\ window = NoWindow
    /\ env_port = 0
    /\ children = {}
    /\ sidecar = NoProcess
    /\ process = [p \in Processes |-> "none"]
    /\ spawned_with = [p \in Processes |-> 0]
    /\ signalled = {} /\ sigkilled = {} /\ stubborn = {}
    /\ timers = 0
    /\ pc = [h \in Handlers |-> "idle"]
    /\ target = [h \in Handlers |-> NoProcess]
    /\ raced = FALSE

Launch ==
    /\ app = "quit" /\ launches < MaxLaunches
    /\ launches' = launches + 1
    /\ Opens(settings)
    /\ pc' = [pc EXCEPT ![0] = IF Ready(settings) THEN "port" ELSE "idle"]
    /\ UNCHANGED <<settings, target, processVars, raced>>

(***************************************************************************)
(* Booting a sidecar                                                       *)
(***************************************************************************)

\* bootSidecar, once it has a port: the environment of the process is what the
\* settings file says now.
Spawn(h) ==
    /\ pc[h] = "port"
    /\ LET p == Newest + 1 IN
        /\ env_port' = p
        /\ children' = children \cup {p}
        /\ sidecar' = p
        /\ process' = [process EXCEPT ![p] = "starting"]
        /\ spawned_with' = [spawned_with EXCEPT ![p] = settings.saved_by]
        /\ target' = [target EXCEPT ![h] = p]
    /\ pc' = [pc EXCEPT ![h] = "booting"]
    /\ UNCHANGED <<launchVars, settings, window, timers, signalled, sigkilled, stubborn, raced>>

\* Mutant: the window is not loaded again.
BootOkWithoutReload(h) ==
    /\ pc[h] = "booting" /\ process[target[h]] = "serving"
    /\ window' = IF h = 0 THEN env_port ELSE window
    /\ pc' = [pc EXCEPT ![h] = IF h > 0 /\ window = NoWindow THEN "failed" ELSE "restarted"]
    /\ UNCHANGED <<launchVars, settings, bootVars, sidecar, timers, target,
                   processVars, raced>>

\* waitOn has seen /health: the window is made, or loaded again, and its preload reads
\* the port of the environment.  To load a window again that is closed by now raises.
BootOk(h) ==
    /\ pc[h] = "booting" /\ process[target[h]] = "serving"
    /\ IF h > 0 /\ window = NoWindow
       THEN pc' = [pc EXCEPT ![h] = "failed"] /\ UNCHANGED window
       ELSE pc' = [pc EXCEPT ![h] = "restarted"] /\ window' = env_port
    /\ UNCHANGED <<launchVars, settings, bootVars, sidecar, timers, target,
                   processVars, raced>>

\* waitOn gives up after thirty seconds; the process is left as it is.
BootTimeout(h) ==
    /\ pc[h] = "booting" /\ process[target[h]] # "serving"
    /\ window' = IF h = 0 THEN env_port ELSE window
    /\ pc' = [pc EXCEPT ![h] = "failed"]
    /\ UNCHANGED <<launchVars, settings, bootVars, sidecar, timers, target,
                   processVars, raced>>

(***************************************************************************)
(* Stopping it                                                             *)
(***************************************************************************)

\* Mutant: nobody is told.
ExitsUnheard(p) ==
    /\ process' = [process EXCEPT ![p] = "dead"]
    /\ sidecar' = NoProcess
    /\ UNCHANGED pc

\* The exit event: the handle is cleared, whichever process it is of, and the handlers
\* that wait for this process go on.
Exits(p) ==
    /\ process' = [process EXCEPT ![p] = "dead"]
    /\ sidecar' = NoProcess
    /\ pc' = [h \in Handlers |->
                 IF target[h] = p /\ pc[h] = "stopping" THEN "port"
                 ELSE IF target[h] = p /\ pc[h] = "stopping_only" THEN "saved"
                 ELSE pc[h]]

\* stopSidecar signals the handle's process unless it has been signalled before.
CanStop == sidecar # NoProcess /\ sidecar \notin signalled

\* stopSidecar's timeout, three seconds later, looks at the handle of then; the exit of
\* a process it kills is told later.
TimerFires ==
    /\ timers > 0
    /\ timers' = timers - 1
    /\ signalled' = IF CanStop THEN signalled \cup {sidecar} ELSE signalled
    /\ sigkilled' = IF CanStop THEN sigkilled \cup {sidecar} ELSE sigkilled
    /\ UNCHANGED <<launchVars, settings, window, bootVars, sidecar, pc, target, process,
                   spawned_with, stubborn, raced>>

SomeUnderWay == \E h \in Handlers : pc[h] \in UnderWay

\* before-quit: stopSidecar, and no waiting for it.  The window is closed already, if that
\* has led here, or is closed later; the handlers go on until the main process ends.
BeforeQuit ==
    /\ app = "open"
    /\ app' = "quitting"
    /\ window' \in {window, NoWindow}
    /\ signalled' = IF CanStop THEN signalled \cup {sidecar} ELSE signalled
    /\ timers' = IF CanStop THEN timers + 1 ELSE timers
    /\ raced' = (raced \/ SomeUnderWay)
    /\ UNCHANGED <<launches, settings, bootVars, sidecar, pc, target, process, spawned_with,
                   sigkilled, stubborn>>

\* The main process is gone, with its handlers and timers.
MainEnds ==
    /\ app = "quitting"
    /\ app' = "quit"
    /\ sidecar' = NoProcess
    /\ timers' = 0
    /\ window' = NoWindow
    /\ pc' = [h \in Handlers |-> IF pc[h] \in UnderWay THEN "lost" ELSE pc[h]]
    /\ UNCHANGED <<launches, settings, bootVars, target, processVars, raced>>

(***************************************************************************)
(* settings:save                                                           *)
(***************************************************************************)

\* SettingsForm's canSubmit: a key is typed, not needed, or known to be stored.
CanSubmit(provider, typed) ==
    IF provider \in KeyProviders
    THEN typed \/ (provider = settings.provider /\ provider \in settings.keys)
    ELSE ~typed

\* saveSettings writes the keys it has been given and no others.
SaveSettings(h, provider, typed) ==
    settings' = [provider |-> provider,
                 keys |-> IF typed THEN {provider} ELSE {},
                 saved_by |-> h]

\* The form is open and not saving: of the dialogue (a window that has had a sidecar) there
\* can be a second one, for Esc closes one that is saving; the first-run page stays.
Opened(h) ==
    /\ app # "quit" /\ window # NoWindow
    /\ h > 0 /\ pc[h] = "idle"
    /\ \A g \in 1 .. h - 1 : pc[g] # "idle"
    /\ Cardinality({g \in 1 .. MaxSaves : pc[g] \in UnderWay})
           < IF window > 0 THEN MaxOpen ELSE 1

\* A save meets another one, a process that has been told to end and is still there, or
\* the end of the application.
MeetsAnother ==
    \/ SomeUnderWay
    \/ children \cap signalled \cap Alive # {}
    \/ app = "quitting"

\* Mutant: stopSidecarAndWait does not wait.
SaveWithoutWaiting(h) ==
    /\ Opened(h)
    /\ \E provider \in Providers, typed \in BOOLEAN :
        CanSubmit(provider, typed) /\ SaveSettings(h, provider, typed)
    /\ pc' = [pc EXCEPT ![h] = IF Ready(settings') THEN "port" ELSE "saved"]
    /\ IF CanStop
       THEN /\ signalled' = signalled \cup {sidecar}
            /\ timers' = timers + 1
       ELSE UNCHANGED <<signalled, timers>>
    /\ sidecar' = NoProcess
    /\ raced' = (raced \/ MeetsAnother)
    /\ UNCHANGED <<launchVars, window, bootVars, target, process, spawned_with, sigkilled,
                   stubborn>>

\* The file is written; then the sidecar is stopped, and waited for unless it has been
\* signalled already; then, if the settings are complete, another one is booted.
Save(h) ==
    /\ Opened(h)
    /\ \E provider \in Providers, typed \in BOOLEAN :
        CanSubmit(provider, typed) /\ SaveSettings(h, provider, typed)
    /\ IF CanStop
       THEN /\ signalled' = signalled \cup {sidecar}
            /\ timers' = timers + 1
            /\ target' = [target EXCEPT ![h] = sidecar]
            /\ pc' = [pc EXCEPT ![h] =
                         IF Ready(settings') THEN "stopping" ELSE "stopping_only"]
            /\ UNCHANGED sidecar
       ELSE /\ sidecar' = NoProcess
            /\ pc' = [pc EXCEPT ![h] = IF Ready(settings') THEN "port" ELSE "saved"]
            /\ UNCHANGED <<signalled, timers, target>>
    /\ raced' = (raced \/ MeetsAnother)
    /\ UNCHANGED <<launchVars, window, bootVars, process, spawned_with, sigkilled,
                   stubborn>>

\* The key cannot be encrypted or the file not be written: nothing else is done.
SaveFails(h) ==
    /\ Opened(h)
    /\ pc' = [pc EXCEPT ![h] = "failed"]
    /\ UNCHANGED <<launchVars, settings, window, bootVars, sidecar, timers, target,
                   processVars, raced>>

(***************************************************************************)
(* The processes                                                           *)
(***************************************************************************)

\* The startup of uvicorn is over; /health answers.
Serve(p) ==
    /\ process[p] = "starting"
    /\ process' = [process EXCEPT ![p] = "serving"]
    /\ UNCHANGED <<mainVars, spawned_with, signalled, sigkilled, stubborn, raced>>

\* It does not end on SIGTERM: a shutdown that hangs.
Hang(p) ==
    /\ p \in Alive /\ p \notin stubborn
    /\ stubborn' = stubborn \cup {p}
    /\ UNCHANGED <<mainVars, process, spawned_with, signalled, sigkilled, raced>>

\* It ends, asked to or not; of an earlier main process' child nobody hears.
Exit(p) ==
    /\ p \in Alive
    /\ IF app # "quit" /\ p \in children THEN Exits(p)
       ELSE process' = [process EXCEPT ![p] = "dead"] /\ UNCHANGED <<sidecar, pc>>
    /\ UNCHANGED <<launchVars, settings, window, bootVars, timers, target, spawned_with,
                   signalled, sigkilled, stubborn, raced>>

\* Nothing is left to happen within the bounds.
Rest ==
    /\ app = "quit" /\ launches = MaxLaunches /\ Alive = {}
    /\ UNCHANGED vars

Next ==
    \/ Launch \/ BeforeQuit \/ MainEnds \/ TimerFires \/ Rest
    \/ \E h \in Handlers : Spawn(h) \/ BootOk(h) \/ BootTimeout(h)
    \/ \E h \in 1 .. MaxSaves : Save(h) \/ SaveFails(h)
    \/ \E p \in Processes : Serve(p) \/ Hang(p) \/ Exit(p)

\* Callbacks and timeouts come; a process that is not stubborn ends when it is told to,
\* any process ends on SIGKILL.
Fairness ==
    /\ WF_vars(TimerFires)
    /\ \A h \in Handlers : WF_vars(Spawn(h)) /\ WF_vars(BootOk(h)) /\ WF_vars(BootTimeout(h))
    /\ \A p \in Processes : WF_vars(Exit(p) /\ p \in (signalled \ stubborn) \cup sigkilled)

Spec == Init /\ [][Next]_vars /\ Fairness

(***************************************************************************)
(* Properties                                                              *)
(***************************************************************************)

\* The handle is of a living process, the last that was spawned: what stopSidecar and
\* save do to it reaches the sidecar in use (main.ts:171, 185, 216, 225).
HandleIsNewest == sidecar # NoProcess => sidecar = Newest /\ sidecar \in Alive

\* No other child of this main process is alive than the one in the handle.
OneChild == app # "quit" => children \cap Alive \subseteq {sidecar}

\* What is alive is in the application's hands or has been told to end, also after it has
\* quit.
NothingRunsUnseen == Alive \subseteq signalled \cup {sidecar}

\* The handle is right, and every variable has its type.  As long as no save has begun
\* while another was under way, a process told to end was still there or the application
\* was quitting, and it has not begun to quit amid a save or its boot: a sidecar is spawned
\* only when the one before is dead, and none is left running unseen, whatever crashes,
\* hangs and timers of earlier saves come between (main.ts:195-226, 286-287, 354-360).
ProcessInv == TypeOK /\ HandleIsNewest /\ (~raced => OneChild /\ NothingRunsUnseen)

\* When a save has answered that it has restarted the sidecar, and it is still the last
\* one spawned, the window talks to it and it was given the settings saved, or later ones
\* (main.ts:123, 236-239, 286-289).
RestartIsSeen ==
    \A h \in Handlers :
        pc[h] = "restarted" /\ target[h] = Newest /\ Newest \in children /\ app = "open" =>
            window = Newest /\ spawned_with[Newest] >= h

\* A save answers, unless it waits for a process that does not end on SIGTERM
\* (main.ts:214-226, 272-297).
SaveEnds ==
    \A h \in Handlers :
        pc[h] \in UnderWay ~>
            \/ pc[h] \notin UnderWay
            \/ pc[h] \in Stopping /\ target[h] \in stubborn

\* "Still alive after SIGTERM, so SIGKILL it" (main.ts:201): only a process that has
\* been sent SIGTERM, and has not ended, is killed.
KilledWasAsked == [][\A p \in sigkilled' \ sigkilled : p \in signalled]_vars

\* "Cleans up the sidecar with SIGTERM and, after a while, SIGKILL" (main.ts:10): a
\* process that has been signalled ends.
SignalledEnds == \A p \in Processes : p \in signalled ~> p \notin Alive

\* "Awaits the exit explicitly, lest a new instance be spawned before the previous one is
\* dead" (main.ts:210-212).
OneSidecar == Cardinality(Alive) <= 1

\* "Leave blank to keep the current value" (SettingsForm.tsx:139): a save without a key
\* for the same provider keeps the one stored.
BlankKeepsKey ==
    [][settings'.provider = settings.provider => settings.keys \subseteq settings'.keys]_vars
=============================================================================
