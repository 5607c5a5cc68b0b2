----------------------------- MODULE MCSessionRun -----------------------------
(***************************************************************************)
(* Model checking of SessionRun, with history variables that watch it from *)
(* outside: the nodes that have run and the nodes the clients were told    *)
(* of, and how many nodes were entered since the session was paused, and   *)
(* since it was asked to stop.                                             *)
(***************************************************************************)
EXTENDS SessionRun

VARIABLES ran, told, entered_paused, entered_stopped

ghosts == <<ran, told, entered_paused, entered_stopped>>

\* Every run of these nodes has an event; the first thinks may have none.
ResultKinds == {EventOf[n] : n \in Nodes \ {"think"}}

MCInit ==
    /\ Init
    /\ ran = << >>
    /\ told = << >>
    /\ entered_paused = 0
    /\ entered_stopped = 0

WatchNodes ==
    ran' = IF NodeReturns /\ node # "think" THEN Append(ran, EventOf[node]) ELSE ran

WatchLog ==
    LET kind == log'[Len(log')]
    IN  told' = IF log' # log /\ kind \in ResultKinds THEN Append(told, kind) ELSE told

WatchPause ==
    entered_paused' = IF status' # "paused" THEN 0
                      ELSE IF EntersNode THEN entered_paused + 1 ELSE entered_paused

WatchStop ==
    entered_stopped' = IF stop_set' /\ EntersNode THEN entered_stopped + 1
                       ELSE entered_stopped

MCNext == Next /\ WatchNodes /\ WatchLog /\ WatchPause /\ WatchStop

MCSpec == MCInit /\ [][MCNext]_<<vars, ghosts>> /\ Fairness

\* A pause or a stop may come too late for the node about to be entered, but for
\* no other one, whatever else is requested meanwhile (runner.py:122-147).
ControlTakesEffect == entered_paused <= 1 /\ entered_stopped <= 1

\* The clients are told of every node that ran, in the order they ran, except of
\* the one whose result the runner holds while it is blocked, or held when it
\* stopped (runner.py:122-128).  The first thinks may have no event.
ResultInHand ==
    IF step # "think" /\ (pc = "blocked" \/ status = "stopped")
    THEN <<EventOf[step]>> ELSE << >>
NoResultLost == pc \notin Gone => ran = told \o ResultInHand
=============================================================================
