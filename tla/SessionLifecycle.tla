-------------------------- MODULE SessionLifecycle --------------------------
(***************************************************************************)
(* What a session promises to its client, whatever the runner and the      *)
(* control routes do concurrently: a status, and a numbered log of events  *)
(* in which every change of the status is told, in order.  The seq of an   *)
(* event (WireMessage.seq) is its index in the log.                        *)
(***************************************************************************)
EXTENDS Naturals, Sequences

VARIABLES status, log

Terminal == {"finished", "errored", "stopped"}
Control == {"started", "paused", "resumed"} \cup Terminal

\* The kinds of events that tell of the graph's nodes.
Progress == {"plan.created", "plan.replanned", "step.observed", "step.thinking",
             "step.acted", "step.verified", "subtask.activated"}

\* The status each control event announces.
Announces ==
    [started |-> "running", paused |-> "paused", resumed |-> "running",
     finished |-> "finished", errored |-> "errored", stopped |-> "stopped"]

LifecycleType ==
    /\ status \in {"idle", "running", "paused"} \cup Terminal
    /\ log \in Seq(Control \cup Progress)

LifecycleInit ==
    /\ status = "idle"
    /\ log = << >>

Tell(kind) ==
    /\ log' = Append(log, kind)
    /\ status' = Announces[kind]

Alive == status \in {"running", "paused"}

Start == status = "idle" /\ Tell("started")
Pause == Alive /\ Tell("paused")
Resume == status = "paused" /\ Tell("resumed")
End == Alive /\ \E kind \in Terminal : Tell(kind)

\* The runner may still tell of a node while the session is paused.
Report ==
    /\ Alive
    /\ \E kind \in Progress : log' = Append(log, kind)
    /\ UNCHANGED status

LifecycleNext == Start \/ Pause \/ Resume \/ End \/ Report

LifecycleSpec == LifecycleInit /\ [][LifecycleNext]_<<status, log>>

\* A terminal event is the last event of a session: a client that closes its
\* stream on one misses nothing.
TerminalIsLast == \A i \in 1 .. Len(log) : log[i] \in Terminal => i = Len(log)

\* The status is the one announced by the last control event of the log: a client
\* that folds the events has the server's status.
StatusIsTold ==
    IF log = << >>
    THEN status = "idle"
    ELSE \E i \in 1 .. Len(log) :
            /\ log[i] \in Control
            /\ status = Announces[log[i]]
            /\ \A j \in (i + 1) .. Len(log) : log[j] \in Progress
=============================================================================
