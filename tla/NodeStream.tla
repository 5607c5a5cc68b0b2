----------------------------- MODULE NodeStream -----------------------------
(***************************************************************************)
(* What the compiled graph promises to whoever streams it: the order of    *)
(* the nodes (the edges of core/graph.py), a bounded number of replans,    *)
(* and a verdict that exists once the graph has ended.  AgentLoop          *)
(* implements it; SessionRun runs a session on top of it.                  *)
(***************************************************************************)
EXTENDS Naturals

CONSTANT MAX_REPLANS

VARIABLES
    node,     \* the node to run next, "END", or "raised"
    outcome,  \* "running"; "answer" or "error" at END; "raised"
    replans   \* how often replan has run

streamVars == <<node, outcome, replans>>

Nodes == {"plan", "observe", "think", "act", "verify", "replan"}

StreamType ==
    /\ node \in Nodes \cup {"END", "raised"}
    /\ outcome \in {"running", "answer", "error", "raised"}
    /\ replans \in Nat

StreamInit ==
    /\ node = "plan"
    /\ outcome = "running"
    /\ replans = 0

\* The unconditional edges.
Edge == [plan |-> "observe", observe |-> "think", think |-> "act", act |-> "verify"]

RunStraight ==
    /\ node \in DOMAIN Edge
    /\ node' = Edge[node]
    /\ UNCHANGED <<outcome, replans>>

RunReplan ==
    /\ node = "replan"
    /\ node' = "observe"
    /\ replans' = replans + 1
    /\ UNCHANGED outcome

VerifyContinues ==
    /\ node = "verify"
    /\ \/ node' = "observe"
       \/ replans < MAX_REPLANS /\ node' = "replan"
    /\ UNCHANGED <<outcome, replans>>

VerifyEnds ==
    /\ node = "verify"
    /\ node' = "END"
    /\ outcome' \in {"answer", "error"}
    /\ UNCHANGED replans

RunNode == RunStraight \/ RunReplan \/ VerifyContinues \/ VerifyEnds

\* astream raises instead of yielding the node's result.
Raise ==
    /\ node \in Nodes
    /\ node' = "raised"
    /\ outcome' = "raised"
    /\ UNCHANGED replans

StreamSpec == StreamInit /\ [][RunNode \/ Raise]_streamVars
=============================================================================
