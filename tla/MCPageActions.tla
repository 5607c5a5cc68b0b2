---------------------------- MODULE MCPageActions ----------------------------
(***************************************************************************)
(* Model checking of PageActions: what the LLM may decide: every handler   *)
(* of the registry, and a target's text that is read as an error.          *)
(***************************************************************************)
EXTENDS PageActions

\* "misspelt" stands for every type that is not registered.
AllOps == Registered \cup {"misspelt"}

\* A target's text, and one that holds a marker of another error (result.py:183).
Targets == {{}, {"detached"}}
=============================================================================
