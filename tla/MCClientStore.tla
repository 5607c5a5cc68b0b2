---------------------------- MODULE MCClientStore ----------------------------
(***************************************************************************)
(* Model checking of ClientStore: what there may be when the page is       *)
(* loaded.  A finished session; a running and a paused one, if the sidecar *)
(* has gone on; sessions the sidecar died in, whose log has no end, once   *)
(* while paused; one it died in after the verdict had been announced and   *)
(* before the row was written; no session.  Of each, an earlier page may   *)
(* have received any part, or none.                                        *)
(***************************************************************************)
EXTENDS ClientStore

LeftOver ==
    { [row |-> "finished", runner |-> "none", log |-> <<"started", "card", "finished">>],
      [row |-> "running", runner |-> "running", log |-> <<"started", "card">>],
      [row |-> "running", runner |-> "running", log |-> <<"started", "paused">>],
      [row |-> "errored", runner |-> "none", log |-> <<"started", "card">>],
      [row |-> "errored", runner |-> "none", log |-> <<"started", "paused">>],
      [row |-> "errored", runner |-> "none", log |-> <<"started", "finished">>],
      [row |-> "absent", runner |-> "none", log |-> << >>] }

AnyPast ==
    UNION { { [row |-> p.row, runner |-> p.runner, log |-> p.log, seq |-> n] :
                 n \in {0} \cup {k \in 1 .. Len(p.log) : p.log[k] \notin Verdicts} } :
            p \in LeftOver }
=============================================================================
