------------------------------ MODULE MCSidecar ------------------------------
(***************************************************************************)
(* Model checking of Sidecar: a provider that needs a key and one that     *)
(* does not, and two saves that may overlap each other and the quit.       *)
(***************************************************************************)
EXTENDS Sidecar
=============================================================================
