---------------------------- MODULE MCDatabaseBoot ----------------------------
(***************************************************************************)
(* Model checking of DatabaseBoot: a migration that is done and one that   *)
(* fails; a boot that dies, one of another release and one that serves,    *)
(* one after the other or all at once.                                     *)
(***************************************************************************)
EXTENDS DatabaseBoot
=============================================================================
