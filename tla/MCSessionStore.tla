---------------------------- MODULE MCSessionStore ----------------------------
(***************************************************************************)
(* Model checking of SessionStore.  Sessions meet in the cache and in      *)
(* SQLite's lock only, and each of their actions is about one of them: one *)
(* session shows all that can happen to it.  Two DELETEs are its hazard.   *)
(***************************************************************************)
EXTENDS SessionStore
=============================================================================
