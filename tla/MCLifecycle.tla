---------------------------- MODULE MCLifecycle ----------------------------
(***************************************************************************)
(* Lifecycle for TLC: two server processes over one directory, so that one *)
(* can start while another ends, and two requests.                         *)
(***************************************************************************)
EXTENDS Lifecycle
=============================================================================
