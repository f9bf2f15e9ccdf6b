-------------------------- MODULE MCSessionManager --------------------------
(***************************************************************************)
(* SessionManager for TLC.  Two sessions are one to live with and one to   *)
(* be renewed to, or two that get one id; a lifetime is negative (expired  *)
(* at birth), shorter than the run, or the hour that was meant.            *)
(***************************************************************************)
EXTENDS SessionManager, TLC

MCLifetime == {-1, 0, 3600}
MCSymmetry == Permutations(Thread) \cup Permutations(Session)
=============================================================================
