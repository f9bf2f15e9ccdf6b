--------------------------- MODULE MCGomokuServer ---------------------------
(***************************************************************************)
(* GomokuServer for TLC.  Two users and two threads: two logins can        *)
(* overtake each other, two restarts meet, a backend page meet both.       *)
(***************************************************************************)
EXTENDS GomokuServer
=============================================================================
