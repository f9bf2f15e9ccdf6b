---------------------------- MODULE MCSslServer ----------------------------
(***************************************************************************)
(* SslServer for TLC.  Two versions, one configured and one left; two      *)
(* connections of two threads, or of one.                                  *)
(***************************************************************************)
EXTENDS SslServer, TLC

=============================================================================
