---------------------------- MODULE MCKeepAlive ----------------------------
(***************************************************************************)
(* KeepAlive with quarters of a second.                                    *)
(***************************************************************************)
EXTENDS KeepAlive

MCKeepAlives == 0..8
=============================================================================
