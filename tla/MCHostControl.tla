--------------------------- MODULE MCHostControl ---------------------------
(* Two applications, so that a launch of one can meet the end of the other, *)
(* and two hosts.                                                           *)
EXTENDS HostControl
=============================================================================
