-------------------------------- MODULE MCTap --------------------------------
(* Instances of Tap for TLC.                                                *)
EXTENDS Tap

CONSTANTS A, B

TwoStreams == <<A, B>>
AllMethods == {"FULL_TABLE", "INCREMENTAL", "LOG_BASED"}
=============================================================================
