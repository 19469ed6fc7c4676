---------------------------- MODULE MCIncremental ----------------------------
(* Instances of Incremental for TLC.                                        *)
EXTENDS Incremental

TwoRows == 1 .. 2
UpdatedKey == {"updated"}
AnyMode == {"record", "jsonl", "arrow"}
=============================================================================
