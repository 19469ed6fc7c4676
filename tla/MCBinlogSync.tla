---------------------------- MODULE MCBinlogSync ----------------------------
(* Instances of BinlogSync for TLC.                                         *)
EXTENDS BinlogSync, TLC

CONSTANTS A, B

TwoStreams == {A, B}
OneStream == {A}
Symmetry == Permutations({A, B})
OneRow == {1}
OneOrTwoRows == {1, 2}
=============================================================================
