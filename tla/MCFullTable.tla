----------------------------- MODULE MCFullTable -----------------------------
(* Instances of FullTable for TLC.                                          *)
EXTENDS FullTable

TwoRows == 1 .. 2
ThreeRows == 1 .. 3
NotIncreasing == {FALSE}

Setup(methods, keys, modes) == [method : methods, auto : keys, mode : modes]

\* Resumable snapshots in every format, restarted ones, and full copies.
AllSetups ==
  Setup({"LOG_BASED"}, {TRUE}, {"record", "jsonl", "arrow"})
    \cup Setup({"FULL_TABLE", "LOG_BASED"}, {FALSE}, {"record", "arrow"})

BatchSetups == Setup({"LOG_BASED"}, {TRUE}, {"jsonl", "arrow"})
ResumedFullSetups == Setup({"FULL_TABLE"}, {TRUE}, {"record"})
=============================================================================
