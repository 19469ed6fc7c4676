--------------------------- MODULE BinlogRunProofs ---------------------------
(***************************************************************************)
(* More of BinlogSync: it implements AtLeastOnce by coordinates, and what a *)
(* run by coordinates leaves behind; runs without faults, with gtids or     *)
(* without; and runs by coordinates that faults cut short.                  *)
(***************************************************************************)
EXTENDS BinlogSyncProofs

-----------------------------------------------------------------------------
(* The refinement.                                                          *)

\* Bookmarks b are those of the streams that have joined.
Joins(b) == \A s \in Streams : origin[s] = 0 <=> b[s].pos = 0

\* A run reads streams that have joined, and only those have bookmarks.
JoinShape == Joins(saved) /\ Joins(bm) /\ \A s \in sel : origin[s] # 0

\* The inductive invariant.
RInv == IInv /\ JoinShape

-----------------------------------------------------------------------------
(* Who has joined.                                                          *)

\* update_bookmarks gives no stream its first bookmark.
LEMMA UpdateJoins ==
  ASSUME JoinShape, NEW b, Joins(b), NEW p, p # 0, NEW g
  PROVE  Joins(UpdateBookmarks(b, p, g))
<1> SUFFICES ASSUME NEW s \in Streams
             PROVE  origin[s] = 0 <=> UpdateBookmarks(b, p, g)[s].pos = 0
  BY Zenon DEF Joins
<1>1. UpdateBookmarks(b, p, g)[s].pos = IF s \in sel THEN p ELSE b[s].pos
  BY DEF UpdateBookmarks
<1>2. (s \in sel => origin[s] # 0) /\ (origin[s] = 0 <=> b[s].pos = 0)
  BY Zenon DEF JoinShape, Joins
<1> QED
  BY <1>1, <1>2

\* Nor does an iteration of the loop.
LEMMA IterationJoins ==
  ASSUME JoinShape, NEW b, Joins(b), NEW p, p # 0, NEW g, NEW pr, NEW sk,
         EndOfIteration(b, p, g, pr, sk)
  PROVE  JoinShape'
<1>1. Joins(UpdateBookmarks(b, p, g))
  BY UpdateJoins
<1>2. /\ bm' = b \/ bm' = UpdateBookmarks(b, p, g)
      /\ saved' = saved \/ saved' = bm'
      /\ origin' = origin /\ sel' = sel
  BY DEF EndOfIteration, envVars
<1> QED
  BY <1>1, <1>2 DEF JoinShape, Joins

\* Nor does the end of a run.
LEMMA ExitJoins ==
  ASSUME NEW b, Joins(b), NEW status, Exit(status, b), origin' = origin
  PROVE  JoinShape'
BY DEF Exit, JoinShape, Joins

\* Each step keeps the invariant.
LEMMA JoinStep ==
  ASSUME CoordinatesOnly, RInv, [Next]_vars
  PROVE  RInv'
<1>0. TypeOK /\ IInv' /\ JoinShape /\ EndShape /\ ~use_gtid
  BY CoveredStep DEF RInv, IInv
<1> SUFFICES JoinShape'
  BY <1>0 DEF RInv
<1>1. /\ {next, reader_pos} \subseteq 1 .. Len(log) + 1 /\ log_pos \in 0 .. Len(log) + 1
      /\ Len(log) \in Nat /\ sel \subseteq Streams
  <2>1. log \in Seq(EventType)
    BY <1>0 DEF TypeOK
  <2> QED
    BY <1>0, <2>1 DEF TypeOK
<1>2. ASSUME UNCHANGED <<origin, stateVars>>, sel' = sel
      PROVE  JoinShape'
  BY <1>0, <1>2 DEF JoinShape, Joins, stateVars
<1>3. CASE ServerNext \/ ToggleGtid \/ FetchEnd \/ ReadFiltered \/ Reconnect \/ UNCHANGED vars
  <2>1. CASE ServerNext
    BY <1>2, <2>1 DEF ServerNext, Commit, RotateLog, PurgeLog, envVars, readerVars
  <2>2. CASE ToggleGtid
    BY <1>2, <2>2 DEF ToggleGtid, readerVars
  <2>3. CASE FetchEnd
    BY <1>2, <2>3 DEF FetchEnd, envVars
  <2>4. CASE ReadFiltered
    BY <1>2, <2>4 DEF ReadFiltered, envVars
  <2>5. CASE Reconnect
    BY <1>2, <2>5 DEF Reconnect
  <2>6. CASE UNCHANGED vars
    BY <1>2, <2>6 DEF vars, envVars, readerVars
  <2> QED
    BY <1>3, <2>1, <2>2, <2>3, <2>4, <2>5, <2>6
<1>4. ASSUME NEW s \in Streams, Snapshot(s)
      PROVE  JoinShape'
  <2>1. /\ saved' = [saved EXCEPT ![s] = [pos |-> Len(log) + 1,
                                          gtid |-> IF use_gtid THEN Whole(txns) ELSE NoGtid]]
        /\ bm' = saved' /\ origin' = [origin EXCEPT ![s] = Len(log) + 1]
        /\ sel' = sel /\ origin[s] = 0
    BY <1>4 DEF Snapshot, readerVars
  <2>2. ASSUME NEW t \in Streams
        PROVE  origin'[t] = 0 <=> saved'[t].pos = 0
    BY <1>0, <1>1, <2>1 DEF TypeOK, JoinShape, Joins
  <2>3. \A t \in sel : origin'[t] # 0
    BY <1>0, <1>1, <2>1 DEF TypeOK, JoinShape
  <2> QED
    BY <2>1, <2>2, <2>3 DEF JoinShape, Joins
<1>5. CASE StartRun
  <2>1. PICK S \in Selection : StartFromCoordinates(S) \/ StartFails(S)
    BY <1>0, <1>5 DEF StartRun, StartFromGtid
  <2>2. UNCHANGED <<origin, stateVars>> /\ (sel' = S \/ sel' = sel)
    BY <2>1 DEF StartFromCoordinates, StartFails, StartAt, envVars, readerVars
  <2>3. \A s \in S : s \in Streams /\ saved[s].pos # 0
    BY DEF Selection, Joined
  <2> QED
    BY <1>0, <2>2, <2>3 DEF JoinShape, Joins, stateVars
<1>6. CASE ReaderFails \/ Crash
  <2>1. Exit(1, saved) /\ origin' = origin
    BY <1>6 DEF ReaderFails, Crash, envVars
  <2>2. Joins(saved)
    BY <1>0 DEF JoinShape
  <2> QED
    BY <2>1, <2>2, ExitJoins, Zenon
<1>7. CASE RotateEvent
  <2>1. next' # 0
    BY <1>1, <1>7 DEF RotateEvent
  <2>2. Joins(UpdateBookmarks(bm, next', gtid_pos))
    <3>1. Joins(bm)
      BY <1>0 DEF JoinShape
    <3> QED
      BY <1>0, <2>1, <3>1, UpdateJoins, Zenon
  <2>3. EndOfIteration(UpdateBookmarks(bm, next', gtid_pos), next', gtid_pos, processed, skipped)
    BY <1>7 DEF RotateEvent
  <2> QED
    BY <1>0, <2>1, <2>2, <2>3, IterationJoins, Zenon
<1>8. CASE GtidEvent
  BY <1>0, <1>8 DEF GtidEvent, Returns, Surfaces
<1>9. Report(next) # 0
  BY <1>1 DEF Report
<1>10. CASE RowsEvent \/ SkippedEvent
  <2>1. \E pr, sk : EndOfIteration(bm, Report(next), gtid_pos, pr, sk)
    BY <1>10 DEF RowsEvent, SkippedEvent
  <2>2. Joins(bm)
    BY <1>0 DEF JoinShape
  <2> QED
    BY <1>0, <1>9, <2>1, <2>2, IterationJoins, Zenon
<1>11. ASSUME NEW p, Finish(p)
       PROVE  JoinShape'
  <2>1. Joins(bm)
    BY <1>0 DEF JoinShape
  <2>2. CASE p # 0
    <3>1. Joins(UpdateBookmarks(bm, p, gtid_pos))
      BY <1>0, <2>1, <2>2, UpdateJoins, Zenon
    <3>2. Exit(0, UpdateBookmarks(bm, p, gtid_pos)) /\ origin' = origin
      BY <1>11, <2>2 DEF Finish, envVars
    <3> QED
      BY <3>1, <3>2, ExitJoins, Zenon
  <2>3. CASE p = 0
    <3>1. Exit(0, bm) /\ origin' = origin
      BY <1>11, <2>3 DEF Finish, envVars
    <3> QED
      BY <2>1, <3>1, ExitJoins, Zenon
  <2> QED
    BY <2>2, <2>3
<1>12. CASE ReachedEnd \/ Exhausted
  BY <1>11, <1>12 DEF ReachedEnd, Exhausted
<1> QED
  BY <1>3, <1>4, <1>5, <1>6, <1>7, <1>8, <1>10, <1>12 DEF Next, RunStep
-----------------------------------------------------------------------------
(* The refinement.                                                          *)

\* The changes are the pairs of a row event's position and its stream.
LEMMA RowChangesAre ==
  /\ RowChanges = {c \in (1 .. Len(log)) \X Streams : RowOf(c[2], c[1])}
  /\ RowChanges' = {c \in (1 .. Len(log')) \X Streams : RowOf(c[2], c[1])'}
<1>1. RowChanges = {c \in (1 .. Len(log)) \X Streams : RowOf(c[2], c[1])}
  BY DEF RowChanges, RowOf
<1>2. RowChanges' = {c \in (1 .. Len(log')) \X Streams : RowOf(c[2], c[1])'}
  BY DEF RowChanges, RowOf
<1> QED
  BY <1>1, <1>2

\* Initially nothing was committed and no stream has joined.
LEMMA RefinementInit ==
  ASSUME CoordinatesOnly, Init
  PROVE  RInv /\ Promise!Init
<1>1. IInv
  BY CoveredInit
<1>2. JoinShape
  BY DEF Init, JoinShape, Joins, NoBookmark
<1>3. log = <<>> /\ Len(log) = 0 /\ saved = [s \in Streams |-> NoBookmark]
  BY DEF Init
<1>4. RowChanges = {}
  BY <1>3, RowChangesAre
<1>5. SavedPositions = [s \in Streams |-> 0]
  BY <1>3 DEF SavedPositions, NoBookmark
<1> QED
  BY <1>1, <1>2, <1>3, <1>4, <1>5 DEF RInv, Init, Promise!Init

\* Longer binlogs have more row events, all of them past the former end.
LEMMA GrowthIsCommit ==
  ASSUME log \in Seq(EventType), log' \in Seq(EventType), Len(log) < Len(log'),
         \A i \in 1 .. Len(log) : log'[i] = log[i],
         UNCHANGED <<origin, saved, delivered>>
  PROVE  Promise!Commit
<1>1. Len(log) \in Nat /\ Len(log') \in Nat
  OBVIOUS
<1>2. RowChanges \subseteq RowChanges'
  BY <1>1, RowChangesAre DEF RowOf
<1>3. ASSUME NEW c \in RowChanges', c \notin RowChanges
      PROVE  c \in ((Len(log) + 1) .. (Len(log') + 1 - 1)) \X Streams
  <2>1. c \in (1 .. Len(log')) \X Streams /\ RowOf(c[2], c[1])'
    BY RowChangesAre
  <2>2. c[1] \in 1 .. Len(log') /\ c[2] \in Streams /\ c = <<c[1], c[2]>>
    BY <2>1
  <2>3. c[1] \notin 1 .. Len(log)
    <3> SUFFICES ASSUME c[1] \in 1 .. Len(log)
                 PROVE  FALSE
      OBVIOUS
    <3>1. RowOf(c[2], c[1])
      BY <2>1 DEF RowOf
    <3> QED
      BY <2>2, <3>1, <1>3, RowChangesAre
  <2>4. c[1] \in (Len(log) + 1) .. (Len(log') + 1 - 1)
    BY <1>1, <2>2, <2>3
  <2> QED
    BY <2>2, <2>4
<1>4. UNCHANGED <<origin, SavedPositions, delivered>>
  BY DEF SavedPositions
<1> QED
  BY <1>1, <1>2, <1>3, <1>4 DEF Promise!Commit

\* A step that writes records of joined streams only, or none, is Replicate.
LEMMA DeliveryIsReplicate ==
  ASSUME RInv, RInv', UNCHANGED <<log, origin>>, delivered \subseteq delivered',
         \A i \in delivered' \ delivered : \E s \in Streams : RowOf(s, i) /\ origin[s] # 0
  PROVE  Promise!Replicate
<1>1. Len(log) \in Nat
  <2>1. log \in Seq(EventType)
    BY DEF RInv, IInv, TypeOK
  <2> QED
    BY <2>1
<1>2. RowChanges' = RowChanges
  BY RowChangesAre DEF RowOf
<1>3. ASSUME NEW i \in delivered', i \notin delivered
      PROVE  \E c \in RowChanges : c[1] = i /\ origin[c[2]] # 0
  <2>1. PICK s \in Streams : RowOf(s, i) /\ origin[s] # 0
    BY <1>3
  <2>2. <<i, s>> \in RowChanges
    BY <2>1, RowChangesAre DEF RowOf
  <2> QED
    BY <2>1, <2>2
<1>4. ASSUME NEW s \in Streams
      PROVE  /\ SavedPositions[s] = saved[s].pos
             /\ SavedPositions'[s] = saved'[s].pos
             /\ saved'[s].pos \in 0 .. Len(log) + 1
  BY DEF SavedPositions, RInv, IInv, TypeOK, Bookmark
<1>5. SavedPositions' \in [Streams -> 0 .. Len(log) + 1]
  BY <1>4 DEF SavedPositions
<1>6. ASSUME NEW s \in Streams, SavedPositions'[s] # SavedPositions[s]
      PROVE  origin[s] # 0 /\ SavedPositions'[s] # 0
  BY <1>4, <1>6 DEF RInv, JoinShape, Joins
<1>7. ASSUME NEW s \in Streams
      PROVE  Promise!Kept(s, SavedPositions'[s], delivered')
  <2> SUFFICES ASSUME NEW c \in RowChanges, c[2] = s, origin[s] <= c[1],
                      c[1] < SavedPositions'[s], c[1] \notin delivered'
               PROVE  FALSE
    BY DEF Promise!Kept
  <2>1. c[1] \in 1 .. Len(log) /\ RowOf(s, c[1])
    BY RowChangesAre
  <2>2. c[1] \in Owed(s)'
    BY <2>1 DEF Owed, RowOf
  <2>3. saved'[s].pos <= c[1]
    BY <2>2 DEF RInv, IInv, BookmarksCovered, Covered
  <2> QED
    BY <1>1, <1>4, <2>1, <2>3
<1> QED
  BY <1>1, <1>2, <1>3, <1>5, <1>6, <1>7 DEF Promise!Replicate

\* Each step is a step of AtLeastOnce.
LEMMA RefinementStep ==
  ASSUME CoordinatesOnly, RInv, RInv', [Next]_vars
  PROVE  [Promise!Next]_Promise!vars
<1>0. /\ TypeOK /\ TypeOK' /\ ~use_gtid /\ JoinShape
      /\ log \in Seq(EventType) /\ log' \in Seq(EventType)
  BY DEF RInv, IInv, TypeOK
<1>1. ASSUME NEW tx \in Changes, Commit(tx)
      PROVE  Promise!Next
  <2> DEFINE t == Transaction(tx, txns + 1)
  <2>1. t \in Seq(EventType) /\ Len(t) = Len(tx) + 2 /\ Len(tx) \in Nat
    <3>1. curFile \in Nat /\ txns + 1 \in Nat
      BY <1>0 DEF TypeOK
    <3> QED
      BY <3>1, TransactionType
  <2>2. log' = log \o t /\ UNCHANGED <<origin, saved, delivered>>
    BY <1>1 DEF Commit, envVars, stateVars, outVars
  <2> HIDE DEF t
  <2>3. /\ Len(log') = Len(log) + Len(t) /\ Len(log) \in Nat
        /\ \A i \in 1 .. Len(log) : log'[i] = log[i]
    <3>1. \A i \in 1 .. Len(log) + Len(t) :
            log'[i] = IF i <= Len(log) THEN log[i] ELSE t[i - Len(log)]
      BY <1>0, <2>1, <2>2, ConcatProperties, Zenon
    <3>2. Len(log') = Len(log) + Len(t) /\ Len(log) \in Nat
      <4>1. Len(log \o t) = Len(log) + Len(t)
        BY <1>0, <2>1, ConcatProperties, Zenon
      <4>2. Len(log) \in Nat
        BY <1>0
      <4> QED
        BY <2>2, <4>1, <4>2, Zenon
    <3>3. Len(t) \in Nat
      BY <2>1
    <3>4. ASSUME NEW i \in 1 .. Len(log)
          PROVE  log'[i] = log[i]
      <4>1. i \in 1 .. Len(log) + Len(t) /\ i <= Len(log)
        BY <3>2, <3>3
      <4> QED
        BY <3>1, <4>1, Zenon
    <3> QED
      BY <3>2, <3>4
  <2>4. Promise!Commit
    BY <1>0, <2>1, <2>2, <2>3, GrowthIsCommit
  <2> QED
    BY <2>4 DEF Promise!Next
<1>2. CASE RotateLog
  <2>1. /\ log' = Append(log, Event("rotate", NoTable, 0, 0))
        /\ UNCHANGED <<origin, saved, delivered>>
    BY <1>2 DEF RotateLog, envVars, stateVars, outVars
  <2>2. Len(log') = Len(log) + 1 /\ \A i \in 1 .. Len(log) : log'[i] = log[i]
    BY <1>0, <2>1
  <2>3. Promise!Commit
    BY <1>0, <2>1, <2>2, GrowthIsCommit
  <2> QED
    BY <2>3 DEF Promise!Next
<1>3. ASSUME NEW s \in Streams, Snapshot(s)
      PROVE  Promise!Next
  <2>1. /\ origin[s] = 0 /\ origin' = [origin EXCEPT ![s] = Len(log) + 1]
        /\ UNCHANGED <<log, delivered>>
    BY <1>3 DEF Snapshot, serverVars, outVars
  <2>2. SavedPositions' = [SavedPositions EXCEPT ![s] = Len(log) + 1]
    BY <1>0, <1>3 DEF Snapshot, SavedPositions, TypeOK
  <2>3. RowChanges' = RowChanges
    BY <2>1, RowChangesAre DEF RowOf
  <2>4. Promise!Join(s)
    BY <2>1, <2>2, <2>3 DEF Promise!Join
  <2> QED
    BY <2>4 DEF Promise!Next
<1>4. ASSUME UNCHANGED <<log, origin, delivered>>
      PROVE  Promise!Next
  BY <1>4, DeliveryIsReplicate DEF Promise!Next
<1>5. CASE RowsEvent
  <2>1. /\ next \in 1 .. Len(log) /\ log[next].kind = "row" /\ log[next].table \in sel
        /\ delivered' = delivered \cup {next} /\ UNCHANGED <<log, origin>>
    <3>1. next \in 1 .. Len(log) + 1 /\ next <= Len(log)
      BY <1>0, <1>5 DEF RowsEvent, Returns, TypeOK
    <3>2. Len(log) \in Nat
      BY <1>0
    <3> QED
      BY <3>1, <3>2, <1>5
         DEF RowsEvent, Returns, WriteRecords, EndOfIteration, serverVars, envVars
  <2>2. RowOf(log[next].table, next) /\ log[next].table \in Streams /\ origin[log[next].table] # 0
    BY <1>0, <2>1 DEF RowOf, JoinShape, TypeOK
  <2>3. Promise!Replicate
    BY <2>1, <2>2, DeliveryIsReplicate
  <2> QED
    BY <2>3 DEF Promise!Next
<1>6. CASE PurgeLog \/ ToggleGtid \/ StartRun
  <2>1. UNCHANGED <<log, origin, delivered>>
    BY <1>6 DEF PurgeLog, ToggleGtid, StartRun, StartFromCoordinates, StartFromGtid, StartFails,
                StartAt, serverVars, envVars, outVars
  <2> QED
    BY <1>4, <2>1
<1>7. CASE FetchEnd \/ ReaderFails \/ ReadFiltered \/ Reconnect \/ Crash
  <2>1. UNCHANGED <<log, origin, delivered>>
    BY <1>7 DEF FetchEnd, ReaderFails, ReadFiltered, Reconnect, Crash, serverVars, envVars, outVars
  <2> QED
    BY <1>4, <2>1
<1>8. CASE RotateEvent \/ GtidEvent \/ SkippedEvent
  <2>1. UNCHANGED <<log, origin, delivered>>
    BY <1>8 DEF RotateEvent, GtidEvent, SkippedEvent, EndOfIteration, serverVars, envVars, outVars
  <2> QED
    BY <1>4, <2>1
<1>9. CASE ReachedEnd \/ Exhausted
  <2>1. UNCHANGED <<log, origin, delivered>>
    BY <1>9 DEF ReachedEnd, Exhausted, Finish, serverVars, envVars, outVars
  <2> QED
    BY <1>4, <2>1
<1>10. CASE UNCHANGED vars
  BY <1>4, <1>10 DEF vars, serverVars, envVars, outVars
<1> QED
  BY <1>1, <1>2, <1>3, <1>5, <1>6, <1>7, <1>8, <1>9, <1>10 DEF Next, ServerNext, RunStep

\* With coordinates the loop implements at-least-once delivery for every number of
\* tables, transactions, files and faults (_run_binlog_sync, update_bookmarks).
THEOREM CoordinatesKeepPromise ==
  ASSUME CoordinatesOnly
  PROVE  Spec => KeepsPromise
<1>1. Init => RInv /\ Promise!Init
  BY RefinementInit
<1>2. RInv /\ [Next]_vars => RInv'
  BY JoinStep
<1>3. RInv /\ RInv' /\ [Next]_vars => [Promise!Next]_Promise!vars
  BY RefinementStep
<1> QED
  BY <1>1, <1>2, <1>3, PTL DEF Spec, KeepsPromise, Promise!Spec

-----------------------------------------------------------------------------
(* What a run leaves behind: one that exits normally reaches the end it      *)
(* fetched, and no run moves the next one back.                              *)

\* Only a rotation ends a file.
FilesInLine == \A i \in 1 .. Len(log) : log[i].kind # "rotate" => FileOf(i + 1) = log[i].file

\* A connected reader was told its file, which the loop's position is in.
PositionInFile == pc # "off" /\ ~fresh => log_pos # 0 /\ FileOf(log_pos) = FileOf(next)

\* Position x is absent, or not before the earliest of bookmarks b.
Floored(b, x) == x = 0 \/ \E t \in Streams : b[t].pos # 0 /\ b[t].pos <= x

\* No position of a run, in memory or of the reader, is before the earliest saved one.
RunFloored ==
  /\ \A s \in Streams : Floored(saved, bm[s].pos)
  /\ pc = "off" => end = 0
  /\ pc # "off" => /\ sel # {} /\ sel \subseteq Joined
                   /\ Floored(saved, next) /\ Floored(saved, reader_pos)
                   /\ Floored(saved, log_pos) /\ Floored(saved, end)

\* The inductive invariant.
EInv == RInv /\ FilesInLine /\ PositionInFile /\ RunFloored

-----------------------------------------------------------------------------
(* Files and positions.                                                     *)

LEMMA Types ==
  ASSUME TypeOK
  PROVE  /\ log \in Seq(EventType) /\ Len(log) \in Nat /\ curFile \in Nat
         /\ next \in 1 .. Len(log) + 1 /\ reader_pos \in 1 .. Len(log) + 1
         /\ end \in 0 .. Len(log) + 1 /\ log_pos \in 0 .. Len(log) + 1
         /\ \A i \in 1 .. Len(log) : log[i].file \in Nat
         /\ \A s \in Streams : saved[s].pos \in Nat /\ bm[s].pos \in Nat
<1>1. log \in Seq(EventType)
  BY DEF TypeOK
<1>2. \A i \in 1 .. Len(log) : log[i].file \in Nat
  BY EventTyped DEF EventType
<1>3. Len(log) \in Nat
  BY <1>1
<1> QED
  BY <1>1, <1>2, <1>3 DEF TypeOK, Bookmark

\* A later position is not in an earlier file.
LEMMA FilesGrow ==
  ASSUME TypeOK, LogShape, NEW p \in 1 .. Len(log) + 1, NEW q \in 1 .. Len(log) + 1, p <= q
  PROVE  FileOf(p) <= FileOf(q) /\ FileOf(q) <= curFile /\ FileOf(p) \in Nat /\ FileOf(q) \in Nat
BY Types DEF FileOf, LogShape

\* What has not reached q is before it.
LEMMA NotReachedIsBefore ==
  ASSUME SameDigits, TypeOK, LogShape,
         NEW p \in 1 .. Len(log) + 1, NEW q \in 1 .. Len(log) + 1, ~Reached(p, q)
  PROVE  p < q
<1>1. p \in Nat /\ q \in Nat
  OBVIOUS
<1>2. SUFFICES ASSUME q <= p PROVE FALSE
  BY <1>1
<1>3. FileOf(q) <= FileOf(p) /\ FileOf(p) <= curFile /\ FileOf(p) \in Nat /\ FileOf(q) \in Nat
  BY <1>2, FilesGrow
<1>4. curFile < WrapFile /\ WrapFile \in Nat /\ curFile \in Nat
  BY Types, BinlogSyncAssumption DEF SameDigits, LogShape
<1> QED
  BY <1>1, <1>2, <1>3, <1>4 DEF Reached, NameGt

\* Appending to the binlog changes no position's file.
LEMMA GrowthKeepsLine ==
  ASSUME TypeOK, TypeOK', FilesInLine, PositionInFile,
         Len(log) < Len(log'),
         \A i \in 1 .. Len(log) : log'[i] = log[i],
         log'[Len(log) + 1].file = curFile,
         \A i \in Len(log) + 1 .. Len(log') : log'[i].kind # "rotate" => FileOf(i + 1)' = log'[i].file,
         UNCHANGED <<pc, next, log_pos, fresh>>
  PROVE  FilesInLine' /\ PositionInFile'
<1>1. Len(log) \in Nat /\ Len(log') \in Nat
  <2>1. log \in Seq(EventType) /\ log' \in Seq(EventType)
    BY DEF TypeOK
  <2> QED
    BY <2>1
<1>2. ASSUME NEW x \in 1 .. Len(log) + 1
      PROVE  FileOf(x)' = FileOf(x)
  <2>1. CASE x = Len(log) + 1
    BY <1>1, <2>1 DEF FileOf
  <2>2. CASE x # Len(log) + 1
    BY <1>1, <2>2 DEF FileOf
  <2> QED
    BY <2>1, <2>2
<1>3. FilesInLine'
  <2> SUFFICES ASSUME NEW i \in 1 .. Len(log'), log'[i].kind # "rotate"
               PROVE  FileOf(i + 1)' = log'[i].file
    BY DEF FilesInLine
  <2>1. CASE i <= Len(log)
    <3>1. i \in 1 .. Len(log) /\ i + 1 \in 1 .. Len(log) + 1
      BY <1>1, <2>1
    <3>2. FileOf(i + 1)' = FileOf(i + 1)
      BY <1>2, <3>1
    <3> QED
      BY <3>1, <3>2 DEF FilesInLine
  <2>2. CASE ~(i <= Len(log))
    BY <1>1, <2>2
  <2> QED
    BY <2>1, <2>2
<1>4. PositionInFile'
  <2>1. next \in 1 .. Len(log) + 1 /\ log_pos \in 0 .. Len(log) + 1
    BY Types
  <2>2. log_pos # 0 => FileOf(log_pos)' = FileOf(log_pos)
    BY <1>1, <1>2, <2>1
  <2>3. FileOf(next)' = FileOf(next)
    BY <1>2, <2>1
  <2> QED
    BY <2>2, <2>3 DEF PositionInFile
<1> QED
  BY <1>3, <1>4

\* Each step keeps files and positions in line.
LEMMA LineStep ==
  ASSUME CoordinatesOnly, EInv, [Next]_vars
  PROVE  FilesInLine' /\ PositionInFile'
<1>0. TypeOK /\ TypeOK' /\ ~use_gtid /\ FilesInLine /\ PositionInFile
  BY TypeStep DEF EInv, RInv, IInv
<1>1. /\ Len(log) \in Nat /\ log \in Seq(EventType) /\ curFile \in Nat /\ txns \in Nat
      /\ next \in 1 .. Len(log) + 1 /\ log_pos \in 0 .. Len(log) + 1
  BY <1>0, Types DEF TypeOK
<1>2. ASSUME NEW tx \in Changes, Commit(tx)
      PROVE  FilesInLine' /\ PositionInFile'
  <2> DEFINE t == Transaction(tx, txns + 1)
             n == Len(tx) + 2
  <2>1. /\ t \in Seq(EventType) /\ Len(t) = n /\ n \in Nat /\ n > 0
        /\ \A i \in 1 .. n : t[i].file = curFile
    <3>1. txns + 1 \in Nat
      BY <1>1
    <3>2. /\ t \in Seq(EventType) /\ Len(t) = n /\ Len(tx) \in Nat
          /\ \A i \in 1 .. n : t[i].file = curFile
      BY <1>1, <3>1, TransactionType
    <3> QED
      BY <3>2
  <2> HIDE DEF t, n
  <2>2. log' = log \o t /\ curFile' = curFile /\ UNCHANGED <<pc, next, log_pos, fresh>>
    BY <1>2 DEF Commit, t, readerVars
  <2>3. /\ Len(log') = Len(log) + n
        /\ \A i \in 1 .. Len(log) + n :
             log'[i] = IF i <= Len(log) THEN log[i] ELSE t[i - Len(log)]
    BY <1>1, <2>1, <2>2, ConcatProperties, Zenon
  <2>4. /\ Len(log) < Len(log')
        /\ \A i \in 1 .. Len(log) : log'[i] = log[i]
        /\ \A i \in Len(log) + 1 .. Len(log') : log'[i].file = curFile
    <3>1. Len(log) < Len(log') /\ \A i \in 1 .. Len(log) : log'[i] = log[i]
      BY <1>1, <2>1, <2>3
    <3>2. ASSUME NEW i \in Len(log) + 1 .. Len(log')
          PROVE  log'[i].file = curFile
      <4>1. i - Len(log) \in 1 .. n /\ log'[i] = t[i - Len(log)]
        BY <1>1, <2>1, <2>3
      <4> QED
        BY <2>1, <4>1
    <3> QED
      BY <3>1, <3>2
  <2>5. log'[Len(log) + 1].file = curFile
    BY <1>1, <2>4, <2>3, <2>1
  <2>6. ASSUME NEW i \in Len(log) + 1 .. Len(log')
        PROVE  FileOf(i + 1)' = log'[i].file
    <3>1. i \in Nat /\ Len(log') \in Nat /\ log'[i].file = curFile
      BY <1>1, <2>1, <2>3, <2>4
    <3>2. i + 1 <= Len(log') => log'[i + 1].file = curFile
      BY <1>1, <2>4, <3>1
    <3> QED
      BY <2>2, <3>1, <3>2 DEF FileOf
  <2> QED
    BY <1>0, <2>2, <2>4, <2>5, <2>6, GrowthKeepsLine
<1>3. CASE RotateLog
  <2> DEFINE e == Event("rotate", NoTable, 0, 0)
  <2>1. e \in EventType /\ e.file = curFile /\ e.kind = "rotate"
    BY <1>1 DEF Event, EventType
  <2> HIDE DEF e
  <2>2. log' = Append(log, e) /\ UNCHANGED <<pc, next, log_pos, fresh>>
    BY <1>3 DEF RotateLog, e, readerVars
  <2>3. /\ Len(log') = Len(log) + 1
        /\ \A i \in 1 .. Len(log) : log'[i] = log[i]
        /\ log'[Len(log) + 1] = e
    BY <1>1, <2>1, <2>2
  <2>4. \A i \in Len(log) + 1 .. Len(log') : log'[i].kind = "rotate"
    BY <1>1, <2>1, <2>3
  <2>5. Len(log) < Len(log') /\ log'[Len(log) + 1].file = curFile
    BY <1>1, <2>1, <2>3
  <2> QED
    BY <1>0, <2>2, <2>3, <2>4, <2>5, GrowthKeepsLine
<1>4. ASSUME UNCHANGED <<log, curFile>>,
             pc' = "off" \/ fresh' = TRUE \/ UNCHANGED <<pc, fresh, log_pos, next>>
      PROVE  FilesInLine' /\ PositionInFile'
  BY <1>0, <1>4 DEF FilesInLine, PositionInFile, FileOf
<1>4a. ASSUME UNCHANGED <<log, curFile>>, log_pos' # 0 /\ FileOf(log_pos)' = FileOf(next)'
       PROVE  FilesInLine' /\ PositionInFile'
  BY <1>0, <1>4a DEF FilesInLine, PositionInFile, FileOf
<1>5. ASSUME next <= Len(log), log[next].kind # "rotate", next' = next + 1, UNCHANGED <<log, curFile>>
      PROVE  FileOf(next)' = FileOf(next) /\ Report(next) # 0 /\ FileOf(Report(next)) = FileOf(next)
  <2>1. next \in 1 .. Len(log) /\ FileOf(next + 1) = log[next].file
    BY <1>0, <1>1, <1>5 DEF FilesInLine
  <2> QED
    BY <1>1, <1>5, <2>1 DEF FileOf, Report
<1>6. CASE PurgeLog \/ ToggleGtid \/ FetchEnd \/ UNCHANGED vars
  <2>1. CASE FetchEnd
    BY <1>0, <2>1 DEF FetchEnd, FilesInLine, PositionInFile, FileOf, serverVars
  <2>2. CASE PurgeLog \/ ToggleGtid \/ UNCHANGED vars
    BY <1>4, <2>2 DEF PurgeLog, ToggleGtid, vars, serverVars, readerVars
  <2> QED
    BY <1>6, <2>1, <2>2
<1>7. ASSUME NEW s \in Streams, Snapshot(s)
      PROVE  FilesInLine' /\ PositionInFile'
  BY <1>4, <1>7 DEF Snapshot, serverVars, readerVars
<1>8. CASE StartRun
  <2>1. PICK S \in Selection : StartFromCoordinates(S) \/ StartFails(S)
    BY <1>0, <1>8 DEF StartRun, StartFromGtid
  <2> QED
    BY <1>4, <2>1 DEF StartFromCoordinates, StartFails, StartAt, serverVars, readerVars
<1>9. CASE ReaderFails \/ Crash \/ ReachedEnd \/ Exhausted
  BY <1>4, <1>9 DEF ReaderFails, Crash, ReachedEnd, Exhausted, Finish, Exit, serverVars
<1>10. CASE Reconnect
  BY <1>4, <1>10 DEF Reconnect, serverVars
<1>11. CASE ReadFiltered
  <2>1. /\ ~fresh /\ next <= Len(log) /\ log[next].kind # "rotate" /\ next' = next + 1
        /\ UNCHANGED <<log, curFile, log_pos>> /\ pc = "loop"
    BY <1>0, <1>11 DEF ReadFiltered, Surfaces, serverVars
  <2>2. FileOf(next)' = FileOf(next)
    BY <1>5, <2>1
  <2>3. log_pos' # 0 /\ FileOf(log_pos)' = FileOf(log_pos) /\ FileOf(log_pos) = FileOf(next)
    BY <1>0, <2>1 DEF PositionInFile, FileOf
  <2> QED
    BY <1>4a, <2>1, <2>2, <2>3
<1>12. CASE RotateEvent
  <2>1. log_pos' = next' /\ UNCHANGED <<log, curFile>>
    BY <1>12 DEF RotateEvent, EndOfIteration, serverVars
  <2>2. next' # 0
    BY <1>1, <1>12 DEF RotateEvent
  <2> QED
    BY <1>4a, <2>1, <2>2 DEF FileOf
<1>13. CASE GtidEvent
  BY <1>0, <1>13 DEF GtidEvent, Returns, Surfaces
<1>14. CASE RowsEvent \/ SkippedEvent
  <2>1. next <= Len(log) /\ log[next].kind = "row" /\ next' = next + 1
    BY <1>14 DEF RowsEvent, SkippedEvent, Returns
  <2>2. log_pos' = Report(next) /\ UNCHANGED <<log, curFile>>
    BY <1>14 DEF RowsEvent, SkippedEvent, EndOfIteration, serverVars
  <2>3. FileOf(next)' = FileOf(next) /\ Report(next) # 0 /\ FileOf(Report(next)) = FileOf(next)
    BY <1>5, <2>1, <2>2
  <2>4. FileOf(log_pos)' = FileOf(Report(next))
    BY <2>2 DEF FileOf
  <2> QED
    BY <1>4a, <2>2, <2>3, <2>4
<1> QED
  BY <1>2, <1>3, <1>6, <1>7, <1>8, <1>9, <1>10, <1>11, <1>12, <1>13, <1>14
     DEF Next, ServerNext, RunStep

-----------------------------------------------------------------------------
(* No position of a run is before the earliest bookmark.                    *)

\* What follows a floored position is floored.
LEMMA FloorUp ==
  ASSUME TypeOK, NEW x \in Nat, x # 0, Floored(saved, x), NEW y \in Nat, x <= y
  PROVE  Floored(saved, y)
<1>1. PICK t \in Streams : saved[t].pos # 0 /\ saved[t].pos <= x
  BY DEF Floored
<1>2. saved[t].pos \in Nat
  BY Types
<1> QED
  BY <1>1, <1>2 DEF Floored

\* A bookmark is its own floor.
LEMMA FloorOfItself ==
  ASSUME NEW b, NEW s \in Streams, b[s].pos \in Nat
  PROVE  Floored(b, b[s].pos)
BY DEF Floored

\* The end of a run, or a snapshot between runs.
LEMMA RestFloored ==
  ASSUME TypeOK', bm' = saved', pc' = "off", end' = 0
  PROVE  RunFloored'
<1>1. ASSUME NEW s \in Streams
      PROVE  Floored(saved', saved'[s].pos)
  <2>1. saved'[s].pos \in Nat
    <3>1. log' \in Seq(EventType)
      BY DEF TypeOK
    <3>2. Len(log') \in Nat
      BY <3>1
    <3> QED
      BY <3>2, SMTT(30) DEF TypeOK, Bookmark
  <2> QED
    BY <2>1, FloorOfItself
<1> QED
  BY <1>1 DEF RunFloored

\* An iteration that goes on from position p, before the end.
LEMMA IterationFloored ==
  ASSUME TypeOK, RunFloored, pc = "loop",
         NEW p \in 1 .. Len(log) + 1, next <= p, p <= end, next' \in Nat, p <= next',
         NEW pr, NEW sk, NEW b, b = bm \/ b = UpdateBookmarks(bm, p, gtid_pos),
         EndOfIteration(b, p, gtid_pos, pr, sk)
  PROVE  RunFloored'
<1> DEFINE u == UpdateBookmarks(b, p, gtid_pos)
<1>1. /\ reader_pos' = p /\ log_pos' = p /\ pc' = "loop" /\ sel' = sel /\ end' = end
      /\ bm' = b \/ bm' = u
      /\ saved' = saved \/ (saved' = u /\ bm' = u)
  BY DEF EndOfIteration
<1>2. /\ p \in Nat /\ p # 0 /\ end \in Nat /\ next \in Nat /\ next # 0
      /\ \A s \in Streams : saved[s].pos \in Nat /\ bm[s].pos \in Nat
  BY Types
<1>3. Floored(saved, p)
  BY <1>2, FloorUp DEF RunFloored
<1>4. \A s \in Streams : u[s].pos \in {p, bm[s].pos} /\ b[s].pos \in {p, bm[s].pos}
  BY UpdateBookmarksPos
<1>5. \A s \in sel : u[s].pos = p /\ s \in Streams
  BY UpdateBookmarksPos, SMTT(30) DEF TypeOK
<1>6. sel # {} /\ sel \subseteq Joined /\ Joined = {s \in Streams : saved[s].pos # 0}
  BY DEF RunFloored, Joined
<1> HIDE DEF u
<1>7. CASE saved' = saved
  <2>1. \A s \in Streams : Floored(saved', bm'[s].pos)
    BY <1>1, <1>3, <1>4, <1>7 DEF RunFloored
  <2>2. Floored(saved', next') /\ Floored(saved', p) /\ Floored(saved', end')
    BY <1>1, <1>2, <1>3, <1>7, FloorUp
  <2>3. sel' \subseteq Joined'
    BY <1>1, <1>6, <1>7 DEF Joined
  <2> QED
    BY <1>1, <1>6, <2>1, <2>2, <2>3 DEF RunFloored
<1>8. CASE saved' = u /\ bm' = u
  <2>1. \A s \in Streams : u[s].pos \in Nat
    BY <1>2, <1>4
  <2>2. \A s \in Streams : Floored(saved', bm'[s].pos)
    BY <1>8, <2>1, FloorOfItself
  <2>3. Floored(saved', next') /\ Floored(saved', p) /\ Floored(saved', end')
    BY <1>1, <1>2, <1>5, <1>6, <1>8 DEF Floored
  <2>4. sel' \subseteq Joined'
    BY <1>1, <1>2, <1>5, <1>8 DEF Joined
  <2> QED
    BY <1>1, <1>6, <2>2, <2>3, <2>4 DEF RunFloored
<1> QED
  BY <1>1, <1>7, <1>8

\* The position an iteration reports is the next event or the one after it, and the
\* loop goes on only before the end.
LEMMA ReportBeforeEnd ==
  ASSUME SameDigits, TypeOK, LogShape, EndShape, pc = "loop",
         NEW p \in 1 .. Len(log) + 1, ~Reached(p, end)
  PROVE  p <= end
<1>1. end \in 1 .. Len(log) + 1 /\ Len(log) \in Nat
  BY Types DEF EndShape
<1>2. p < end
  BY <1>1, NotReachedIsBefore
<1> QED
  BY <1>1, <1>2

LEMMA ReportNext ==
  ASSUME TypeOK, next <= Len(log)
  PROVE  Report(next) \in 1 .. Len(log) + 1 /\ next <= Report(next) /\ Report(next) <= next + 1
BY Types DEF Report

\* The last update_bookmarks puts a stream at the position it is given.
LEMMA FinishAt ==
  ASSUME NEW p, Finish(p), NEW s \in Streams
  PROVE  /\ saved' = bm' /\ pc' = "off" /\ end' = 0
         /\ saved'[s].pos = IF p # 0 /\ s \in sel THEN p ELSE bm[s].pos
BY UpdateBookmarksPos DEF Finish, Exit

\* Each step keeps positions from passing below the earliest bookmark.
LEMMA FloorStep ==
  ASSUME CoordinatesOnly, EInv, [Next]_vars
  PROVE  RunFloored'
<1>0. /\ TypeOK /\ TypeOK' /\ ~use_gtid /\ RunFloored /\ LogShape /\ EndShape
      /\ pc \in {"off", "start"} => log_pos = 0
      /\ SameDigits
  BY TypeStep DEF EInv, RInv, IInv, ReaderCovered, CoordinatesOnly
<1>1. /\ Len(log) \in Nat /\ next \in 1 .. Len(log) + 1 /\ reader_pos \in 1 .. Len(log) + 1
      /\ \A s \in Streams : saved[s].pos \in Nat /\ bm[s].pos \in Nat
  BY <1>0, Types
<1>2. CASE ServerNext \/ ToggleGtid \/ UNCHANGED vars
  <2>1. UNCHANGED <<saved, bm, pc, sel, next, reader_pos, log_pos, end>>
    BY <1>2 DEF ServerNext, Commit, RotateLog, PurgeLog, ToggleGtid, vars, readerVars, stateVars
  <2> QED
    BY <1>0, <2>1 DEF RunFloored, Floored, Joined
<1>3. ASSUME NEW s \in Streams, Snapshot(s)
      PROVE  RunFloored'
  <2>1. bm' = saved' /\ pc' = "off" /\ end' = 0
    BY <1>0, <1>3 DEF Snapshot, RunFloored, readerVars
  <2> QED
    BY <1>0, <2>1, RestFloored
<1>4. CASE StartRun
  <2>1. PICK S \in Selection : StartFromCoordinates(S) \/ StartFails(S)
    BY <1>0, <1>4 DEF StartRun, StartFromGtid
  <2>2. CASE StartFails(S)
    BY <1>0, <2>2 DEF StartFails, RunFloored, stateVars, readerVars
  <2>3. CASE StartFromCoordinates(S)
    <3>1. PICK s \in S : StartAt(S, saved[s].pos, NoGtid)
      BY <2>3 DEF StartFromCoordinates
    <3>2. S # {} /\ S \subseteq Joined /\ s \in Streams /\ Joined = {t \in Streams : saved[t].pos # 0}
      BY DEF Selection, Joined
    <3>3. /\ next' = saved[s].pos /\ reader_pos' = saved[s].pos /\ log_pos' = 0 /\ end' = 0
          /\ sel' = S /\ UNCHANGED <<saved, bm>> /\ pc' = "start"
      BY <1>0, <2>3, <3>1 DEF StartFromCoordinates, StartAt, RunFloored, stateVars
    <3>4. Floored(saved, saved[s].pos) /\ Floored(saved, 0)
      BY <1>1, <3>2, FloorOfItself DEF Floored
    <3>5. sel' \subseteq Joined'
      BY <3>2, <3>3 DEF Joined
    <3> QED
      BY <1>0, <3>2, <3>3, <3>4, <3>5 DEF RunFloored
  <2> QED
    BY <2>1, <2>2, <2>3
<1>5. CASE FetchEnd
  <2>1. /\ end' = Len(log) + 1 /\ pc = "start" /\ pc' = "loop"
        /\ UNCHANGED <<saved, bm, sel, next, reader_pos, log_pos>>
    BY <1>5 DEF FetchEnd, stateVars
  <2>2. Floored(saved, Len(log) + 1)
    BY <1>0, <1>1, <2>1, FloorUp DEF RunFloored
  <2> QED
    BY <1>0, <2>1, <2>2 DEF RunFloored, Joined
<1>6. CASE ReaderFails \/ Crash
  <2>1. bm' = saved' /\ pc' = "off" /\ end' = 0
    BY <1>6 DEF ReaderFails, Crash, Exit
  <2> QED
    BY <1>0, <2>1, RestFloored
<1>7. CASE ReachedEnd \/ Exhausted
  <2>1. bm' = saved' /\ pc' = "off" /\ end' = 0
    BY <1>7 DEF ReachedEnd, Exhausted, Finish, Exit
  <2> QED
    BY <1>0, <2>1, RestFloored
<1>8. CASE Reconnect
  <2>1. /\ next' = reader_pos /\ pc = "loop"
        /\ UNCHANGED <<saved, bm, pc, sel, reader_pos, log_pos, end>>
    BY <1>0, <1>8 DEF Reconnect, stateVars
  <2> QED
    BY <1>0, <2>1 DEF RunFloored, Joined
<1>9. CASE ReadFiltered
  <2>1. /\ pc = "loop" /\ next <= Len(log) /\ next' = next + 1 /\ reader_pos' = Report(next)
        /\ UNCHANGED <<saved, bm, pc, sel, log_pos, end>>
    BY <1>0, <1>9 DEF ReadFiltered, stateVars
  <2>2. Floored(saved, next + 1) /\ Floored(saved, Report(next))
    BY <1>0, <1>1, <2>1, ReportNext, FloorUp DEF RunFloored
  <2> QED
    BY <1>0, <2>1, <2>2 DEF RunFloored, Joined
<1>10. CASE RotateEvent
  <2>1. /\ pc = "loop" /\ next' \in 1 .. Len(log) + 1 /\ next <= next' /\ ~Reached(next', end)
        /\ EndOfIteration(UpdateBookmarks(bm, next', gtid_pos), next', gtid_pos, processed, skipped)
    BY <1>1, <1>10 DEF RotateEvent, Announces, Returns
  <2>2. next' <= end /\ next' \in Nat /\ next' <= next'
    BY <1>0, <1>1, <2>1, ReportBeforeEnd
  <2> QED
    BY <1>0, <2>1, <2>2, IterationFloored
<1>11. CASE GtidEvent
  BY <1>0, <1>11 DEF GtidEvent, Returns, Surfaces
<1>12. CASE RowsEvent \/ SkippedEvent
  <2>1. /\ pc = "loop" /\ next <= Len(log) /\ ~Reached(Report(next), end) /\ next' = next + 1
        /\ \E pr, sk : EndOfIteration(bm, Report(next), gtid_pos, pr, sk)
    BY <1>12 DEF RowsEvent, SkippedEvent, Returns
  <2>2. /\ Report(next) \in 1 .. Len(log) + 1 /\ next <= Report(next)
        /\ Report(next) <= next' /\ next' \in Nat
    BY <1>0, <1>1, <2>1, ReportNext
  <2>3. Report(next) <= end
    BY <1>0, <2>1, <2>2, ReportBeforeEnd
  <2> QED
    BY <1>0, <2>1, <2>2, <2>3, IterationFloored
<1> QED
  BY <1>2, <1>3, <1>4, <1>5, <1>6, <1>7, <1>8, <1>9, <1>10, <1>11, <1>12 DEF Next, RunStep

\* The invariant holds in every state.
LEMMA EndInvariant ==
  ASSUME CoordinatesOnly
  PROVE  Spec => []EInv
<1>1. Init => EInv
  <2> SUFFICES ASSUME Init PROVE EInv
    OBVIOUS
  <2>1. RInv
    BY CoveredInit DEF Init, RInv, JoinShape, Joins, NoBookmark
  <2>2. FilesInLine /\ PositionInFile
    BY DEF Init, FilesInLine, PositionInFile
  <2>3. RunFloored
    BY DEF Init, RunFloored, Floored, NoBookmark
  <2> QED
    BY <2>1, <2>2, <2>3 DEF EInv
<1>2. EInv /\ [Next]_vars => EInv'
  BY JoinStep, LineStep, FloorStep DEF EInv
<1> QED
  BY <1>1, <1>2, PTL DEF Spec

-----------------------------------------------------------------------------
\* A run ends in order at the end position, or when the reader has no more events.
LEMMA EndsInOrder ==
  ASSUME [Next]_vars, pc = "loop", pc' = "off", exit' = 0
  PROVE  ReachedEnd \/ Exhausted
<1>1. ~(ReaderFails \/ Crash)
  BY DEF ReaderFails, Crash, Exit
<1>2. ~(FetchEnd \/ ReadFiltered \/ Reconnect \/ ServerNext \/ ToggleGtid \/ UNCHANGED vars)
  BY DEF FetchEnd, ReadFiltered, Reconnect, ServerNext, Commit, RotateLog, PurgeLog,
         ToggleGtid, vars
<1>3. ~(RotateEvent \/ GtidEvent \/ RowsEvent \/ SkippedEvent)
  BY DEF RotateEvent, GtidEvent, RowsEvent, SkippedEvent, EndOfIteration
<1>4. ~(StartRun \/ \E t \in Streams : Snapshot(t))
  BY DEF StartRun, StartFromCoordinates, StartFromGtid, StartFails, Snapshot
<1> QED
  BY <1>1, <1>2, <1>3, <1>4 DEF Next, RunStep

\* The step that ends a run in order leaves each of its streams at the end or past it.
LEMMA CleanStep ==
  ASSUME CoordinatesOnly, EInv, [Next]_vars, pc = "loop", pc' = "off", exit' = 0, NEW s \in sel
  PROVE  saved'[s].pos >= end
<1>0. TypeOK /\ LogShape /\ EndShape /\ PositionInFile /\ s \in Streams
  BY DEF EInv, RInv, IInv, TypeOK
<1>1. /\ end \in 1 .. Len(log) + 1 /\ log_pos \in 0 .. Len(log) + 1
      /\ next \in 1 .. Len(log) + 1 /\ Len(log) \in Nat
  BY <1>0, Types DEF EndShape
<1>2. ReachedEnd \/ Exhausted
  BY EndsInOrder
<1>3. CASE ReachedEnd
  <2>1. saved'[s].pos = end
    BY <1>0, <1>1, <1>3, FinishAt DEF ReachedEnd
  <2> QED
    BY <1>1, <2>1
<1>4. CASE Exhausted
  <2>1. /\ ~fresh /\ next = Len(log) + 1 /\ Finish(AdvanceToEnd(log_pos))
    BY <1>1, <1>4 DEF Exhausted
  <2>2. log_pos \in 1 .. Len(log) + 1 /\ FileOf(log_pos) = curFile
    BY <1>0, <1>1, <2>1 DEF PositionInFile, FileOf
  <2>3. log_pos < end => FileOf(log_pos) = FileOf(end)
    <3>1. log_pos <= end => FileOf(log_pos) <= FileOf(end) /\ FileOf(end) <= curFile
                            /\ FileOf(log_pos) \in Nat /\ FileOf(end) \in Nat
      BY <1>0, <1>1, <2>2, FilesGrow
    <3> QED
      BY <1>1, <2>2, <3>1
  <2>4. AdvanceToEnd(log_pos) >= end /\ AdvanceToEnd(log_pos) # 0
    BY <1>1, <2>2, <2>3 DEF AdvanceToEnd
  <2> QED
    BY <1>0, <2>1, <2>4, FinishAt
<1> QED
  BY <1>2, <1>3, <1>4

\* A step leaves no saved bookmark before all of those there were.
LEMMA RegressStep ==
  ASSUME CoordinatesOnly, EInv, [Next]_vars, NEW s \in Joined
  PROVE  \E t \in Joined : saved'[s].pos >= saved[t].pos
<1>0. /\ TypeOK /\ RunFloored /\ JoinShape /\ ~use_gtid /\ EndShape
      /\ s \in Streams /\ saved[s].pos # 0 /\ bm[s].pos # 0
  BY DEF EInv, RInv, IInv, Joined, JoinShape, Joins
<1>1. /\ Len(log) \in Nat /\ next \in 1 .. Len(log) + 1 /\ log_pos \in 0 .. Len(log) + 1
      /\ end \in 0 .. Len(log) + 1
      /\ \A t \in Streams : saved[t].pos \in Nat /\ bm[t].pos \in Nat
  BY <1>0, Types
<1>2. ASSUME NEW x \in Nat, x # 0, Floored(saved, x), saved'[s].pos = x
      PROVE  \E t \in Joined : saved'[s].pos >= saved[t].pos
  <2>1. PICK t \in Streams : saved[t].pos # 0 /\ saved[t].pos <= x
    BY <1>2 DEF Floored
  <2> QED
    BY <1>1, <1>2, <2>1 DEF Joined
<1>3. CASE saved'[s] = saved[s]
  BY <1>0, <1>1, <1>3
<1>4. CASE saved'[s].pos = bm[s].pos
  BY <1>0, <1>1, <1>2, <1>4 DEF RunFloored
<1>5. ASSUME pc = "loop", NEW p \in Nat, next <= p,
             NEW b, b = bm \/ b = UpdateBookmarks(bm, p, gtid_pos),
             NEW pr, NEW sk, EndOfIteration(b, p, gtid_pos, pr, sk)
      PROVE  \E t \in Joined : saved'[s].pos >= saved[t].pos
  <2>1. p # 0 /\ Floored(saved, p)
    BY <1>0, <1>1, <1>5, FloorUp DEF RunFloored
  <2>2. saved' = saved \/ saved' = UpdateBookmarks(b, p, gtid_pos)
    BY <1>5 DEF EndOfIteration
  <2>3. CASE saved' = UpdateBookmarks(b, p, gtid_pos)
    <3>1. saved'[s].pos = p \/ saved'[s].pos = bm[s].pos
      BY <1>0, <1>5, <2>3, UpdateBookmarksPos
    <3> QED
      BY <1>2, <1>4, <2>1, <3>1
  <2> QED
    BY <1>3, <2>2, <2>3
<1>6. ASSUME pc = "loop", NEW p \in Nat, Floored(saved, p), Finish(p)
      PROVE  \E t \in Joined : saved'[s].pos >= saved[t].pos
  <2>1. saved'[s].pos = IF p # 0 /\ s \in sel THEN p ELSE bm[s].pos
    BY <1>0, <1>6, FinishAt
  <2> QED
    BY <1>2, <1>4, <1>6, <2>1
<1>7. CASE ServerNext \/ ToggleGtid \/ FetchEnd \/ ReadFiltered \/ Reconnect \/ UNCHANGED vars
  BY <1>3, <1>7 DEF ServerNext, Commit, RotateLog, PurgeLog, ToggleGtid, FetchEnd, ReadFiltered,
                    Reconnect, vars, stateVars
<1>8. CASE StartRun
  BY <1>3, <1>8 DEF StartRun, StartFromCoordinates, StartFromGtid, StartFails, StartAt, stateVars
<1>9. CASE ReaderFails \/ Crash
  BY <1>3, <1>9 DEF ReaderFails, Crash, Exit
<1>10. ASSUME NEW t \in Streams, Snapshot(t)
       PROVE  saved'[s] = saved[s]
  <2>1. t # s /\ saved \in [Streams -> Bookmark]
    BY <1>0, <1>10 DEF Snapshot, JoinShape, Joins, TypeOK
  <2> QED
    BY <1>10, <2>1 DEF Snapshot
<1>11. CASE RotateEvent
  <2>1. /\ pc = "loop" /\ next' \in Nat /\ next <= next'
        /\ EndOfIteration(UpdateBookmarks(bm, next', gtid_pos), next', gtid_pos, processed, skipped)
    BY <1>1, <1>11 DEF RotateEvent, Announces, Returns
  <2> QED
    BY <1>5, <2>1
<1>12. CASE GtidEvent
  BY <1>0, <1>12 DEF GtidEvent, Returns, Surfaces
<1>13. CASE RowsEvent \/ SkippedEvent
  <2>1. pc = "loop" /\ next <= Len(log) /\ \E pr, sk : EndOfIteration(bm, Report(next), gtid_pos, pr, sk)
    BY <1>13 DEF RowsEvent, SkippedEvent, Returns
  <2>2. Report(next) \in Nat /\ next <= Report(next)
    BY <1>0, <1>1, <2>1, ReportNext
  <2> QED
    BY <1>5, <2>1, <2>2
<1>14. CASE ReachedEnd
  <2>1. pc = "loop" /\ Finish(end) /\ end \in Nat
    BY <1>1, <1>14 DEF ReachedEnd, Announces, Returns
  <2> QED
    BY <1>0, <1>6, <2>1 DEF RunFloored
<1>15. CASE Exhausted
  <2>1. pc = "loop" /\ Finish(AdvanceToEnd(log_pos))
    BY <1>15 DEF Exhausted
  <2>2. AdvanceToEnd(log_pos) \in {log_pos, end} /\ log_pos \in Nat /\ end \in Nat
    BY <1>1 DEF AdvanceToEnd
  <2> QED
    BY <1>0, <1>6, <2>1, <2>2 DEF RunFloored
<1> QED
  BY <1>3, <1>7, <1>8, <1>9, <1>10, <1>11, <1>12, <1>13, <1>14, <1>15 DEF Next, RunStep

-----------------------------------------------------------------------------
\* A run that exits normally leaves every stream it read at the position the server had
\* when the run began, or past it (the advance to end_log_pos, sync_binlog_stream).
THEOREM CleanExitsReachEnd ==
  ASSUME CoordinatesOnly
  PROVE  Spec => CleanExitReachesEnd
<1>1. EInv /\ [Next]_vars =>
        [pc = "loop" /\ pc' = "off" /\ exit' = 0 => \A s \in sel : saved'[s].pos >= end]_vars
  BY CleanStep
<1> QED
  BY <1>1, EndInvariant, PTL DEF Spec, CleanExitReachesEnd

\* Whatever a run saves, wherever it stops, the next one starts no earlier than it did
\* (calculate_bookmark, update_bookmarks).
THEOREM ResumeMovesForward ==
  ASSUME CoordinatesOnly
  PROVE  Spec => ResumeNeverRegresses
<1>1. EInv /\ [Next]_vars =>
        [\A s \in Joined : \E t \in Joined : saved'[s].pos >= saved[t].pos]_vars
  BY RegressStep
<1> QED
  BY <1>1, EndInvariant, PTL DEF Spec, ResumeNeverRegresses

-----------------------------------------------------------------------------
(* Runs without faults, with gtids or coordinates: between runs nothing is   *)
(* skipped, and a run leaves the target with the newest row.                 *)

\* No fault in a run, and gtids are switched on or off for the whole tap.
Undisturbed ==
  /\ MaxFaults = 0 /\ SameDigits
  /\ MayToggleGtid # "any"
  /\ MayToggleGtid = "together" => ~MayDeselect

\* Gtids grow along the binlog; rotations have none.
GtidsGrow ==
  /\ \A i \in 1 .. Len(log) : log[i].gtid <= txns
  /\ \A i \in 1 .. Len(log) : log[i].kind \in {"row", "gtid"} => log[i].gtid # 0
  /\ \A i, j \in 1 .. Len(log) : i <= j /\ log[j].gtid # 0 => log[i].gtid <= log[j].gtid

\* A replay goes on from where it starts, as it does from coordinates and from the gtids
\* of MariaDB.  From a MySQL gtid it leaves out that transaction and no earlier one.
Contiguous == Engine = "mariadb" \/ (~UseGtid /\ MayToggleGtid = "never")

\* The row events of s that were not written, or that a replay has yet to bring back.
Missing(s) ==
  {i \in 1 .. Len(log) : /\ RowOf(s, i) /\ origin[s] <= i
                         /\ i \notin delivered \/ (Contiguous /\ last[s] < i)}

\* Bookmark b of s leaves out nothing: what is missing follows its gtid, its position and
\* the transaction its position is in.
Settled(s, b) ==
  \A i \in Missing(s) : /\ b.gtid.to < log[i].gtid
                        /\ \A j \in 1 .. b.pos - 1 : j < i /\ log[j].gtid < log[i].gtid

\* No run is under way, or it has yet to connect.
Resting == pc # "loop" \/ fresh

\* What the last run left is settled, and stays so for the streams that this one leaves out.
SettledAtRest ==
  /\ Resting => bm = saved
  /\ \A s \in Joined : Resting \/ s \notin sel => bm[s] = saved[s] /\ Settled(s, saved[s])
  /\ \A s \in Joined : saved[s].gtid.to <= txns /\ bm[s].gtid.to <= txns

\* The reader is not past anything missing, and replicates by gtid when it should.
ReaderBehind ==
  pc # "off" =>
    /\ sel \subseteq Joined
    /\ MayToggleGtid # "never" => sel = Joined
    /\ \A s \in sel : \A i \in Missing(s) : next <= i
    /\ gtid_pos.to # 0 <=> use_gtid
    /\ gtid_pos.to <= txns /\ executed.to <= txns
    /\ use_gtid => \A s \in sel : \A i \in Missing(s) : executed.to < log[i].gtid

\* The end position is between two transactions, and past those the loop has entered.
EndBetween ==
  pc = "loop" =>
    \A i \in end .. Len(log) : log[i].gtid # 0 =>
      /\ gtid_pos.to < log[i].gtid
      /\ ~use_gtid => \A s \in sel : bm[s].gtid.to < log[i].gtid
      /\ \A j \in 1 .. end - 1 : log[j].gtid < log[i].gtid

\* All streams have a gtid or none has: those of use_gtid, unless it could be switched.
Alike(b) ==
  /\ MayToggleGtid = "never" \/ Joined # Streams => \A s \in Joined : b[s].gtid.to # 0 <=> use_gtid
  /\ \A s, t \in Joined : b[s].gtid.to = 0 => b[t].gtid.to = 0

\* The inductive invariant.
QInv ==
  /\ TypeOK /\ LogShape /\ GtidsGrow /\ JoinShape /\ EndShape
  /\ SettledAtRest /\ ReaderBehind /\ EndBetween
  /\ Alike(saved) /\ Alike(bm)

\* use_gtid stays as it was installed, unless it may be switched.
ConfigKept == MayToggleGtid = "never" => use_gtid = UseGtid

\* The ends of gtids, and the beginning of MariaDB's.
LEMMA GtidEnds ==
  /\ \A g \in Gtid : g.from \in Nat /\ g.to \in Nat /\ (Engine = "mariadb" => g.from = 1)
  /\ NoGtid.to = 0
  /\ \A n \in Nat : Whole(n).to = n /\ EventGtid(n).to = n
<1>1. Engine = "mariadb" => Engine # "mysql"
  OBVIOUS
<1> QED
  BY <1>1 DEF Gtid, NoGtid, Whole, EventGtid

\* The types that the steps below use.
LEMMA QTypes ==
  ASSUME TypeOK
  PROVE  /\ Len(log) \in Nat /\ txns \in Nat /\ use_gtid \in BOOLEAN
         /\ gtid_pos \in Gtid /\ gtid_pos.to \in Nat /\ executed.to \in Nat
         /\ sel \subseteq Streams
         /\ \A i \in 1 .. Len(log) : log[i].gtid \in Nat /\ log[i] \in EventType
         /\ saved \in [Streams -> Bookmark] /\ bm \in [Streams -> Bookmark]
         /\ \A s \in Streams : /\ saved[s].gtid.to \in Nat /\ bm[s].gtid.to \in Nat
                               /\ saved[s].pos \in 0 .. Len(log) + 1
                               /\ bm[s].pos \in 0 .. Len(log) + 1
                               /\ origin[s] \in Nat /\ last[s] \in 0 .. Len(log)
<1>1. \A i \in 1 .. Len(log) : log[i] \in EventType
  BY EventTyped
<1>2. \A i \in 1 .. Len(log) : log[i].gtid \in Nat
  BY <1>1 DEF EventType
<1>3. Len(log) \in Nat
  BY Types
<1>4. /\ gtid_pos \in Gtid /\ executed \in Gtid /\ saved \in [Streams -> Bookmark]
      /\ bm \in [Streams -> Bookmark]
  BY DEF TypeOK
<1>5. \A s \in Streams : saved[s].gtid \in Gtid /\ bm[s].gtid \in Gtid
  BY <1>4 DEF Bookmark
<1>6. \A s \in Streams : saved[s].gtid.to \in Nat /\ bm[s].gtid.to \in Nat
  BY <1>5, GtidEnds
<1>7. gtid_pos.to \in Nat /\ executed.to \in Nat
  BY <1>4, GtidEnds
<1>8. \A s \in Streams : /\ saved[s].pos \in 0 .. Len(log) + 1 /\ bm[s].pos \in 0 .. Len(log) + 1
                         /\ origin[s] \in Nat /\ last[s] \in 0 .. Len(log)
  BY <1>4 DEF TypeOK, Bookmark
<1> QED
  BY <1>1, <1>2, <1>3, <1>4, <1>6, <1>7, <1>8 DEF TypeOK

\* Who has joined is seen from the snapshots.
LEMMA JoinedIs ==
  ASSUME JoinShape
  PROVE  Joined = {s \in Streams : origin[s] # 0}
BY DEF JoinShape, Joins, Joined

\* What is missing is a row event with a gtid.
LEMMA MissingIs ==
  ASSUME TypeOK, GtidsGrow, NEW s \in Streams, NEW i \in Missing(s)
  PROVE  /\ i \in 1 .. Len(log) /\ log[i].kind = "row" /\ log[i].table = s
         /\ log[i].gtid \in Nat /\ log[i].gtid # 0
BY QTypes DEF Missing, RowOf, GtidsGrow

\* Steps that write no record and append nothing leave missing what was.
LEMMA MissingKept ==
  ASSUME UNCHANGED <<log, origin, delivered, last>>
  PROVE  \A s : Missing(s)' = Missing(s)
BY DEF Missing, RowOf

\* What comes after gtid g is not before the position after it.
LEMMA AfterGtid ==
  ASSUME TypeOK, GtidsGrow, NEW g \in Gtid, NEW p \in 1 .. Len(log) + 1, IsAfterGtid(g, p),
         NEW i \in 1 .. Len(log), g.to < log[i].gtid
  PROVE  p <= i
<1>1. log[i].gtid \in Nat /\ g.from \in Nat /\ g.to \in Nat
  BY QTypes DEF Gtid
<1>2. log[i].gtid \notin Executed(g) \cup {0}
  BY <1>1 DEF Executed
<1> QED
  BY <1>2, Types DEF IsAfterGtid

\* update_bookmarks leaves streams alike.
LEMMA UpdateAlike ==
  ASSUME Undisturbed, QInv, pc # "off", NEW b, Alike(b), NEW p, NEW g \in Gtid, g.to # 0 <=> use_gtid
  PROVE  Alike(UpdateBookmarks(b, p, g))
<1> DEFINE u == UpdateBookmarks(b, p, g)
<1>1. \A s \in Streams : u[s].gtid.to = IF s \in sel /\ g.to # 0 THEN g.to ELSE b[s].gtid.to
  BY DEF UpdateBookmarks, Given
<1>2. /\ Joined \subseteq Streams
      /\ MayToggleGtid # "never" => sel = Joined
  BY DEF Joined, QInv, ReaderBehind
<1> HIDE DEF u
<1>3. MayToggleGtid = "never" \/ Joined # Streams => \A s \in Joined : u[s].gtid.to # 0 <=> use_gtid
  <2> SUFFICES ASSUME MayToggleGtid = "never" \/ Joined # Streams, NEW s \in Joined
               PROVE  u[s].gtid.to # 0 <=> use_gtid
    OBVIOUS
  <2>1. b[s].gtid.to # 0 <=> use_gtid
    BY DEF Alike
  <2>2. u[s].gtid.to = b[s].gtid.to \/ (u[s].gtid.to = g.to /\ s \in sel /\ g.to # 0)
    BY <1>1, <1>2
  <2> QED
    BY <2>1, <2>2
<1>4. ASSUME NEW s \in Joined, NEW t \in Joined, u[s].gtid.to = 0
      PROVE  u[t].gtid.to = 0
  <2>1. CASE MayToggleGtid = "never"
    BY <1>3, <1>4, <2>1
  <2>2. CASE MayToggleGtid # "never" /\ g.to # 0
    BY <1>1, <1>2, <1>4, <2>2
  <2>3. CASE MayToggleGtid # "never" /\ g.to = 0
    <3>1. u[s].gtid.to = b[s].gtid.to /\ u[t].gtid.to = b[t].gtid.to
      BY <1>1, <1>2, <2>3
    <3> QED
      BY <3>1, <1>4 DEF Alike
  <2> QED
    BY <2>1, <2>2, <2>3
<1> QED
  BY <1>3, <1>4 DEF Alike, u

\* Nothing that was settled before an append is unsettled by it.
LEMMA AppendQuiet ==
  ASSUME QInv, TypeOK', LogShape', GtidsGrow', Len(log) <= Len(log'), txns <= txns',
         \A i \in 1 .. Len(log) : log'[i] = log[i],
         \A i \in Len(log) + 1 .. Len(log') : log'[i].gtid = 0 \/ txns < log'[i].gtid,
         UNCHANGED <<envVars, stateVars, exit, pc, readerVars, countVars, outVars>>
  PROVE  QInv'
<1>0. /\ TypeOK /\ LogShape /\ GtidsGrow /\ JoinShape /\ EndShape
      /\ SettledAtRest /\ ReaderBehind /\ EndBetween /\ Alike(saved) /\ Alike(bm)
  BY DEF QInv
<1>1. /\ Len(log) \in Nat /\ Len(log') \in Nat /\ txns \in Nat /\ txns' \in Nat /\ gtid_pos.to \in Nat
      /\ \A i \in 1 .. Len(log) : log[i].gtid \in Nat
      /\ \A i \in 1 .. Len(log') : log'[i].gtid \in Nat
      /\ end \in 0 .. Len(log) + 1 /\ next \in 1 .. Len(log) + 1
      /\ \A s \in Streams : /\ saved[s].gtid.to \in Nat /\ bm[s].gtid.to \in Nat
                            /\ saved[s].pos \in 0 .. Len(log) + 1
  <2>1. Len(log') \in Nat /\ \A i \in 1 .. Len(log') : log'[i].gtid \in Nat
    <3>1. log' \in Seq(EventType)
      BY DEF TypeOK
    <3>2. Len(log') \in Nat
      BY <3>1
    <3>3. \A i \in 1 .. Len(log') : log'[i] \in EventType
      BY <3>1, ElementOfSeq, Zenon
    <3>4. EventType = [kind : {"gtid", "row", "xid", "rotate"}, table : Streams \cup {NoTable},
                       rows : Nat, gtid : Nat, file : Nat]
      BY DEF EventType
    <3> QED
      BY <3>2, <3>3, <3>4
  <2>2. txns' \in Nat
    BY DEF TypeOK
  <2> QED
    BY <1>0, <2>1, <2>2, Types, QTypes
<1>2. /\ UNCHANGED <<use_gtid, origin, saved, bm, pc, sel, next, fresh, end, gtid_pos, executed, delivered, last>>
      /\ Joined' = Joined /\ Joined \subseteq Streams
  BY DEF envVars, stateVars, readerVars, outVars, Joined
<1>3. ASSUME NEW s \in Streams, NEW i \in Missing(s)'
      PROVE  i \in Missing(s) \/ (i \in Len(log) + 1 .. Len(log') /\ txns < log'[i].gtid)
  <2>1. i \in 1 .. Len(log') /\ RowOf(s, i)' /\ origin[s] <= i
        /\ (i \notin delivered \/ (Contiguous /\ last[s] < i))
    BY <1>2, <1>3 DEF Missing
  <2>2. CASE i <= Len(log)
    <3>1. i \in 1 .. Len(log) /\ log'[i] = log[i]
      BY <1>1, <2>1, <2>2
    <3> QED
      BY <2>1, <3>1 DEF Missing, RowOf
  <2>3. CASE ~(i <= Len(log))
    <3>1. i \in Len(log) + 1 .. Len(log')
      BY <1>1, <2>1, <2>3
    <3>2. log'[i].gtid # 0
      BY <2>1 DEF RowOf, GtidsGrow
    <3> QED
      BY <3>1, <3>2
  <2> QED
    BY <2>2, <2>3
<1>4. ASSUME NEW s \in Streams, saved[s].gtid.to <= txns, Settled(s, saved[s])
      PROVE  Settled(s, saved[s])'
  <2> SUFFICES ASSUME NEW i \in Missing(s)'
               PROVE  /\ saved[s].gtid.to < log'[i].gtid
                      /\ \A j \in 1 .. saved[s].pos - 1 : j < i /\ log'[j].gtid < log'[i].gtid
    BY <1>2 DEF Settled
  <2>1. \A j \in 1 .. saved[s].pos - 1 : j \in 1 .. Len(log) /\ log'[j] = log[j]
    BY <1>1
  <2>2. CASE i \in Missing(s)
    <3>1. i \in 1 .. Len(log) /\ log'[i] = log[i]
      BY <2>2 DEF Missing
    <3> QED
      BY <1>4, <2>1, <2>2, <3>1 DEF Settled
  <2>3. CASE i \in Len(log) + 1 .. Len(log') /\ txns < log'[i].gtid
    <3>1. log'[i].gtid \in Nat /\ saved[s].gtid.to < log'[i].gtid
      BY <1>1, <1>4, <2>3
    <3>2. ASSUME NEW j \in 1 .. saved[s].pos - 1
          PROVE  j < i /\ log'[j].gtid < log'[i].gtid
      <4>1. j \in 1 .. Len(log) /\ log'[j].gtid <= txns /\ log'[j].gtid \in Nat
        BY <1>0, <1>1, <2>1 DEF GtidsGrow
      <4> QED
        BY <1>1, <2>3, <3>1, <4>1
    <3> QED
      BY <3>1, <3>2
  <2> QED
    BY <1>3, <2>2, <2>3
<1>5. SettledAtRest'
  <2>1. ASSUME NEW s \in Joined
        PROVE  /\ saved[s].gtid.to <= txns' /\ bm[s].gtid.to <= txns'
               /\ Resting \/ s \notin sel => bm[s] = saved[s] /\ Settled(s, saved[s])'
    <3>1. s \in Streams /\ saved[s].gtid.to <= txns /\ bm[s].gtid.to <= txns
      BY <1>0, <1>2 DEF SettledAtRest
    <3>2. Resting \/ s \notin sel => bm[s] = saved[s] /\ Settled(s, saved[s])
      BY <1>0 DEF SettledAtRest
    <3>3. Resting \/ s \notin sel => Settled(s, saved[s])'
      BY <1>4, <3>1, <3>2
    <3> QED
      BY <1>1, <3>1, <3>2, <3>3, SMTT(30)
  <2>2. Resting' = Resting
    BY <1>2 DEF Resting
  <2>3. Resting => bm = saved
    BY <1>0 DEF SettledAtRest
  <2> QED
    BY <1>2, <2>1, <2>2, <2>3 DEF SettledAtRest
<1>6. ReaderBehind'
  <2> SUFFICES ASSUME pc # "off"
               PROVE  /\ \A s \in sel : \A i \in Missing(s)' :
                           next <= i /\ (use_gtid => executed.to < log'[i].gtid)
                      /\ gtid_pos.to <= txns' /\ executed.to <= txns'
    BY <1>0, <1>2 DEF ReaderBehind
  <2>1. /\ gtid_pos.to <= txns /\ executed.to <= txns /\ sel \subseteq Streams
        /\ gtid_pos.to \in Nat /\ executed.to \in Nat
    BY <1>0, QTypes DEF ReaderBehind
  <2>2. ASSUME NEW s \in sel, NEW i \in Missing(s)'
        PROVE  next <= i /\ (use_gtid => executed.to < log'[i].gtid)
    <3>1. CASE i \in Missing(s)
      <4>1. next <= i /\ (use_gtid => executed.to < log[i].gtid)
        BY <1>0, <3>1 DEF ReaderBehind
      <4>2. i \in 1 .. Len(log)
        BY <3>1 DEF Missing
      <4> QED
        BY <1>1, <4>1, <4>2
    <3>2. CASE i \in Len(log) + 1 .. Len(log') /\ txns < log'[i].gtid
      <4>1. log'[i].gtid \in Nat /\ next <= i
        BY <1>1, <3>2
      <4> QED
        BY <1>1, <2>1, <3>2, <4>1
    <3> QED
      BY <1>3, <2>1, <3>1, <3>2
  <2> QED
    BY <1>1, <2>1, <2>2
<1>7. EndBetween'
  <2> SUFFICES ASSUME pc = "loop", NEW i \in end .. Len(log'), log'[i].gtid # 0
               PROVE  /\ gtid_pos.to < log'[i].gtid
                      /\ ~use_gtid => \A s \in sel : bm[s].gtid.to < log'[i].gtid
                      /\ \A j \in 1 .. end - 1 : log'[j].gtid < log'[i].gtid
    BY <1>2 DEF EndBetween
  <2>0. end # 0 /\ sel \subseteq Joined
    BY <1>0 DEF EndShape, ReaderBehind
  <2>1. \A j \in 1 .. end - 1 : j \in 1 .. Len(log) /\ log'[j] = log[j]
    BY <1>1
  <2>2. CASE i <= Len(log)
    <3>1. i \in end .. Len(log) /\ i \in 1 .. Len(log) /\ log'[i] = log[i]
      BY <1>1, <2>0, <2>2
    <3> QED
      BY <1>0, <2>1, <3>1 DEF EndBetween
  <2>3. CASE ~(i <= Len(log))
    <3>1. i \in Len(log) + 1 .. Len(log') /\ i \in 1 .. Len(log')
      BY <1>1, <2>0, <2>3
    <3>2. txns < log'[i].gtid /\ log'[i].gtid \in Nat
      BY <1>1, <3>1
    <3>3. gtid_pos.to <= txns /\ \A s \in sel : bm[s].gtid.to <= txns /\ s \in Streams
      BY <1>0, <1>2, <2>0 DEF ReaderBehind, SettledAtRest
    <3>4. \A j \in 1 .. end - 1 : log'[j].gtid <= txns /\ log'[j].gtid \in Nat
      BY <1>0, <1>1, <2>1 DEF GtidsGrow
    <3>5. gtid_pos.to < log'[i].gtid
      BY <1>1, <3>2, <3>3
    <3>6. \A s \in sel : bm[s].gtid.to < log'[i].gtid
      BY <1>1, <3>2, <3>3, SMTT(30)
    <3>7. \A j \in 1 .. end - 1 : log'[j].gtid < log'[i].gtid
      BY <1>1, <3>2, <3>4
    <3> QED
      BY <3>5, <3>6, <3>7
  <2> QED
    BY <2>2, <2>3
<1>8. EndShape'
  <2> SUFFICES ASSUME pc = "loop", end > 1
               PROVE  log'[end - 1].kind # "row"
    BY <1>0, <1>2 DEF EndShape
  <2>1. end - 1 \in 1 .. Len(log) /\ log[end - 1].kind # "row"
    BY <1>0, <1>1 DEF EndShape
  <2> QED
    BY <2>1
<1>9. JoinShape' /\ Alike(saved)' /\ Alike(bm)'
  BY <1>0, <1>2 DEF JoinShape, Joins, Alike
<1> QED
  BY <1>5, <1>6, <1>7, <1>8, <1>9 DEF QInv

\* The end of a run keeps the invariant if the bookmarks it leaves are settled and alike.
LEMMA ExitQuiet ==
  ASSUME QInv, TypeOK', NEW status, NEW b, Exit(status, b), Joins(b), Alike(b),
         \A s \in Joined : Settled(s, b[s]) /\ b[s].gtid.to <= txns,
         UNCHANGED <<serverVars, use_gtid, origin, outVars>>
  PROVE  QInv'
<1>1. /\ pc' = "off" /\ saved' = b /\ bm' = b /\ sel' = {}
      /\ UNCHANGED <<log, txns, curFile, use_gtid, origin, delivered, last>>
  BY DEF Exit, serverVars, outVars
<1>2. JoinShape /\ JoinShape'
  BY <1>1 DEF QInv, JoinShape, Joins
<1>3. Joined' = Joined
  BY <1>1, <1>2, JoinedIs DEF JoinShape, Joins, Joined
<1>5. SettledAtRest'
  BY <1>1, <1>3, MissingKept DEF SettledAtRest, Settled
<1>6. LogShape' /\ GtidsGrow'
  BY <1>1 DEF QInv, LogShape, GtidsGrow
<1>7. Alike(saved)' /\ Alike(bm)'
  BY <1>1, <1>3 DEF Alike
<1>8. EndShape' /\ ReaderBehind' /\ EndBetween'
  BY <1>1 DEF EndShape, ReaderBehind, EndBetween
<1> QED
  BY <1>2, <1>5, <1>6, <1>7, <1>8 DEF QInv

\* An iteration keeps the invariant if the reader stays behind what is missing, and the
\* loop's gtid and bookmarks before the end.
LEMMA IterationQuiet ==
  ASSUME Undisturbed, QInv, TypeOK', pc = "loop", fresh' = FALSE,
         NEW b \in [Streams -> Bookmark], NEW p \in 1 .. Len(log) + 1, NEW g \in Gtid, NEW pr, NEW sk,
         EndOfIteration(b, p, g, pr, sk),
         Joins(b), Alike(b),
         g.to <= txns, g.to # 0 <=> use_gtid,
         \A s \in Joined : b[s].gtid.to <= txns,
         \A s \in Joined : s \notin sel => b[s] = bm[s] /\ Missing(s)' \subseteq Missing(s),
         \A s \in sel : \A i \in Missing(s)' :
            next' <= i /\ (use_gtid => executed.to < log[i].gtid),
         \A i \in end .. Len(log) : log[i].gtid # 0 =>
            g.to < log[i].gtid /\ (~use_gtid => \A s \in sel : b[s].gtid.to < log[i].gtid)
  PROVE  QInv'
<1> DEFINE u == UpdateBookmarks(b, p, g)
<1>0. /\ TypeOK /\ JoinShape /\ SettledAtRest /\ ReaderBehind /\ EndBetween /\ EndShape /\ Alike(saved)
      /\ sel \subseteq Joined /\ Joined \subseteq Streams
  BY DEF QInv, ReaderBehind, Joined
<1>1. /\ pc' = pc /\ sel' = sel /\ end' = end /\ gtid_pos' = g /\ executed' = executed
      /\ UNCHANGED <<log, txns, curFile, use_gtid, origin>>
      /\ bm' = b \/ bm' = u
      /\ saved' = saved \/ (saved' = u /\ bm' = u)
  BY DEF EndOfIteration, serverVars, envVars
<1>2. \A s \in Streams : s \notin sel => u[s] = b[s]
  BY DEF UpdateBookmarks, Given
<1>3. \A s \in Streams : u[s].gtid.to = IF s \in sel /\ g.to # 0 THEN g.to ELSE b[s].gtid.to
  BY DEF UpdateBookmarks, Given
<1>4. Joins(u) /\ Alike(u)
  BY <1>0, UpdateJoins, UpdateAlike
<1> HIDE DEF u
<1>5. JoinShape'
  BY <1>0, <1>1, <1>4 DEF JoinShape, Joins
<1>6. Joined' = Joined
  BY <1>0, <1>1, <1>5, JoinedIs DEF JoinShape, Joins, Joined
<1>7. Alike(saved)' /\ Alike(bm)'
  <2>1. Alike(saved') /\ Alike(bm')
    BY <1>0, <1>1, <1>4
  <2> QED
    BY <2>1, <1>1, <1>6 DEF Alike
<1>8. SettledAtRest'
  <2>1. ASSUME NEW s \in Joined
        PROVE  saved'[s].gtid.to <= txns /\ bm'[s].gtid.to <= txns
    BY <1>0, <1>1, <1>3 DEF SettledAtRest
  <2>2. ASSUME NEW s \in Joined, s \notin sel
        PROVE  bm'[s] = saved'[s] /\ Settled(s, saved[s])' /\ saved'[s] = saved[s]
    <3>1. bm[s] = saved[s] /\ Settled(s, saved[s]) /\ b[s] = bm[s] /\ s \in Streams
      BY <1>0, <2>2 DEF SettledAtRest
    <3>2. bm'[s] = saved[s] /\ saved'[s] = saved[s]
      BY <1>1, <1>2, <2>2, <3>1
    <3>3. ASSUME NEW i \in Missing(s)'
          PROVE  /\ saved'[s].gtid.to < log'[i].gtid
                 /\ \A j \in 1 .. saved'[s].pos - 1 : j < i /\ log'[j].gtid < log'[i].gtid
      <4>1. i \in Missing(s)
        BY <2>2
      <4> QED
        BY <1>1, <3>1, <3>2, <4>1 DEF Settled
    <3> QED
      BY <3>2, <3>3 DEF Settled
  <2>3. ~Resting'
    BY <1>1 DEF Resting
  <2>4. \A s \in Joined : s \notin sel => bm'[s] = saved'[s] /\ Settled(s, saved[s])'
    BY <2>2
  <2> QED
    BY <1>1, <1>6, <2>1, <2>3, <2>4 DEF SettledAtRest
<1>9. ReaderBehind'
  BY <1>0, <1>1, <1>6 DEF ReaderBehind
<1>10. EndBetween'
  <2> SUFFICES ASSUME NEW i \in end .. Len(log), log[i].gtid # 0
               PROVE  /\ g.to < log[i].gtid
                      /\ ~use_gtid => \A s \in sel : bm'[s].gtid.to < log[i].gtid
                      /\ \A j \in 1 .. end - 1 : log[j].gtid < log[i].gtid
    BY <1>1 DEF EndBetween
  <2>1. \A j \in 1 .. end - 1 : log[j].gtid < log[i].gtid
    BY <1>0 DEF EndBetween
  <2>2. g.to < log[i].gtid /\ (~use_gtid => \A s \in sel : b[s].gtid.to < log[i].gtid)
    OBVIOUS
  <2>3. ~use_gtid => \A s \in sel : bm'[s].gtid.to = b[s].gtid.to
    BY <1>0, <1>1, <1>3
  <2> QED
    BY <2>1, <2>2, <2>3
<1>11. LogShape' /\ GtidsGrow' /\ EndShape'
  BY <1>0, <1>1 DEF QInv, LogShape, GtidsGrow, EndShape
<1> QED
  BY <1>5, <1>7, <1>8, <1>9, <1>10, <1>11 DEF QInv

\* A run starts behind all that is missing of its streams, by coordinates or by gtid.
LEMMA StartQuiet ==
  ASSUME Undisturbed, QInv, TypeOK', pc = "off", NEW S \in Selection, NEW p, NEW g,
         g.to <= txns, g.to # 0 <=> use_gtid, StartAt(S, p, g),
         \A s \in S : \A i \in Missing(s) : p <= i /\ (use_gtid => g.to < log[i].gtid)
  PROVE  QInv'
<1>1. MayToggleGtid \in {"never", "together", "any"}
  BY BinlogSyncAssumption
<1>2. S \subseteq Joined /\ (MayToggleGtid # "never" => S = Joined)
  BY <1>1 DEF Selection, Undisturbed
<1>3. /\ pc' = "start" /\ sel' = S /\ next' = p /\ gtid_pos' = g /\ executed' = g
      /\ UNCHANGED <<log, txns, curFile, use_gtid, origin, saved, bm, delivered, last>>
      /\ Joined' = Joined
  BY DEF StartAt, serverVars, envVars, stateVars, outVars, Joined
<1>4. Joined = {s \in Streams : origin[s] # 0}
  BY JoinedIs DEF QInv
<1>5. JoinShape' /\ Alike(saved)' /\ Alike(bm)'
  BY <1>2, <1>3, <1>4 DEF QInv, JoinShape, Joins, Alike
<1>6. LogShape' /\ GtidsGrow' /\ EndShape' /\ EndBetween'
  BY <1>3 DEF QInv, LogShape, GtidsGrow, EndShape, EndBetween
<1>7. SettledAtRest'
  BY <1>3, MissingKept DEF QInv, SettledAtRest, Settled, Resting
<1>8. ReaderBehind'
  BY <1>2, <1>3, MissingKept DEF ReaderBehind
<1> QED
  BY <1>5, <1>6, <1>7, <1>8 DEF QInv

\* The two ways to start satisfy that.
LEMMA StartCoordinatesBehind ==
  ASSUME Undisturbed, QInv, pc = "off", NEW S \in Selection, NEW t \in S,
         IsMinBookmark(S, saved[t].pos), NEW s \in S, NEW i \in Missing(s)
  PROVE  saved[t].pos <= saved[s].pos /\ saved[s].pos <= i
<1>1. TypeOK /\ LogShape /\ GtidsGrow /\ SettledAtRest /\ SameDigits /\ Len(log) \in Nat
  BY Types DEF QInv, Undisturbed
<1>2. \A x \in S : x \in Joined /\ x \in Streams /\ saved[x].pos \in 1 .. Len(log) + 1
  BY <1>1, QTypes DEF Selection, Joined
<1>3. Reached(saved[s].pos, saved[t].pos)
  BY DEF IsMinBookmark
<1>4. saved[t].pos <= saved[s].pos
  BY <1>1, <1>2, <1>3, ReachedIsPast
<1>5. \A j \in 1 .. saved[s].pos - 1 : j < i
  BY <1>1, <1>2 DEF SettledAtRest, Resting, Settled
<1>6. i \in Nat /\ i >= 1
  BY <1>1, <1>2, MissingIs
<1>7. saved[s].pos \in 1 .. Len(log) + 1
  BY <1>2
<1>8. saved[s].pos > 1 => saved[s].pos - 1 < i
  BY <1>1, <1>5, <1>7
<1> QED
  BY <1>1, <1>4, <1>6, <1>7, <1>8

LEMMA StartGtidBehind ==
  ASSUME Undisturbed, QInv, pc = "off", NEW S \in Selection,
         NEW g \in Gtid, NEW p \in 1 .. Len(log) + 1, IsMinGtid(S, g), IsAfterGtid(g, p),
         NEW s \in S, NEW i \in Missing(s)
  PROVE  p <= i /\ g.to < log[i].gtid
<1>1. /\ TypeOK /\ GtidsGrow /\ SettledAtRest /\ Alike(saved)
      /\ Len(log) \in Nat /\ txns \in Nat /\ g.to \in Nat
  BY QTypes, GtidEnds DEF QInv
<1>2. \A x \in S : x \in Joined /\ x \in Streams /\ saved[x].gtid.to \in Nat
  BY <1>1, QTypes DEF Selection, Joined
<1>3. i \in 1 .. Len(log) /\ log[i].gtid \in Nat
  BY <1>1, <1>2, MissingIs
<1>4. Settled(s, saved[s])
  BY <1>1, <1>2 DEF SettledAtRest, Resting
<1>5. CASE HasGtid(S) # {}
  <2>1. \A x \in HasGtid(S) : x \in S /\ saved[x].gtid.to # 0
    BY DEF HasGtid, Given
  <2>2. saved[s].gtid.to # 0
    BY <1>1, <1>2, <1>5, <2>1 DEF Alike
  <2>3. s \in HasGtid(S)
    BY <2>2 DEF HasGtid, Given
  <2>4. g.to <= saved[s].gtid.to
    BY <1>1, <1>2, <1>5, <2>3 DEF IsMinGtid
  <2>5. saved[s].gtid.to < log[i].gtid
    BY <1>4 DEF Settled
  <2>6. g.to < log[i].gtid
    BY <1>1, <1>2, <1>3, <2>4, <2>5
  <2> QED
    BY <1>1, <1>3, <2>6, AfterGtid
<1>6. CASE HasGtid(S) = {}
  <2>1. PICK t \in S, n \in 1 .. txns :
          g = Whole(n) /\ IsMinBookmark(S, saved[t].pos) /\ IsGtidAt(saved[t].pos, n)
    BY <1>6 DEF IsMinGtid
  <2>2. g.to = n /\ n # 0
    BY <1>1, <2>1, GtidEnds
  <2>3. PICK j \in 1 .. saved[t].pos - 1 : log[j].gtid = n
    BY <2>1, <2>2 DEF IsGtidAt
  <2>4. saved[t].pos <= saved[s].pos
    BY <2>1, StartCoordinatesBehind
  <2>5. j \in 1 .. saved[s].pos - 1
    <3>1. saved[t].pos \in Nat /\ saved[s].pos \in Nat
      BY <1>1, <1>2, Types
    <3> QED
      BY <2>3, <2>4, <3>1
  <2>6. g.to < log[i].gtid
    BY <1>4, <2>2, <2>3, <2>5 DEF Settled
  <2> QED
    BY <1>1, <1>3, <2>6, AfterGtid
<1> QED
  BY <1>5, <1>6

\* Each step keeps the invariant: first those of the server, of snapshots and of the
\* configuration.
LEMMA ServerQuiet ==
  ASSUME Undisturbed, QInv, TypeOK', ServerNext
  PROVE  QInv'
<1>0. /\ TypeOK /\ LogShape /\ GtidsGrow
      /\ log \in Seq(EventType) /\ Len(log) \in Nat /\ curFile \in Nat /\ txns \in Nat
      /\ \A i \in 1 .. Len(log) : log[i].gtid \in Nat /\ log[i].file \in Nat
  BY Types, QTypes DEF QInv
<1>1. ASSUME NEW tx \in Changes, Commit(tx)
      PROVE  QInv'
  <2> DEFINE t == Transaction(tx, txns + 1)
             n == Len(tx) + 2
  <2>1. /\ t \in Seq(EventType) /\ Len(t) = n /\ n \in Nat /\ n # 0
        /\ t[n].kind = "xid"
        /\ \A i \in 1 .. n : t[i].file = curFile /\ t[i].gtid = txns + 1
    <3>1. txns + 1 \in Nat
      BY <1>0
    <3>2. /\ t \in Seq(EventType) /\ Len(t) = n /\ Len(tx) \in Nat
          /\ t[n].kind = "xid"
          /\ \A i \in 1 .. n : t[i].file = curFile /\ t[i].gtid = txns + 1
      BY <1>0, <3>1, TransactionType
    <3> QED
      BY <3>2
  <2>2. log' = log \o t /\ txns' = txns + 1 /\ curFile' = curFile
    BY <1>1 DEF Commit
  <2> HIDE DEF t, n
  <2>3. /\ Len(log') = Len(log) + n
        /\ \A i \in 1 .. Len(log) + n :
             log'[i] = IF i <= Len(log) THEN log[i] ELSE t[i - Len(log)]
    BY <1>0, <2>1, <2>2, ConcatProperties, Zenon
  <2>4. Len(log) <= Len(log') /\ Len(log') \in Nat /\ \A i \in 1 .. Len(log) : log'[i] = log[i]
    BY <1>0, <2>1, <2>3
  <2>5. ASSUME NEW i \in Len(log) + 1 .. Len(log')
        PROVE  log'[i].file = curFile /\ log'[i].gtid = txns + 1
    <3>1. i - Len(log) \in 1 .. n /\ log'[i] = t[i - Len(log)]
      BY <1>0, <2>1, <2>3
    <3> QED
      BY <2>1, <3>1
  <2>6. log'[Len(log')].kind = "xid"
    <3>1. log'[Len(log) + n] = t[n]
      BY <1>0, <2>1, <2>3
    <3> QED
      BY <2>1, <2>3, <3>1
  <2>7. ASSUME NEW i \in 1 .. Len(log')
        PROVE  \/ i \in 1 .. Len(log) /\ log'[i] = log[i]
               \/ i \in Len(log) + 1 .. Len(log')
    BY <1>0, <2>4
  <2>8. LogShape'
    <3>1. \A i \in 1 .. Len(log') : log'[i].file <= curFile /\ log'[i].file \in Nat
      BY <1>0, <2>5, <2>7 DEF LogShape
    <3>2. ASSUME NEW i \in 1 .. Len(log'), NEW j \in 1 .. Len(log'), i <= j
          PROVE  log'[i].file <= log'[j].file
      <4>1. CASE j \in 1 .. Len(log)
        BY <1>0, <2>4, <3>2, <4>1 DEF LogShape
      <4>2. CASE j \in Len(log) + 1 .. Len(log')
        BY <2>5, <3>1, <4>2
      <4> QED
        BY <2>7, <4>1, <4>2
    <3> QED
      BY <1>0, <2>2, <2>6, <3>1, <3>2 DEF LogShape
  <2>9. GtidsGrow'
    <3>1. \A i \in 1 .. Len(log') : log'[i].gtid <= txns + 1 /\ log'[i].gtid \in Nat
      BY <1>0, <2>5, <2>7 DEF GtidsGrow
    <3>2. \A i \in 1 .. Len(log') : log'[i].kind \in {"row", "gtid"} => log'[i].gtid # 0
      BY <1>0, <2>5, <2>7 DEF GtidsGrow
    <3>3. ASSUME NEW i \in 1 .. Len(log'), NEW j \in 1 .. Len(log'), i <= j, log'[j].gtid # 0
          PROVE  log'[i].gtid <= log'[j].gtid
      <4>1. CASE j \in 1 .. Len(log)
        BY <1>0, <2>4, <3>3, <4>1 DEF GtidsGrow
      <4>2. CASE j \in Len(log) + 1 .. Len(log')
        BY <2>5, <3>1, <4>2
      <4> QED
        BY <2>7, <4>1, <4>2
    <3> QED
      BY <2>2, <3>1, <3>2, <3>3 DEF GtidsGrow
  <2>10. txns <= txns' /\ \A i \in Len(log) + 1 .. Len(log') : txns < log'[i].gtid
    BY <1>0, <2>2, <2>5
  <2>11. UNCHANGED <<envVars, stateVars, exit, pc, readerVars, countVars, outVars>>
    BY <1>1 DEF Commit
  <2> QED
    BY <2>4, <2>8, <2>9, <2>10, <2>11, AppendQuiet
<1>2. CASE RotateLog
  <2> DEFINE e == Event("rotate", NoTable, 0, 0)
  <2>1. e \in EventType /\ e.file = curFile /\ e.kind = "rotate" /\ e.gtid = 0
    BY <1>0 DEF Event, EventType
  <2> HIDE DEF e
  <2>2. log' = Append(log, e) /\ curFile' = curFile + 1 /\ curFile < MaxFile /\ txns' = txns
    BY <1>2 DEF RotateLog, e
  <2>3. /\ Len(log') = Len(log) + 1
        /\ \A i \in 1 .. Len(log) : log'[i] = log[i]
        /\ log'[Len(log) + 1] = e
    BY <1>0, <2>1, <2>2
  <2>4. LogShape'
    <3>1. MaxFile \in Nat
      BY BinlogSyncAssumption
    <3> QED
      BY <1>0, <2>1, <2>2, <2>3, <3>1 DEF LogShape
  <2>5. GtidsGrow'
    BY <1>0, <2>1, <2>2, <2>3 DEF GtidsGrow
  <2>6. \A i \in Len(log) + 1 .. Len(log') : log'[i].gtid = 0
    BY <1>0, <2>1, <2>3
  <2>7. UNCHANGED <<envVars, stateVars, exit, pc, readerVars, countVars, outVars>>
    BY <1>2 DEF RotateLog
  <2>8. Len(log) <= Len(log') /\ txns <= txns'
    BY <1>0, <2>2, <2>3
  <2> QED
    BY <2>3, <2>4, <2>5, <2>6, <2>7, <2>8, AppendQuiet
<1>3. CASE PurgeLog
  <2>1. /\ UNCHANGED <<log, txns, curFile>>
        /\ UNCHANGED <<envVars, stateVars, exit, pc, readerVars, countVars, outVars>>
    BY <1>3 DEF PurgeLog
  <2>2. LogShape' /\ GtidsGrow'
    BY <1>0, <2>1 DEF LogShape, GtidsGrow
  <2>3. Len(log) <= Len(log') /\ txns <= txns' /\ \A i \in Len(log) + 1 .. Len(log') : FALSE
    BY <1>0, <2>1
  <2> QED
    BY <2>1, <2>2, <2>3, AppendQuiet
<1> QED
  BY <1>1, <1>2, <1>3 DEF ServerNext

LEMMA SnapshotQuiet ==
  ASSUME Undisturbed, QInv, TypeOK', NEW s0 \in Streams, Snapshot(s0)
  PROVE  QInv'
<1> DEFINE new == [pos |-> Len(log) + 1, gtid |-> IF use_gtid THEN Whole(txns) ELSE NoGtid]
<1>0. /\ TypeOK /\ GtidsGrow /\ JoinShape /\ SettledAtRest /\ Alike(saved)
      /\ Len(log) \in Nat /\ txns \in Nat /\ use_gtid \in BOOLEAN
      /\ saved \in [Streams -> Bookmark] /\ origin \in [Streams -> Nat]
      /\ Joined = {s \in Streams : origin[s] # 0}
  BY QTypes, JoinedIs DEF QInv, TypeOK
<1>1. /\ pc = "off" /\ pc' = "off" /\ origin[s0] = 0 /\ (use_gtid => txns # 0)
      /\ saved' = [saved EXCEPT ![s0] = new] /\ bm' = saved'
      /\ origin' = [origin EXCEPT ![s0] = Len(log) + 1]
      /\ UNCHANGED <<log, txns, curFile, use_gtid, sel, delivered, last>>
  BY DEF Snapshot, serverVars, readerVars, outVars
<1>2. new.pos # 0 /\ new.gtid.to \in Nat /\ new.gtid.to <= txns /\ (new.gtid.to # 0 <=> use_gtid)
      /\ new.pos = Len(log) + 1
  <2>1. new.pos = Len(log) + 1 /\ new.gtid = IF use_gtid THEN Whole(txns) ELSE NoGtid
    OBVIOUS
  <2>2. new.gtid.to = IF use_gtid THEN txns ELSE 0
    BY <1>0, <2>1, GtidEnds
  <2> HIDE DEF new
  <2> QED
    BY <1>0, <1>1, <2>1, <2>2
<1> HIDE DEF new
<1>3. saved'[s0] = new /\ \A s \in Streams : s # s0 => saved'[s] = saved[s] /\ origin'[s] = origin[s]
  BY <1>0, <1>1
<1>4. origin'[s0] = Len(log) + 1
  BY <1>0, <1>1
<1>5. JoinShape'
  BY <1>0, <1>1, <1>2, <1>3, <1>4 DEF JoinShape, Joins
<1>6. Joined' = Joined \cup {s0} /\ s0 \notin Joined /\ Joined # Streams
  <2>1. Joined' = {s \in Streams : origin'[s] # 0}
    BY <1>5 DEF JoinShape, Joins, Joined
  <2> QED
    BY <1>0, <1>1, <1>3, <1>4, <2>1
<1>7. Missing(s0)' = {}
  BY <1>0, <1>1, <1>4 DEF Missing
<1>8. \A s \in Streams : s # s0 => Missing(s)' = Missing(s)
  BY <1>1, <1>3 DEF Missing, RowOf
<1>9. SettledAtRest'
  <2>1. ASSUME NEW s \in Joined'
        PROVE  saved'[s].gtid.to <= txns /\ Settled(s, saved[s])'
    <3>1. CASE s = s0
      BY <1>2, <1>3, <1>7, <3>1 DEF Settled
    <3>2. CASE s # s0
      <4>1. s \in Joined /\ s \in Streams /\ saved'[s] = saved[s] /\ Missing(s)' = Missing(s)
        BY <1>0, <1>3, <1>6, <1>8, <3>2
      <4>2. saved[s].gtid.to <= txns /\ Settled(s, saved[s])
        BY <1>0, <1>1, <4>1 DEF SettledAtRest, Resting
      <4> QED
        BY <1>1, <4>1, <4>2 DEF Settled
    <3> QED
      BY <3>1, <3>2
  <2> QED
    BY <1>1, <2>1 DEF SettledAtRest
<1>10. ASSUME NEW s \in Joined'
       PROVE  saved'[s].gtid.to # 0 <=> use_gtid
  <2>1. \A x \in Joined : saved[x].gtid.to # 0 <=> use_gtid
    BY <1>0, <1>6 DEF Alike
  <2> QED
    BY <1>0, <1>2, <1>3, <1>6, <2>1
<1>11. Alike(saved)' /\ Alike(bm)'
  BY <1>1, <1>10 DEF Alike
<1>12. LogShape' /\ EndShape' /\ GtidsGrow' /\ ReaderBehind' /\ EndBetween'
  BY <1>1 DEF QInv, LogShape, EndShape, GtidsGrow, ReaderBehind, EndBetween
<1> QED
  BY <1>5, <1>9, <1>11, <1>12 DEF QInv

LEMMA ToggleQuiet ==
  ASSUME Undisturbed, QInv, TypeOK', ToggleGtid
  PROVE  QInv'
<1>1. /\ pc' = "off" /\ pc = "off" /\ MayToggleGtid = "together" /\ Joined \in {{}, Streams}
      /\ UNCHANGED <<log, txns, curFile, origin, saved, bm, sel, fresh, delivered, last>>
  BY BinlogSyncAssumption
     DEF ToggleGtid, Undisturbed, serverVars, stateVars, readerVars, outVars
<1>2. Joined' = Joined
  BY <1>1 DEF Joined
<1>3. Alike(saved)' /\ Alike(bm)'
  BY <1>1, <1>2 DEF QInv, Alike
<1>4. SettledAtRest'
  BY <1>1, <1>2, MissingKept DEF QInv, SettledAtRest, Settled, Resting
<1>5. JoinShape' /\ LogShape' /\ EndShape' /\ GtidsGrow' /\ ReaderBehind' /\ EndBetween'
  BY <1>1 DEF QInv, JoinShape, Joins, LogShape, EndShape, GtidsGrow, ReaderBehind, EndBetween
<1> QED
  BY <1>3, <1>4, <1>5 DEF QInv

\* Then the branches of the loop.
LEMMA LoopQuiet ==
  ASSUME Undisturbed, ConfigKept, QInv, TypeOK',
         RotateEvent \/ GtidEvent \/ RowsEvent \/ SkippedEvent
  PROVE  QInv'
<1>0. /\ TypeOK /\ LogShape /\ GtidsGrow /\ JoinShape /\ EndShape /\ SameDigits
      /\ SettledAtRest /\ ReaderBehind /\ EndBetween /\ Alike(bm) /\ Joins(bm)
      /\ Len(log) \in Nat /\ txns \in Nat /\ gtid_pos \in Gtid /\ gtid_pos.to \in Nat
      /\ next \in 1 .. Len(log) + 1 /\ end \in 0 .. Len(log) + 1
      /\ bm \in [Streams -> Bookmark]
      /\ \A i \in 1 .. Len(log) : log[i].gtid \in Nat
  BY Types, QTypes DEF QInv, Undisturbed, JoinShape
<1>1. pc = "loop"
  BY DEF RotateEvent, GtidEvent, RowsEvent, SkippedEvent, Announces, Returns
<1>2. /\ sel \subseteq Joined /\ Joined \subseteq Streams /\ gtid_pos.to <= txns
      /\ gtid_pos.to # 0 <=> use_gtid
      /\ \A s \in sel : \A i \in Missing(s) : next <= i /\ (use_gtid => executed.to < log[i].gtid)
      /\ \A s \in Joined : bm[s].gtid.to <= txns
  BY <1>0, <1>1 DEF ReaderBehind, SettledAtRest, Joined
<1>3. \A i \in end .. Len(log) : log[i].gtid # 0 =>
        gtid_pos.to < log[i].gtid /\ (~use_gtid => \A s \in sel : bm[s].gtid.to < log[i].gtid)
  BY <1>0, <1>1 DEF EndBetween
<1>4. ASSUME Returns
      PROVE  /\ ~fresh /\ next \in 1 .. Len(log)
             /\ Report(next) \in 1 .. Len(log) + 1 /\ next <= Report(next) /\ Report(next) # 0
  BY <1>0, <1>4, ReportNext DEF Returns
<1>5. ASSUME NEW s \in sel, NEW i \in Missing(s), i # next
      PROVE  next + 1 <= i
  BY <1>0, <1>2, <1>5, MissingIs
<1>6. CASE RotateEvent
  <2>1. /\ next' \in 1 .. Len(log) + 1 /\ next' # 0 /\ ~use_gtid /\ fresh' = FALSE
        /\ next' = next \/ (next' = next + 1 /\ log[next].kind = "rotate")
        /\ EndOfIteration(UpdateBookmarks(bm, next', gtid_pos), next', gtid_pos, processed, skipped)
        /\ UNCHANGED <<log, origin, delivered, last>>
    BY <1>0, <1>4, <1>6
       DEF RotateEvent, Returns, Announces, EndOfIteration, serverVars, envVars, outVars
  <2> DEFINE b == UpdateBookmarks(bm, next', gtid_pos)
  <2>2. \A s \in Streams : b[s].gtid.to = bm[s].gtid.to /\ (s \notin sel => b[s] = bm[s])
    BY <1>2, <2>1 DEF UpdateBookmarks, Given
  <2>3. b \in [Streams -> Bookmark]
    <3>1. next' \in 0 .. Len(log) + 1
      BY <1>0, <2>1
    <3> QED
      BY <1>0, <3>1, UpdateBookmarksType
  <2>4. Joins(b) /\ Alike(b)
    BY <1>0, <1>1, <1>2, <2>1, UpdateJoins, UpdateAlike
  <2>5. EndOfIteration(b, next', gtid_pos, processed, skipped)
    BY <2>1
  <2> HIDE DEF b
  <2>6. ASSUME NEW s \in sel, NEW i \in Missing(s)'
        PROVE  next' <= i /\ (use_gtid => executed.to < log[i].gtid)
    <3>1. i \in Missing(s)
      BY <2>1, MissingKept
    <3>2. log[i].kind = "row"
      BY <1>0, <1>2, <3>1, MissingIs
    <3> QED
      BY <1>2, <1>5, <2>1, <3>1, <3>2
  <2>7. \A s \in Joined : b[s].gtid.to <= txns /\ Missing(s)' \subseteq Missing(s)
    BY <1>2, <2>1, <2>2, MissingKept
  <2>8. \A i \in end .. Len(log) : log[i].gtid # 0 =>
          gtid_pos.to < log[i].gtid /\ (~use_gtid => \A s \in sel : b[s].gtid.to < log[i].gtid)
    BY <1>2, <1>3, <2>2
  <2> QED
    BY <1>0, <1>1, <1>2, <2>1, <2>2, <2>3, <2>4, <2>5, <2>6, <2>7, <2>8, IterationQuiet
<1>7. CASE GtidEvent
  <2> DEFINE g == EventGtid(log[next].gtid)
             p == Report(next)
             b == UpdateBookmarks(bm, p, g)
  <2>1. /\ Returns /\ log[next].kind = "gtid" /\ next' = next + 1 /\ fresh' = fresh
        /\ ~Reached(p, end) /\ EndOfIteration(b, p, g, processed, skipped)
        /\ UNCHANGED <<log, origin, delivered, last>> /\ use_gtid
    <3>1. /\ Returns /\ log[next].kind = "gtid" /\ next' = next + 1 /\ fresh' = fresh
          /\ ~Reached(p, end) /\ EndOfIteration(b, p, g, processed, skipped) /\ UNCHANGED outVars
      BY <1>7 DEF GtidEvent
    <3> HIDE DEF b, p, g
    <3> QED
      BY <3>1 DEF Returns, Surfaces, EndOfIteration, serverVars, envVars, outVars
  <2>2. /\ g \in Gtid /\ g.to = log[next].gtid /\ g.to # 0 /\ g.to <= txns /\ fresh' = FALSE
        /\ p \in 1 .. Len(log) + 1 /\ p # 0 /\ next \in 1 .. Len(log) /\ next <= p
    <3>1. /\ next \in 1 .. Len(log) /\ next <= p /\ p \in 1 .. Len(log) + 1 /\ p # 0 /\ fresh' = FALSE
      BY <1>4, <2>1 DEF TypeOK
    <3>2. log[next].gtid \in Nat /\ log[next].gtid # 0 /\ log[next].gtid <= txns
      BY <1>0, <2>1, <3>1 DEF GtidsGrow
    <3>3. g \in Gtid /\ g.to = log[next].gtid
      BY <3>2, GtidTypes, GtidEnds
    <3> HIDE DEF g, p
    <3> QED
      BY <3>1, <3>2, <3>3
  <2>3. next \in 1 .. end - 1
    <3>1. end \in 1 .. Len(log) + 1
      BY <1>0, <1>1 DEF EndShape
    <3>2. p < end
      BY <1>0, <2>1, <2>2, <3>1, NotReachedIsBefore
    <3> QED
      BY <1>0, <2>2, <3>1, <3>2
  <2> HIDE DEF g, p
  <2>4. \A i \in end .. Len(log) : log[i].gtid # 0 => g.to < log[i].gtid
    BY <1>0, <1>1, <2>2, <2>3 DEF EndBetween
  <2>5. \A s \in Streams : b[s].gtid.to \in {g.to, bm[s].gtid.to} /\ (s \notin sel => b[s] = bm[s])
    BY DEF UpdateBookmarks, Given
  <2>6. b \in [Streams -> Bookmark]
    <3>1. p \in 0 .. Len(log) + 1
      BY <1>0, <2>2
    <3> QED
      BY <1>0, <2>2, <3>1, UpdateBookmarksType
  <2>7. Joins(b) /\ Alike(b)
    BY <1>0, <1>1, <2>1, <2>2, UpdateJoins, UpdateAlike
  <2> HIDE DEF b
  <2>8. ASSUME NEW s \in sel, NEW i \in Missing(s)'
        PROVE  next' <= i /\ (use_gtid => executed.to < log[i].gtid)
    <3>1. i \in Missing(s)
      BY <2>1, MissingKept
    <3>2. log[i].kind = "row"
      BY <1>0, <1>2, <3>1, MissingIs
    <3> QED
      BY <1>2, <1>5, <2>1, <3>1, <3>2
  <2>9. \A s \in Joined : b[s].gtid.to <= txns /\ Missing(s)' \subseteq Missing(s)
    BY <1>2, <2>1, <2>2, <2>5, MissingKept
  <2>10. g.to # 0 <=> use_gtid
    BY <2>1, <2>2
  <2>11. \A i \in end .. Len(log) : log[i].gtid # 0 =>
           g.to < log[i].gtid /\ (~use_gtid => \A s \in sel : b[s].gtid.to < log[i].gtid)
    BY <2>1, <2>4
  <2>12. \A s \in Joined : s \notin sel => b[s] = bm[s] /\ Missing(s)' \subseteq Missing(s)
    BY <1>2, <2>5, <2>9
  <2>13. EndOfIteration(b, p, g, processed, skipped)
    BY <2>1
  <2> QED
    BY <1>1, <2>2, <2>6, <2>7, <2>8, <2>9, <2>10, <2>11, <2>12, <2>13, IterationQuiet
<1>8. CASE RowsEvent \/ SkippedEvent
  <2> DEFINE p == Report(next)
  <2>1. /\ Returns /\ log[next].kind = "row" /\ next' = next + 1 /\ fresh' = fresh
        /\ UNCHANGED <<log, origin>>
        /\ \E pr, sk : EndOfIteration(bm, p, gtid_pos, pr, sk)
    BY <1>8 DEF RowsEvent, SkippedEvent, EndOfIteration, serverVars, envVars
  <2>2. /\ p \in 1 .. Len(log) + 1 /\ next \in 1 .. Len(log) /\ fresh' = FALSE
    BY <1>0, <1>4, <2>1 DEF TypeOK
  <2> HIDE DEF p
  <2>3. ASSUME NEW s \in Streams, s # log[next].table \/ SkippedEvent
        PROVE  Missing(s)' = Missing(s)
    <3>1. CASE RowsEvent
      <4>1. delivered' = delivered \cup {next} /\ last'[s] = last[s]
        BY <1>0, <2>3, <3>1 DEF RowsEvent, SkippedEvent, WriteRecords, TypeOK
      <4>2. \A i : RowOf(s, i) => i # next
        BY <2>3, <3>1 DEF RowOf, RowsEvent, SkippedEvent
      <4> QED
        BY <2>1, <4>1, <4>2 DEF Missing, RowOf
    <3>2. CASE SkippedEvent
      BY <2>1, <3>2, MissingKept DEF SkippedEvent, outVars
    <3> QED
      BY <1>8, <3>1, <3>2
  <2>4. ASSUME NEW s \in sel, NEW i \in Missing(s)'
        PROVE  next' <= i /\ (use_gtid => executed.to < log[i].gtid)
    <3>1. CASE SkippedEvent
      <4>1. i \in Missing(s) /\ log[next].table # s
        BY <1>2, <2>3, <2>4, <3>1 DEF SkippedEvent
      <4>2. i # next
        BY <1>0, <1>2, <4>1, MissingIs
      <4> QED
        BY <1>2, <1>5, <2>1, <4>1, <4>2
    <3>2. CASE RowsEvent /\ s # log[next].table
      <4>1. i \in Missing(s)
        BY <1>2, <2>3, <2>4, <3>2
      <4>2. i # next
        BY <1>0, <1>2, <3>2, <4>1, MissingIs
      <4> QED
        BY <1>2, <1>5, <2>1, <4>1, <4>2
    <3>3. CASE RowsEvent /\ s = log[next].table
      <4>1. delivered' = delivered \cup {next} /\ last'[s] = next
        BY <1>0, <1>2, <3>3 DEF RowsEvent, WriteRecords, TypeOK
      <4>2. i \in 1 .. Len(log) /\ RowOf(s, i) /\ origin[s] <= i
            /\ (i \notin delivered \cup {next} \/ (Contiguous /\ next < i))
        BY <2>1, <2>4, <4>1 DEF Missing, RowOf
      <4>3. CASE Contiguous /\ next < i
        <5>1. next' <= i
          BY <1>0, <2>1, <2>2, <4>2, <4>3
        <5>2. ASSUME use_gtid
              PROVE  executed.to < log[i].gtid
          <6>1. executed \in Gtid /\ Engine = "mariadb"
            BY <1>0, <4>3, <5>2 DEF TypeOK, Contiguous, ConfigKept
          <6>2. executed.from = 1 /\ executed.to \in Nat
            BY <6>1, GtidEnds
          <6>3. log[next].gtid \in Nat /\ log[i].gtid \in Nat /\ log[next].gtid # 0 /\ log[i].gtid # 0
            BY <1>0, <2>1, <2>2, <4>2 DEF GtidsGrow, RowOf
          <6>4. log[next].gtid \notin Executed(executed)
            BY <2>1, <5>2 DEF Returns, Surfaces
          <6>5. executed.to < log[next].gtid
            BY <6>2, <6>3, <6>4 DEF Executed
          <6>6. log[next].gtid <= log[i].gtid
            BY <1>0, <2>2, <4>2, <4>3, <6>3 DEF GtidsGrow
          <6> QED
            BY <6>2, <6>3, <6>5, <6>6
        <5> QED
          BY <5>1, <5>2
      <4>4. CASE i \notin delivered \cup {next}
        <5>1. i \in Missing(s) /\ i # next
          BY <4>2, <4>4 DEF Missing
        <5> QED
          BY <1>2, <1>5, <2>1, <5>1
      <4> QED
        BY <4>2, <4>3, <4>4
    <3> QED
      BY <1>8, <3>1, <3>2, <3>3
  <2>5. \A s \in Joined : s \notin sel => bm[s] = bm[s] /\ Missing(s)' \subseteq Missing(s)
    <3> SUFFICES ASSUME NEW s \in Joined, s \notin sel
                 PROVE  Missing(s)' \subseteq Missing(s)
      OBVIOUS
    <3>1. s # log[next].table \/ SkippedEvent
      BY <1>8 DEF RowsEvent
    <3> QED
      BY <1>2, <2>3, <3>1
  <2>6. PICK pr, sk : EndOfIteration(bm, p, gtid_pos, pr, sk)
    BY <2>1
  <2> QED
    BY <1>0, <1>1, <1>2, <1>3, <2>2, <2>4, <2>5, <2>6, IterationQuiet
<1> QED
  BY <1>6, <1>7, <1>8

\* And the other steps of a run.
LEMMA FinishQuiet ==
  ASSUME Undisturbed, QInv, TypeOK', pc = "loop", ~fresh \/ ~use_gtid,
         NEW p \in Nat, Finish(p),
         \A s \in sel : Settled(s, IF p # 0 THEN UpdateBookmarks(bm, p, gtid_pos)[s] ELSE bm[s])
  PROVE  QInv'
<1> DEFINE b == IF p # 0 THEN UpdateBookmarks(bm, p, gtid_pos) ELSE bm
<1>0. /\ TypeOK /\ JoinShape /\ SettledAtRest /\ ReaderBehind /\ Alike(bm) /\ Joins(bm)
      /\ gtid_pos \in Gtid /\ gtid_pos.to \in Nat /\ Joined \subseteq Streams
  BY QTypes DEF QInv, JoinShape, Joined
<1>1. /\ sel \subseteq Joined /\ gtid_pos.to <= txns
      /\ gtid_pos.to # 0 <=> use_gtid
      /\ \A s \in Joined : bm[s].gtid.to <= txns
  BY <1>0 DEF ReaderBehind, SettledAtRest
<1>2. Joins(b) /\ Alike(b)
  <2>1. CASE p # 0
    <3>1. Joins(UpdateBookmarks(bm, p, gtid_pos)) /\ Alike(UpdateBookmarks(bm, p, gtid_pos))
      BY <1>0, <1>1, <2>1, UpdateJoins, UpdateAlike
    <3>2. b = UpdateBookmarks(bm, p, gtid_pos)
      BY <2>1
    <3> QED
      BY <3>1, <3>2
  <2>2. CASE p = 0
    BY <1>0, <2>2
  <2> QED
    BY <2>1, <2>2
<1>3. ASSUME NEW s \in Joined
      PROVE  Settled(s, b[s]) /\ b[s].gtid.to <= txns
  <2>1. b[s].gtid.to \in {gtid_pos.to, bm[s].gtid.to}
    BY <1>0 DEF UpdateBookmarks, Given
  <2>2. CASE s \in sel
    <3>1. b[s] = IF p # 0 THEN UpdateBookmarks(bm, p, gtid_pos)[s] ELSE bm[s]
      OBVIOUS
    <3>2. Settled(s, b[s])
      BY <2>2, <3>1
    <3> HIDE DEF b
    <3> QED
      BY <1>1, <2>1, <3>2
  <2>3. CASE s \notin sel
    <3>1. b[s] = bm[s]
      BY <1>0, <2>3 DEF UpdateBookmarks, Given
    <3>2. bm[s] = saved[s] /\ Settled(s, saved[s])
      BY <1>0, <2>3 DEF SettledAtRest
    <3> HIDE DEF b
    <3> QED
      BY <1>1, <3>1, <3>2
  <2> QED
    BY <2>2, <2>3
<1>4. Exit(0, b) /\ UNCHANGED <<serverVars, use_gtid, origin, outVars>>
  BY DEF Finish, envVars
<1> HIDE DEF b
<1> QED
  BY <1>2, <1>3, <1>4, ExitQuiet

LEMMA EndQuiet ==
  ASSUME Undisturbed, QInv, TypeOK', ReachedEnd
  PROVE  QInv'
<1>0. /\ TypeOK /\ LogShape /\ GtidsGrow /\ EndShape /\ SameDigits
      /\ ReaderBehind /\ EndBetween
      /\ Len(log) \in Nat /\ gtid_pos.to \in Nat /\ next \in 1 .. Len(log) + 1 /\ sel \subseteq Streams
  BY Types, QTypes DEF QInv, Undisturbed
<1>1. /\ pc = "loop" /\ Finish(end) /\ (~fresh \/ ~use_gtid)
      /\ \/ Announces /\ Reached(next, end)
         \/ Returns /\ Reached(Report(next), end)
  BY DEF ReachedEnd, Announces, Returns
<1>2. end \in 1 .. Len(log) + 1 /\ end \in Nat /\ end # 0 /\ (end > 1 => log[end - 1].kind # "row")
  BY <1>0, <1>1, Types DEF EndShape
<1>3. end <= next + 1
  <2>1. CASE Announces /\ Reached(next, end)
    <3>1. end <= next
      BY <1>0, <1>2, <2>1, ReachedIsPast
    <3> QED
      BY <1>0, <1>2, <3>1
  <2>2. CASE Returns /\ Reached(Report(next), end)
    <3>1. Report(next) \in 1 .. Len(log) + 1 /\ Report(next) <= next + 1
      BY <1>0, <2>2, ReportNext DEF Returns
    <3>2. end <= Report(next)
      BY <1>0, <1>2, <2>2, <3>1, ReachedIsPast
    <3> QED
      BY <1>0, <1>2, <3>1, <3>2
  <2> QED
    BY <1>1, <2>1, <2>2
<1>4. ASSUME NEW s \in sel, NEW i \in Missing(s)
      PROVE  end <= i /\ i \in end .. Len(log) /\ log[i].gtid # 0
  <2>1. /\ i \in 1 .. Len(log) /\ log[i].kind = "row" /\ log[i].gtid # 0
        /\ next <= i
    BY <1>0, <1>1, MissingIs DEF ReaderBehind
  <2>2. end - 1 # i
    BY <1>0, <1>2, <2>1
  <2> QED
    BY <1>0, <1>2, <1>3, <2>1, <2>2
<1>5. ASSUME NEW s \in sel
      PROVE  Settled(s, UpdateBookmarks(bm, end, gtid_pos)[s])
  <2> DEFINE u == UpdateBookmarks(bm, end, gtid_pos)[s]
  <2>1. u.pos = end /\ u.gtid.to = IF gtid_pos.to # 0 THEN gtid_pos.to ELSE bm[s].gtid.to
    BY <1>0 DEF UpdateBookmarks, Given
  <2> HIDE DEF u
  <2>2. ASSUME NEW i \in Missing(s)
        PROVE  u.gtid.to < log[i].gtid /\ \A j \in 1 .. u.pos - 1 : j < i /\ log[j].gtid < log[i].gtid
    <3>1. /\ gtid_pos.to < log[i].gtid
          /\ ~use_gtid => bm[s].gtid.to < log[i].gtid
          /\ \A j \in 1 .. end - 1 : log[j].gtid < log[i].gtid
      BY <1>0, <1>1, <1>4 DEF EndBetween
    <3>2. gtid_pos.to = 0 => ~use_gtid
      BY <1>0, <1>1 DEF ReaderBehind
    <3>3. u.gtid.to < log[i].gtid
      BY <2>1, <3>1, <3>2
    <3>4. \A j \in 1 .. end - 1 : j < i
      BY <1>0, <1>2, <1>4
    <3> QED
      BY <2>1, <3>1, <3>3, <3>4
  <2> QED
    BY <2>2 DEF Settled, u
<1> QED
  BY <1>1, <1>2, <1>5, FinishQuiet

LEMMA ExhaustedQuiet ==
  ASSUME Undisturbed, QInv, TypeOK', Exhausted
  PROVE  QInv'
<1>0. /\ TypeOK /\ GtidsGrow /\ ReaderBehind /\ sel \subseteq Streams
      /\ Len(log) \in Nat /\ next \in Nat
      /\ log_pos \in 0 .. Len(log) + 1 /\ end \in 0 .. Len(log) + 1
  BY Types, QTypes DEF QInv
<1>1. pc = "loop" /\ ~fresh /\ next > Len(log) /\ Finish(AdvanceToEnd(log_pos))
  BY DEF Exhausted
<1>2. AdvanceToEnd(log_pos) \in Nat
  BY <1>0 DEF AdvanceToEnd
<1>3. ASSUME NEW s \in sel
      PROVE  Missing(s) = {}
  <2> SUFFICES ASSUME NEW i \in Missing(s) PROVE FALSE
    OBVIOUS
  <2>1. i \in 1 .. Len(log) /\ next <= i
    BY <1>0, <1>1, MissingIs DEF ReaderBehind
  <2> QED
    BY <1>0, <1>1, <2>1
<1>4. \A s \in sel : \A b : Settled(s, b)
  BY <1>3 DEF Settled
<1> QED
  BY <1>1, <1>2, <1>4, FinishQuiet

LEMMA ReadQuiet ==
  ASSUME Undisturbed, QInv, TypeOK', ReadFiltered
  PROVE  QInv'
<1>0. /\ TypeOK /\ GtidsGrow /\ SettledAtRest /\ ReaderBehind /\ sel \subseteq Streams
      /\ Len(log) \in Nat /\ next \in 1 .. Len(log) + 1
  BY Types, QTypes DEF QInv
<1>1. /\ pc = "loop" /\ fresh' = FALSE
      /\ UNCHANGED <<log, txns, curFile, use_gtid, origin, saved, bm, pc, sel, end, gtid_pos,
                     executed, delivered, last>>
      /\ \/ next' = next
         \/ /\ next' = next + 1 /\ next <= Len(log)
            /\ log[next].kind # "row" \/ (use_gtid /\ log[next].gtid \in Executed(executed))
  BY <1>0 DEF ReadFiltered, Surfaces, TypeOK, serverVars, envVars, stateVars, outVars
<1>2. Joined' = Joined
  BY <1>1 DEF Joined
<1>3. ASSUME NEW s \in sel, NEW i \in Missing(s)
      PROVE  next' <= i
  <2>1. /\ next <= i /\ i \in 1 .. Len(log) /\ log[i].kind = "row" /\ log[i].gtid \in Nat
        /\ use_gtid => executed.to < log[i].gtid
    BY <1>0, <1>1, MissingIs DEF ReaderBehind
  <2>2. executed.from \in Nat /\ executed.to \in Nat
    BY <1>0, GtidEnds DEF TypeOK
  <2>3. use_gtid => log[i].gtid \notin Executed(executed)
    BY <2>1, <2>2 DEF Executed
  <2>4. CASE next' = next
    BY <2>1, <2>4
  <2>5. CASE next' = next + 1 /\ i # next
    BY <1>0, <2>1, <2>5
  <2> QED
    BY <1>1, <2>1, <2>3, <2>4, <2>5
<1>4. ReaderBehind'
  BY <1>0, <1>1, <1>2, <1>3, MissingKept DEF ReaderBehind
<1>5. SettledAtRest'
  BY <1>0, <1>1, <1>2, MissingKept DEF SettledAtRest, Settled, Resting
<1>6. /\ JoinShape' /\ LogShape' /\ EndShape' /\ GtidsGrow' /\ EndBetween'
      /\ Alike(saved)' /\ Alike(bm)'
  BY <1>1, <1>2 DEF QInv, JoinShape, Joins, LogShape, EndShape, GtidsGrow, EndBetween, Alike
<1> QED
  BY <1>4, <1>5, <1>6 DEF QInv

LEMMA FetchQuiet ==
  ASSUME Undisturbed, QInv, TypeOK', FetchEnd
  PROVE  QInv'
<1>0. LogShape /\ SettledAtRest /\ ReaderBehind /\ Len(log) \in Nat
  BY Types DEF QInv
<1>1. /\ pc = "start" /\ pc' = "loop" /\ end' = Len(log) + 1
      /\ UNCHANGED <<log, txns, curFile, use_gtid, origin, saved, bm, sel, next, fresh, gtid_pos,
                     executed, delivered, last>>
  BY DEF FetchEnd, serverVars, envVars, stateVars, outVars
<1>2. Joined' = Joined
  BY <1>1 DEF Joined
<1>3. EndShape' /\ EndBetween'
  BY <1>0, <1>1 DEF LogShape, EndShape, EndBetween
<1>4. ReaderBehind'
  BY <1>0, <1>1, <1>2, MissingKept DEF ReaderBehind
<1>5. SettledAtRest'
  BY <1>0, <1>1, <1>2, MissingKept DEF SettledAtRest, Settled, Resting
<1>6. JoinShape' /\ LogShape' /\ GtidsGrow' /\ Alike(saved)' /\ Alike(bm)'
  BY <1>1, <1>2 DEF QInv, JoinShape, Joins, LogShape, GtidsGrow, Alike
<1> QED
  BY <1>3, <1>4, <1>5, <1>6 DEF QInv

LEMMA StartRunQuiet ==
  ASSUME Undisturbed, QInv, TypeOK', StartRun
  PROVE  QInv'
<1>0. TypeOK /\ txns \in Nat /\ Len(log) \in Nat
  BY QTypes DEF QInv
<1>1. PICK S \in Selection : StartFromCoordinates(S) \/ StartFromGtid(S) \/ StartFails(S)
  BY DEF StartRun
<1>2. CASE StartFromCoordinates(S)
  <2>1. PICK t \in S : IsMinBookmark(S, saved[t].pos) /\ StartAt(S, saved[t].pos, NoGtid)
    BY <1>2 DEF StartFromCoordinates
  <2>2. pc = "off" /\ ~use_gtid
    BY <1>2 DEF StartFromCoordinates
  <2>3. ASSUME NEW s \in S, NEW i \in Missing(s)
        PROVE  saved[t].pos <= i
    <3>1. saved[t].pos <= saved[s].pos /\ saved[s].pos <= i
      BY <2>1, <2>2, StartCoordinatesBehind
    <3>2. saved[t].pos \in Nat /\ saved[s].pos \in Nat /\ i \in Nat
      BY <1>0, Types DEF Missing, Selection, Joined
    <3> QED
      BY <3>1, <3>2
  <2> QED
    BY <1>0, <2>1, <2>2, <2>3, GtidEnds, StartQuiet
<1>3. CASE StartFromGtid(S)
  <2>1. pc = "off" /\ use_gtid
    BY <1>3 DEF StartFromGtid
  <2> DEFINE gtids == {saved[s].gtid : s \in S} \cup {Whole(n) : n \in 1 .. txns}
  <2>2. PICK g \in gtids, p \in 1 .. Len(log) + 1 :
          IsMinGtid(S, g) /\ IsAfterGtid(g, p) /\ StartAt(S, p, g)
    BY <1>3 DEF StartFromGtid
  <2>3. g \in Gtid /\ g.to <= txns /\ g.to # 0
    <3>1. CASE HasGtid(S) # {}
      <4>1. PICK m \in HasGtid(S) : g = saved[m].gtid
        BY <2>2, <3>1 DEF IsMinGtid
      <4>2. m \in Joined /\ m \in Streams /\ saved[m].gtid.to # 0
        BY <4>1 DEF HasGtid, Given, Selection, Joined
      <4>3. saved[m].gtid.to <= txns /\ saved[m] \in Bookmark
        BY <1>0, <4>2 DEF QInv, SettledAtRest, TypeOK
      <4> QED
        BY <4>1, <4>2, <4>3 DEF Bookmark
    <3>2. CASE HasGtid(S) = {}
      <4>1. PICK n \in 1 .. txns : g = Whole(n)
        BY <2>2, <3>2 DEF IsMinGtid
      <4> QED
        BY <1>0, <4>1, GtidTypes, GtidEnds
    <3> QED
      BY <3>1, <3>2
  <2>4. \A s \in S : \A i \in Missing(s) : p <= i /\ g.to < log[i].gtid
    BY <2>1, <2>2, <2>3, StartGtidBehind
  <2> QED
    BY <2>1, <2>2, <2>3, <2>4, StartQuiet
<1>4. CASE StartFails(S)
  <2>1. UNCHANGED <<log, txns, curFile, use_gtid, origin, saved, bm, pc, sel, next, fresh, end,
                    gtid_pos, executed, delivered, last>>
    BY <1>4 DEF StartFails, serverVars, envVars, stateVars, readerVars, outVars
  <2> QED
    BY <2>1, MissingKept
       DEF QInv, JoinShape, Joins, LogShape, EndShape, GtidsGrow, SettledAtRest, Settled, Resting,
           ReaderBehind, EndBetween, Alike, Joined
<1> QED
  BY <1>1, <1>2, <1>3, <1>4

\* Each step keeps the invariant.
LEMMA QuietStep ==
  ASSUME Undisturbed, ConfigKept, QInv, [Next]_vars
  PROVE  QInv'
<1>0. TypeOK /\ TypeOK' /\ JoinShape /\ SettledAtRest
  BY TypeStep DEF QInv
<1>1. CASE ReaderFails
  <2>1. /\ Exit(1, saved) /\ fresh /\ UNCHANGED <<serverVars, use_gtid, origin, outVars>>
    BY <1>1 DEF ReaderFails, envVars
  <2>2. \A s \in Joined : Settled(s, saved[s]) /\ saved[s].gtid.to <= txns
    BY <1>0, <2>1 DEF SettledAtRest, Resting
  <2>3. Joins(saved) /\ Alike(saved)
    BY DEF QInv, JoinShape
  <2> QED
    BY <1>0, <2>1, <2>2, <2>3, ExitQuiet
<1>2. CASE Reconnect \/ Crash
  BY <1>0, <1>2 DEF Reconnect, Crash, Undisturbed, TypeOK
<1>3. CASE UNCHANGED vars
  <2>1. UNCHANGED <<log, txns, curFile, use_gtid, origin, saved, bm, pc, sel, next, fresh, end,
                    gtid_pos, executed, delivered, last>>
    BY <1>3 DEF vars, serverVars, envVars, stateVars, readerVars, outVars
  <2> QED
    BY <1>0, <2>1, MissingKept
       DEF QInv, JoinShape, Joins, LogShape, EndShape, GtidsGrow, SettledAtRest, Settled, Resting,
           ReaderBehind, EndBetween, Alike, Joined
<1> QED
  BY <1>0, <1>1, <1>2, <1>3, ServerQuiet, SnapshotQuiet, ToggleQuiet, StartRunQuiet, FetchQuiet,
     ReadQuiet, LoopQuiet, EndQuiet, ExhaustedQuiet
     DEF Next, RunStep

\* No step but ToggleGtid changes use_gtid.
LEMMA ConfigStep == ConfigKept /\ [Next]_vars => ConfigKept'
<1> SUFFICES ASSUME ConfigKept, [Next]_vars, MayToggleGtid = "never"
             PROVE  use_gtid' = use_gtid
  BY DEF ConfigKept
<1>1. CASE ServerNext \/ (\E s \in Streams : Snapshot(s)) \/ ToggleGtid \/ UNCHANGED vars
  BY <1>1 DEF ServerNext, Commit, RotateLog, PurgeLog, Snapshot, ToggleGtid, vars, envVars
<1>2. CASE StartRun \/ Reconnect \/ Crash
  BY <1>2 DEF StartRun, StartFromCoordinates, StartFromGtid, StartFails, StartAt, Reconnect, Crash,
              envVars
<1>3. CASE FetchEnd \/ ReaderFails \/ ReadFiltered \/ RotateEvent \/ GtidEvent
  BY <1>3 DEF FetchEnd, ReaderFails, ReadFiltered, RotateEvent, GtidEvent, EndOfIteration, envVars
<1>4. CASE RowsEvent \/ SkippedEvent \/ ReachedEnd \/ Exhausted
  BY <1>4 DEF RowsEvent, SkippedEvent, ReachedEnd, Exhausted, Finish, EndOfIteration, envVars
<1> QED
  BY <1>1, <1>2, <1>3, <1>4 DEF Next, RunStep

\* The invariant holds in every state.
LEMMA QuietInvariant ==
  ASSUME Undisturbed
  PROVE  Spec => []QInv
<1>1. Init => QInv /\ ConfigKept
  <2> SUFFICES ASSUME Init PROVE QInv /\ ConfigKept
    OBVIOUS
  <2>1. TypeOK
    BY TypeInit
  <2>2. Len(log) = 0 /\ pc = "off" /\ Joined = {}
    BY DEF Init, NoBookmark, Joined
  <2>3. LogShape /\ GtidsGrow /\ JoinShape
    BY <2>2, BinlogSyncAssumption DEF LogShape, GtidsGrow, JoinShape, Joins, Init, NoBookmark
  <2> QED
    BY <2>1, <2>2, <2>3
       DEF QInv, Init, EndShape, SettledAtRest, ReaderBehind, EndBetween, Alike, ConfigKept
<1>2. QInv /\ ConfigKept /\ [Next]_vars => QInv' /\ ConfigKept'
  BY QuietStep, ConfigStep
<1> QED
  BY <1>1, <1>2, PTL DEF Spec

\* Without faults nothing is skipped between runs, whatever mixes gtids and coordinates:
\* gtids that MariaDB infers, bookmarks with both, a switch of use_gtid for all streams
\* (calculate_gtid_bookmark, update_bookmarks).
THEOREM GtidsSkipNothing ==
  ASSUME Undisturbed
  PROVE  Spec => []NoSkipAtRest
<1>1. ASSUME QInv
      PROVE  NoSkipAtRest
  <2> SUFFICES ASSUME pc = "off", NEW s \in Joined, NEW i \in Owed(s)
               PROVE  ~PassedOver(saved[s], i)
    BY DEF NoSkipAtRest, NoSkip
  <2>1. /\ TypeOK /\ Settled(s, saved[s]) /\ s \in Streams
        /\ Len(log) \in Nat /\ saved[s].gtid.to \in Nat /\ saved[s].pos \in Nat
        /\ \A j \in 1 .. Len(log) : log[j].gtid \in Nat
    BY <1>1, QTypes DEF QInv, SettledAtRest, Resting, Joined
  <2>2. i \in Missing(s) /\ i \in 1 .. Len(log)
    BY DEF Owed, Missing
  <2>3. saved[s].gtid.to < log[i].gtid /\ \A j \in 1 .. saved[s].pos - 1 : j < i
    BY <2>1, <2>2 DEF Settled
  <2>4. saved[s].pos <= i
    <3>1. CASE saved[s].pos <= 1
      BY <2>1, <2>2, <3>1
    <3>2. CASE saved[s].pos > 1
      <4>1. saved[s].pos - 1 \in 1 .. saved[s].pos - 1
        BY <2>1, <3>2
      <4>2. saved[s].pos - 1 < i
        BY <2>3, <4>1
      <4> QED
        BY <2>1, <2>2, <4>2
    <3> QED
      BY <2>1, <3>1, <3>2
  <2> QED
    BY <2>1, <2>2, <2>3, <2>4 DEF PassedOver
<1> QED
  BY <1>1, QuietInvariant, PTL

\* Without faults a run that exits normally has brought the target the newest change below
\* the bookmark of each of its streams, although it replays older ones for the sake of the
\* stream furthest behind (_run_binlog_sync, sync_binlog_stream).
THEOREM QuietRunsCatchUp ==
  ASSUME Undisturbed, Contiguous
  PROVE  Spec => CaughtUp
<1>1. ASSUME QInv, QInv', [Next]_vars, pc = "loop", pc' = "off", exit' = 0,
             NEW s \in sel, NEW i \in origin[s] .. saved'[s].pos - 1, RowOf(s, i)
      PROVE  i <= last'[s]
  <2>1. log' = log /\ origin' = origin /\ s \in Streams /\ sel \subseteq Joined
    <3>1. ReachedEnd \/ Exhausted
      BY <1>1, EndsInOrder
    <3> QED
      BY <1>1, <3>1, QTypes DEF ReachedEnd, Exhausted, Finish, serverVars, envVars, QInv, ReaderBehind
  <2>2. s \in Joined'
    BY <1>1, <2>1, JoinedIs DEF QInv, JoinShape, Joins, Joined
  <2>3. Settled(s, saved[s])'
    BY <1>1, <2>2 DEF QInv, SettledAtRest, Resting
  <2>4. i \in 1 .. Len(log) /\ origin[s] <= i /\ i \in 1 .. saved'[s].pos - 1
    <3>1. i \in 1 .. Len(log)
      BY <1>1 DEF RowOf
    <3>2. saved'[s].pos \in Nat /\ origin[s] \in Nat
      <4>1. TypeOK /\ TypeOK'
        BY <1>1 DEF QInv
      <4>2. origin[s] \in Nat
        BY <2>1, <4>1, QTypes
      <4>3. saved'[s] \in Bookmark'
        BY <2>1, <4>1 DEF TypeOK
      <4>4. Bookmark' = [pos : 0 .. Len(log) + 1, gtid : Gtid]
        BY <2>1 DEF Bookmark
      <4>5. Len(log) \in Nat
        BY <4>1, Types
      <4> QED
        BY <4>2, <4>3, <4>4, <4>5
    <3> QED
      BY <1>1, <3>1, <3>2
  <2>5. last'[s] \in Nat
    BY <1>1, <2>1 DEF QInv, TypeOK
  <2>6. i \notin Missing(s)'
    BY <2>3, <2>4 DEF Settled
  <2> QED
    BY <1>1, <2>1, <2>4, <2>5, <2>6 DEF Missing, RowOf
<1>2. QInv /\ QInv' /\ [Next]_vars =>
        [pc = "loop" /\ pc' = "off" /\ exit' = 0 =>
           \A s \in sel : \A i \in origin[s] .. saved'[s].pos - 1 : RowOf(s, i) => i <= last'[s]]_vars
  BY <1>1
<1> QED
  BY <1>2, QuietInvariant, PTL DEF Spec, CaughtUp

-----------------------------------------------------------------------------
(* Runs with faults, by coordinates: a replay that is cut short is taken up   *)
(* again by a run of the same streams.                                        *)

\* The target has the newest change of s below p, of those since its snapshot.
CaughtTo(s, p) == \A i \in 1 .. Len(log) : RowOf(s, i) /\ origin[s] <= i /\ i < p => i <= last[s]

\* In a run each stream is caught up to the reader, between runs to some bookmark.
ReplayShape ==
  /\ pc = "off" => \A s \in Joined : \E t \in Joined : CaughtTo(s, saved[t].pos)
  /\ pc # "off" => /\ sel = Joined /\ log_pos <= reader_pos /\ reader_pos <= next
                   /\ \A s \in sel : CaughtTo(s, next)

\* The inductive invariant.
CInv == EInv /\ ReplayShape

\* A stream is caught up to earlier positions, too.
LEMMA CaughtDown ==
  ASSUME Len(log) \in Nat, NEW s, NEW p \in Nat, CaughtTo(s, p), NEW q \in Nat, q <= p
  PROVE  CaughtTo(s, q)
BY DEF CaughtTo

\* What is appended to the binlog comes after every position there was.
LEMMA CaughtAppend ==
  ASSUME Len(log) \in Nat, Len(log') \in Nat, \A i \in 1 .. Len(log) : log'[i] = log[i],
         UNCHANGED <<origin, last>>, NEW s, NEW p \in 0 .. Len(log) + 1, CaughtTo(s, p)
  PROVE  \A i \in 1 .. Len(log') : RowOf(s, i)' /\ origin[s] <= i /\ i < p => i <= last[s]
BY DEF CaughtTo, RowOf

\* The next event is no change of s, or the target has just applied it.
LEMMA CaughtNext ==
  ASSUME TypeOK, UNCHANGED <<log, origin>>, NEW s \in Streams, CaughtTo(s, next),
         \/ last'[s] = last[s] /\ ~RowOf(s, next)
         \/ last'[s] = next
  PROVE  \A i \in 1 .. Len(log') : RowOf(s, i)' /\ origin'[s] <= i /\ i < next + 1 => i <= last'[s]
<1>1. Len(log) \in Nat /\ next \in Nat /\ last[s] \in Nat
  BY Types, QTypes
<1> SUFFICES ASSUME NEW i \in 1 .. Len(log), RowOf(s, i), origin[s] <= i, i < next + 1
             PROVE  i <= last'[s]
  BY DEF RowOf
<1>2. CASE i = next
  BY <1>1, <1>2
<1>3. CASE i # next
  <2>1. i < next
    BY <1>1, <1>3
  <2>2. i <= last[s]
    BY <2>1 DEF CaughtTo
  <2> QED
    BY <1>1, <2>1, <2>2
<1> QED
  BY <1>2, <1>3

\* A run ends at a position that each of its streams is caught up to.
LEMMA EndCaughtUp ==
  ASSUME SameDigits, TypeOK, LogShape, EndShape, PositionInFile, ReplayShape, ReachedEnd \/ Exhausted
  PROVE  \E p \in 1 .. Len(log) + 1 : Finish(p) /\ \A s \in sel : CaughtTo(s, p)
<1>1. /\ pc = "loop" /\ Len(log) \in Nat /\ next \in 1 .. Len(log) + 1 /\ end \in 1 .. Len(log) + 1
      /\ log_pos \in 0 .. Len(log) + 1 /\ \A s \in sel : CaughtTo(s, next)
  BY Types DEF EndShape, ReachedEnd, Exhausted, Announces, Returns, ReplayShape
<1>2. CASE ReachedEnd
  <2>1. CASE end <= next
    BY <1>1, <1>2, <2>1, CaughtDown DEF ReachedEnd
  <2>2. CASE ~(end <= next)
    <3>1. next <= Len(log) /\ Reached(Report(next), end)
      <4>1. ~Reached(next, end)
        BY <1>1, <2>2, ReachedIsPast
      <4> QED
        BY <1>2, <4>1 DEF ReachedEnd, Returns
    <3>2. end = next + 1
      <4>1. Report(next) \in 1 .. Len(log) + 1 /\ Report(next) <= next + 1
        BY <3>1, ReportNext
      <4>2. end <= Report(next)
        BY <1>1, <3>1, <4>1, ReachedIsPast
      <4> QED
        BY <1>1, <2>2, <4>1, <4>2
    <3>3. log[next].kind # "row"
      BY <1>1, <3>2 DEF EndShape
    <3>4. \A s \in sel : CaughtTo(s, end)
      <4> SUFFICES ASSUME NEW s \in sel, NEW i \in 1 .. Len(log),
                          RowOf(s, i), origin[s] <= i, i < end
                   PROVE  i <= last[s]
        BY DEF CaughtTo
      <4>1. i # next
        BY <3>3 DEF RowOf
      <4>2. i < next
        BY <1>1, <3>2, <4>1
      <4> QED
        BY <1>1, <4>2 DEF CaughtTo
    <3> QED
      BY <1>1, <1>2, <3>4 DEF ReachedEnd
  <2> QED
    BY <2>1, <2>2
<1>3. CASE Exhausted
  <2>1. next = Len(log) + 1 /\ log_pos # 0 /\ Finish(AdvanceToEnd(log_pos))
    BY <1>1, <1>3 DEF Exhausted, PositionInFile
  <2>2. AdvanceToEnd(log_pos) \in 1 .. Len(log) + 1
    BY <1>1, <2>1 DEF AdvanceToEnd
  <2>3. \A s \in sel : CaughtTo(s, AdvanceToEnd(log_pos))
    BY <1>1, <2>1, <2>2, CaughtDown
  <2> QED
    BY <2>1, <2>2, <2>3
<1> QED
  BY <1>2, <1>3

\* Each step keeps streams caught up.
LEMMA ReplayStep ==
  ASSUME CoordinatesOnly, ~MayDeselect, CInv, [Next]_vars
  PROVE  ReplayShape'
<1>0. /\ TypeOK /\ TypeOK' /\ JoinShape /\ JoinShape' /\ LogShape /\ EndShape /\ RunFloored
      /\ PositionInFile /\ ReaderCovered /\ ReplayShape /\ ~use_gtid /\ SameDigits
  <2>1. RInv /\ RInv'
    BY JoinStep DEF CInv, EInv
  <2> QED
    BY <2>1 DEF CInv, EInv, RInv, IInv, CoordinatesOnly
<1>1. /\ Len(log) \in Nat /\ next \in 1 .. Len(log) + 1 /\ reader_pos \in 1 .. Len(log) + 1
      /\ log_pos \in 0 .. Len(log) + 1 /\ end \in 0 .. Len(log) + 1
      /\ Joined = {s \in Streams : origin[s] # 0}
      /\ \A s \in Streams : saved[s].pos \in 0 .. Len(log) + 1 /\ bm[s].pos \in 0 .. Len(log) + 1
  BY <1>0, Types, QTypes, JoinedIs
<1>2. ASSUME origin' = origin
      PROVE  Joined' = Joined
  BY <1>0, <1>1, <1>2 DEF JoinShape, Joins, Joined
<1>3. CASE ServerNext
  <2>1. UNCHANGED <<origin, last, saved, pc, sel, next, reader_pos, log_pos>>
    BY <1>3 DEF ServerNext, Commit, RotateLog, PurgeLog, envVars, outVars, stateVars, readerVars
  <2>2. Len(log') \in Nat /\ \A i \in 1 .. Len(log) : log'[i] = log[i]
    <3>1. CASE \E tx \in Changes : Commit(tx)
      <4>1. PICK tx \in Changes : Commit(tx)
        BY <3>1
      <4> DEFINE t == Transaction(tx, txns + 1)
      <4>2. t \in Seq(EventType) /\ log \in Seq(EventType) /\ Len(t) \in Nat
        <5>1. txns + 1 \in Nat /\ curFile \in Nat /\ log \in Seq(EventType)
          BY <1>0 DEF TypeOK
        <5>2. t \in Seq(EventType)
          BY <5>1, TransactionType
        <5> HIDE DEF t
        <5> QED
          BY <5>1, <5>2
      <4>3. log' = log \o t
        BY <4>1 DEF Commit
      <4> HIDE DEF t
      <4>4. /\ Len(log \o t) = Len(log) + Len(t)
            /\ \A i \in 1 .. Len(log) + Len(t) :
                 (log \o t)[i] = IF i <= Len(log) THEN log[i] ELSE t[i - Len(log)]
        BY <4>2, ConcatProperties, Zenon
      <4> QED
        BY <1>1, <4>2, <4>3, <4>4
    <3>2. CASE RotateLog
      <4>1. log \in Seq(EventType)
        BY <1>0 DEF TypeOK
      <4> QED
        BY <1>1, <3>2, <4>1 DEF RotateLog
    <3>3. CASE PurgeLog
      BY <1>1, <3>3 DEF PurgeLog
    <3> QED
      BY <1>3, <3>1, <3>2, <3>3 DEF ServerNext
  <2>3. ASSUME NEW s, NEW p \in 0 .. Len(log) + 1, CaughtTo(s, p)
        PROVE  \A i \in 1 .. Len(log') : RowOf(s, i)' /\ origin[s] <= i /\ i < p => i <= last[s]
    BY <1>1, <2>1, <2>2, <2>3, CaughtAppend
  <2>4. ASSUME NEW s, NEW t \in Streams, CaughtTo(s, saved[t].pos)
        PROVE  CaughtTo(s, saved[t].pos)'
    BY <1>1, <2>1, <2>3, <2>4 DEF CaughtTo
  <2>5. ASSUME NEW s, CaughtTo(s, next)
        PROVE  CaughtTo(s, next)'
    <3>1. next \in 0 .. Len(log) + 1
      BY <1>1
    <3>2. \A i \in 1 .. Len(log') : RowOf(s, i)' /\ origin[s] <= i /\ i < next => i <= last[s]
      BY <2>3, <2>5, <3>1
    <3> QED
      BY <2>1, <3>2 DEF CaughtTo
  <2> QED
    BY <1>0, <1>1, <1>2, <2>1, <2>4, <2>5 DEF ReplayShape
<1>4. ASSUME NEW s0 \in Streams, Snapshot(s0)
      PROVE  ReplayShape'
  <2>1. /\ pc = "off" /\ pc' = "off" /\ UNCHANGED <<log, last>> /\ s0 \notin Joined
        /\ origin'[s0] = Len(log) + 1
        /\ \A s \in Streams : s # s0 => saved'[s] = saved[s] /\ origin'[s] = origin[s]
    BY <1>0, <1>1, <1>4 DEF Snapshot, serverVars, outVars, TypeOK
  <2>2. Joined' = Joined \cup {s0}
    BY <1>0, <1>1, <2>1 DEF JoinShape, Joins, Joined
  <2>3. ASSUME NEW s \in Joined'
        PROVE  \E t \in Joined' : CaughtTo(s, saved[t].pos)'
    <3>1. CASE s = s0
      <4>1. CaughtTo(s, saved[s0].pos)'
        BY <1>1, <2>1, <3>1 DEF CaughtTo
      <4> QED
        BY <2>2, <4>1
    <3>2. CASE s # s0
      <4>1. PICK t \in Joined : CaughtTo(s, saved[t].pos)
        BY <1>0, <2>1, <2>2, <3>2 DEF ReplayShape
      <4>2. t # s0 /\ t \in Streams /\ s \in Streams
        BY <1>1, <2>1, <2>2
      <4>3. CaughtTo(s, saved[t].pos)'
        BY <2>1, <3>2, <4>1, <4>2 DEF CaughtTo, RowOf
      <4> QED
        BY <2>2, <4>3
    <3> QED
      BY <3>1, <3>2
  <2> QED
    BY <2>1, <2>3 DEF ReplayShape
<1>5. CASE ToggleGtid
  BY <1>5 DEF ToggleGtid, CoordinatesOnly
<1>6. CASE StartRun
  <2>1. PICK S \in Selection : StartFromCoordinates(S) \/ StartFails(S)
    BY <1>0, <1>6 DEF StartRun, StartFromGtid
  <2>2. S = Joined
    BY DEF Selection
  <2>3. CASE StartFails(S)
    BY <1>0, <1>2, <2>3
       DEF StartFails, ReplayShape, CaughtTo, RowOf, serverVars, envVars, stateVars, readerVars, outVars
  <2>4. CASE StartFromCoordinates(S)
    <3>1. PICK m \in S : IsMinBookmark(S, saved[m].pos) /\ StartAt(S, saved[m].pos, NoGtid) /\ pc = "off"
      BY <2>4 DEF StartFromCoordinates
    <3>2. /\ pc' = "start" /\ sel' = S /\ next' = saved[m].pos /\ reader_pos' = saved[m].pos
          /\ log_pos' = 0 /\ UNCHANGED <<log, origin, last>>
      BY <1>0, <3>1 DEF StartAt, serverVars, envVars, outVars, ReaderCovered
    <3>3. \A x \in Joined : x \in Streams /\ saved[x].pos \in 1 .. Len(log) + 1
      BY <1>1 DEF Joined
    <3>4. ASSUME NEW s \in Joined
          PROVE  CaughtTo(s, saved[m].pos)
      <4>1. PICK t \in Joined : CaughtTo(s, saved[t].pos)
        BY <1>0, <3>1 DEF ReplayShape
      <4>2. Reached(saved[t].pos, saved[m].pos)
        BY <2>2, <3>1 DEF IsMinBookmark
      <4>3. saved[m].pos <= saved[t].pos
        BY <1>0, <2>2, <3>3, <4>2, ReachedIsPast
      <4> QED
        BY <1>1, <2>2, <3>3, <4>1, <4>3, CaughtDown
    <3>5. \A s \in Joined : CaughtTo(s, next)'
      BY <3>2, <3>4 DEF CaughtTo, RowOf
    <3>6. 0 <= saved[m].pos /\ saved[m].pos <= saved[m].pos
      BY <1>1, <2>2, <3>3
    <3> QED
      BY <1>2, <2>2, <3>2, <3>5, <3>6 DEF ReplayShape
  <2> QED
    BY <2>1, <2>3, <2>4
<1>7. CASE FetchEnd
  BY <1>0, <1>2, <1>7 DEF FetchEnd, ReplayShape, CaughtTo, RowOf, serverVars, envVars, outVars
<1>8. CASE ReaderFails \/ Crash
  <2>1. pc # "off" /\ pc' = "off" /\ UNCHANGED <<log, origin, last, saved>>
    BY <1>8 DEF ReaderFails, Crash, Exit, serverVars, envVars, outVars
  <2>2. PICK t \in Streams : saved[t].pos # 0 /\ saved[t].pos <= next
    BY <1>0, <1>1, <2>1 DEF RunFloored, Floored
  <2>3. t \in Joined
    BY <2>2 DEF Joined
  <2>4. ASSUME NEW s \in Joined
        PROVE  CaughtTo(s, saved[t].pos)
    <3>1. CaughtTo(s, next) /\ next \in Nat /\ saved[t].pos \in Nat
      BY <1>0, <1>1, <2>1 DEF ReplayShape
    <3> QED
      BY <1>1, <2>2, <3>1, CaughtDown
  <2>5. \A s \in Joined : CaughtTo(s, saved[t].pos)'
    BY <2>1, <2>4 DEF CaughtTo, RowOf
  <2> QED
    BY <1>2, <2>1, <2>3, <2>5 DEF ReplayShape
<1>9. CASE Reconnect
  <2>1. /\ pc = "loop" /\ next' = reader_pos
        /\ UNCHANGED <<log, origin, last, pc, sel, reader_pos, log_pos>>
    BY <1>0, <1>9 DEF Reconnect, serverVars, outVars
  <2>2. \A s \in sel : CaughtTo(s, reader_pos)
    BY <1>0, <1>1, <2>1, CaughtDown DEF ReplayShape
  <2>3. \A s \in sel : CaughtTo(s, next)'
    BY <2>1, <2>2 DEF CaughtTo, RowOf
  <2>4. /\ pc' # "off" /\ sel' = Joined'
        /\ log_pos' <= reader_pos' /\ reader_pos' <= next'
    <3>1. sel = Joined /\ log_pos <= reader_pos /\ reader_pos <= reader_pos
      BY <1>0, <1>1, <2>1 DEF ReplayShape
    <3>2. Joined' = Joined
      BY <1>2, <2>1
    <3> QED
      BY <2>1, <3>1, <3>2
  <2> QED
    BY <2>1, <2>3, <2>4 DEF ReplayShape
<1>10. ASSUME pc = "loop", UNCHANGED <<log, origin, pc, sel>>,
              log_pos' <= reader_pos', reader_pos' <= next',
              \/ next' = next /\ last' = last
              \/ /\ next' = next + 1
                 /\ \A s \in sel : (last'[s] = last[s] /\ ~RowOf(s, next)) \/ last'[s] = next
       PROVE  ReplayShape'
  <2>1. ASSUME NEW s \in sel
        PROVE  CaughtTo(s, next)'
    <3>1. CaughtTo(s, next) /\ s \in Streams
      BY <1>0, <1>1, <1>10, <2>1 DEF ReplayShape
    <3>2. CASE next' = next /\ last' = last
      BY <1>10, <3>1, <3>2 DEF CaughtTo, RowOf
    <3>3. CASE next' = next + 1 /\ ((last'[s] = last[s] /\ ~RowOf(s, next)) \/ last'[s] = next)
      <4>1. \A i \in 1 .. Len(log') :
              RowOf(s, i)' /\ origin'[s] <= i /\ i < next + 1 => i <= last'[s]
        BY <1>0, <1>10, <3>1, <3>3, CaughtNext
      <4> QED
        BY <3>3, <4>1 DEF CaughtTo
    <3> QED
      BY <1>10, <2>1, <3>2, <3>3
  <2> QED
    BY <1>0, <1>2, <1>10, <2>1 DEF ReplayShape
<1>11. ASSUME next <= Len(log), pc = "loop"
       PROVE  Report(next) <= next + 1 /\ log_pos <= Report(next)
  <2>1. /\ Report(next) \in 1 .. Len(log) + 1
        /\ next <= Report(next) /\ Report(next) <= next + 1
    BY <1>0, <1>11, ReportNext
  <2>2. log_pos <= reader_pos /\ reader_pos <= next
    BY <1>0, <1>11 DEF ReplayShape
  <2> QED
    BY <1>1, <2>1, <2>2
<1>12. CASE ReadFiltered
  <2>1. /\ pc = "loop" /\ UNCHANGED <<log, origin, pc, sel, last, log_pos>>
    BY <1>12 DEF ReadFiltered, serverVars, envVars, outVars
  <2>2. /\ ~fresh /\ next <= Len(log) /\ ~Surfaces(log[next])
        /\ next' = next + 1 /\ reader_pos' = Report(next)
    BY <1>0, <1>12 DEF ReadFiltered
  <2>3. \A s \in sel : ~RowOf(s, next)
    BY <1>0, <2>2 DEF Surfaces, RowOf
  <2> QED
    BY <1>1, <1>10, <1>11, <2>1, <2>2, <2>3
<1>13. CASE RotateEvent
  <2>1. /\ pc = "loop" /\ UNCHANGED <<log, origin, pc, sel, last>>
        /\ reader_pos' = next' /\ log_pos' = next'
    BY <1>13 DEF RotateEvent, EndOfIteration, Announces, Returns, serverVars, envVars, outVars
  <2>2. \/ next' = next
        \/ next' = next + 1 /\ log[next].kind = "rotate"
    BY <1>13 DEF RotateEvent
  <2>3. log[next].kind = "rotate" => \A s \in sel : ~RowOf(s, next)
    BY DEF RowOf
  <2>4. next' \in Nat
    BY <1>1, <2>2
  <2> QED
    BY <1>1, <1>10, <2>1, <2>2, <2>3, <2>4
<1>14. CASE GtidEvent \/ RowsEvent \/ SkippedEvent
  <2>1. /\ pc = "loop" /\ next <= Len(log) /\ UNCHANGED <<log, origin, pc, sel>>
        /\ next' = next + 1 /\ reader_pos' = Report(next) /\ log_pos' = Report(next)
    BY <1>14 DEF GtidEvent, RowsEvent, SkippedEvent, EndOfIteration, Returns, serverVars, envVars
  <2>2. ASSUME NEW s \in sel
        PROVE  (last'[s] = last[s] /\ ~RowOf(s, next)) \/ last'[s] = next
    <3>1. CASE GtidEvent
      BY <3>1 DEF GtidEvent, RowOf, outVars
    <3>2. CASE SkippedEvent
      BY <3>2 DEF SkippedEvent, RowOf, outVars
    <3>3. CASE RowsEvent
      <4>1. last' = [last EXCEPT ![log[next].table] = next] /\ last \in [Streams -> 0 .. Len(log)]
        BY <1>0, <3>3 DEF RowsEvent, WriteRecords, TypeOK
      <4>2. s \in Streams
        BY <1>0 DEF TypeOK
      <4> QED
        BY <4>1, <4>2 DEF RowOf
    <3> QED
      BY <1>14, <3>1, <3>2, <3>3
  <2>3. Report(next) <= next + 1 /\ Report(next) \in Nat
    BY <1>0, <1>1, <2>1, ReportNext
  <2> QED
    BY <1>10, <2>1, <2>2, <2>3
<1>15. CASE ReachedEnd \/ Exhausted
  <2>1. PICK p \in 1 .. Len(log) + 1 : Finish(p) /\ \A s \in sel : CaughtTo(s, p)
    BY <1>0, <1>15, EndCaughtUp
  <2>2. /\ pc' = "off" /\ UNCHANGED <<log, origin, last>> /\ sel = Joined
        /\ \A s \in sel : saved'[s].pos = p
    <3>1. pc = "loop" /\ UNCHANGED <<log, origin, last>>
      BY <1>15, <2>1
         DEF ReachedEnd, Exhausted, Finish, Announces, Returns, serverVars, envVars, outVars
    <3>2. sel = Joined
      BY <1>0, <3>1 DEF ReplayShape
    <3>3. ASSUME NEW s \in Streams
          PROVE  pc' = "off" /\ saved'[s].pos = IF p # 0 /\ s \in sel THEN p ELSE bm[s].pos
      BY <2>1, FinishAt
    <3>4. p # 0 /\ sel \subseteq Streams
      BY <1>1, <3>2
    <3>5. pc' = "off"
      BY <2>1 DEF Finish, Exit
    <3> QED
      BY <3>1, <3>2, <3>3, <3>4, <3>5
  <2>3. \A s \in Joined : CaughtTo(s, saved[s].pos)'
    BY <2>1, <2>2 DEF CaughtTo, RowOf
  <2> QED
    BY <1>2, <2>2, <2>3 DEF ReplayShape
<1>16. CASE UNCHANGED vars
  BY <1>0, <1>2, <1>16
     DEF vars, serverVars, envVars, stateVars, readerVars, outVars, ReplayShape, CaughtTo, RowOf
<1> QED
  BY <1>3, <1>4, <1>5, <1>6, <1>7, <1>8, <1>9, <1>12, <1>13, <1>14, <1>15, <1>16 DEF Next, RunStep

\* The invariant of runs that are taken up again.
LEMMA ReplayInvariant ==
  ASSUME CoordinatesOnly, ~MayDeselect
  PROVE  Spec => []CInv
<1>1. Init => ReplayShape
  BY DEF Init, NoBookmark, Joined, ReplayShape
<1>2. EInv /\ EInv' /\ ReplayShape /\ [Next]_vars => ReplayShape'
  BY ReplayStep DEF CInv
<1> QED
  BY <1>1, <1>2, EndInvariant, PTL DEF Spec, CInv

\* However often a run by coordinates is cut short, one that exits normally has brought
\* the target the newest change below the bookmark of each of its streams: what a replay
\* made older again, the rest of the replay brings back. Every run reads the same streams
\* here, for one that leaves some out keeps the others as the cut left them
\* (_run_binlog_sync, sync_binlog_stream).
THEOREM ReplaysCatchUp ==
  ASSUME CoordinatesOnly, ~MayDeselect
  PROVE  Spec => CaughtUp
<1>1. ASSUME CInv, [Next]_vars, pc = "loop", pc' = "off", exit' = 0,
             NEW s \in sel, NEW i \in origin[s] .. saved'[s].pos - 1, RowOf(s, i)
      PROVE  i <= last'[s]
  <2>1. /\ SameDigits /\ TypeOK /\ LogShape /\ EndShape /\ PositionInFile /\ ReplayShape
        /\ s \in Streams
    BY <1>1 DEF CInv, EInv, RInv, IInv, CoordinatesOnly, TypeOK
  <2>2. ReachedEnd \/ Exhausted
    BY <1>1, EndsInOrder
  <2>3. PICK p \in 1 .. Len(log) + 1 : Finish(p) /\ \A t \in sel : CaughtTo(t, p)
    BY <2>1, <2>2, EndCaughtUp
  <2>4. last' = last /\ saved'[s].pos = p
    BY <1>1, <2>1, <2>3, QTypes, FinishAt DEF Finish, outVars
  <2>5. i \in 1 .. Len(log) /\ origin[s] <= i /\ i < p
    <3>1. i \in 1 .. Len(log) /\ Len(log) \in Nat /\ origin[s] \in Nat
      BY <1>1, <2>1, QTypes DEF RowOf
    <3> QED
      BY <1>1, <2>4, <3>1
  <2> QED
    BY <1>1, <2>3, <2>4, <2>5 DEF CaughtTo
<1>2. CInv /\ [Next]_vars =>
        [pc = "loop" /\ pc' = "off" /\ exit' = 0 =>
           \A s \in sel : \A i \in origin[s] .. saved'[s].pos - 1 : RowOf(s, i) => i <= last'[s]]_vars
  BY <1>1
<1> QED
  BY <1>2, ReplayInvariant, PTL DEF Spec, CaughtUp
=============================================================================
