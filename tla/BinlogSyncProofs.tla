-------------------------- MODULE BinlogSyncProofs --------------------------
(* Theorems about BinlogSync, for every value of its constants.             *)
EXTENDS BinlogSync, SequenceTheorems, TLAPS

-----------------------------------------------------------------------------
(* What the server appends.                                                 *)

\* A function on 1 .. n is a sequence.
LEMMA FunctionIsSeq ==
  ASSUME NEW n \in Nat, NEW S, NEW f \in [1 .. n -> S]
  PROVE  f \in Seq(S) /\ Len(f) = n
<1>1. f \in Seq(S)
  BY SeqDef, Zenon
<1>2. DOMAIN f = 1 .. n /\ Len(f) \in Nat /\ DOMAIN f = 1 .. Len(f)
  BY <1>1, LenProperties, Zenon
<1> QED
  BY <1>1, <1>2

\* The row events of a transaction form a sequence.
LEMMA ChangesType ==
  ASSUME NEW tx \in Changes
  PROVE  /\ tx \in Seq([table : Streams, rows : RowCounts])
         /\ Len(tx) \in Nat
         /\ tx \in [1 .. Len(tx) -> [table : Streams, rows : RowCounts]]
<1> DEFINE T == [table : Streams, rows : RowCounts]
<1>1. PICK n \in 1 .. MaxRowEvents : tx \in [1 .. n -> T]
  BY DEF Changes
<1>2. n \in Nat
  BY BinlogSyncAssumption
<1> HIDE DEF T
<1>3. tx \in Seq(T)
  BY <1>1, <1>2, SeqDef, Zenon
<1>4. tx \in Seq(T) /\ Len(tx) \in Nat /\ tx \in [1 .. Len(tx) -> T]
  BY <1>3, LenProperties, Zenon
<1> QED
  BY <1>4 DEF T

\* A transaction is a sequence of events of one gtid, in the file being written, that
\* ends with its commit.
LEMMA TransactionType ==
  ASSUME NEW tx \in Changes, NEW g \in Nat, curFile \in Nat
  PROVE  /\ Transaction(tx, g) \in Seq(EventType)
         /\ Len(Transaction(tx, g)) = Len(tx) + 2
         /\ Len(tx) \in Nat
         /\ Transaction(tx, g)[Len(tx) + 2].kind = "xid"
         /\ \A i \in 1 .. Len(tx) + 2 : Transaction(tx, g)[i].file = curFile /\ Transaction(tx, g)[i].gtid = g
<1> DEFINE rows == [i \in 1 .. Len(tx) |-> Event("row", tx[i].table, tx[i].rows, g)]
           first == <<Event("gtid", NoTable, 0, g)>>
           commit == <<Event("xid", NoTable, 0, g)>>
<1>1. Len(tx) \in Nat /\ tx \in [1 .. Len(tx) -> [table : Streams, rows : RowCounts]]
  BY ChangesType, Zenon
<1>2. /\ Event("gtid", NoTable, 0, g) \in EventType
      /\ Event("xid", NoTable, 0, g) \in EventType
  BY DEF Event, EventType
<1>3. \A i \in 1 .. Len(tx) : Event("row", tx[i].table, tx[i].rows, g) \in EventType
  <2> TAKE i \in 1 .. Len(tx)
  <2>1. tx[i] \in [table : Streams, rows : RowCounts]
    BY <1>1
  <2>2. tx[i].table \in Streams /\ tx[i].rows \in Nat
    BY <2>1, BinlogSyncAssumption
  <2> QED
    BY <2>2 DEF Event, EventType
<1>4. rows \in [1 .. Len(tx) -> EventType]
  BY <1>3
<1>5. first \in Seq(EventType) /\ Len(first) = 1 /\ commit \in Seq(EventType) /\ Len(commit) = 1
  BY <1>2
<1>6. \A i \in 1 .. Len(tx) : rows[i].file = curFile /\ rows[i].gtid = g
  BY DEF Event
<1>7. /\ first[1].file = curFile /\ commit[1].file = curFile /\ commit[1].kind = "xid"
      /\ first[1].gtid = g /\ commit[1].gtid = g
  BY DEF Event
<1>8. Transaction(tx, g) = (first \o rows) \o commit
  BY DEF Transaction
<1>9. Len(rows) = Len(tx)
  BY <1>1
<1> HIDE DEF first, rows, commit
<1>10. rows \in Seq(EventType)
  BY <1>1, <1>4, FunctionIsSeq, Zenon
<1>11. /\ first \o rows \in Seq(EventType)
       /\ Len(first \o rows) = Len(first) + Len(rows)
       /\ \A i \in 1 .. Len(first) + Len(rows) :
            (first \o rows)[i] = IF i <= Len(first) THEN first[i] ELSE rows[i - Len(first)]
  BY <1>10, <1>5, ConcatProperties, Zenon
<1>12. Len(first \o rows) = Len(tx) + 1
  BY <1>1, <1>9, <1>5, <1>11
<1>13. ASSUME NEW i \in 1 .. Len(tx) + 1
       PROVE  (first \o rows)[i].file = curFile /\ (first \o rows)[i].gtid = g
  <2>1. CASE i = 1
    BY <2>1, <1>1, <1>9, <1>5, <1>7, <1>11
  <2>2. CASE i # 1
    <3>1. i - 1 \in 1 .. Len(tx)
      BY <2>2, <1>1
    <3>2. (first \o rows)[i] = rows[i - 1]
      BY <2>2, <1>1, <1>9, <1>5, <1>11
    <3> QED
      BY <3>1, <3>2, <1>6
  <2> QED
    BY <2>1, <2>2
<1> DEFINE body == first \o rows
<1>14. body \in Seq(EventType)
  BY <1>11
<1>15. /\ Len(body) = Len(tx) + 1
       /\ \A i \in 1 .. Len(tx) + 1 : body[i].file = curFile /\ body[i].gtid = g
  BY <1>12, <1>13
<1>16. Transaction(tx, g) = body \o commit
  BY <1>8
<1> HIDE DEF body
<1>17. /\ body \o commit \in Seq(EventType)
       /\ Len(body \o commit) = Len(body) + Len(commit)
       /\ \A i \in 1 .. Len(body) + Len(commit) :
            (body \o commit)[i] = IF i <= Len(body) THEN body[i] ELSE commit[i - Len(body)]
  BY <1>5, <1>14, ConcatProperties, Zenon
<1>18. Len(body \o commit) = Len(tx) + 2 /\ (body \o commit)[Len(tx) + 2] = commit[1]
  BY <1>1, <1>5, <1>17, <1>15
<1>19. ASSUME NEW i \in 1 .. Len(tx) + 2
       PROVE  (body \o commit)[i].file = curFile /\ (body \o commit)[i].gtid = g
  <2>1. CASE i <= Len(tx) + 1
    BY <2>1, <1>1, <1>5, <1>17, <1>15
  <2>2. CASE i = Len(tx) + 2
    <3>1. (body \o commit)[i] = commit[1]
      BY <2>2, <1>18
    <3> QED
      BY <3>1, <1>7
  <2>3. i <= Len(tx) + 1 \/ i = Len(tx) + 2
    BY <1>1
  <2> QED
    BY <2>1, <2>2, <2>3, Zenon
<1> QED
  BY <1>1, <1>7, <1>17, <1>16, <1>18, <1>19

-----------------------------------------------------------------------------
(* Type correctness.                                                        *)

\* The counters stay in 0 .. UPDATE_BOOKMARK_PERIOD.
LEMMA CountType ==
  ASSUME NEW c \in 0 .. UPDATE_BOOKMARK_PERIOD, NEW n \in Nat
  PROVE  Count(c, n) \in 0 .. UPDATE_BOOKMARK_PERIOD
<1> DEFINE P == UPDATE_BOOKMARK_PERIOD
<1>1. P \in Nat \ {0}
  BY BinlogSyncAssumption
<1>2. CASE n = 0
  BY <1>2 DEF Count
<1>3. CASE n # 0
  <2>1. c + n - 1 \in Nat
    BY <1>3, <1>1
  <2> DEFINE m == (c + n - 1) % P
  <2>2. m \in 0 .. P - 1
    BY <2>1, <1>1
  <2>3. Count(c, n) = m + 1
    BY <1>3 DEF Count
  <2> QED
    BY <2>2, <2>3, <1>1
<1> QED
  BY <1>2, <1>3

\* Gtids are intervals of numbers.
LEMMA GtidTypes ==
  /\ NoGtid \in Gtid
  /\ \A n \in Nat : Whole(n) \in Gtid /\ EventGtid(n) \in Gtid
BY DEF NoGtid, Gtid, Whole, EventGtid

\* update_bookmarks keeps the type of the bookmarks.
LEMMA UpdateBookmarksType ==
  ASSUME TypeOK, NEW b \in [Streams -> Bookmark], NEW p \in 0 .. Len(log) + 1, NEW g \in Gtid
  PROVE  UpdateBookmarks(b, p, g) \in [Streams -> Bookmark]
BY DEF UpdateBookmarks, Bookmark

\* What the server appends to the binlog leaves every other type as it was.
LEMMA LogGrowsType ==
  ASSUME TypeOK, log' \in Seq(EventType), Len(log') \in Nat, Len(log) <= Len(log'),
         txns' \in Nat, curFile' \in Nat,
         UNCHANGED <<firstFile, envVars, stateVars, exit, pc, readerVars, countVars, outVars>>
  PROVE  TypeOK'
<1>1. Len(log) \in Nat
  BY DEF TypeOK
<1>2. 0 .. Len(log) \subseteq 0 .. Len(log') /\ 0 .. Len(log) + 1 \subseteq 0 .. Len(log') + 1
      /\ 1 .. Len(log) \subseteq 1 .. Len(log') /\ 1 .. Len(log) + 1 \subseteq 1 .. Len(log') + 1
  BY <1>1
<1>3. Bookmark \subseteq Bookmark'
  BY <1>2 DEF Bookmark
<1>4. saved' \in [Streams -> Bookmark'] /\ bm' \in [Streams -> Bookmark']
  BY <1>3 DEF TypeOK, stateVars
<1>5. last' \in [Streams -> 0 .. Len(log')] /\ delivered' \subseteq 1 .. Len(log')
  BY <1>2 DEF TypeOK, outVars
<1> QED
  BY <1>2, <1>4, <1>5 DEF TypeOK, envVars, readerVars, countVars

\* The end of the process leaves every variable in its type.
LEMMA ExitType ==
  ASSUME TypeOK, NEW status \in {0, 1}, NEW state \in [Streams -> Bookmark],
         Exit(status, state), faults' \in Nat, UNCHANGED <<serverVars, use_gtid, origin, outVars>>
  PROVE  TypeOK'
<1>1. Bookmark' = Bookmark /\ log' = log
  BY DEF Bookmark, serverVars
<1>2. Len(log) \in Nat
  BY DEF TypeOK
<1>3. pc' = "off" /\ exit' \in {0, 1} /\ sel' = {} /\ fresh' = FALSE
  BY DEF Exit
<1>4. {next, reader_pos}' \subseteq 1 .. Len(log) + 1 /\ end' \in 0 .. Len(log) + 1
  BY <1>2 DEF Exit
<1>5. log_pos' \in 0 .. Len(log) + 1 /\ {gtid_pos, executed}' \subseteq Gtid
  BY <1>2, GtidTypes DEF Exit
<1>6. processed' \in 0 .. UPDATE_BOOKMARK_PERIOD /\ skipped' \in 0 .. UPDATE_BOOKMARK_PERIOD
  BY BinlogSyncAssumption DEF Exit
<1>7. saved' \in [Streams -> Bookmark] /\ bm' \in [Streams -> Bookmark]
  BY DEF Exit
<1> QED
  BY <1>1, <1>3, <1>4, <1>5, <1>6, <1>7 DEF TypeOK, serverVars, outVars

\* What the binlog holds are events.
LEMMA EventTyped ==
  ASSUME TypeOK, NEW i \in 1 .. Len(log)
  PROVE  log[i] \in EventType
<1>1. log \in Seq(EventType)
  BY DEF TypeOK
<1> QED
  BY <1>1, ElementOfSeq, Zenon

\* A reported position is a position of the log.
LEMMA ReportType ==
  ASSUME TypeOK, NEW i \in 1 .. Len(log)
  PROVE  Report(i) \in 1 .. Len(log) + 1
<1>1. Len(log) \in Nat
  BY DEF TypeOK
<1> QED
  BY <1>1 DEF Report

\* The end of an iteration leaves every variable in its type.
LEMMA IterationType ==
  ASSUME TypeOK, NEW b \in [Streams -> Bookmark], NEW p \in 1 .. Len(log) + 1, NEW g \in Gtid,
         NEW pr \in 0 .. UPDATE_BOOKMARK_PERIOD, NEW sk \in 0 .. UPDATE_BOOKMARK_PERIOD,
         EndOfIteration(b, p, g, pr, sk),
         next' \in 1 .. Len(log) + 1, fresh' \in BOOLEAN,
         delivered' \subseteq 1 .. Len(log), last' \in [Streams -> 0 .. Len(log)]
  PROVE  TypeOK'
<1>1. Bookmark' = Bookmark /\ log' = log
  BY DEF Bookmark, EndOfIteration, serverVars
<1>2. Len(log) \in Nat /\ p \in 0 .. Len(log) + 1
  BY DEF TypeOK
<1>3. UpdateBookmarks(b, p, g) \in [Streams -> Bookmark]
  BY <1>2, UpdateBookmarksType
<1>4. bm' \in [Streams -> Bookmark] /\ saved' \in [Streams -> Bookmark]
  BY <1>3 DEF EndOfIteration, TypeOK
<1> QED
  BY <1>1, <1>2, <1>4 DEF TypeOK, EndOfIteration, serverVars, envVars

\* Every variable keeps its type in every behaviour.
LEMMA TypeInit == Init => TypeOK
<1> SUFFICES ASSUME Init
             PROVE  TypeOK
  OBVIOUS
<1>1. Len(log) = 0 /\ log \in Seq(EventType)
  BY DEF Init
<1>2. NoBookmark \in Bookmark
  BY <1>1, GtidTypes DEF NoBookmark, Bookmark
<1>3. {next, reader_pos} \subseteq 1 .. Len(log) + 1 /\ 0 \in 0 .. Len(log) + 1 /\ 0 \in 0 .. Len(log)
  BY <1>1 DEF Init
<1>4. 0 \in 0 .. UPDATE_BOOKMARK_PERIOD /\ FirstFile \in Nat /\ UseGtid \in BOOLEAN
  BY BinlogSyncAssumption
<1>5. saved \in [Streams -> Bookmark] /\ bm \in [Streams -> Bookmark]
  BY <1>2 DEF Init
<1> QED
  BY <1>1, <1>3, <1>4, <1>5, GtidTypes DEF Init, TypeOK

\* Every step keeps every variable in its type.
LEMMA TypeStep == TypeOK /\ [Next]_vars => TypeOK'
<1> SUFFICES ASSUME TypeOK, [Next]_vars
             PROVE  TypeOK'
  OBVIOUS
<1>0. Len(log) \in Nat /\ log \in Seq(EventType) /\ curFile \in Nat /\ txns \in Nat
  BY DEF TypeOK
<1>1. ASSUME NEW tx \in Changes, Commit(tx)
      PROVE  TypeOK'
  <2>1. /\ Transaction(tx, txns + 1) \in Seq(EventType)
        /\ Len(Transaction(tx, txns + 1)) \in Nat
    BY <1>0, TransactionType
  <2>2. /\ log' \in Seq(EventType)
        /\ Len(log') = Len(log) + Len(Transaction(tx, txns + 1))
    BY <1>0, <1>1, <2>1, ConcatProperties, Zenon DEF Commit
  <2> QED
    BY <1>0, <1>1, <2>1, <2>2, LogGrowsType DEF Commit
<1>2. CASE RotateLog
  <2>1. Event("rotate", NoTable, 0, 0) \in EventType
    BY <1>0 DEF Event, EventType
  <2>2. log' \in Seq(EventType) /\ Len(log') = Len(log) + 1
    BY <1>0, <1>2, <2>1, AppendProperties, Zenon DEF RotateLog
  <2> QED
    BY <1>0, <1>2, <2>2, LogGrowsType DEF RotateLog
<1>3. CASE PurgeLog
  BY <1>0, <1>3, LogGrowsType
     DEF PurgeLog, TypeOK, envVars, stateVars, readerVars, countVars, outVars, Bookmark
<1>4. ASSUME NEW s \in Streams, Snapshot(s)
      PROVE  TypeOK'
  <2>1. [pos |-> Len(log) + 1, gtid |-> IF use_gtid THEN Whole(txns) ELSE NoGtid] \in Bookmark
    BY <1>0, GtidTypes DEF Bookmark
  <2>2. saved' \in [Streams -> Bookmark] /\ bm' = saved' /\ origin' \in [Streams -> Nat]
    BY <1>0, <1>4, <2>1 DEF Snapshot, TypeOK
  <2>3. Bookmark' = Bookmark
    BY <1>4 DEF Snapshot, serverVars, Bookmark
  <2> QED
    BY <1>4, <2>2, <2>3 DEF Snapshot, TypeOK, serverVars, readerVars, countVars, outVars
<1>5. CASE ToggleGtid
  BY <1>5 DEF ToggleGtid, TypeOK, serverVars, stateVars, readerVars, countVars, outVars, Bookmark
<1>6. ASSUME NEW S \in Selection, NEW p \in 1 .. Len(log) + 1, NEW g \in Gtid, StartAt(S, p, g)
      PROVE  TypeOK'
  <2>1. S \subseteq Streams
    BY <1>6 DEF Selection, Joined
  <2>2. Bookmark' = Bookmark /\ log' = log
    BY <1>6 DEF StartAt, serverVars, Bookmark
  <2> QED
    BY <1>6, <2>1, <2>2
       DEF StartAt, TypeOK, serverVars, envVars, stateVars, countVars, outVars
<1>7. CASE StartRun
  <2>1. PICK S \in Selection : StartFromCoordinates(S) \/ StartFromGtid(S) \/ StartFails(S)
    BY <1>7 DEF StartRun
  <2>2. CASE StartFromCoordinates(S)
    <3>1. PICK s \in S : StartAt(S, saved[s].pos, NoGtid)
      BY <2>2 DEF StartFromCoordinates
    <3>2. s \in Streams /\ saved[s].pos # 0
      BY DEF Selection, Joined
    <3>3. saved[s].pos \in 0 .. Len(log) + 1 /\ Len(log) \in Nat
      BY <3>2, <1>0 DEF TypeOK, Bookmark
    <3>4. saved[s].pos \in 1 .. Len(log) + 1
      BY <3>2, <3>3
    <3> QED
      BY <3>1, <3>4, <1>6, GtidTypes
  <2>3. CASE StartFromGtid(S)
    <3> DEFINE gtids == {saved[s].gtid : s \in S} \cup {Whole(n) : n \in 1 .. txns}
    <3>1. PICK g \in gtids, p \in 1 .. Len(log) + 1 : StartAt(S, p, g)
      BY <2>3 DEF StartFromGtid
    <3>2. S \subseteq Streams /\ \A s \in Streams : saved[s].gtid \in Gtid
      BY DEF Selection, Joined, TypeOK, Bookmark
    <3>3. \A s \in S : saved[s].gtid \in Gtid
      BY <3>2
    <3>4. \A n \in 1 .. txns : Whole(n) \in Gtid
      BY <1>0, GtidTypes
    <3>5. gtids \subseteq Gtid
      BY <3>3, <3>4
    <3> QED
      BY <3>1, <3>5, <1>6
  <2>4. CASE StartFails(S)
    BY <2>4 DEF StartFails, TypeOK, serverVars, envVars, stateVars, readerVars, countVars,
                outVars, Bookmark
  <2> QED
    BY <2>1, <2>2, <2>3, <2>4
<1>8. CASE FetchEnd
  <2>1. Bookmark' = Bookmark /\ log' = log
    BY <1>8 DEF FetchEnd, serverVars, Bookmark
  <2> QED
    BY <1>0, <1>8, <2>1 DEF FetchEnd, TypeOK, serverVars, envVars, stateVars, countVars, outVars
<1>9. CASE ReaderFails
  BY <1>9, ExitType DEF ReaderFails, TypeOK, envVars
<1>10. CASE ReadFiltered
  <2>1. Bookmark' = Bookmark /\ log' = log
    BY <1>10 DEF ReadFiltered, serverVars, Bookmark
  <2>2. next' \in 1 .. Len(log) + 1 /\ reader_pos' \in 1 .. Len(log) + 1 /\ fresh' \in BOOLEAN
    <3>1. CASE ~fresh
      <4>1. next \in 1 .. Len(log) /\ next' = next + 1 /\ reader_pos' = Report(next) /\ fresh' = fresh
        BY <3>1, <1>0, <1>10 DEF ReadFiltered, Announces, TypeOK
      <4>2. reader_pos' \in 1 .. Len(log) + 1
        BY <4>1, ReportType
      <4> QED
        BY <4>1, <4>2, <1>0 DEF TypeOK
    <3>2. CASE fresh
      BY <3>2, <1>10 DEF ReadFiltered, TypeOK
    <3> QED
      BY <3>1, <3>2
  <2> QED
    BY <1>10, <2>1, <2>2
       DEF ReadFiltered, TypeOK, serverVars, envVars, stateVars, countVars, outVars
<1>11. CASE Reconnect
  <2>1. Bookmark' = Bookmark /\ log' = log
    BY <1>11 DEF Reconnect, serverVars, Bookmark
  <2> QED
    BY <1>11, <2>1 DEF Reconnect, TypeOK, serverVars, stateVars, countVars, outVars
<1>12. CASE RotateEvent
  <2>1. next' \in 1 .. Len(log) + 1
    BY <1>0, <1>12 DEF RotateEvent, Returns, TypeOK
  <2>2. next' \in 0 .. Len(log) + 1
    BY <2>1, <1>0
  <2> DEFINE b == UpdateBookmarks(bm, next', gtid_pos)
  <2>3. b \in [Streams -> Bookmark]
    BY <2>2, UpdateBookmarksType DEF TypeOK
  <2>4. EndOfIteration(b, next', gtid_pos, processed, skipped) /\ fresh' = FALSE /\ UNCHANGED outVars
    BY <1>12 DEF RotateEvent
  <2> HIDE DEF b
  <2> QED
    BY <2>1, <2>3, <2>4, IterationType DEF TypeOK, outVars
<1>13. CASE GtidEvent
  <2> DEFINE g == EventGtid(log[next].gtid)
             b == UpdateBookmarks(bm, Report(next), g)
  <2>1. next \in 1 .. Len(log)
    BY <1>0, <1>13 DEF GtidEvent, Returns, TypeOK
  <2>2. g \in Gtid
    BY <2>1, EventTyped, GtidTypes DEF EventType
  <2>3. Report(next) \in 1 .. Len(log) + 1 /\ Report(next) \in 0 .. Len(log) + 1
    BY <1>0, <2>1, ReportType
  <2>4. b \in [Streams -> Bookmark]
    BY <2>2, <2>3, UpdateBookmarksType DEF TypeOK
  <2>5. /\ EndOfIteration(b, Report(next), g, processed, skipped)
        /\ next' = next + 1 /\ fresh' = fresh /\ UNCHANGED outVars
    BY <1>13 DEF GtidEvent
  <2> HIDE DEF b, g
  <2>6. next' \in 1 .. Len(log) + 1
    BY <1>0, <2>1, <2>5
  <2> QED
    BY <2>2, <2>3, <2>4, <2>5, <2>6, IterationType DEF TypeOK, outVars
<1>14. CASE RowsEvent
  <2>1. next \in 1 .. Len(log)
    BY <1>0, <1>14 DEF RowsEvent, WriteRecords, Returns, TypeOK
  <2>2. log[next].rows \in Nat
    BY <2>1, EventTyped DEF EventType
  <2>3. Count(processed, log[next].rows) \in 0 .. UPDATE_BOOKMARK_PERIOD
    BY <2>2, CountType DEF TypeOK
  <2>4. Report(next) \in 1 .. Len(log) + 1 /\ next' \in 1 .. Len(log) + 1 /\ fresh' \in BOOLEAN
    <3>1. Report(next) \in 1 .. Len(log) + 1
      BY <2>1, ReportType
    <3>2. next' = next + 1 /\ fresh' = fresh
      BY <1>14 DEF RowsEvent
    <3> QED
      BY <1>0, <2>1, <3>1, <3>2 DEF TypeOK
  <2>5. delivered' = delivered \cup {next} /\ last' = [last EXCEPT ![log[next].table] = next]
    BY <1>14 DEF RowsEvent, WriteRecords
  <2>6. delivered' \subseteq 1 .. Len(log)
    BY <2>1, <2>5 DEF TypeOK
  <2>7. last' \in [Streams -> 0 .. Len(log)]
    <3>1. last \in [Streams -> 0 .. Len(log)] /\ next \in 0 .. Len(log)
      BY <1>0, <2>1 DEF TypeOK
    <3> QED
      BY <3>1, <2>5, Zenon
  <2>8. EndOfIteration(bm, Report(next), gtid_pos, Count(processed, log[next].rows), skipped)
    BY <1>14 DEF RowsEvent, WriteRecords
  <2> QED
    BY <2>3, <2>4, <2>6, <2>7, <2>8, IterationType DEF TypeOK
<1>15. CASE SkippedEvent
  <2>1. next \in 1 .. Len(log)
    BY <1>0, <1>15 DEF SkippedEvent, Returns, TypeOK
  <2>2. Count(skipped, 1) \in 0 .. UPDATE_BOOKMARK_PERIOD
    BY CountType DEF TypeOK
  <2>3. Report(next) \in 1 .. Len(log) + 1 /\ next' \in 1 .. Len(log) + 1 /\ fresh' \in BOOLEAN
    <3>1. Report(next) \in 1 .. Len(log) + 1
      BY <2>1, ReportType
    <3>2. next' = next + 1 /\ fresh' = fresh
      BY <1>15 DEF SkippedEvent
    <3> QED
      BY <1>0, <2>1, <3>1, <3>2 DEF TypeOK
  <2>4. EndOfIteration(bm, Report(next), gtid_pos, processed, Count(skipped, 1)) /\ UNCHANGED outVars
    BY <1>15 DEF SkippedEvent
  <2> QED
    BY <2>2, <2>3, <2>4, IterationType DEF TypeOK, outVars
<1>16. ASSUME NEW p \in 0 .. Len(log) + 1, Finish(p)
       PROVE  TypeOK'
  <2> DEFINE b == IF p # 0 THEN UpdateBookmarks(bm, p, gtid_pos) ELSE bm
  <2>1. b \in [Streams -> Bookmark]
    BY UpdateBookmarksType DEF TypeOK
  <2>2. Exit(0, b) /\ UNCHANGED <<serverVars, envVars, outVars>>
    BY <1>16 DEF Finish
  <2> HIDE DEF b
  <2> QED
    BY <2>1, <2>2, ExitType DEF TypeOK, envVars
<1>17. CASE ReachedEnd
  BY <1>16, <1>17 DEF ReachedEnd, TypeOK
<1>18. CASE Exhausted
  BY <1>16, <1>18 DEF Exhausted, AdvanceToEnd, TypeOK
<1>19. CASE Crash
  <2>1. Exit(1, saved) /\ UNCHANGED <<serverVars, use_gtid, origin, outVars>>
    BY <1>19 DEF Crash
  <2>2. faults' \in Nat /\ saved \in [Streams -> Bookmark]
    BY <1>19 DEF Crash, TypeOK
  <2> QED
    BY <2>1, <2>2, ExitType
<1>20. CASE UNCHANGED vars
  BY <1>20 DEF vars, TypeOK, serverVars, envVars, stateVars, readerVars, countVars, outVars, Bookmark
<1> QED
  BY <1>1, <1>2, <1>3, <1>4, <1>5, <1>7, <1>8, <1>9, <1>10, <1>11, <1>12, <1>13, <1>14, <1>15,
     <1>17, <1>18, <1>19, <1>20 DEF Next, ServerNext, RunStep

\* Type correctness of the binlog reader (binlog.py): bookmarks, end position and
\* reader position are positions of the binlog, whatever the server and faults do.
THEOREM TypeCorrect == Spec => []TypeOK
BY TypeInit, TypeStep, PTL DEF Spec

-----------------------------------------------------------------------------
(* No row event is skipped, when replication uses binlog coordinates.       *)

\* No file number gains a digit.
SameDigits == MaxFile < WrapFile

\* The tap never uses gtids, and no file number gains a digit.
CoordinatesOnly == ~UseGtid /\ MayToggleGtid = "never" /\ SameDigits

\* Files follow one another in the binlog, which ends with no half-written
\* transaction.
LogShape ==
  /\ \A i, j \in 1 .. Len(log) : i <= j => log[i].file <= log[j].file
  /\ \A i \in 1 .. Len(log) : log[i].file <= curFile
  /\ curFile <= MaxFile
  /\ Len(log) # 0 => log[Len(log)].kind # "row"

\* Everything the binlog holds for s between its snapshot and p was written.
Covered(s, p) == \A i \in Owed(s) : p <= i

\* No bookmark, emitted or in memory, is past a row event that is still owed.
BookmarksCovered ==
  \A s \in Streams : Covered(s, saved[s].pos) /\ Covered(s, bm[s].pos)

\* Nor is the reader, for a stream of the run.
ReaderCovered ==
  /\ pc \in {"off", "start"} => log_pos = 0
  /\ pc # "off" => \A s \in sel : Covered(s, next) /\ Covered(s, reader_pos) /\ Covered(s, log_pos)

\* The end position is not inside a transaction.
EndShape == pc = "loop" => end # 0 /\ (end > 1 => log[end - 1].kind # "row")

\* The inductive invariant.
IInv ==
  /\ TypeOK
  /\ ~use_gtid
  /\ LogShape
  /\ BookmarksCovered
  /\ ReaderCovered
  /\ EndShape

\* Without a file of more digits, comparing names is comparing positions: what
\* has reached q is not before q.
LEMMA ReachedIsPast ==
  ASSUME SameDigits, TypeOK, LogShape,
         NEW p \in 1 .. Len(log) + 1, NEW q \in 1 .. Len(log) + 1, Reached(p, q)
  PROVE  q <= p
<1>1. Len(log) \in Nat /\ curFile \in Nat /\ MaxFile \in Nat /\ WrapFile \in Nat /\ MaxFile < WrapFile
  BY BinlogSyncAssumption DEF TypeOK, SameDigits
<1>2. \A i \in 1 .. Len(log) : log[i].file \in Nat
  BY EventTyped DEF EventType
<1>3. /\ FileOf(p) \in Nat /\ FileOf(p) < WrapFile
      /\ FileOf(q) \in Nat /\ FileOf(q) < WrapFile
  BY <1>1, <1>2 DEF FileOf, LogShape
<1>4. ~(FileOf(p) < FileOf(q)) /\ (FileOf(p) = FileOf(q) => p >= q)
  BY <1>1, <1>3 DEF Reached, NameGt
<1>5. p < q => FileOf(p) <= FileOf(q)
  BY <1>1, <1>2 DEF FileOf, LogShape
<1> QED
  BY <1>1, <1>3, <1>4, <1>5

\* The invariant only depends on what a stream owes, which no step but a commit
\* and a snapshot may add to.
LEMMA OwedShrinks ==
  ASSUME log' = log, origin' = origin, delivered \subseteq delivered', NEW s \in Streams
  PROVE  Owed(s)' \subseteq Owed(s)
BY DEF Owed, RowOf

\* What is appended to the binlog lies past every position that existed.
LEMMA OwedGrows ==
  ASSUME Len(log) \in Nat, Len(log') \in Nat,
         \A i \in 1 .. Len(log) : log'[i] = log[i],
         origin' = origin, delivered' = delivered, NEW s \in Streams
  PROVE  \A i \in Owed(s)' : i \in Owed(s) \/ Len(log) + 1 <= i
BY DEF Owed, RowOf

\* Initially nothing was committed and nothing is owed.
LEMMA CoveredInit ==
  ASSUME CoordinatesOnly, Init
  PROVE  IInv
<1>1. TypeOK
  BY TypeInit
<1>2. log = <<>> /\ Len(log) = 0
  BY DEF Init
<1>3. \A s \in Streams : Owed(s) = {}
  BY <1>2 DEF Owed
<1>4. LogShape
  BY <1>2, BinlogSyncAssumption DEF LogShape, Init
<1> QED
  BY <1>1, <1>3, <1>4
     DEF IInv, Init, CoordinatesOnly, BookmarksCovered, ReaderCovered, EndShape, Covered

\* Appending a whole number of transactions or a rotation keeps the invariant.
LEMMA LogGrowsCovered ==
  ASSUME IInv, TypeOK', Len(log) <= Len(log'),
         \A i \in 1 .. Len(log) : log'[i] = log[i],
         LogShape',
         UNCHANGED <<envVars, stateVars, exit, pc, readerVars, countVars, outVars>>
  PROVE  IInv'
<1>0. log \in Seq(EventType) /\ log' \in Seq(EventType)
  BY DEF TypeOK, IInv
<1>1. Len(log) \in Nat /\ Len(log') \in Nat
  BY <1>0
<1>2. ASSUME NEW s \in Streams, NEW p \in 0 .. Len(log) + 1, Covered(s, p), NEW i \in Owed(s)'
      PROVE  p <= i
  BY <1>1, <1>2, OwedGrows DEF Covered, outVars, envVars, Owed
<1>3. BookmarksCovered'
  <2> SUFFICES ASSUME NEW s \in Streams
               PROVE  Covered(s, saved[s].pos)' /\ Covered(s, bm[s].pos)'
    BY DEF BookmarksCovered
  <2>1. /\ saved[s].pos \in 0 .. Len(log) + 1 /\ bm[s].pos \in 0 .. Len(log) + 1
        /\ Covered(s, saved[s].pos) /\ Covered(s, bm[s].pos)
    BY DEF IInv, TypeOK, Bookmark, BookmarksCovered
  <2>2. \A i \in Owed(s)' : saved[s].pos <= i /\ bm[s].pos <= i
    BY <1>2, <2>1
  <2> QED
    BY <2>2 DEF Covered, stateVars
<1>4. ReaderCovered'
  <2> SUFFICES ASSUME pc' # "off", NEW s \in sel'
               PROVE  /\ Covered(s, next)' /\ Covered(s, reader_pos)' /\ Covered(s, log_pos)'
    BY DEF ReaderCovered, IInv, readerVars
  <2>1. pc # "off" /\ s \in sel /\ s \in Streams
    BY DEF readerVars, IInv, TypeOK
  <2>2. /\ next \in 0 .. Len(log) + 1 /\ reader_pos \in 0 .. Len(log) + 1
        /\ log_pos \in 0 .. Len(log) + 1
        /\ Covered(s, next) /\ Covered(s, reader_pos) /\ Covered(s, log_pos)
    <3>1. {next, reader_pos} \subseteq 1 .. Len(log) + 1 /\ log_pos \in 0 .. Len(log) + 1
      BY DEF IInv, TypeOK
    <3>2. Covered(s, next) /\ Covered(s, reader_pos) /\ Covered(s, log_pos)
      BY <2>1 DEF IInv, ReaderCovered
    <3> QED
      BY <3>1, <3>2, <1>1
  <2>3. \A i \in Owed(s)' : next <= i /\ reader_pos <= i /\ log_pos <= i
    BY <1>2, <2>1, <2>2
  <2> QED
    BY <2>3 DEF Covered, readerVars
<1>5. EndShape'
  <2> SUFFICES ASSUME pc = "loop", end > 1
               PROVE  log'[end - 1].kind # "row"
    BY DEF IInv, EndShape, readerVars
  <2>1. end \in 0 .. Len(log) + 1 /\ log[end - 1].kind # "row"
    BY DEF IInv, EndShape, TypeOK
  <2>2. end - 1 \in 1 .. Len(log)
    BY <1>1, <2>1
  <2> QED
    BY <2>1, <2>2
<1> QED
  BY <1>3, <1>4, <1>5 DEF IInv, envVars

\* A process that ends keeps the invariant if the bookmarks it leaves do.
LEMMA ExitCovered ==
  ASSUME IInv, TypeOK', pc' = "off", log_pos' = 0, saved' = bm', UNCHANGED <<serverVars, use_gtid, origin, outVars>>,
         \A s \in Streams : \A i \in Owed(s) : saved'[s].pos <= i
  PROVE  IInv'
<1>1. LogShape'
  BY DEF IInv, LogShape, serverVars
<1>2. \A s \in Streams : Owed(s)' \subseteq Owed(s)
  BY OwedShrinks DEF serverVars, outVars
<1>3. BookmarksCovered'
  BY <1>2 DEF BookmarksCovered, Covered
<1> QED
  BY <1>1, <1>3 DEF IInv, ReaderCovered, EndShape

\* update_bookmarks moves the bookmarks of the run to p, and no others.
LEMMA UpdateBookmarksPos ==
  ASSUME NEW b, NEW p, NEW g, NEW s \in Streams
  PROVE  UpdateBookmarks(b, p, g)[s].pos = IF s \in sel THEN p ELSE b[s].pos
BY DEF UpdateBookmarks

\* An iteration keeps the invariant if the bookmarks it starts from, the position
\* it reports and the reader's next event are not past anything owed.
LEMMA IterationCovered ==
  ASSUME IInv, TypeOK', NEW b, NEW p, NEW g, NEW pr, NEW sk,
         pc = "loop", EndOfIteration(b, p, g, pr, sk), delivered \subseteq delivered',
         \A s \in Streams : \A i \in Owed(s)' : b[s].pos <= i,
         \A s \in sel : \A i \in Owed(s)' : p <= i /\ next' <= i
  PROVE  IInv'
<1>1. LogShape' /\ EndShape'
  BY DEF IInv, LogShape, EndShape, EndOfIteration, serverVars
<1>2. \A s \in Streams : Owed(s)' \subseteq Owed(s)
  BY OwedShrinks DEF EndOfIteration, serverVars, envVars
<1>3. ASSUME NEW s \in Streams, NEW i \in Owed(s)'
      PROVE  UpdateBookmarks(b, p, g)[s].pos <= i
  BY UpdateBookmarksPos
<1>4. BookmarksCovered'
  <2> SUFFICES ASSUME NEW s \in Streams, NEW i \in Owed(s)'
               PROVE  saved'[s].pos <= i /\ bm'[s].pos <= i
    BY DEF BookmarksCovered, Covered
  <2>1. bm' = b \/ bm' = UpdateBookmarks(b, p, g)
    BY DEF EndOfIteration
  <2>2. saved' = saved \/ saved' = bm'
    BY DEF EndOfIteration
  <2>3. saved[s].pos <= i
    BY <1>2 DEF IInv, BookmarksCovered, Covered
  <2>4. bm'[s].pos <= i
    BY <1>3, <2>1
  <2> QED
    BY <2>2, <2>3, <2>4
<1>5. ReaderCovered'
  BY DEF ReaderCovered, Covered, EndOfIteration
<1> QED
  BY <1>1, <1>4, <1>5 DEF IInv, EndOfIteration, envVars

\* Once the next event is not owed to a stream of the run any more, neither the
\* position after it nor the one it reports is past anything owed.
LEMMA NextNotOwed ==
  ASSUME IInv, pc = "loop", next <= Len(log), NEW s \in sel, Owed(s)' \subseteq Owed(s),
         next \notin Owed(s)', NEW i \in Owed(s)'
  PROVE  next + 1 <= i /\ Report(next) <= i
<1>1. Len(log) \in Nat /\ next \in 1 .. Len(log)
  BY DEF IInv, TypeOK
<1>2. next <= i /\ i \in Nat
  BY <1>1 DEF IInv, ReaderCovered, Covered, Owed
<1>3. next + 1 <= i
  BY <1>1, <1>2
<1> QED
  BY <1>1, <1>2, <1>3 DEF Report

\* Each step keeps the invariant.
LEMMA CoveredStep ==
  ASSUME CoordinatesOnly, IInv, [Next]_vars
  PROVE  IInv'
<1>0. /\ TypeOK /\ TypeOK' /\ ~use_gtid /\ LogShape /\ BookmarksCovered /\ ReaderCovered /\ EndShape
      /\ SameDigits
      /\ log \in Seq(EventType) /\ Len(log) \in Nat /\ curFile \in Nat /\ txns \in Nat
  <2>1. TypeOK /\ ~use_gtid /\ LogShape /\ BookmarksCovered /\ ReaderCovered /\ EndShape
    BY DEF IInv
  <2>2. TypeOK'
    BY <2>1, TypeStep
  <2>3. log \in Seq(EventType) /\ curFile \in Nat /\ txns \in Nat
    BY <2>1 DEF TypeOK
  <2>4. Len(log) \in Nat
    BY <2>3
  <2> QED
    BY <2>1, <2>2, <2>3, <2>4 DEF CoordinatesOnly
<1>1. ASSUME NEW tx \in Changes, Commit(tx)
      PROVE  IInv'
  <2> DEFINE t == Transaction(tx, txns + 1)
             n == Len(tx) + 2
  <2>1. /\ t \in Seq(EventType) /\ Len(t) = n /\ n \in Nat /\ n # 0
        /\ t[n].kind = "xid"
        /\ \A i \in 1 .. n : t[i].file = curFile
    BY <1>0, TransactionType
  <2> HIDE DEF t, n
  <2>2. log' = log \o t
    BY <1>1 DEF Commit, t
  <2>3. /\ Len(log') = Len(log) + n
        /\ \A i \in 1 .. Len(log) + n :
             log'[i] = IF i <= Len(log) THEN log[i] ELSE t[i - Len(log)]
    BY <1>0, <2>1, <2>2, ConcatProperties, Zenon
  <2>4. Len(log) <= Len(log') /\ \A i \in 1 .. Len(log) : log'[i] = log[i]
    BY <1>0, <2>1, <2>3
  <2>5. \A i \in 1 .. Len(log') : i > Len(log) => log'[i].file = curFile
    BY <1>0, <2>1, <2>3
  <2>6. log'[Len(log')].kind = "xid"
    BY <1>0, <2>1, <2>3
  <2>7. LogShape'
    <3>1. \A i \in 1 .. Len(log) : log[i].file \in Nat
      BY <1>0, EventTyped DEF EventType
    <3>2. curFile' = curFile
      BY <1>1 DEF Commit
    <3>3. Len(log') \in Nat
      BY <1>0, <2>1, <2>3
    <3>4. \A i \in 1 .. Len(log') : log'[i].file <= curFile
      BY <1>0, <2>4, <2>5, <3>3 DEF LogShape
    <3>5. ASSUME NEW i \in 1 .. Len(log'), NEW j \in 1 .. Len(log'), i <= j
          PROVE  log'[i].file <= log'[j].file
      <4>1. CASE j <= Len(log)
        BY <4>1, <3>5, <1>0, <2>4, <3>3 DEF LogShape
      <4>2. CASE j > Len(log)
        BY <4>2, <2>5, <3>4
      <4> QED
        BY <4>1, <4>2, <1>0, <3>3
    <3> QED
      BY <1>0, <2>6, <3>2, <3>4, <3>5 DEF LogShape
  <2> QED
    BY <1>0, <1>1, <2>4, <2>7, LogGrowsCovered DEF Commit
<1>2. CASE RotateLog
  <2> DEFINE e == Event("rotate", NoTable, 0, 0)
  <2>1. e \in EventType /\ e.file = curFile /\ e.kind = "rotate"
    BY <1>0 DEF Event, EventType
  <2> HIDE DEF e
  <2>2. log' = Append(log, e) /\ curFile' = curFile + 1 /\ curFile < MaxFile
    BY <1>2 DEF RotateLog, e
  <2>3. /\ Len(log') = Len(log) + 1
        /\ \A i \in 1 .. Len(log) : log'[i] = log[i]
        /\ log'[Len(log) + 1] = e
    BY <1>0, <2>1, <2>2
  <2>4. LogShape'
    <3>1. \A i \in 1 .. Len(log) : log[i].file \in Nat
      BY <1>0, EventTyped DEF EventType
    <3>2. MaxFile \in Nat
      BY BinlogSyncAssumption
    <3> QED
      BY <1>0, <2>1, <2>2, <2>3, <3>1, <3>2 DEF LogShape
  <2> QED
    BY <1>0, <1>2, <2>3, <2>4, LogGrowsCovered DEF RotateLog
<1>3. CASE PurgeLog
  <2>1. LogShape'
    BY <1>0, <1>3 DEF PurgeLog, LogShape
  <2> QED
    BY <1>0, <1>3, <2>1, LogGrowsCovered DEF PurgeLog
<1>4. ASSUME NEW s0 \in Streams, Snapshot(s0)
      PROVE  IInv'
  <2>1. LogShape'
    BY <1>0, <1>4 DEF Snapshot, LogShape, serverVars
  <2>2. ASSUME NEW s \in Streams, NEW i \in Owed(s)'
        PROVE  saved'[s].pos <= i
    <3>1. CASE s = s0
      BY <3>1, <1>0, <1>4, <2>2 DEF Snapshot, Owed, TypeOK, serverVars
    <3>2. CASE s # s0
      <4>1. saved'[s] = saved[s] /\ origin'[s] = origin[s]
        BY <3>2, <1>0, <1>4 DEF Snapshot, TypeOK
      <4>2. i \in Owed(s)
        BY <4>1, <1>4, <2>2 DEF Snapshot, Owed, RowOf, serverVars, outVars
      <4> QED
        BY <4>1, <4>2, <1>0 DEF BookmarksCovered, Covered
    <3> QED
      BY <3>1, <3>2
  <2>3. BookmarksCovered'
    BY <1>4, <2>2 DEF BookmarksCovered, Covered, Snapshot
  <2> QED
    BY <1>0, <1>4, <2>1, <2>3 DEF IInv, ReaderCovered, EndShape, Snapshot, readerVars
<1>5. CASE ToggleGtid
  BY <1>5 DEF ToggleGtid, CoordinatesOnly
<1>6. ASSUME UNCHANGED <<serverVars, envVars, stateVars, outVars>>
      PROVE  LogShape' /\ BookmarksCovered' /\ \A s \in Streams : Owed(s)' \subseteq Owed(s)
  <2>1. \A s \in Streams : Owed(s)' \subseteq Owed(s)
    BY <1>6, OwedShrinks DEF serverVars, envVars, outVars
  <2> QED
    BY <2>1, <1>0, <1>6
       DEF LogShape, BookmarksCovered, Covered, serverVars, stateVars
<1>7. CASE StartRun
  <2>1. PICK S \in Selection : StartFromCoordinates(S) \/ StartFails(S)
    BY <1>0, <1>7 DEF StartRun, StartFromGtid
  <2>2. CASE StartFromCoordinates(S)
    <3>1. PICK t \in S : IsMinBookmark(S, saved[t].pos) /\ StartAt(S, saved[t].pos, NoGtid)
      BY <2>2 DEF StartFromCoordinates
    <3>2. \A s \in S : s \in Streams /\ saved[s].pos \in 1 .. Len(log) + 1
      <4> TAKE s \in S
      <4>1. s \in Streams /\ saved[s].pos # 0
        BY DEF Selection, Joined
      <4>2. saved[s].pos \in 0 .. Len(log) + 1
        BY <1>0, <4>1 DEF TypeOK, Bookmark
      <4> QED
        BY <1>0, <4>1, <4>2
    <3>3. ASSUME NEW s \in S
          PROVE  saved[t].pos <= saved[s].pos
      <4>1. Reached(saved[s].pos, saved[t].pos)
        BY <3>1 DEF IsMinBookmark
      <4> QED
        BY <1>0, <3>1, <3>2, <4>1, ReachedIsPast
    <3>4. LogShape' /\ BookmarksCovered' /\ \A s \in Streams : Owed(s)' \subseteq Owed(s)
      BY <3>1, <1>6 DEF StartAt
    <3>5. ASSUME NEW s \in S, NEW i \in Owed(s)'
          PROVE  saved[t].pos <= i /\ log_pos <= i
      <4>1. saved[s].pos <= i /\ i \in Nat
        BY <1>0, <3>2, <3>4 DEF BookmarksCovered, Covered, Owed
      <4>2. log_pos = 0
        BY <2>2, <1>0 DEF StartFromCoordinates, ReaderCovered
      <4> QED
        BY <1>0, <3>2, <3>3, <4>1, <4>2
    <3>6. ReaderCovered'
      <4>1. log_pos' = 0 /\ pc' = "start" /\ sel' = S /\ next' = saved[t].pos
            /\ reader_pos' = saved[t].pos
        BY <1>0, <2>2, <3>1 DEF StartAt, StartFromCoordinates, ReaderCovered
      <4>2. log_pos = 0
        BY <1>0, <2>2 DEF StartFromCoordinates, ReaderCovered
      <4> QED
        BY <4>1, <4>2, <3>5 DEF ReaderCovered, Covered
    <3> QED
      BY <1>0, <3>1, <3>4, <3>6 DEF IInv, EndShape, StartAt, envVars
  <2>3. CASE StartFails(S)
    <3>1. LogShape' /\ BookmarksCovered'
      BY <2>3, <1>6 DEF StartFails
    <3> QED
      BY <1>0, <2>3, <3>1 DEF StartFails, IInv, ReaderCovered, EndShape, envVars, readerVars
  <2> QED
    BY <2>1, <2>2, <2>3
<1>8. CASE FetchEnd
  <2>1. LogShape' /\ BookmarksCovered' /\ \A s \in Streams : Owed(s)' \subseteq Owed(s)
    BY <1>8, <1>6 DEF FetchEnd
  <2>2. ReaderCovered'
    BY <1>0, <1>8, <2>1 DEF FetchEnd, ReaderCovered, Covered, TypeOK
  <2>3. EndShape'
    BY <1>0, <1>8 DEF FetchEnd, EndShape, LogShape, serverVars
  <2> QED
    BY <1>0, <1>8, <2>1, <2>2, <2>3 DEF IInv, FetchEnd, envVars
<1>9. CASE ReaderFails
  <2>1. \A s \in Streams : \A i \in Owed(s) : saved'[s].pos <= i
    BY <1>0, <1>9 DEF ReaderFails, Exit, BookmarksCovered, Covered
  <2> QED
    BY <1>0, <1>9, <2>1, ExitCovered DEF ReaderFails, Exit, envVars
<1>10. CASE ReadFiltered
  <2>1. LogShape' /\ BookmarksCovered' /\ \A s \in Streams : Owed(s)' \subseteq Owed(s)
    BY <1>10, <1>6 DEF ReadFiltered
  <2>2. /\ pc = "loop" /\ ~fresh /\ next <= Len(log) /\ log[next].kind # "row"
        /\ next' = next + 1 /\ reader_pos' = Report(next)
    BY <1>0, <1>10 DEF ReadFiltered, Surfaces
  <2>3. ASSUME NEW s \in sel, NEW i \in Owed(s)'
        PROVE  next' <= i /\ reader_pos' <= i /\ log_pos <= i
    <3>1. s \in Streams /\ i \in Owed(s)
      BY <1>0, <2>1 DEF TypeOK
    <3>2. next \notin Owed(s)'
      BY <2>1, <2>2, <3>1 DEF Owed, RowOf
    <3> QED
      BY <1>0, <2>1, <2>2, <3>1, <3>2, NextNotOwed DEF ReaderCovered, Covered
  <2>4. ReaderCovered' /\ EndShape'
    BY <1>0, <1>10, <2>3 DEF ReadFiltered, ReaderCovered, Covered, EndShape, serverVars
  <2> QED
    BY <1>0, <1>10, <2>1, <2>4 DEF IInv, ReadFiltered, envVars
<1>11. CASE Reconnect
  <2>1. /\ next' = reader_pos /\ log' = log /\ origin' = origin /\ delivered' = delivered
    BY <1>0, <1>11 DEF Reconnect, serverVars, outVars
  <2>2. \A s \in Streams : Owed(s)' \subseteq Owed(s)
    BY <2>1, OwedShrinks
  <2>3. LogShape' /\ BookmarksCovered'
    BY <1>0, <1>11, <2>2 DEF Reconnect, LogShape, BookmarksCovered, Covered, serverVars, stateVars
  <2>4. ReaderCovered' /\ EndShape'
    BY <1>0, <1>11, <2>1, <2>2 DEF Reconnect, ReaderCovered, Covered, EndShape, TypeOK
  <2> QED
    BY <1>0, <1>11, <2>3, <2>4 DEF IInv, Reconnect
<1>12. CASE RotateEvent
  <2> DEFINE b == UpdateBookmarks(bm, next', gtid_pos)
  <2>1. /\ pc = "loop" /\ EndOfIteration(b, next', gtid_pos, processed, skipped)
        /\ delivered' = delivered /\ log' = log /\ origin' = origin
    BY <1>12 DEF RotateEvent, Announces, Returns, EndOfIteration, outVars, serverVars, envVars
  <2>2. \A s \in Streams : Owed(s)' \subseteq Owed(s)
    BY <2>1, OwedShrinks
  <2>3. ASSUME NEW s \in sel, NEW i \in Owed(s)'
        PROVE  next' <= i
    <3>1. s \in Streams /\ i \in Owed(s)
      BY <1>0, <2>2 DEF TypeOK
    <3>2. CASE next' = next
      BY <3>1, <3>2, <1>0, <2>1 DEF ReaderCovered, Covered
    <3>3. CASE Returns /\ log[next].kind = "rotate" /\ next' = next + 1
      <4>1. next <= Len(log) /\ next \notin Owed(s)'
        BY <3>1, <3>3, <2>2 DEF Returns, Owed, RowOf
      <4> QED
        BY <3>1, <3>3, <4>1, <2>1, <2>2, NextNotOwed
    <3> QED
      BY <3>2, <3>3, <1>12 DEF RotateEvent
  <2>4. ASSUME NEW s \in Streams, NEW i \in Owed(s)'
        PROVE  b[s].pos <= i
    BY <1>0, <2>2, <2>3, UpdateBookmarksPos DEF BookmarksCovered, Covered
  <2> HIDE DEF b
  <2> QED
    BY <1>0, <2>1, <2>3, <2>4, IterationCovered
<1>13. CASE GtidEvent
  BY <1>0, <1>13 DEF GtidEvent, Returns, Surfaces
<1>14. CASE RowsEvent
  <2>1. /\ pc = "loop" /\ next <= Len(log) /\ next' = next + 1
        /\ delivered' = delivered \cup {next} /\ log' = log /\ origin' = origin
        /\ EndOfIteration(bm, Report(next), gtid_pos, Count(processed, log[next].rows), skipped)
    BY <1>14 DEF RowsEvent, WriteRecords, Returns, EndOfIteration, serverVars, envVars
  <2>2. \A s \in Streams : Owed(s)' \subseteq Owed(s) /\ next \notin Owed(s)'
    BY <2>1, OwedShrinks DEF Owed
  <2>3. \A s \in sel : \A i \in Owed(s)' : Report(next) <= i /\ next' <= i
    BY <1>0, <2>1, <2>2, NextNotOwed DEF TypeOK
  <2>4. \A s \in Streams : \A i \in Owed(s)' : bm[s].pos <= i
    BY <1>0, <2>2 DEF BookmarksCovered, Covered
  <2> QED
    BY <1>0, <2>1, <2>3, <2>4, IterationCovered
<1>15. CASE SkippedEvent
  <2>1. /\ pc = "loop" /\ next <= Len(log) /\ next' = next + 1 /\ log[next].table \notin sel
        /\ delivered' = delivered /\ log' = log /\ origin' = origin
        /\ EndOfIteration(bm, Report(next), gtid_pos, processed, Count(skipped, 1))
    BY <1>15 DEF SkippedEvent, Returns, EndOfIteration, outVars, serverVars, envVars
  <2>2. \A s \in Streams : Owed(s)' \subseteq Owed(s)
    BY <2>1, OwedShrinks
  <2>3. \A s \in sel : next \notin Owed(s)'
    BY <1>0, <2>1, <2>2 DEF Owed, RowOf, TypeOK
  <2>4. \A s \in sel : \A i \in Owed(s)' : Report(next) <= i /\ next' <= i
    BY <1>0, <2>1, <2>2, <2>3, NextNotOwed DEF TypeOK
  <2>5. \A s \in Streams : \A i \in Owed(s)' : bm[s].pos <= i
    BY <1>0, <2>2 DEF BookmarksCovered, Covered
  <2> QED
    BY <1>0, <2>1, <2>4, <2>5, IterationCovered
<1>16. ASSUME NEW p, Finish(p), \A s \in sel : Covered(s, p)
       PROVE  IInv'
  <2>1. /\ pc' = "off" /\ log_pos' = 0 /\ saved' = bm' /\ UNCHANGED <<serverVars, use_gtid, origin, outVars>>
        /\ saved' = bm \/ saved' = UpdateBookmarks(bm, p, gtid_pos)
    BY <1>16 DEF Finish, Exit, envVars
  <2>2. \A s \in Streams : \A i \in Owed(s) : saved'[s].pos <= i
    BY <1>0, <1>16, <2>1, UpdateBookmarksPos DEF BookmarksCovered, Covered
  <2> QED
    BY <1>0, <2>1, <2>2, ExitCovered
<1>17. CASE ReachedEnd
  <2>1. pc = "loop" /\ Finish(end)
    BY <1>17 DEF ReachedEnd, Announces, Returns
  <2>2. end \in 1 .. Len(log) + 1 /\ next \in 1 .. Len(log) + 1
    BY <1>0, <2>1 DEF EndShape, TypeOK
  <2>3. ASSUME NEW s \in sel, NEW i \in Owed(s)
        PROVE  end <= i
    <3>1. next <= i /\ i \in 1 .. Len(log) /\ log[i].kind = "row"
      BY <1>0, <2>1 DEF ReaderCovered, Covered, Owed, RowOf
    <3>2. CASE Announces /\ Reached(next, end)
      <4>1. end <= next
        BY <3>2, <1>0, <2>2, ReachedIsPast
      <4> QED
        BY <1>0, <2>2, <3>1, <4>1
    <3>3. CASE Returns /\ Reached(Report(next), end)
      <4>1. next \in 1 .. Len(log)
        BY <3>3, <1>0, <2>2 DEF Returns
      <4>2. Report(next) \in 1 .. Len(log) + 1 /\ Report(next) <= next + 1
        BY <4>1, <1>0, ReportType DEF Report
      <4>3. end <= Report(next)
        BY <3>3, <4>2, <1>0, <2>2, ReachedIsPast
      <4>4. end <= next + 1
        BY <4>1, <4>2, <4>3, <1>0, <2>2
      <4>5. end - 1 = i => log[i].kind # "row"
        BY <1>0, <2>1, <2>2, <3>1 DEF EndShape
      <4> QED
        BY <1>0, <2>2, <3>1, <4>1, <4>4, <4>5
    <3> QED
      BY <3>2, <3>3, <1>17 DEF ReachedEnd
  <2> QED
    BY <2>1, <2>3, <1>16 DEF Covered
<1>18. CASE Exhausted
  <2>1. pc = "loop" /\ next > Len(log) /\ Finish(AdvanceToEnd(log_pos))
    BY <1>18 DEF Exhausted
  <2>2. next = Len(log) + 1 /\ end \in 0 .. Len(log) + 1
    <3>1. {next, reader_pos} \subseteq 1 .. Len(log) + 1 /\ end \in 0 .. Len(log) + 1
      BY <1>0 DEF TypeOK
    <3> QED
      BY <1>0, <2>1, <3>1
  <2>3. ASSUME NEW s \in sel, NEW i \in Owed(s)
        PROVE  AdvanceToEnd(log_pos) <= i
    <3>1. next <= i /\ i \in 1 .. Len(log) /\ log_pos <= i
      BY <1>0, <2>1 DEF ReaderCovered, Covered, Owed
    <3> QED
      BY <1>0, <2>2, <3>1 DEF AdvanceToEnd
  <2> QED
    BY <2>1, <2>3, <1>16 DEF Covered
<1>19. CASE Crash
  <2>1. \A s \in Streams : \A i \in Owed(s) : saved'[s].pos <= i
    BY <1>0, <1>19 DEF Crash, Exit, BookmarksCovered, Covered
  <2> QED
    BY <1>0, <1>19, <2>1, ExitCovered DEF Crash, Exit
<1>20. CASE UNCHANGED vars
  <2>1. LogShape' /\ BookmarksCovered' /\ \A s \in Streams : Owed(s)' \subseteq Owed(s)
    BY <1>20, <1>6 DEF vars
  <2>2. ReaderCovered' /\ EndShape'
    BY <1>0, <1>20, <2>1
       DEF vars, ReaderCovered, EndShape, Covered, TypeOK, readerVars, serverVars
  <2> QED
    BY <1>0, <1>20, <2>1, <2>2 DEF IInv, vars, envVars
<1> QED
  BY <1>1, <1>2, <1>3, <1>4, <1>5, <1>7, <1>8, <1>9, <1>10, <1>11, <1>12, <1>13, <1>14, <1>15,
     <1>17, <1>18, <1>19, <1>20 DEF Next, ServerNext, RunStep

\* What the invariant says about the next run.
LEMMA CoveredNoSkip == IInv => NoSkip
<1> SUFFICES ASSUME IInv, NEW s \in Joined, NEW i \in Owed(s)
             PROVE  ~PassedOver(saved[s], i)
  BY DEF NoSkip
<1>1. s \in Streams /\ saved[s].pos <= i /\ saved[s].pos \in Nat /\ i \in Nat
  BY DEF IInv, BookmarksCovered, Covered, Joined, Owed, TypeOK, Bookmark
<1> QED
  BY <1>1 DEF IInv, PassedOver

\* A tap that uses binlog coordinates never skips a row event: at every instant,
\* whatever the server commits, rotates or expires, whichever streams the catalogs
\* select, wherever a run crashes or reconnects, all that lies before a saved
\* bookmark was written (update_bookmarks, _run_binlog_sync).
THEOREM CoordinatesNeverSkip ==
  ASSUME CoordinatesOnly
  PROVE  Spec => []NoSkip
<1>1. Init => IInv
  BY CoveredInit
<1>2. IInv /\ [Next]_vars => IInv'
  BY CoveredStep
<1> QED
  BY <1>1, <1>2, CoveredNoSkip, PTL DEF Spec
=============================================================================
