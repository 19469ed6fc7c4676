----------------------------- MODULE BinlogSync -----------------------------
(***************************************************************************)
(* LOG_BASED replication: tap_mysql/sync_strategies/binlog.py reading the   *)
(* binary log of a MySQL or MariaDB server that other clients write to.     *)
(*                                                                          *)
(* A binlog coordinate (log_file, log_pos) is the index, in the sequence    *)
(* `log' of everything the server ever wrote, of the event that starts      *)
(* there; Len(log) + 1 is the position SHOW MASTER STATUS returns.  Only    *)
(* the order of the file names is kept, because the code compares them as   *)
(* strings.  0 stands for an absent bookmark or coordinate.                 *)
(*                                                                          *)
(* A transaction has a sequence number.  A gtid, as a bookmark or           *)
(* reader.auto_position has one, is the interval of the numbers that the    *)
(* server takes for executed: 1 .. n, or n alone for MySQL's gtid of one    *)
(* transaction, uuid:n.                                                     *)
(***************************************************************************)
EXTENDS Naturals, Sequences

CONSTANTS
  Streams,                \* the LOG_BASED tables
  NoTable,                \* the table of an event that is not a row event
  UPDATE_BOOKMARK_PERIOD, \* rows or skipped events between two STATE messages
  Engine,                 \* "mysql" or "mariadb"
  UseGtid,                \* the value of use_gtid when the tap is installed
  ReportsEnd,             \* reader.log_pos is the end (TRUE) or the start of an event
  FirstFile,              \* number of the first binlog file
  WrapFile,               \* first file number with one more digit: 1000000 in MySQL
  MaxFile,                \* bound: number of the last binlog file
  MaxTxns,                \* bound: transactions the server commits
  MaxRowEvents,           \* bound: row events of one transaction
  RowCounts,              \* numbers of rows a row event may carry
  MaxFaults,              \* bound: crashes and lost reader connections
  MayPurge,               \* the server may expire binlog files
  MayDeselect,            \* the catalog may leave out some of the streams
  MayToggleGtid           \* use_gtid may be changed between two runs: "never", "together"
                          \* (no stream or all of them have joined) or "any" time

ASSUME BinlogSyncAssumption ==
  /\ NoTable \notin Streams
  /\ UPDATE_BOOKMARK_PERIOD \in Nat \ {0}
  /\ Engine \in {"mysql", "mariadb"}
  /\ {UseGtid, ReportsEnd, MayPurge, MayDeselect} \subseteq BOOLEAN
  /\ MayToggleGtid \in {"never", "together", "any"}
  /\ FirstFile \in Nat \ {0} /\ MaxFile \in Nat /\ FirstFile <= MaxFile
  /\ {WrapFile, MaxTxns, MaxRowEvents, MaxFaults} \subseteq Nat
  /\ RowCounts \subseteq Nat \ {0}

VARIABLES
  log,        \* the binlog, purged files included
  txns,       \* number of committed transactions, the last gtid
  curFile,    \* number of the file being written
  firstFile,  \* number of the oldest file that is not purged
  use_gtid,   \* the tap's configuration
  saved,      \* bookmarks of the last STATE message: what the next run gets
  exit,       \* exit status of the last run
  origin,     \* where the snapshot of a stream left off; 0 before it
  pc,         \* "off", "start" (bookmark calculated) or "loop"
  sel,        \* binlog_streams_map: the selected streams of the run
  bm,         \* bookmarks of the run's state dict
  next,       \* index of the next event the reader receives
  reader_pos, \* reader.log_file, reader.log_pos
  fresh,      \* the reader has yet to (re)connect
  end,        \* end_log_file, end_log_pos
  log_pos,    \* log_file, log_pos of the loop
  gtid_pos,   \* gtid_pos of the loop, reader.auto_position
  executed,   \* the auto_position the server was given when the reader connected
  processed,  \* processed_rows_events, folded into 0 .. UPDATE_BOOKMARK_PERIOD
  skipped,    \* events_skipped, folded likewise
  delivered,  \* history: row events whose records were written
  last,       \* history: the row event the target applied last, per stream
  faults      \* crashes and lost connections so far

serverVars == <<log, txns, curFile, firstFile>>
readerVars == <<sel, next, reader_pos, fresh, end, log_pos, gtid_pos, executed>>
countVars  == <<processed, skipped>>
stateVars  == <<saved, bm>>
outVars    == <<delivered, last>>
envVars    == <<use_gtid, origin, faults>>
vars == <<serverVars, envVars, stateVars, exit, pc, readerVars, countVars, outVars>>

-----------------------------------------------------------------------------
(* Coordinates, file names and gtids.                                       *)

\* The file that holds position p.
FileOf(p) == IF p <= Len(log) THEN log[p].file ELSE curFile

\* log_file > other_file on names whose numbers gain a digit at WrapFile.
NameGt(a, b) ==
  \/ a < WrapFile /\ b >= WrapFile /\ a > b \div 10
  \/ a >= WrapFile /\ b < WrapFile /\ a \div 10 >= b
  \/ (a < WrapFile <=> b < WrapFile) /\ a > b

\* Reader position p is at or past position q, as the code compares them.
Reached(p, q) ==
  \/ NameGt(FileOf(p), FileOf(q))
  \/ FileOf(p) = FileOf(q) /\ p >= q

\* Event i is a row event of table s.
RowOf(s, i) == i \in 1 .. Len(log) /\ log[i].kind = "row" /\ log[i].table = s

\* Mutant: the transaction that starts at p counts as executed.
IsGtidAtInclusive(p, g) ==
  /\ \A i \in 1 .. p : i <= Len(log) => log[i].gtid <= g
  /\ g # 0 => \E i \in 1 .. p : i <= Len(log) /\ log[i].gtid = g

\* gtid state of the server at position p (BINLOG_GTID_POS).
IsGtidAt(p, g) ==
  /\ \A i \in 1 .. p - 1 : log[i].gtid <= g
  /\ g # 0 => \E i \in 1 .. p - 1 : log[i].gtid = g

NoGtid == [from |-> 1, to |-> 0]

\* The test of the code: `if gtid'.
Given(g) == g.to # 0

\* fetch_current_gtid_pos: the whole history, uuid:1-n or 0-1-n; or the inferred gtid.
Whole(n) == [from |-> 1, to |-> n]

\* binlog_event.gtid: MariaDB's implies all that came before, MySQL's is itself alone.
EventGtid(n) == IF Engine = "mysql" THEN [from |-> n, to |-> n] ELSE Whole(n)

\* The transactions that the server does not send to a client with gtid g.
Executed(g) == g.from .. g.to

\* The position of the first transaction that is sent to a client with gtid g.
IsAfterGtid(g, p) ==
  /\ \A i \in 1 .. p - 1 : log[i].gtid \in Executed(g) \cup {0}
  /\ p <= Len(log) => log[p].gtid \notin Executed(g) \cup {0}

Joined == {s \in Streams : saved[s].pos # 0}

-----------------------------------------------------------------------------
(* The server and its other clients.                                        *)

Event(kind, table, rows, gtid) ==
  [kind |-> kind, table |-> table, rows |-> rows, gtid |-> gtid, file |-> curFile]

\* A transaction reaches the binlog as a whole: its gtid, its rows, its commit.  A row
\* event stands for a statement: the TABLE_MAP event, which the reader keeps to itself,
\* and a row event.  There is no position between the two.
Transaction(tx, g) ==
  <<Event("gtid", NoTable, 0, g)>>
    \o [i \in 1 .. Len(tx) |-> Event("row", tx[i].table, tx[i].rows, g)]
    \o <<Event("xid", NoTable, 0, g)>>

Commit(tx) ==
  /\ txns < MaxTxns
  /\ log' = log \o Transaction(tx, txns + 1)
  /\ txns' = txns + 1
  /\ UNCHANGED <<curFile, firstFile, envVars, stateVars, exit, pc, readerVars, countVars, outVars>>

RotateLog ==
  /\ curFile < MaxFile
  /\ log' = Append(log, Event("rotate", NoTable, 0, 0))
  /\ curFile' = curFile + 1
  /\ UNCHANGED <<txns, firstFile, envVars, stateVars, exit, pc, readerVars, countVars, outVars>>

\* Expires the oldest file, unless a connected reader is in it.
PurgeLog ==
  /\ MayPurge
  /\ firstFile < curFile
  /\ pc = "loop" /\ ~fresh => FileOf(next) > firstFile
  /\ firstFile' = firstFile + 1
  /\ UNCHANGED <<log, txns, curFile, envVars, stateVars, exit, pc, readerVars, countVars, outVars>>

\* The snapshot of a new stream, as do_sync_historical_binlog hands it over:
\* rows older than the coordinates are at the target, later ones are the binlog's.
Snapshot(s) ==
  /\ pc = "off"
  /\ origin[s] = 0
  /\ use_gtid => txns # 0
  /\ saved' = [saved EXCEPT ![s] = [pos |-> Len(log) + 1,
                                    gtid |-> IF use_gtid THEN Whole(txns) ELSE NoGtid]]
  /\ bm' = saved'
  /\ origin' = [origin EXCEPT ![s] = Len(log) + 1]
  /\ UNCHANGED <<serverVars, use_gtid, faults, exit, pc, readerVars, countVars, outVars>>

ToggleGtid ==
  /\ MayToggleGtid # "never"
  /\ MayToggleGtid = "together" => Joined \in {{}, Streams}
  /\ pc = "off"
  /\ use_gtid' = ~use_gtid
  /\ UNCHANGED <<serverVars, origin, faults, stateVars, exit, pc, readerVars, countVars, outVars>>

-----------------------------------------------------------------------------
(* sync_binlog_stream: calculate the bookmark, open the reader, fetch the end. *)

\* The catalogs a run may be given.
Selection == {S \in SUBSET Joined : S # {} /\ (MayDeselect \/ S = Joined)}

\* calculate_bookmark: no bookmarked file has expired, and p is the earliest
\* position in the first file, by name, of the bookmarks.
LogsExist(S) == \A s \in S : FileOf(saved[s].pos) >= firstFile

IsMinBookmark(S, p) ==
  /\ \E s \in S : p = saved[s].pos
  /\ \A s \in S : Reached(saved[s].pos, p)

\* calculate_gtid_bookmark: the gtid with the earliest end of the bookmarks that
\* have one, or on MariaDB the one inferred from the coordinates.
HasGtid(S) == {s \in S : Given(saved[s].gtid)}

CanInferGtid(S) ==
  /\ Engine = "mariadb"
  /\ LogsExist(S)
  /\ \E s \in S : IsMinBookmark(S, saved[s].pos) /\ ~IsGtidAt(saved[s].pos, 0)

\* Mutant: the latest gtid, not the earliest.
IsMinGtidLatest(S, g) ==
  /\ \E s \in HasGtid(S) : g = saved[s].gtid
  /\ \A s \in HasGtid(S) : saved[s].gtid.to <= g.to

IsMinGtid(S, g) ==
  \/ /\ \E s \in HasGtid(S) : g = saved[s].gtid
     /\ \A s \in HasGtid(S) : saved[s].gtid.to >= g.to
  \/ /\ HasGtid(S) = {}
     /\ CanInferGtid(S)
     /\ \E s \in S, n \in 1 .. txns :
          g = Whole(n) /\ IsMinBookmark(S, saved[s].pos) /\ IsGtidAt(saved[s].pos, n)

\* Mutant: the reader starts at the beginning of the bookmarked file.
StartAtFile(S, p, g) ==
  /\ pc' = "start"
  /\ sel' = S
  /\ next' \in {q \in 1 .. p : \A i \in 1 .. Len(log) : i < q <=> log[i].file < FileOf(p)}
  /\ reader_pos' = next'
  /\ fresh' = TRUE
  /\ gtid_pos' = g /\ executed' = g
  /\ UNCHANGED <<serverVars, envVars, stateVars, exit, end, log_pos, countVars, outVars>>

\* What a run starts with: its catalog, its position and its gtid.
StartAt(S, p, g) ==
  /\ pc' = "start"
  /\ sel' = S
  /\ next' = p /\ reader_pos' = p
  /\ fresh' = TRUE
  /\ gtid_pos' = g /\ executed' = g
  /\ UNCHANGED <<serverVars, envVars, stateVars, exit, end, log_pos, countVars, outVars>>

StartFromCoordinates(S) ==
  /\ pc = "off" /\ ~use_gtid /\ LogsExist(S)
  /\ \E s \in S : /\ IsMinBookmark(S, saved[s].pos)
                  /\ StartAt(S, saved[s].pos, NoGtid)

StartFromGtid(S) ==
  /\ pc = "off" /\ use_gtid
  /\ \E g \in {saved[s].gtid : s \in S} \cup {Whole(n) : n \in 1 .. txns}, p \in 1 .. Len(log) + 1 :
       /\ IsMinGtid(S, g)
       /\ IsAfterGtid(g, p)
       /\ StartAt(S, p, g)

\* Expired logs, or no gtid to start from.
StartFails(S) ==
  /\ pc = "off"
  /\ IF use_gtid THEN HasGtid(S) = {} /\ ~CanInferGtid(S) ELSE ~LogsExist(S)
  /\ exit' = 1
  /\ UNCHANGED <<serverVars, envVars, stateVars, pc, readerVars, countVars, outVars>>

\* fetch_current_log_file_and_pos.
FetchEnd ==
  /\ pc = "start"
  /\ pc' = "loop"
  /\ end' = Len(log) + 1
  /\ UNCHANGED <<serverVars, envVars, stateVars, exit, sel, next, reader_pos, fresh, log_pos, gtid_pos, executed, countVars, outVars>>

-----------------------------------------------------------------------------
(* The process ends: only the last STATE message survives it.               *)

Exit(status, state) ==
  /\ pc' = "off" /\ exit' = status
  /\ saved' = state /\ bm' = state
  /\ sel' = {} /\ next' = 1 /\ reader_pos' = 1 /\ fresh' = FALSE
  /\ end' = 0 /\ log_pos' = 0 /\ gtid_pos' = NoGtid /\ executed' = NoGtid
  /\ processed' = 0 /\ skipped' = 0

\* A kill, or an exception that the loop does not catch.
Crash ==
  /\ pc # "off"
  /\ faults < MaxFaults
  /\ faults' = faults + 1
  /\ Exit(1, saved)
  /\ UNCHANGED <<serverVars, use_gtid, origin, outVars>>

-----------------------------------------------------------------------------
(* The reader: mysql-replication as the loop uses it.                       *)

\* only_events of create_binlog_stream_reader, of the transactions the server sends.
Surfaces(e) ==
  /\ e.kind \in {"row", IF use_gtid THEN "gtid" ELSE "rotate"}
  /\ use_gtid => e.gtid \notin Executed(executed)

\* Mutant: one event too far.
ReportTooFar(i) == i + 2

\* reader.log_pos once event i is read; a rotation reports the new file.
Report(i) == IF ReportsEnd \/ log[i].kind = "rotate" THEN i + 1 ELSE i

\* The next event the reader returns is an event of the log.
Returns == pc = "loop" /\ ~fresh /\ next <= Len(log) /\ Surfaces(log[next])

\* Once connected, the server announces its file with an artificial rotation.
Announces == pc = "loop" /\ fresh /\ FileOf(next) >= firstFile

\* The file to read from was purged before the reader connected.
ReaderFails ==
  /\ pc = "loop" /\ fresh /\ FileOf(next) < firstFile
  /\ Exit(1, saved)
  /\ UNCHANGED <<serverVars, envVars, outVars>>

\* Events the reader consumes without returning them.
ReadFiltered ==
  /\ pc = "loop"
  /\ \/ Announces /\ use_gtid /\ fresh' = FALSE /\ next' = next /\ reader_pos' = next
     \/ /\ ~fresh /\ next <= Len(log) /\ ~Surfaces(log[next])
        /\ next' = next + 1 /\ reader_pos' = Report(next) /\ fresh' = fresh
  /\ UNCHANGED <<serverVars, envVars, stateVars, exit, pc, sel, end, log_pos, gtid_pos, executed, countVars, outVars>>

\* The library reconnects by itself, from auto_position or from its log_pos.
Reconnect ==
  /\ pc = "loop" /\ ~fresh
  /\ faults < MaxFaults
  /\ faults' = faults + 1
  /\ fresh' = TRUE
  /\ \E p \in 1 .. Len(log) + 1 :
       /\ IF use_gtid THEN IsAfterGtid(gtid_pos, p) ELSE p = reader_pos
       /\ next' = p
  /\ executed' = gtid_pos
  /\ UNCHANGED <<serverVars, use_gtid, origin, stateVars, exit, pc, sel, reader_pos, end, log_pos, gtid_pos, countVars, outVars>>

-----------------------------------------------------------------------------
(* _run_binlog_sync: one action per branch of the loop.                     *)

\* A counter that only tells zero and the multiples of the period apart.
Count(c, n) == IF n = 0 THEN c ELSE ((c + n - 1) % UPDATE_BOOKMARK_PERIOD) + 1

\* Mutant: the bookmarks of the streams that are not selected move too.
UpdateBookmarksOfAll(b, p, g) ==
  [s \in Streams |-> [pos |-> p, gtid |-> IF Given(g) THEN g ELSE b[s].gtid]]

UpdateBookmarks(b, p, g) ==
  [s \in Streams |->
     IF s \in sel THEN [pos |-> p, gtid |-> IF Given(g) THEN g ELSE b[s].gtid] ELSE b[s]]

\* What follows every branch: the position is kept, and a STATE message is
\* written when a counter stands at a multiple of the period.
EndOfIteration(b, p, g, pr, sk) ==
  LET due == UPDATE_BOOKMARK_PERIOD \in {pr, sk}
      b1  == IF due THEN UpdateBookmarks(b, p, g) ELSE b
  IN  /\ reader_pos' = p /\ log_pos' = p /\ gtid_pos' = g
      /\ processed' = pr /\ skipped' = sk
      /\ bm' = b1
      /\ saved' = IF due THEN b1 ELSE saved
      /\ UNCHANGED <<serverVars, envVars, exit, pc, sel, end, executed>>

\* RotateEvent: the artificial one of a new connection, or the end of a file.
RotateEvent ==
  /\ ~use_gtid
  /\ \/ Announces /\ next' = next
     \/ Returns /\ log[next].kind = "rotate" /\ next' = next + 1
  /\ ~Reached(next', end)
  /\ fresh' = FALSE
  /\ EndOfIteration(UpdateBookmarks(bm, next', gtid_pos), next', gtid_pos, processed, skipped)
  /\ UNCHANGED outVars

GtidEvent ==
  /\ Returns /\ log[next].kind = "gtid"
  /\ ~Reached(Report(next), end)
  /\ next' = next + 1 /\ fresh' = fresh
  /\ LET g == EventGtid(log[next].gtid) IN
       EndOfIteration(UpdateBookmarks(bm, Report(next), g), Report(next), g, processed, skipped)
  /\ UNCHANGED outVars

\* handle_write_rows_event, handle_update_rows_event, handle_delete_rows_event: a
\* record for each row of event i.
WriteRecords(i) ==
  /\ delivered' = delivered \cup {i}
  /\ last' = [last EXCEPT ![log[i].table] = i]

\* A row event of a selected table: its records are written, then it is counted.
RowsEvent ==
  /\ Returns /\ log[next].kind = "row" /\ log[next].table \in sel
  /\ ~Reached(Report(next), end)
  /\ next' = next + 1 /\ fresh' = fresh
  /\ WriteRecords(next)
  /\ EndOfIteration(bm, Report(next), gtid_pos, Count(processed, log[next].rows), skipped)

\* A row event of a table that is not in binlog_streams_map.
SkippedEvent ==
  /\ Returns /\ log[next].kind = "row" /\ log[next].table \notin sel
  /\ ~Reached(Report(next), end)
  /\ next' = next + 1 /\ fresh' = fresh
  /\ EndOfIteration(bm, Report(next), gtid_pos, processed, Count(skipped, 1))
  /\ UNCHANGED outVars

\* Mutant: the server's position at the end of the run, not at its beginning.
FinishAtCurrent(p) ==
  /\ Exit(0, UpdateBookmarks(bm, Len(log) + 1, gtid_pos))
  /\ UNCHANGED <<serverVars, envVars, outVars>>

\* The last update_bookmarks and the STATE message of sync_binlog_stream.
Finish(p) ==
  /\ Exit(0, IF p # 0 THEN UpdateBookmarks(bm, p, gtid_pos) ELSE bm)
  /\ UNCHANGED <<serverVars, envVars, outVars>>

\* The event returned is at or past the end position: it is not processed.
ReachedEnd ==
  /\ \/ Announces /\ ~use_gtid /\ Reached(next, end)
     \/ Returns /\ Reached(Report(next), end)
  /\ Finish(end)

\* Mutant: the position of the last event that was returned.
AdvanceToEndNever(p) == p

\* The position to save when the reader runs out of events.
AdvanceToEnd(p) ==
  IF p # 0 /\ FileOf(p) = FileOf(end) /\ p < end THEN end ELSE p

Exhausted ==
  /\ pc = "loop" /\ ~fresh /\ next > Len(log)
  /\ Finish(AdvanceToEnd(log_pos))

-----------------------------------------------------------------------------
NoBookmark == [pos |-> 0, gtid |-> NoGtid]

Init ==
  /\ log = <<>> /\ txns = 0
  /\ curFile = FirstFile /\ firstFile = FirstFile
  /\ use_gtid = UseGtid
  /\ saved = [s \in Streams |-> NoBookmark] /\ bm = saved
  /\ exit = 0
  /\ origin = [s \in Streams |-> 0]
  /\ pc = "off" /\ sel = {} /\ next = 1 /\ reader_pos = 1 /\ fresh = FALSE
  /\ end = 0 /\ log_pos = 0 /\ gtid_pos = NoGtid /\ executed = NoGtid
  /\ processed = 0 /\ skipped = 0
  /\ delivered = {}
  /\ last = [s \in Streams |-> 0]
  /\ faults = 0

\* The row events of one transaction.
Changes == UNION {[1 .. n -> [table : Streams, rows : RowCounts]] : n \in 1 .. MaxRowEvents}

ServerNext == (\E tx \in Changes : Commit(tx)) \/ RotateLog \/ PurgeLog

StartRun == \E S \in Selection : StartFromCoordinates(S) \/ StartFromGtid(S) \/ StartFails(S)

RunStep ==
  \/ FetchEnd \/ ReaderFails \/ ReadFiltered
  \/ RotateEvent \/ GtidEvent \/ RowsEvent \/ SkippedEvent
  \/ ReachedEnd \/ Exhausted

Next ==
  \/ ServerNext
  \/ (\E s \in Streams : Snapshot(s))
  \/ ToggleGtid
  \/ StartRun
  \/ RunStep
  \/ Reconnect
  \/ Crash

Spec == Init /\ [][Next]_vars

\* The scheduler starts the tap again and again, and a started tap keeps going.
FairSpec == Spec /\ WF_vars(StartRun) /\ WF_vars(RunStep)

-----------------------------------------------------------------------------
(* Properties.                                                              *)

Gtid == [from : IF Engine = "mysql" THEN Nat ELSE {1}, to : Nat]
Bookmark == [pos : 0 .. Len(log) + 1, gtid : Gtid]
EventType == [kind : {"gtid", "row", "xid", "rotate"}, table : Streams \cup {NoTable},
              rows : Nat, gtid : Nat, file : Nat]

\* Every variable has its type, and the reader never leaves the log.
TypeOK ==
  /\ log \in Seq(EventType) /\ txns \in Nat /\ curFile \in Nat /\ firstFile \in Nat
  /\ use_gtid \in BOOLEAN /\ exit \in {0, 1} /\ faults \in Nat
  /\ saved \in [Streams -> Bookmark] /\ bm \in [Streams -> Bookmark]
  /\ origin \in [Streams -> Nat]
  /\ pc \in {"off", "start", "loop"} /\ sel \subseteq Streams /\ fresh \in BOOLEAN
  /\ {next, reader_pos} \subseteq 1 .. Len(log) + 1 /\ end \in 0 .. Len(log) + 1
  /\ log_pos \in 0 .. Len(log) + 1 /\ {gtid_pos, executed} \subseteq Gtid
  /\ processed \in 0 .. UPDATE_BOOKMARK_PERIOD /\ skipped \in 0 .. UPDATE_BOOKMARK_PERIOD
  /\ delivered \subseteq 1 .. Len(log) /\ last \in [Streams -> 0 .. Len(log)]

\* The row events since its snapshot that stream s has yet to write.
Owed(s) == {i \in 1 .. Len(log) : RowOf(s, i) /\ origin[s] <= i /\ i \notin delivered}

\* Bookmark b declares event i replicated: with its own gtid or, when the run
\* starts from the earlier gtid of another stream, with all before it.
PassedOver(b, i) ==
  IF use_gtid /\ Given(b.gtid) THEN log[i].gtid <= b.gtid.to ELSE i < b.pos

\* A run started from the saved state cannot miss a row event: whatever the bookmark
\* of its stream declares replicated was delivered (update_bookmarks,
\* _run_binlog_sync, at every instant the process may die).
NoSkip == \A s \in Joined : \A i \in Owed(s) : ~PassedOver(saved[s], i)

\* The same, when no run is under way.
NoSkipAtRest == pc = "off" => NoSkip

\* A run that exits normally leaves the target with the newest change below the
\* bookmark of every stream it read: replaying the events that a stream with an
\* earlier bookmark needs never leaves another stream with an older row.
CaughtUp ==
  [][pc = "loop" /\ pc' = "off" /\ exit' = 0 =>
       \A s \in sel : \A i \in origin[s] .. saved'[s].pos - 1 : RowOf(s, i) => i <= last'[s]]_vars

\* A run that exits normally leaves no selected stream short of the position
\* the server had when the run began (the advance to end_log_pos).
CleanExitReachesEnd ==
  [][pc = "loop" /\ pc' = "off" /\ exit' = 0 => \A s \in sel : saved'[s].pos >= end]_vars

\* The earliest saved position, where the next run starts, never moves back.
ResumeNeverRegresses ==
  [][\A s \in Joined : \E t \in Joined : saved'[s].pos >= saved[t].pos]_vars

\* Replication seen from the target: the row events are the changes, and the last
\* STATE message has the bookmarks.
RowChanges ==
  {<<i, log[i].table>> : i \in {j \in 1 .. Len(log) : log[j].kind = "row" /\ log[j].table \in Streams}}
SavedPositions == [s \in Streams |-> saved[s].pos]

Promise ==
  INSTANCE AtLeastOnce
    WITH now <- Len(log) + 1, changes <- RowChanges, bookmark <- SavedPositions

\* With coordinates the loop implements at-least-once delivery: no step of the server,
\* the reader, a crash or a STATE message is other than AtLeastOnce allows.
KeepsPromise == Promise!Spec

\* Every row event committed after the snapshot of its stream is written in the
\* end, however often the tap crashes or loses its connection in between.
EveryEventDelivered ==
  \A s \in Streams, i \in 1 .. MaxTxns * (MaxRowEvents + 2) + MaxFile :
    (origin[s] # 0 /\ i >= origin[s] /\ RowOf(s, i)) ~> (i \in delivered)
=============================================================================
