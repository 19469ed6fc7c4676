# TLA+ specification of pipelinewise-tap-mysql

The tap copies MySQL or MariaDB tables to a Singer target. It is started by a
scheduler, reads a state file and a catalog, writes RECORD (or BATCH), STATE and
ACTIVATE_VERSION messages, and exits. The next run is given the last STATE
message the target has confirmed. Everything that is hard about it follows from
that: other clients write to the server while a run reads it, a run may die
between any two messages, and what the tap promises (no row lost, no row left
stale, no snapshot lost) is a promise about the whole sequence of runs.

The modules below model that sequence. TLC checks them on small instances, and
TLAPS proves every invariant and action property of the passing runs for every
value of the constants, under hypotheses that are named where they are needed.

## Contents

| file | what it is |
|------|------------|
| `BinlogSync.tla` | LOG_BASED replication: the server's binlog, the reader, `sync_binlog_stream` |
| `AtLeastOnce.tla` | the abstract specification of replication by a log, which `BinlogSync` implements |
| `FullTable.tla` | the snapshot of one table, FULL_TABLE or before LOG_BASED |
| `Incremental.tla` | INCREMENTAL replication of one table |
| `Tap.tla` | the choice and order of the streams over runs |
| `Discovery.tla` | discovery and the resolution of a catalog, as operators |
| `ColumnMapping.tla` | which column a value of a binlog event goes to; extends `Discovery` |
| `Connection.tla` | connecting with back-off, session SQLs, certificate files, closing |
| `BinlogSyncProofs.tla` | types, and that no event is skipped |
| `BinlogRunProofs.tla` | `BinlogSync` implements `AtLeastOnce`; what a run leaves behind; gtids without faults; replays |
| `AtLeastOnceProofs.tla` | the abstract specification loses nothing |
| `FullTableProofs.tla`, `IncrementalProofs.tla` | the theorems about `FullTable` and `Incremental` |
| `TapProofs.tla`, `ColumnMappingProofs.tla`, `ConnectionProofs.tla` | those about `Tap`, `ColumnMapping` and `Connection` |
| `MC*.tla`, `MC*.cfg` | the instances TLC checks |
| `PROJECT.json` | runs, mutants, the source lines of every definition, findings, hazards |

Check a run with `tlc -config MCTapSync.cfg MCTap.tla`, a proof with
`tlapm ConnectionProofs.tla`.

## Inventory

Every path is below `src/tap_mysql/`.

### Run orchestration (`__init__.py`): module `Tap`

*State*: the state dict (`bookmarks`, `currently_syncing`), the two lists of
streams of the run. *Operations*: `get_non_binlog_streams`,
`get_binlog_streams`, `sync_non_binlog_streams`, `sync_binlog_streams`,
`do_sync_*`. *Interacts with*: every strategy, by passing the state dict, which
they change in place; discovery, once for each list. *Hard*: both lists are made
before the first SELECT and used after the last; a run may die in any stream;
tables appear and disappear at any moment, between the two discoveries too; the
catalog changes between runs; bookmarks of one method meet code of another.
*Correct when*: the interrupted stream comes first, the binlog is read only for
streams with a finished snapshot, no stream is put off forever.

### Binlog replication (`sync_strategies/binlog.py`): modules `BinlogSync`, `AtLeastOnce`

*State*: bookmarks (`log_file`, `log_pos`, `gtid`) per stream; in a run the
reader and its positions, `log_file`/`log_pos`, `gtid_pos`, two counters, the end
position. *Operations*: calculate the earliest bookmark or gtid, open the reader,
fetch the end, one branch of the loop per event type, a periodic STATE, the final
`update_bookmarks`. *Interacts with*: the server (commits, rotation, expiry), the
mysql-replication library (which filters events and reconnects), the snapshot
(which hands over coordinates). *Hard*: one reader for tables with different
bookmarks; positions moved by events of other tables; STATE between any two
events; gtids inside transactions; file names compared as strings. *Correct
when*: no bookmark passes an unwritten event, replaying never leaves a table
stale, a run reaches the end it fetched, everything is delivered in the end.

### Column mapping (`binlog.py`, the row event branch): module `ColumnMapping`

*State*: `binlog_streams_map` (catalog entry and desired columns of each stream),
`ignored_columns`, `legacy_column_mapping`, what the target was told in SCHEMA
messages, and the columns that the mysql-replication library has looked up. *Operations*: choose the streams, check the server's settings, map an
event, ignore columns, discover again, refuse an event without names. *Interacts
with*: discovery, which sees the table as it is now; the server's settings, which
decide whether an event names its columns. *Hard*: an event has the columns its
table had when it was written, the catalog those of the start of the run,
discovery those of this moment; one set of ignored names for all tables. *Correct
when*: a value goes to the column it came from, a live value is not left out, the
target knows each column of a record, discovery is not repeated, and each row is
emitted in the end.

### Discovery (`discover_utils.py`): module `Discovery`

*State*: none. *Operations*: inclusion of a column, metadata, `desired_columns`,
`resolve_catalog`, `should_run_discovery`. Used by `ColumnMapping` at the start of
a run and in the loop.

### Snapshot (`full_table.py`, `common.sync_query`, `do_sync_full_table`, `do_sync_historical_binlog`): module `FullTable`

*State*: `version`, `max_pk_values`, `last_pk_fetched`,
`initial_full_table_complete`, the coordinates fetched before the snapshot, the
unfinished batch file. *Operations*: start or resume, the retry loop, rows,
checkpoints, last flush, ACTIVATE_VERSION, clearing. *Hard*: clients write during
the SELECT and between resumed parts; a lost connection repeats the query with
the state dict moved on; two ACTIVATE_VERSION messages decide which rows the
target drops. *Correct when*: snapshot and binlog overlap and leave no gap, the
target keeps no deleted row, a FULL_TABLE run is a copy.

### INCREMENTAL replication (`incremental.py`, `_sync_query_arrow`): module `Incremental`

*State*: `replication_key`, `replication_key_value`, `version`. *Hard*: equal key
values at the bookmark, rows without a value, a changed replication key, retries
from a bookmark that runs ahead of a batch file. *Correct when*: no row lies
behind the bookmark without being at the target, and the target catches up.

### MySQL connection (`connection.py`): module `Connection`

*State*: `_conn`, `_ssl_temp_files`; on the server a session with its settings, on
disk the certificate files. *Operations*: connect, run the session SQLs, try
again, enter and leave a `with` block, close. *Interacts with*: every query, and
the retry loops of the table syncs, which open another block after an error.
*Hard*: an attempt may fail in connecting or in any session SQL; the next attempt
reuses the object of the one before; closing may raise. *Correct when*: a block
works in a session with all its settings, no session and no file is left, and
whoever asks for a connection gets one or an error.

### Other components

| component | state, operations | here |
|-----------|-------------------|------|
| BATCH writers (`common.py`) | rows of the unfinished file; add, flush, checkpoint | inside `FullTable` and `Incremental` (`buffer`, `Completes`, `Emit`) |
| `verify_binlog_config`, `verify_gtid_config` | none; read variables of the server | the first in `ColumnMapping` (`OpenReader`, `NoReader`); the second compares one variable |
| `adbc.py` | none; opens a cursor | not modelled: I/O |
| `stream_utils.py` | none; writes a line and flushes | not modelled: a message is delivered when it is written |
| value conversion (`row_to_singer_record`, type mapping) | none | not modelled: data |

## How the models correspond to the code

**State and messages.** `bm` (in `Tap`, `state`) is the state dict of the running
process. `saved` is the last STATE message: a crash (`Crash`, `Stop`, `Exit`)
leaves exactly that. A message counts as delivered when the tap has written it;
the target is what a Singer target does with the messages (`Deliver` upserts by
key, `ActivateVersion` drops the rows of other versions), modelled from how the
tap uses them.

**Granularity.** An action is the code between two points at which another
process can be observed or the tap can die with different consequences: a query
to the server, the read of an event, a STATE message. Records and the bookmark
that follows them are one action because both are lost together unless a STATE
message comes between, and that message is an action of its own (`EmitState`) or,
in the binlog loop, part of the branch that emits it: the loop checks its counters
at the end of the same iteration.

**BinlogSync.** A coordinate is an index into the sequence `log` of everything the
server ever wrote, so positions of different files are comparable for the
properties; the code's comparison is `Reached`, by file name first, with `NameGt`
for names whose number gains a digit. A transaction has a sequence number and is
appended whole (`Commit`), since that is how the server writes its binlog. Each of
its row events stands for a statement, which writes a TABLE_MAP event, that the
reader keeps to itself, and a row event: positions between the two are not
modelled, nor statements that need several row events. One action for each branch of `_run_binlog_sync`:

| code | action |
|------|--------|
| break at the end position | `ReachedEnd` |
| `RotateEvent` | `RotateEvent` |
| `GtidEvent`, `MariadbGtidEvent` | `GtidEvent` |
| row event of a selected stream | `RowsEvent` |
| row event of another table | `SkippedEvent` |
| the reader ends; advance to the end | `Exhausted` |
| counters, periodic STATE | `EndOfIteration`, in each of the above |
| events the library drops | `ReadFiltered` |
| the library reconnects | `Reconnect` |
| the first file has expired | `ReaderFails`, `StartFails` |

`ReportsEnd` says whether the library reports the end of an event (as
mysql-replication does) or its start. The runs take the first, `NoSkip` is proved
for both. The counters `processed` and `skipped` are folded: only zero, and the
multiples of the period, are distinguished, which is all the code asks of them.
A gtid, as a bookmark or `auto_position` has one, is what the server makes of
it: the interval of transactions that it takes for executed and does not send
(`Executed`). `fetch_current_gtid_pos` returns a whole history (`Whole`, `uuid:1-n`
or `0-1-n`). The gtid of an event (`EventGtid`) is that in MariaDB, and in MySQL the
transaction alone, `uuid:n`: a client that starts from it is sent 1 to n-1 again
and then what follows n. `IsAfterGtid` is the position of the first transaction
that is sent, `executed` the interval the server was given when the reader
connected, and `Surfaces` leaves out what lies in it further on. A snapshot is one
step here (`Snapshot`); `FullTable` justifies
it. It takes coordinates and gtid at one instant. The code fetches the gtid
second; what is committed between the two calls is then also in the SELECT,
which comes after both.

**AtLeastOnce.** Seen from the target, a row event is a change, a pair of its
position and its table, and the last STATE message is the bookmark of each table.
Tables change (`Commit`), join with a snapshot (`Join`), and are replicated
(`Replicate`): bookmarks move, in any direction, but never over a change of a
joined table that was not delivered. Everything about files, readers and counters
is a stutter or one of these.

**ColumnMapping.** The value of a column is represented by the column itself, so
that a record, a set of pairs of a name and a column, tells whether each value went
where it belongs. Each event carries the columns its table had when it was
written; a column remembers since when it has its name, which tells a column from
a later one of the same name. `EventNames` is what the library makes of an event
(external): its own names; or, where it has none and `legacy_column_mapping` is on,
those of the table, by position, if the columns are as many; or `Unnamed`.
`NamesVerified` is `verify_event_column_names`, the tap's own check of them before
the rows are read, and `RefuseEvent` what it does to the run. With
`use_column_name_cache` the library looks the columns of a table up once, when it
reads an event that needs them, and keeps them as long as the process lives
(`LookUp`, `KnownColumns`, `Forget`). The lookup and the check of the event are one
step, and events of tables that are not selected are not looked up, since nothing
depends on their names. Other clients add, drop, rename and move columns, drop tables, and
change `binlog_format` and `binlog_row_metadata`. `Namesakes` are the tables of
one name in several databases: discovery in the loop asks by name only.

**Connection.** A connection attempt has a number, which stands for the session it
opens on the server and for the three certificate files it writes. `settled` says
in which session each session SQL was last run; the server drops a session's
settings with it. A session SQL that the server refuses with an `InternalError` is
settled too: the code warns and goes on. Closing ends the session on the server
even when the call raises (external: the library closes the socket). `Use` may
follow an error, since the retry loops of the table syncs open a block again.

**FullTable.** `clock` is the server's binlog position and `changed[p]` the
position of the last change of row `p`: a row's value is the position it was
written at. `log` of a bookmark is its coordinates (or gtid), `max` and `last`
are `max_pk_values` and `last_pk_fetched`. The three output formats differ in
what completes a checkpoint and in how many rows come at once: a thousand
records, a full JSONL batch file, or whole Arrow record batches. `Emit` is the
flush that turns buffered rows into a BATCH message.

**Incremental.** A row has two columns that a catalog may name as replication
key. One of them may be NULL in a row that is inserted so; updates set it. Values
do not decrease from one commit to the next, which is what the method requires of
the column; the hazard of a transaction that commits late with an older value is
listed and not modelled. A row without a value is read only while the bookmark has
none: `NothingBehindBookmark` and `CleanRunIsComplete` leave such rows out after
that.

**Tap.** `StartRun` and `ListBinlog` are the two discoveries of a run, each of
which drops the streams whose table does not exist at that moment; a table may be
dropped or created before, between and after them. The SELECT of a table that is
gone ends the run (`TableGone`). A bookmark is reduced to the three facts the choice of streams looks at:
it exists, it has coordinates, it has key bookmarks. `Checkpoints` and
`Completed` say what each strategy leaves of them; they abstract `FullTable`,
`Incremental` and `BinlogSync`.

## What TLC checks

### Passing runs

| run | instance | properties |
|-----|----------|------------|
| `coordinates` | 2 tables, 2 transactions of 1–2 row events, 2 files, 1 fault, expiry, catalogs that leave a table out | `TypeOK`, `NoSkip`, `CleanExitReachesEnd`, `ResumeNeverRegresses`, `KeepsPromise` |
| `binlog_liveness` | 2 tables, 2 transactions, 2 files, 1 fault | `EveryEventDelivered`, `CaughtUp` |
| `gtid` | MariaDB, 2 tables, 3 transactions of a row event each, 2 files, expiry, `use_gtid` switched for the whole tap, no fault | `NoSkipAtRest`, `CaughtUp` |
| `snapshots` | 3 keys, 2 changes, 3 runs, 2 faults, every format and kind of key, one edit of the catalog | `TypeOK`, `HandoffNoMissing`, `HandoffNoGhost`, `ResumeCovers`, `FullTableExact`, `SnapshotKeepsPosition`, `EventuallyHandedOff` |
| `incremental` | 2 keys, 3 changes, 2 faults, every format, NULL as a value, the replication key changes | `TypeOK`, `NothingBehindBookmark`, `CleanRunIsComplete`, `HighWaterMark`, `EventuallySynced` |
| `tap` | 2 streams of any methods, 2 faults, each a crash or a dropped table, edits of the catalog | `TypeOK`, `BinlogListStillHolds`, `InterruptedStreamFirst`, `EveryStreamSynced` |
| `mapping` | 2 tables of up to 3 columns, 3 changes by other clients, 1 crash, each kind of first column, tables dropped, settings changed | `TypeOK`, `ValuesStayWithTheirColumns`, `NoLiveValueLost`, `NoRepeatedDiscovery`, `RecordFitsSchema`, `EveryRowEmitted` |
| `connection` | 2 uses of 5 attempts, 2 session SQLs, certificates, a server that drops sessions | `TypeOK`, `BlockIsConfigured`, `NoSessionLeftOpen`, `OnlyFailuresLeaveFiles`, `EveryUseAnswered` |

The longest (`coordinates`, `mapping`, `snapshots`, `incremental`) take two to three
minutes on two cores, the others less.

*What they show.* `NoSkip` is the heart of the binlog model: at every instant,
were the process to die now, the position the next run resumes a stream from has
nothing before it that the stream is still owed. `KeepsPromise` says the same of
behaviours: each step of the detailed model is a step of `AtLeastOnce` or a
stutter. `CaughtUp` is the counterpart: delivery is at least once and old events
are replayed for the sake of the table that is furthest behind, so the last
applied event of a table goes *back* in a run, and must have come forward again
when it ends. `HandoffNoMissing` ties the two strategies together: it is what
`Snapshot` assumes in `BinlogSync`. `ResumeCovers` and `NothingBehindBookmark`
are the same idea for keys: a bookmark has nothing behind it that the target
lacks. `BinlogListStillHolds` is about a decision made before, and used after,
other code has changed what it was made from.
`ValuesStayWithTheirColumns` has one exception, which the repository documents
(`COLUMN_MAPPING_RISK_MESSAGE`): an event without names that is older than an
alteration of its table is read by position, if the columns are as many, wrong as
that may be. It says that the library's cache adds nothing to this: columns looked
up before an alteration are never used for an event after it. That rests on an
order, the end position fetched before the first lookup, and on the process, with
the cache, ending before the next run begins; the mutant keeps the cache.
`NoLiveValueLost` exempts columns the user has deselected, names the run knows as
those of an unsupported column, and values that the exception above puts under
another name. Its mutant drops the tap's check of the names: records are then
written that have nothing in them.
`EveryRowEmitted` covers the runs that stop with an error: a table dropped for
good, or an event that can never be read, stops each run, and the property says
that nothing else does.

*Bounds, and why they are enough.* `UPDATE_BOOKMARK_PERIOD`, `StatePeriod` and
`BatchSize` are 2 in place of 1000 and more, so that STATE messages fall inside
transactions and between the rows of a query, and rows are left over at its end.
Two tables are what it takes to have an earliest bookmark and a stream that is
replayed; two files give an end in the current file and one beyond it; two
transactions with up to two row events give a bookmark before, inside and after a
transaction. The three of `gtid` fall before, between and after the snapshots of its
two tables. Three keys are what it takes to have one row behind
`last_pk_fetched`, one beyond `max_pk_values` and one between them; two faults
with `MAX_SYNC_RETRIES` 2 (the code has more) reach a retry, a last attempt and a
run that resumes a run that was resumed. In `mapping` three changes are a table
altered, an event written and the table altered again, in any order, before,
between and after the discoveries of a run; three columns are one before, at and
after the altered one. `connection` has the attempts of the code; two uses reach a
use after an error, with what the first one left. All counters are bounded in
guards (`MaxTxns`, `MaxFile`, `MaxChanges`, `MaxRuns`, `MaxFaults`, `MaxColumns`,
`MaxUses`). The table names of `coordinates` and `gtid` are symmetric; those runs
check no liveness.

*Deadlock.* Checked everywhere except in `FullTable`, whose bound `MaxRuns`
stops it, and `Connection`, which ends with the process. The other systems never
stop: a run can always be started.

*Fairness.* `WF(StartRun)` (or `RunStep`, which includes it): the scheduler
starts the tap again and again; if it did not, nothing would be promised.
`WF(RunStep)`, and `WF(Step)` in `Connection`: a started tap keeps going, since no
part of it waits for anything but the server, and each call to the server returns
or times out. `WF(FinishStream)` in `Tap`: a query ends, rather than passing
checkpoints forever. Nothing is assumed of the clients, of faults (which are
bounded, as the promise is about what happens when they cease) or of edits.

Every property has a mutant in `PROJECT.json`: an operator such as
`UpdateBookmarksOfAll` or `SelectedStrictly`, a plausible mistake in the code,
which violates it.

### Disagreements with the documentation

These runs find a violation, of a statement the repository makes about itself.

| run | what happens |
|-----|--------------|
| `gtid_crash` | The gtid of a transaction becomes the bookmark at its first event. A STATE message inside the transaction, then a crash: the next run starts after the transaction, and its remaining rows are skipped. A reconnection does the same through `auto_position`. |
| `batch_loss` | In BATCH mode the state dict moves on with rows that wait in an unfinished batch file. When the connection is lost, the retry starts after them: they are never emitted. `Incremental` behaves alike: with `LoseBuffered` TRUE, three rows and `BatchSize` 3, `NothingBehindBookmark` fails. |
| `interrupted_full` | A FULL_TABLE run of a table with an incrementing key bookmarks its key but not its version. The run that resumes it writes the rest under a new version, and activating that drops the first part. |
| `shared_names` | `ignored_columns` is one set of names for all the streams of a run, and takes names that discovery did not find any more. From then on a column of that name in another table, added while the run goes on, is left out of the records. |

Others are not runs of their own. Where a property of a passing run would meet
one, it is stated, or its run bounded, so as to exclude it; the constant or the
definition that shows it is named here. (The paths are below the repository's
root.)

* File names are compared as strings. With `FirstFile = 9`, `WrapFile = 10`,
  `MaxFile = 10` (999999 and 1000000 in MySQL) `NoSkip` fails.
* With MySQL, `use_gtid` switched on when one table has only coordinates and
  another has a gtid (`MayToggleGtid = "any"`, two tables): the run starts at the
  gtid and skips what the first is owed (`NoSkipAtRest`). README.md:458-459 says
  it fails instead.
* With MySQL, the bookmark that `GtidEvent` makes, `uuid:n`, is the transaction n
  alone. A run that resumes from it is sent 1 to n-1 again, ends with an older row
  than n at the target, and as its gtid falls back with the replay, every later run
  replays as well (the instance of `gtid` with `Engine = "mysql"`: `CaughtUp` fails,
  `NoSkipAtRest` holds). Where the files of 1 to n-1 have expired, the server refuses
  the reader. The comment at `binlog.py:793-796` expects of such a gtid not to have
  to consume the binlog from an old position.
* A crash during a replay, then a catalog without the table that required it
  (`MayDeselect` in `binlog_liveness`): the other table keeps an older row although
  the run exits normally (`CaughtUp`).
* A LOG_BASED snapshot without an incrementing key that is interrupted starts over
  at a new position but under its old version; a row written and then deleted in
  between stays (`HandoffNoGhost` without its condition on `auto`).
* A FULL_TABLE snapshot that is interrupted and becomes LOG_BASED goes on after
  `last_pk_fetched` at a new position (`Editable` with TRUE, `HandoffNoMissing`).
* `currently_syncing` is looked for among the streams with state only, then removed
  from all others: a stream interrupted before its first bookmark is left out of the
  next run, which exits normally (`CleanRunSyncsAll` of `Tap`, which no run checks;
  `tap_mysql/__init__.py:156`, against its docstring at 108-113).
* The catalog entry that discovery puts in place in the loop has none of the
  user's choices: a deselected column comes back (`DeselectedStaysOut`, with
  `"deselected"` in `FirstKinds`; README.md:280-281).
* Discovery in the loop asks for a table by name only and takes the first stream,
  which may be of another database (`DiscoversItsOwnTable`, with
  `Namesakes <- SameName`; the comment at `binlog.py:840`).
* `binlog_format` changed and changed back between two runs leaves changes that no
  run sees (`SettingsDoNotGoUnnoticed`, with `MayChangeFormat`; the comment at
  `binlog.py:1045-1046`).
* `tests/integration/test_tap_mysql.py:1344` speaks of a server without full row
  metadata being turned away; the code warns and falls back to positions
  (`binlog.py:133-141`), as `legacy` does here.
* A session SQL refused with an error that is not an `InternalError` ends the use
  (`SessionSqlFails`), although a test there says that invalid session SQLs are
  ignored.

## What is proved

Eight modules hold theorems, about the models for any values of their constants:
any number of streams, rows, transactions, changes, files, runs and faults, any
batch sizes and periods.

| module | theorem | states | hypothesis |
|--------|---------|--------|------------|
| `BinlogSyncProofs` | `TypeCorrect` | `TypeOK` | |
| | `CoordinatesNeverSkip` | `NoSkip` | `CoordinatesOnly` |
| `BinlogRunProofs` | `CoordinatesKeepPromise` | `KeepsPromise`, the refinement | `CoordinatesOnly` |
| | `CleanExitsReachEnd` | `CleanExitReachesEnd` | `CoordinatesOnly` |
| | `ResumeMovesForward` | `ResumeNeverRegresses` | `CoordinatesOnly` |
| | `GtidsSkipNothing` | `NoSkipAtRest` | `Undisturbed` |
| | `QuietRunsCatchUp` | `CaughtUp` | `Undisturbed`, `Contiguous` |
| | `ReplaysCatchUp` | `CaughtUp` | `CoordinatesOnly`, `~MayDeselect` |
| `AtLeastOnceProofs` | `PromiseLosesNothing` | `TypeOK`, `NothingLost` of `AtLeastOnce` | |
| `FullTableProofs` | `TypeCorrect` | `TypeOK` | |
| | `ResumesBehindNothing` | `ResumeCovers` | `Dependable` |
| | `HandoffLosesNoRow` | `HandoffNoMissing` | `Dependable` |
| | `HandoffKeepsNoGhost` | `HandoffNoGhost` | `Dependable` |
| | `FullTableCopies` | `FullTableExact` | `Dependable` |
| | `PositionKept` | `SnapshotKeepsPosition` | `Dependable` |
| `IncrementalProofs` | `TypeCorrect` | `TypeOK` | |
| | `NothingLeftBehind` | `NothingBehindBookmark` | `Dependable` |
| | `CleanRunsComplete` | `CleanRunIsComplete` | `Dependable` |
| | `ValueNeverFalls` | `HighWaterMark` | `Dependable` |
| `TapProofs` | `TypeCorrect` | `TypeOK` | |
| | `BinlogNeverReadsUnfinished` | `BinlogListStillHolds` | |
| | `InterruptedComesFirst` | `InterruptedStreamFirst` | |
| `ColumnMappingProofs` | `TypeCorrect` | `TypeOK` | |
| | `RecordsFitSchemas` | `RecordFitsSchema` | |
| | `ValuesStay` | `ValuesStayWithTheirColumns` | |
| | `DiscoversOnce` | `NoRepeatedDiscovery` | `OneDatabase` |
| | `LiveValuesKept` | `NoLiveValueLost` | `OneDatabase`, `OwnNames` |
| `ConnectionProofs` | `TypeCorrect` | `TypeOK` | |
| | `BlocksAreConfigured` | `BlockIsConfigured` | |
| | `OneSessionAtMost` | `NoSessionLeftOpen` | |
| | `FilesOfFailuresOnly` | `OnlyFailuresLeaveFiles` | |

*Assumptions.* The `ASSUME` of each component, the types of its constants, which
TLC evaluates in the runs. The hypotheses are about the constants, and each is
there because of something the code does:

* `CoordinatesOnly`: `use_gtid` is and stays off, and file numbers stay below
  `WrapFile` (`SameDigits`). The run `gtid_crash` and the file name example above
  are what happens without them. The run `coordinates` satisfies it.
* `Undisturbed`: no fault, file numbers stay below `WrapFile`, and `use_gtid` is
  never switched, or is switched for all streams at once and no catalog leaves a
  stream out. It holds in the run `gtid`. `gtid_crash` is a single fault, and the
  example with `MayToggleGtid = "any"` above is the other switch. With coordinates
  faults do no harm, so `CaughtUp` has a second theorem, `ReplaysCatchUp`, with
  any number of them; it needs `~MayDeselect`, as in `binlog_liveness`, because of
  the crash during a replay described above.
* `Contiguous`: the engine is MariaDB, or `use_gtid` is and stays off: a gtid implies
  those before it. It holds in `gtid`. With MySQL's gtids `CaughtUp` fails, as
  described above; `GtidsSkipNothing` holds of both engines, as what is sent again
  is not skipped.
* `Dependable` of `FullTable`: where the snapshot resumes by key range, the catalog
  is not edited between its parts and no buffered row is lost; nothing is asked of
  tables without an incrementing key. It holds in `snapshots`. `batch_loss` is what
  happens without the second, the FULL_TABLE snapshot that becomes LOG_BASED above
  without the first. That of `Incremental` says that no buffered row is lost, and
  holds in `incremental`. (`interrupted_full` violates neither: `FullTableExact` leaves
  out tables with an incrementing key, and a theorem could state no more.)
* `OneDatabase`: discovery by name finds the table itself; `OwnNames`: no two
  tables share a column name other than the key's. Both hold in `mapping`. The run
  `shared_names` is what happens without the second, `DiscoversItsOwnTable` above
  without the first.

*Argument for `NoSkip`.* It speaks of `saved` only and is not inductive: the
periodic STATE saves the position of the loop, so that position must be known to be
covered too, and that rests on where the reader is. The inductive invariant
`IInv` adds, to `TypeOK` and `~use_gtid`:

* `LogShape`: file numbers do not decrease along `log` and do not exceed
  `curFile`, so that the code's comparison of positions agrees with the order of
  the log (lemma `ReachedIsPast`); and the log never ends with a row event;
* `BookmarksCovered`: the bookmarks of the state dict, as well as the saved ones,
  have nothing owed before them;
* `ReaderCovered`: while a run is under way, no selected stream is owed an event
  before the next one that the reader receives, before `reader_pos` or before
  `log_pos`; outside the loop `log_pos` is unset;
* `EndShape`: the event before the end position is not a row event.

The last one is not obvious, and the code depends on it. The library reports the
end of an event, so the event that reports the end position makes the loop break
without being processed, while the bookmarks move to the end position. That
skips nothing only because `SHOW MASTER STATUS` returns a position between
transactions, and the last event of a transaction is its commit.

`Init => IInv`, the lemma `CoveredStep` with one step per action, and
`IInv => NoSkip` give the theorem. The delicate steps are `ReachedEnd`, for the
reason above; `Exhausted`, where the bookmark moves from the last event to the
end position without reading anything in between (the reader has consumed the
whole log, so what lies between was filtered or skipped); and `Commit`, where new
events must not lie before any bookmark.

*Argument for the refinement.* The mapping makes the row events the changes and
the positions of `saved` the bookmarks. `RInv` is `IInv` and `JoinShape`: exactly
the streams that have joined have bookmarks, and a run reads only such streams.
Commits and rotations map to `Commit` or a stutter, `Snapshot` to `Join`, and each
step that writes records or saves bookmarks to `Replicate` (lemma
`DeliveryIsReplicate`), whose condition is `NoSkip` after the step. So
`PromiseLosesNothing` holds of the loop as well.

*Argument for what a run leaves behind.* That a clean exit reaches the end it
fetched comes down to `Exhausted`: the code advances to the end only if the
loop's file is the end's file. `EInv` adds to `RInv` that the loop's position is in
the file the connected reader is in (`PositionInFile`, which needs that only a
rotation ends a file, `FilesInLine`); then a position before the end, with the
reader at the end of the log, is in the last file, and so is the end. That the next
start never moves back needs `RunFloored`: neither the reader nor anything in
memory is before the earliest saved bookmark, and the end is not either.

*Argument for the connection.* `IInv` of `ConnectionProofs` says how far the
session SQLs of this session have got, that the only open session is that of
`_conn`, and whose files `_ssl_temp_files` has: those of `_conn` in a session,
otherwise those of a failed attempt, which the next attempt forgets.

*Argument for gtids without faults.* A bookmark may have a gtid, coordinates or
both, and what is owed has to follow all of it. A row event is `Missing` when it
was not written, or, if gtids are `Contiguous`, when a replay has put an older one
at the target since. Transactions in the middle that the server does not send
(`Executed`) are no trouble as long as everything missing is later than the end of
the interval. `QInv`
says: gtids grow along the log and rotations have none (`GtidsGrow`); between runs
what is missing follows a bookmark's gtid, its position and the whole transaction
its position is in (`Settled`, which is why either may be used to resume, and why
MariaDB may be asked for the gtid of a position); in a run the reader is not past
anything missing (`ReaderBehind`); the end is between transactions and past those
whose gtid the loop has taken (`EndBetween`); and either all streams have a gtid or
none has (`Alike`), for the earliest of *some* bookmarks is no bound for the rest.
Inside a transaction a bookmark is not settled, since its gtid is taken from the
first event. It becomes so because the run goes on to the end, which is why the
theorem is about runs without faults.

*Argument for replays.* With coordinates a fault may end a run anywhere. In a run,
each stream is caught up to the next event (`CaughtTo`); between runs each stream
is caught up to *some* saved position, not its own (`ReplayShape`). That is enough,
as the next run starts at the earliest of them, and it is all there is: a run that
is cut short leaves streams with older rows. `EndCaughtUp` is the step to the end
position, with `EndShape` as for `NoSkip`.

*Argument for snapshots.* `IInv` of `FullTableProofs` accounts for every row that
has not changed since the position that the snapshot counts from (`Limit`): it is
on its way, in the unfinished batch or at the target under the run's version
(`Covered`), and rows before `last_pk_fetched` are not on their way any more. The
target has no row of the run's version that was deleted before the limit
(`NoGhost`), nor, in a resumable snapshot, one of another version (`OneVersion`);
`max_pk_values` is the largest key of what has not changed (`MaxCovers`). The same
is kept of the last STATE message (`SavedResumable`, `SavedRestarted`,
`SavedCopy`), since a crash makes it the state of the next run. `TypeOK` itself
needs an invariant: that a batch never exceeds `Pks` needs one row of each key
to be on its way (`OneEach`).

*Argument for INCREMENTAL.* A row read by a query may have been written since. `RowsOK`
says of each row on its way that it is as the table has it, or the table's has been
written since the run began, under a value that no bookmark of the run will pass
before the next run (`Current`, `Rewritten`). A row is `Due` when the bookmark
has passed it, or will with the rows of this query, or when it was there when the
query began; `Covered` says that each row due is at the target or on its way as
it is. What is emitted is `Promised`.

*Argument for the order of streams.* `ListsApart` is the point: the second discovery
and the second choice of streams are made from the state as it was at the first,
so no stream of the binlog is in the queue, being synced or synced by
SELECT, and no checkpoint of another stream touches its bookmark. The order of
the queue is computed by `Keep`, a recursive function. What it keeps
(`KeptExists`) is proved by minimal counterexample: `NatLessThanWellFounded` gives
a least element to any nonempty set of numbers, so that a set which has 0 and
every successor has them all (`AllNumbers`).

*Argument for column mapping.* `RecordsFitSchemas` follows from `Base`: entries of
mapped streams have the key, and the target knows what entries have. `ValuesStay`
is about two moments, that of the event and that of the lookup. A table counts its
alterations, and an event has the count of its moment (`AltersOK`): while they
agree, the table has the event's columns. `CacheOK` says that nothing is in the
cache outside the loop, and that for each event before the end position whose
table has not been altered since, the columns looked up, if any, are its own. The
end position was fetched when nothing was in the cache, a lookup takes the columns
of that moment, and so a table altered after a lookup has no unaltered event
before the end. The other two need what an event says of columns it is ahead or behind of:
a column that was looked for is ignored, or was found and is in the entry
as long as the table has it (`LookedOK`); a name is ignored only if no column of
the event's own table that still exists would be lost by it (`IgnoredOK`).

*Only model-checked*: all liveness (`EveryEventDelivered`, `EventuallyHandedOff`,
`EventuallySynced`, `EveryStreamSynced`, `EveryRowEmitted`, `EveryUseAnswered`),
since the prover handles neither liveness under fairness nor ENABLED; and the
combinations that the hypotheses leave out, most of which violate the properties,
as the runs and examples above show. Gtids with a fault that does not fall inside a
transaction are among them; no property here tells the two apart. The definitions of
`Discovery` are used by the proofs about `ColumnMapping` and have no theorem of
their own.

## Not modelled

Statements with several row events after one TABLE_MAP event, and the start of a
reader between them (`binlog.py:926-935` may bookmark such a position); views and
streams without selected columns; `verify_gtid_config`; the pymysql
connection of the binlog reader, beyond its failures, and the certificate paths
`connection.py:194` names for it, which nothing writes; `adbc.py`;
`stream_utils.py`; conversion of values, timestamps and types, and columns whose
type changes from one supported type to another; `_sdc_deleted_at`, which records
have and the first SCHEMA message of a stream lacks (`__init__.py:372`); the two
queries of a discovery apart from each other (a table created between them is a
`KeyError`, `discover_utils.py:237`); transactions that commit late with an older
replication key value; MariaDB domains beyond the one whose sequence number is
compared; composite replication or incrementing keys (MySQL allows one
auto_increment column); messages a target has received but not confirmed.

## Plan

Done: `BinlogSync`, `FullTable`, `Incremental`, `Tap`, `Discovery`,
`ColumnMapping`, `Connection`, `AtLeastOnce` with its refinement, and the proofs
above. What is left:

1. statements with several row events, as steps of their own in `BinlogSync`;
2. `Incremental` shown to keep a promise like that of `AtLeastOnce`, with the order
   of key values in place of the log, and `FullTable` to keep the one that
   `Snapshot` of `BinlogSync` assumes, as refinements;
3. gtids with faults that spare transactions (a crash between two of them).
