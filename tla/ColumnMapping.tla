---------------------------- MODULE ColumnMapping ----------------------------
(***************************************************************************)
(* Which column a value of a binlog event goes to: verify_binlog_config and *)
(* the row event branch of _run_binlog_sync in sync_strategies/binlog.py,   *)
(* while other clients alter the tables and the settings of the server.     *)
(*                                                                          *)
(* An event carries the columns its table had when it was written.  The     *)
(* value of a column is represented by the column itself, so a record is a  *)
(* set of pairs [as, col]: the value of col under the name as.              *)
(*                                                                          *)
(* Where the server did not write the names of the columns and the tap lets *)
(* it (legacy_column_mapping), the library looks the columns of the table   *)
(* up when it reads the first such event, and keeps them as long as the     *)
(* process lives.                                                           *)
(***************************************************************************)
EXTENDS Naturals, Sequences, Discovery

CONSTANTS
  Tables,           \* the LOG_BASED tables
  ColumnNames,      \* names a column of each table may have
  Unnamed,          \* what stands for a name that an event does not have
  FirstName,        \* the name of each table's second column at first
  FirstKinds,       \* what that column may be: "selected", "deselected", "unsupported"
  Namesakes,        \* for each table, the tables of its name in the order of their databases
  MaxColumns,       \* bound: columns of a table
  MaxChanges,       \* bound: steps of the other clients
  MaxFaults,        \* bound: crashes
  MayDropTable,     \* tables may be dropped
  MayChangeFormat,  \* binlog_format may be changed
  MayLackNames      \* binlog_row_metadata may be other than FULL

Kinds == {"selected", "deselected", "unsupported"}

ASSUME ColumnMappingAssumption ==
  /\ "id" \notin UNION {ColumnNames[t] : t \in Tables}
  /\ Unnamed \notin {"id"} \cup UNION {ColumnNames[t] : t \in Tables}
  /\ \A t \in Tables : /\ FirstName[t] \in ColumnNames[t] /\ FirstKinds[t] \subseteq Kinds
                       /\ Namesakes[t] \in Seq(Tables)
                       /\ t \in {Namesakes[t][i] : i \in DOMAIN Namesakes[t]}
  /\ {MaxColumns, MaxChanges, MaxFaults} \subseteq Nat
  /\ {MayDropTable, MayChangeFormat, MayLackNames} \subseteq BOOLEAN

VARIABLES
  tables,    \* the columns of each table; none when the table does not exist
  log,       \* the binlog: a change of a row each
  altered,   \* history: how often each table was altered
  server,    \* binlog_format is ROW, binlog_row_metadata is FULL
  clock,     \* steps of the other clients
  catalog,   \* the metadata of each stream in the catalog the run is given
  saved,     \* the position of the last STATE message
  pc,        \* "off", "select" (streams chosen) or "loop"
  legacy,    \* legacy_column_mapping
  cache,     \* the columns the library has looked up; none when it has not
  end,       \* the end position
  next,      \* the next event
  entry,     \* catalog_entry and desired_columns of binlog_streams_map
  schema,    \* the columns of the last SCHEMA message of each stream
  ignored,   \* ignored_columns
  record,    \* the last record: its event and its fields
  emitted,   \* history: the events whose record was written
  looked,    \* history: the columns discovery looked for, and in which table
  faults     \* crashes so far

clientVars == <<tables, log, altered, server, clock>>
streamVars == <<entry, schema>>
outVars    == <<record, emitted>>
loopVars   == <<legacy, cache, end, next, ignored, looked>>
vars == <<clientVars, catalog, saved, pc, loopVars, streamVars, outVars, faults>>

NoRecord == [event |-> 0, fields |-> {}]

-----------------------------------------------------------------------------
(* Other clients.                                                           *)

Client ==
  /\ clock < MaxChanges
  /\ clock' = clock + 1
  /\ UNCHANGED <<catalog, saved, pc, loopVars, streamVars, outVars, faults>>

\* A change of a row, with the names of the columns only if the server writes them.
Write(t) ==
  /\ Client
  /\ tables[t] # <<>>
  /\ log' = Append(log, [table |-> t, cols |-> tables[t], alters |-> altered[t],
                         row |-> server.row, named |-> server.full])
  /\ UNCHANGED <<tables, altered, server>>

Alter(t, cols) ==
  /\ Client
  /\ tables' = [tables EXCEPT ![t] = cols]
  /\ altered' = [altered EXCEPT ![t] = @ + 1]
  /\ UNCHANGED <<log, server>>

Column(n, supported) == [name |-> n, key |-> FALSE, supported |-> supported, since |-> clock + 1]

AddColumn(t, i, n, supported) ==
  /\ tables[t] # <<>> /\ Len(tables[t]) < MaxColumns
  /\ n \notin NamesOf(tables[t])
  /\ Alter(t, SubSeq(tables[t], 1, i) \o <<Column(n, supported)>>
                \o SubSeq(tables[t], i + 1, Len(tables[t])))

DropColumn(t, i) ==
  /\ ~tables[t][i].key
  /\ Alter(t, SubSeq(tables[t], 1, i - 1) \o SubSeq(tables[t], i + 1, Len(tables[t])))

RenameColumn(t, i, n) ==
  /\ ~tables[t][i].key /\ n \notin NamesOf(tables[t])
  /\ Alter(t, [tables[t] EXCEPT ![i].name = n, ![i].since = clock + 1])

\* MODIFY ... AFTER the next column.
MoveColumn(t, i) ==
  /\ i < Len(tables[t])
  /\ Alter(t, [tables[t] EXCEPT ![i] = tables[t][i + 1], ![i + 1] = tables[t][i]])

DropTable(t) == MayDropTable /\ tables[t] # <<>> /\ Alter(t, <<>>)

SetGlobal(s) ==
  /\ Client
  /\ server.row = s.row \/ MayChangeFormat
  /\ server.full = s.full \/ MayLackNames
  /\ server' = s
  /\ UNCHANGED <<tables, log, altered>>

-----------------------------------------------------------------------------
(* The start of a run.                                                      *)

NoEntry == [props |-> {}, md |-> Metadata(<<>>)]

\* Mutant: a table that no longer exists stays in the catalog of the run.
StreamsToSyncAll == Tables

\* Streams of tables that exist.
StreamsToSync == {t \in Tables : tables[t] # <<>>}

\* get_binlog_streams; the SELECT-based syncs follow.
ChooseStreams ==
  /\ pc = "off"
  /\ pc' = "select"
  /\ entry' = [t \in Tables |-> IF t \in StreamsToSync
                                THEN Resolve(catalog[t], tables[t]) ELSE NoEntry]
  /\ UNCHANGED <<clientVars, catalog, saved, loopVars, schema, outVars, faults>>

\* The streams of binlog_streams_map; a table that exists has an automatic column.
Mapped == {t \in Tables : entry[t] # NoEntry}

\* Mutant: the next run is in the same process.
ForgetNever == UNCHANGED cache

\* The process ends, and what the library has looked up is gone.
Forget == cache' = [t \in Tables |-> <<>>]

\* The run ends.
Stop(position) ==
  /\ pc' = "off"
  /\ Forget
  /\ saved' = position
  /\ legacy' = FALSE /\ end' = 0 /\ next' = 0 /\ ignored' = {} /\ looked' = {}
  /\ entry' = [t \in Tables |-> NoEntry] /\ schema' = [t \in Tables |-> {}]

\* sync_binlog_streams writes the SCHEMA messages; sync_binlog_stream checks the
\* server, opens the reader at the bookmark and fetches the end position.
OpenReader ==
  /\ pc = "select" /\ Mapped # {} /\ server.row
  /\ pc' = "loop"
  /\ schema' = [t \in Tables |-> entry[t].props]
  /\ legacy' = ~server.full
  /\ next' = saved /\ end' = Len(log) + 1
  /\ UNCHANGED <<clientVars, catalog, saved, cache, entry, ignored, looked, outVars, faults>>

\* No stream to read the binlog for, or a server that does not write row events.
NoReader ==
  /\ pc = "select" /\ (Mapped = {} \/ ~server.row)
  /\ Stop(saved)
  /\ UNCHANGED <<clientVars, catalog, outVars, faults>>

-----------------------------------------------------------------------------
(* The row event branch of the loop.                                        *)

Event == log[next]
Reads == pc = "loop" /\ next < end /\ Event.row

\* Mutant: the bookmark moves over the event that comes next.
AdvanceTooFar ==
  /\ next' = next + 1
  /\ saved' \in {saved, next + 2}
  /\ UNCHANGED <<clientVars, catalog, pc, legacy, end, faults>>

\* The periodic STATE message may follow any event.
Advance ==
  /\ next' = next + 1
  /\ saved' \in {saved, next + 1}
  /\ UNCHANGED <<clientVars, catalog, pc, legacy, end, faults>>

\* The columns of a table for the library: those it has looked up, or those it finds.
KnownColumns(t) == IF cache[t] # <<>> THEN cache[t] ELSE tables[t]

\* An event without the names makes it look them up, or use what it has.
LookUp ==
  cache' = IF legacy /\ ~Event.named
           THEN [cache EXCEPT ![Event.table] = KnownColumns(Event.table)] ELSE cache

\* The names of the event's columns: its own; or those of the table for the library,
\* by position, if the columns are as many; or none.
EventNames ==
  LET known == KnownColumns(Event.table)
      cols == IF Event.named THEN Event.cols ELSE known
  IN  [i \in DOMAIN Event.cols |->
         IF Event.named \/ (legacy /\ Len(known) = Len(Event.cols)) THEN cols[i].name ELSE Unnamed]

\* Mutant: an event without names is not refused.
NamesVerifiedNever == TRUE

\* verify_event_column_names does not raise.
NamesVerified == \A i \in DOMAIN EventNames : EventNames[i] # Unnamed

\* The handlers: the values of the columns that are desired.
WriteRecord(columns) ==
  /\ record' = [event |-> next,
                fields |-> {[as |-> EventNames[i], col |-> Event.cols[i]] :
                              i \in {j \in DOMAIN EventNames : EventNames[j] \in columns}}]
  /\ emitted' = emitted \cup {next}

\* What discovery finds under the name of table t: its first stream.
Found(t) ==
  LET existing == {i \in DOMAIN Namesakes[t] : tables[Namesakes[t][i]] # <<>>}
      first == CHOOSE i \in existing : \A j \in existing : i <= j
  IN  IF existing = {} THEN <<>> ELSE tables[Namesakes[t][first]]

\* __get_diff_in_columns_list.
Diff ==
  {EventNames[i] : i \in DOMAIN EventNames} \ ({Unnamed} \cup ignored \cup entry[Event.table].props)

\* An event of a stream, with the names of its columns.
Mappable == Reads /\ Event.table \in Mapped /\ NamesVerified

\* A statement, which the library does not return, or an event of another table.
SkipEvent ==
  /\ pc = "loop" /\ next < end
  /\ ~Event.row \/ Event.table \notin Mapped
  /\ Advance
  /\ UNCHANGED <<streamVars, cache, ignored, looked, outVars>>

\* verify_event_column_names raises.
RefuseEvent ==
  /\ Reads /\ Event.table \in Mapped /\ ~NamesVerified
  /\ Stop(saved)
  /\ UNCHANGED <<clientVars, catalog, outVars, faults>>

MapEvent ==
  /\ Mappable /\ Diff = {}
  /\ LookUp
  /\ WriteRecord(entry[Event.table].props)
  /\ Advance
  /\ UNCHANGED <<streamVars, ignored, looked>>

\* Discovery is not worth running: the columns are ignored from here on.
IgnoreColumns ==
  /\ Mappable /\ Diff # {} /\ ~ShouldRunDiscovery(Diff, entry[Event.table].md)
  /\ ignored' = ignored \cup Diff
  /\ LookUp
  /\ WriteRecord(entry[Event.table].props)
  /\ Advance
  /\ UNCHANGED <<streamVars, looked>>

\* Mutant: the target is not told.
AdoptSilently(t, new) ==
  /\ entry' = [entry EXCEPT ![t] = new]
  /\ schema' = schema

\* A schema that differs is sent to the target, then used.
Adopt(t, new) ==
  IF new.props = entry[t].props
  THEN UNCHANGED streamVars
  ELSE entry' = [entry EXCEPT ![t] = new] /\ schema' = [schema EXCEPT ![t] = new.props]

\* Mutant: what discovery cannot place is looked for again.
UnresolvedNone(new) == {}

\* The columns that discovery cannot place.
Unresolved(new) == Diff \ new.props

Rediscovers == Mappable /\ Diff # {} /\ ShouldRunDiscovery(Diff, entry[Event.table].md)

Rediscover ==
  /\ Rediscovers /\ Found(Event.table) # <<>>
  /\ LET t == Event.table
         new == Discover(Found(t))
     IN  /\ Adopt(t, new)
         /\ ignored' = ignored \cup Unresolved(new)
         /\ looked' = looked \cup {[table |-> t, name |-> n, cols |-> Found(t)] : n \in Diff}
         /\ WriteRecord(entry'[t].props)
  /\ LookUp
  /\ Advance

\* discover_catalog(...).streams[0] of an empty list.
RediscoverFails ==
  /\ Rediscovers /\ Found(Event.table) = <<>>
  /\ Stop(saved)
  /\ UNCHANGED <<clientVars, catalog, outVars, faults>>

ReachEnd ==
  /\ pc = "loop" /\ next = end
  /\ Stop(end)
  /\ UNCHANGED <<clientVars, catalog, outVars, faults>>

Crash ==
  /\ pc # "off" /\ faults < MaxFaults
  /\ faults' = faults + 1
  /\ Stop(saved)
  /\ UNCHANGED <<clientVars, catalog, outVars>>

-----------------------------------------------------------------------------
\* When the user's catalog is made, a table has a primary key and one more column.
FirstColumns(t, kind) ==
  <<[name |-> "id", key |-> TRUE, supported |-> TRUE, since |-> 0],
    [name |-> FirstName[t], key |-> FALSE, supported |-> kind # "unsupported", since |-> 0]>>

Init ==
  /\ \E K \in [Tables -> Kinds] :
       /\ \A t \in Tables : K[t] \in FirstKinds[t]
       /\ tables = [t \in Tables |-> FirstColumns(t, K[t])]
       /\ catalog = [t \in Tables |-> [Metadata(FirstColumns(t, K[t])) EXCEPT
                       !.deselected = IF K[t] = "deselected" THEN {FirstName[t]} ELSE {}]]
  /\ log = <<>> /\ clock = 0 /\ altered = [t \in Tables |-> 0]
  /\ server \in [row : {TRUE}, full : {TRUE, ~MayLackNames}]
  /\ saved = 1 /\ pc = "off"
  /\ legacy = FALSE /\ cache = [t \in Tables |-> <<>>] /\ end = 0 /\ next = 0 /\ ignored = {} /\ looked = {}
  /\ entry = [t \in Tables |-> NoEntry] /\ schema = [t \in Tables |-> {}]
  /\ record = NoRecord /\ emitted = {}
  /\ faults = 0

ClientNext ==
  \/ \E t \in Tables :
       \/ Write(t)
       \/ DropTable(t)
       \/ \E i \in DOMAIN tables[t] :
            \/ \E n \in ColumnNames[t], supported \in BOOLEAN : AddColumn(t, i, n, supported)
            \/ DropColumn(t, i)
            \/ \E n \in ColumnNames[t] : RenameColumn(t, i, n)
            \/ MoveColumn(t, i)
  \/ \E s \in [row : BOOLEAN, full : BOOLEAN] \ {server} : SetGlobal(s)

RunStep ==
  \/ ChooseStreams \/ OpenReader \/ NoReader
  \/ SkipEvent \/ RefuseEvent \/ MapEvent \/ IgnoreColumns
  \/ Rediscover \/ RediscoverFails \/ ReachEnd

Next == ClientNext \/ RunStep \/ Crash

Spec == Init /\ [][Next]_vars

\* The scheduler starts the tap again and again, and a started tap keeps going.
FairSpec == Spec /\ WF_vars(RunStep)

-----------------------------------------------------------------------------
(* Properties.                                                              *)

Names == {"id"} \cup UNION {ColumnNames[t] : t \in Tables}
Columns == [name : Names, key : BOOLEAN, supported : BOOLEAN, since : Nat]
StreamMetadata == [known : SUBSET Names, default : SUBSET Names, deselected : SUBSET Names]
Entry == [props : SUBSET Names, md : StreamMetadata]
RowChange == [table : Tables, cols : Seq(Columns), alters : Nat, row : BOOLEAN, named : BOOLEAN]

\* Every variable has its type; positions are positions of the binlog.
TypeOK ==
  /\ tables \in [Tables -> Seq(Columns)] /\ cache \in [Tables -> Seq(Columns)]
  /\ altered \in [Tables -> Nat] /\ clock \in Nat /\ faults \in Nat
  /\ log \in Seq(RowChange) /\ catalog \in [Tables -> StreamMetadata]
  /\ server \in [row : BOOLEAN, full : BOOLEAN]
  /\ pc \in {"off", "select", "loop"} /\ legacy \in BOOLEAN
  /\ saved \in 1 .. Len(log) + 1
  /\ {end, next} \subseteq 0 .. Len(log) + 1
  /\ entry \in [Tables -> Entry] /\ schema \in [Tables -> SUBSET Names]
  /\ ignored \subseteq Names
  /\ emitted \subseteq DOMAIN log /\ record.event \in {0} \cup DOMAIN log

\* A record is written in this step.
Records == record'.event # 0 /\ record' # record /\ pc = "loop"

\* The table of event e has not been altered since the event was written.
Unaltered(e) == e.alters = altered[e.table]

\* A value goes under another name than its column's only where the repository says
\* so (COLUMN_MAPPING_RISK_MESSAGE): an event without names, that was written before its
\* table was altered, while the columns are as many.  That the library looks the
\* columns up once must not add events that were written after the table was altered.
ValuesStayWithTheirColumns ==
  [][Records => \A f \in record'.fields :
       f.as # f.col.name =>
         /\ ~log[next].named /\ ~Unaltered(log[next])
         /\ Len(KnownColumns(log[next].table)) = Len(log[next].cols)]_vars

\* The columns of the catalog entry that discovery does not run for.
Unsupported(md) == md.known \ md.default

\* The value of a supported column that the table has had under the same name since
\* the event was written is not left out of the record, unless the user has deselected
\* it or the run knows the name as one of an unsupported column (the discovery branch
\* of the loop; CHANGELOG.md, 1.3.3: "to avoid data loss"), or the event has no names and
\* its table was altered.  A record with nothing in it is what the refusal of events
\* without names is for (tests/integration/test_tap_mysql.py:1346).
NoLiveValueLost ==
  [][Records /\ (log[next].named \/ Unaltered(log[next])) =>
       LET t == log[next].table
       IN  \A c \in {log[next].cols[i] : i \in DOMAIN log[next].cols} :
             (/\ c.supported
              /\ c.name \notin catalog[t].deselected \cup Unsupported(entry[t].md)
              /\ \E i \in DOMAIN tables[t] : tables[t][i] = c)
               => [as |-> c.name, col |-> c] \in record'.fields]_vars

\* Discovery does not look twice for a column in the same table: it cannot run at
\* every event (CHANGELOG.md, 1.4.3).
NoRepeatedDiscovery ==
  [][Rediscover => \A n \in Diff :
       [table |-> Event.table, name |-> n, cols |-> Found(Event.table)] \notin looked]_vars

\* The target knows every column of the table in a record from the last SCHEMA message
\* (the discovery branch; _sdc_deleted_at, which the tap adds, is not a column).
RecordFitsSchema ==
  [][Records => \A f \in record'.fields : f.as \in schema'[log[next].table]]_vars

\* A column the user has deselected stays out of the records.
DeselectedStaysOut ==
  [][Records => \A f \in record'.fields : f.as \notin catalog[log[next].table].deselected]_vars

\* Discovery in the loop is about the table of the event.
DiscoversItsOwnTable ==
  [][Rediscover => Found(Event.table) = tables[Event.table]]_vars

\* A bookmark does not pass a change that the binlog has no row event of.
SettingsDoNotGoUnnoticed == \A i \in 1 .. saved - 1 : log[i].row

\* Why a change of a row may not get to the target: its table was dropped, the server
\* no longer writes row events, or the tap stops at an event without names, as it does
\* not look them up or the table of that event was altered.
GivenUp(i) ==
  \/ tables[log[i].table] = <<>>
  \/ ~server.row
  \/ \E j \in DOMAIN log : ~log[j].named /\ (server.full \/ ~Unaltered(log[j]))

\* A change of a row gets to the target in the end, however often tables are altered
\* and dropped and runs stop (README.md:436: "a table that nobody alters keeps
\* replicating on any server"), unless it is given up.
EveryRowEmitted ==
  \A i \in 1 .. MaxChanges :
    (i \in DOMAIN log /\ log[i].row) ~> (i \in emitted \/ (i \in DOMAIN log /\ GivenUp(i)))
=============================================================================
