------------------------------ MODULE FullTable ------------------------------
(***************************************************************************)
(* The snapshot of one table: full_table.sync_table with common.sync_query, *)
(* called by do_sync_full_table for a FULL_TABLE stream and by              *)
(* do_sync_historical_binlog for the initial sync of a LOG_BASED one, while *)
(* other clients change the table.                                          *)
(*                                                                          *)
(* A row is its primary key and the binlog position of its last change; the *)
(* position stands for the values.  `clock' is the position the server is   *)
(* at.  0 stands for an absent bookmark, row or version.                    *)
(***************************************************************************)
EXTENDS Naturals, FiniteSets

CONSTANTS
  Pks,               \* the primary key values
  Setups,            \* catalogs and output formats the tap is installed with
  StatePeriod,       \* records between two STATE messages: 1000
  BatchSize,         \* rows of a batch file
  MAX_SYNC_RETRIES,  \* attempts at the query of one run
  MaxChanges,        \* bound: changes to the table
  MaxRuns,           \* bound: runs of the tap
  MaxFaults,         \* bound: crashes and lost connections
  LoseBuffered,      \* the connection of a key range query may be lost while
                     \* rows are buffered
  Editable           \* values of `auto' for which the catalog may be edited

ASSUME FullTableAssumption ==
  /\ Pks \subseteq Nat \ {0}
  /\ IsFiniteSet(Pks)
  /\ Setups \subseteq [method : {"FULL_TABLE", "LOG_BASED"}, auto : BOOLEAN,
                       mode : {"record", "jsonl", "arrow"}]
  /\ {StatePeriod, BatchSize, MAX_SYNC_RETRIES} \subseteq Nat \ {0}
  /\ {MaxChanges, MaxRuns, MaxFaults} \subseteq Nat
  /\ LoseBuffered \in BOOLEAN /\ Editable \subseteq BOOLEAN

VARIABLES
  live,       \* primary keys of the rows of the table
  changed,    \* binlog position of the last change of each key
  clock,      \* current binlog position
  method,     \* replication-method in the catalog
  auto,       \* every primary key column is auto_increment
  mode,       \* output format
  edited,     \* history: the catalog was edited
  saved,      \* bookmark of the last STATE message
  target,     \* the target's table: version and position of each row
  pc,         \* the step the run takes next
  exit,       \* 0 when the last run reached its end
  since,      \* position of the server when the last run started
  runs,       \* runs started; also the time a new version is made of
  bm,         \* bookmark of the run's state dict
  version,    \* stream_version
  log0,       \* current_log_file, current_log_pos of do_sync_historical_binlog
  todo,       \* rows of the query that are not fetched yet
  buffer,     \* rows of the batch file that is not emitted yet
  count,      \* rows_saved, modulo StatePeriod
  checkpoint, \* the last row written completed a checkpoint
  attempt,    \* attempt of the retry loop
  faults      \* crashes and lost connections so far

serverVars == <<live, changed, clock>>
configVars == <<method, auto, mode, edited>>
queryVars  == <<todo, buffer, count, checkpoint>>
runVars    == <<since, runs, version, log0>>
vars == <<serverVars, configVars, saved, target, pc, exit, runVars, bm, queryVars, attempt, faults>>

Row == [pk : Pks, at : Nat]
Absent == [ver |-> 0, at |-> 0]
NoBookmark == [version |-> 0, log |-> 0, max |-> 0, last |-> 0, complete |-> FALSE]

\* The largest element of a set of keys; 0 when there is none.
MaxOf(S) == CHOOSE m \in S \cup {0} : \A x \in S : x <= m

-----------------------------------------------------------------------------
(* Other clients of the server.                                             *)

Change(p) ==
  /\ clock <= MaxChanges
  /\ clock' = clock + 1
  /\ changed' = [changed EXCEPT ![p] = clock + 1]
  /\ UNCHANGED <<configVars, saved, target, pc, exit, runVars, bm, queryVars, attempt, faults>>

Insert(p) == p \notin live /\ live' = live \cup {p} /\ Change(p)
Update(p) == p \in live /\ live' = live /\ Change(p)
Delete(p) == p \in live /\ live' = live \ {p} /\ Change(p)

\* The catalog is edited, once.
ChangeMethod ==
  /\ auto \in Editable /\ ~edited /\ pc = "off"
  /\ edited' = TRUE
  /\ method' \in {"FULL_TABLE", "LOG_BASED"} \ {method}
  /\ UNCHANGED <<serverVars, auto, mode, saved, target, pc, exit, runVars, bm, queryVars, attempt, faults>>

-----------------------------------------------------------------------------
(* The target: the latest row of a key wins, ACTIVATE_VERSION drops the rows *)
(* of every other version.                                                   *)

Deliver(t, rows) ==
  [p \in Pks |-> IF \E r \in rows : r.pk = p
                 THEN [ver |-> version, at |-> (CHOOSE r \in rows : r.pk = p).at]
                 ELSE t[p]]

\* Mutant: nothing is dropped.
ActivateVersionKeepsAll(t, v) == t

ActivateVersion(t, v) == [p \in Pks |-> IF t[p].ver = v THEN t[p] ELSE Absent]

-----------------------------------------------------------------------------
(* The start of a run.                                                      *)

\* binlog_stream_requires_historical.
RequiresHistorical(b) == b.log = 0 \/ b.max # 0 \/ b.last # 0

\* get_stream_version.
StreamVersion(b) == IF b.version # 0 THEN b.version ELSE runs + 1

\* Mutant: a resumed snapshot fetches the position again.
HistoricalBookmarkMoves(b) ==
  [b EXCEPT !.version = StreamVersion(b), !.log = IF auto THEN clock ELSE @]

\* do_sync_historical_binlog before sync_table: resume, or start over from the
\* current position, which is bookmarked at once only with an incrementing key.
HistoricalBookmark(b) ==
  IF b.max # 0 /\ b.log # 0
  THEN b
  ELSE [b EXCEPT !.version = StreamVersion(b), !.log = IF auto THEN clock ELSE @]

StartRun ==
  /\ pc = "off" /\ runs < MaxRuns
  /\ method = "LOG_BASED" => RequiresHistorical(saved)
  /\ bm' = IF method = "LOG_BASED" THEN HistoricalBookmark(saved) ELSE [saved EXCEPT !.log = 0]
  /\ log0' = clock
  /\ version' = StreamVersion(saved)
  /\ target' = IF saved.complete THEN target ELSE ActivateVersion(target, version')
  /\ runs' = runs + 1
  /\ since' = clock
  /\ exit' = 1
  /\ attempt' = 0
  /\ pc' = "connect"
  /\ UNCHANGED <<serverVars, configVars, saved, queryVars, faults>>

\* The top of the retry loop: an incrementing key gets its maximum, once.
Connect ==
  /\ pc = "connect"
  /\ bm' = IF auto /\ bm.max = 0 THEN [bm EXCEPT !.max = MaxOf(live)] ELSE bm
  /\ pc' = "execute"
  /\ UNCHANGED <<serverVars, configVars, saved, target, exit, runVars, queryVars, attempt, faults>>

\* The SELECT reads one snapshot; generate_pk_clause bounds it.
Execute ==
  /\ pc = "execute"
  /\ todo' = {[pk |-> p, at |-> changed[p]] :
                p \in {q \in live : bm.max # 0 => bm.last < q /\ q <= bm.max}}
  /\ buffer' = {} /\ count' = 0 /\ checkpoint' = FALSE
  /\ pc' = "rows"
  /\ UNCHANGED <<serverVars, configVars, saved, target, exit, runVars, bm, attempt, faults>>

-----------------------------------------------------------------------------
(* sync_query, _sync_query_arrow, BatchWriter and ArrowBatchWriter.         *)

\* Mutant: the query has no ORDER BY.
FetchedUnordered(C) ==
  /\ C # {} /\ C \subseteq todo
  /\ mode # "arrow" => Cardinality(C) = 1

\* Rows come one by one, in Arrow by record batches; in key order if the query
\* has the pk clause.
Fetched(C) ==
  /\ C # {} /\ C \subseteq todo
  /\ mode # "arrow" => Cardinality(C) = 1
  /\ bm.max # 0 => \A r \in C, q \in todo \ C : r.pk < q.pk

\* The rows C complete a checkpoint: a thousand records, or a batch file.
Completes(C) ==
  IF mode = "record" THEN (count + 1) % StatePeriod = 0
                     ELSE Cardinality(buffer \cup C) >= BatchSize

\* The rows C go to the target, in a batch file with those that are buffered.
Emit(C) == target' = Deliver(target, buffer \cup C) /\ buffer' = {}

\* The rows are written, then the bookmark moves to the last of them.
FetchRows ==
  /\ pc = "rows"
  /\ \E C \in SUBSET todo :
       /\ Fetched(C)
       /\ todo' = todo \ C
       /\ checkpoint' = Completes(C)
       /\ IF mode = "record" \/ checkpoint'
          THEN Emit(C)
          ELSE target' = target /\ buffer' = buffer \cup C
       /\ bm' = IF bm.max # 0 THEN [bm EXCEPT !.last = MaxOf({r.pk : r \in C})] ELSE bm
  /\ count' = IF mode = "record" THEN (count + 1) % StatePeriod ELSE count
  /\ pc' = IF checkpoint' THEN "state" ELSE "rows"
  /\ UNCHANGED <<serverVars, configVars, saved, exit, runVars, attempt, faults>>

\* The STATE message of a checkpoint, or the one after the last row.
EmitState ==
  /\ pc \in {"state", "laststate"}
  /\ saved' = bm
  /\ pc' = IF pc = "state" THEN "rows" ELSE "finish"
  /\ UNCHANGED <<serverVars, configVars, target, exit, runVars, bm, queryVars, attempt, faults>>

\* The last flush.
EndQuery ==
  /\ pc = "rows" /\ todo = {}
  /\ Emit({})
  /\ pc' = IF checkpoint THEN "finish" ELSE "laststate"
  /\ UNCHANGED <<serverVars, configVars, saved, exit, runVars, bm, todo, count, checkpoint, attempt, faults>>

-----------------------------------------------------------------------------
(* The end of a run.                                                        *)

\* Mutant: the position is fetched after the snapshot, not before it.
CompletedLatePosition(b) ==
  IF method = "FULL_TABLE" THEN [b EXCEPT !.version = 0, !.complete = TRUE]
  ELSE IF auto THEN b
  ELSE [b EXCEPT !.log = clock]

\* What do_sync_full_table and do_sync_historical_binlog write after the snapshot.
Completed(b) ==
  IF method = "FULL_TABLE" THEN [b EXCEPT !.version = 0, !.complete = TRUE]
  ELSE IF auto THEN b
  ELSE [b EXCEPT !.log = log0]

\* Mutant: last_pk_fetched is not cleared.
ClearedMaxOnly(b) == [b EXCEPT !.max = 0]

\* The key bookmarks that sync_table clears.
Cleared(b) == [b EXCEPT !.max = 0, !.last = 0]

\* The end of sync_table and of its caller.
Finish ==
  /\ pc = "finish"
  /\ target' = ActivateVersion(target, version)
  /\ bm' = Completed(Cleared(bm))
  /\ pc' = "exit"
  /\ UNCHANGED <<serverVars, configVars, saved, exit, runVars, queryVars, attempt, faults>>

Stop(status, state) ==
  /\ pc' = "off" /\ exit' = status
  /\ saved' = state /\ bm' = state
  /\ version' = 0 /\ log0' = 0 /\ attempt' = 0
  /\ todo' = {} /\ buffer' = {} /\ count' = 0 /\ checkpoint' = FALSE
  /\ UNCHANGED <<serverVars, configVars, target, since, runs>>

\* The next STATE message: of do_sync_full_table, or of sync_non_binlog_streams.
ExitState ==
  /\ pc = "exit"
  /\ Stop(0, bm)
  /\ UNCHANGED faults

\* Mutant: one attempt too many.
MayRetryOnceMore == attempt < MAX_SYNC_RETRIES

MayRetry == attempt < MAX_SYNC_RETRIES - 1

\* OperationalError: the query starts over, or the last attempt gives up.  The
\* batch writer and its rows are gone, the state dict is not.
ConnectionLost ==
  /\ pc \in {"connect", "execute", "rows"}
  /\ LoseBuffered \/ buffer = {} \/ bm.max = 0
  /\ faults < MaxFaults
  /\ faults' = faults + 1
  /\ IF MayRetry
     THEN /\ attempt' = attempt + 1
          /\ pc' = "connect"
          /\ todo' = {} /\ buffer' = {} /\ count' = 0 /\ checkpoint' = FALSE
          /\ UNCHANGED <<serverVars, configVars, saved, target, exit, runVars, bm>>
     ELSE Stop(1, saved)

Crash ==
  /\ pc # "off"
  /\ faults < MaxFaults
  /\ faults' = faults + 1
  /\ Stop(1, saved)

-----------------------------------------------------------------------------
Init ==
  /\ live \in SUBSET Pks
  /\ clock = 1 /\ changed = [p \in Pks |-> 1]
  /\ \E s \in Setups : method = s.method /\ auto = s.auto /\ mode = s.mode
  /\ edited = FALSE
  /\ saved = NoBookmark /\ bm = NoBookmark
  /\ target = [p \in Pks |-> Absent]
  /\ pc = "off" /\ exit = 1 /\ since = 0 /\ runs = 0
  /\ version = 0 /\ log0 = 0 /\ attempt = 0
  /\ todo = {} /\ buffer = {} /\ count = 0 /\ checkpoint = FALSE
  /\ faults = 0

ServerNext == \E p \in Pks : Insert(p) \/ Update(p) \/ Delete(p)

RunStep ==
  \/ StartRun \/ Connect \/ Execute \/ FetchRows \/ EmitState \/ EndQuery \/ Finish \/ ExitState

Next == ServerNext \/ ChangeMethod \/ RunStep \/ ConnectionLost \/ Crash

Spec == Init /\ [][Next]_vars
FairSpec == Spec /\ WF_vars(RunStep)

-----------------------------------------------------------------------------
(* Properties.                                                              *)

Bookmark == [version : Nat, log : Nat, max : Pks \cup {0}, last : Pks \cup {0}, complete : BOOLEAN]

\* Every variable has its type.
TypeOK ==
  /\ live \subseteq Pks /\ changed \in [Pks -> Nat] /\ clock \in Nat
  /\ method \in {"FULL_TABLE", "LOG_BASED"} /\ auto \in BOOLEAN
  /\ mode \in {"record", "jsonl", "arrow"} /\ edited \in BOOLEAN
  /\ saved \in Bookmark /\ bm \in Bookmark
  /\ target \in [Pks -> [ver : Nat, at : Nat]]
  /\ pc \in {"off", "connect", "execute", "rows", "state", "laststate", "finish", "exit"}
  /\ exit \in {0, 1} /\ since \in Nat /\ runs \in Nat /\ version \in Nat /\ log0 \in Nat
  /\ todo \subseteq Row /\ buffer \subseteq Row
  /\ count \in 0 .. StatePeriod - 1 /\ checkpoint \in BOOLEAN
  /\ attempt \in 0 .. MAX_SYNC_RETRIES - 1 /\ faults \in Nat

\* The target holds row p as the table has it; or, like the table, does not.
Holds(p) == target[p].ver # 0 /\ target[p].at = changed[p]
Lacks(p) == target[p].ver = 0

HandedOff == method = "LOG_BASED" /\ ~RequiresHistorical(saved)

\* Once the emitted bookmark hands a LOG_BASED stream to the binlog, every row
\* whose last change is older than the bookmark's position is at the target: the
\* snapshot and the binlog leave no gap between them (do_sync_historical_binlog).
HandoffNoMissing ==
  HandedOff => \A p \in live : changed[p] <= saved.log => Holds(p)

\* With an incrementing key, which keeps the position of an interrupted snapshot,
\* nor does the target keep a row that was deleted before that position: no later
\* binlog event would remove it.
HandoffNoGhost ==
  HandedOff /\ auto => \A p \in Pks \ live : changed[p] <= saved.log => Lacks(p)

\* While a LOG_BASED snapshot is under way, an emitted last_pk_fetched has no
\* row behind it that the target has yet to get: the resumed query starts after it.
ResumeCovers ==
  method = "LOG_BASED" /\ saved.last # 0 =>
    \A p \in live : p <= saved.last /\ changed[p] <= saved.log => Holds(p)

\* After a FULL_TABLE run that exits normally the target is the table: it has
\* every row that did not change since the run started, and no row deleted before.
FullTableIsCopy ==
  method = "FULL_TABLE" /\ exit = 0 =>
    \A p \in Pks : changed[p] <= since => IF p \in live THEN Holds(p) ELSE Lacks(p)

\* That holds, whatever was interrupted before, as long as the key does not
\* increment and the stream was always FULL_TABLE.
FullTableExact == ~auto /\ ~edited => FullTableIsCopy

\* A resumed LOG_BASED snapshot keeps its position: events between it and a
\* later one would be in neither the rows already written nor the binlog read.
SnapshotKeepsPosition ==
  [][method = "LOG_BASED" /\ saved.last # 0 => saved'.log = saved.log]_vars

\* A LOG_BASED stream reaches its handoff, however the faults fall.
EventuallyHandedOff == [](method = "LOG_BASED" /\ ~edited) => <>HandedOff
=============================================================================
