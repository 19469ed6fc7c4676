----------------------------- MODULE Incremental -----------------------------
(***************************************************************************)
(* INCREMENTAL replication of one table: do_sync_incremental and            *)
(* incremental.sync_table with common.sync_query, run after run, while      *)
(* other clients change the table.                                          *)
(*                                                                          *)
(* A row has two columns a replication key may name: an increasing id and   *)
(* the time of its last update.  Times only grow, several rows may have the *)
(* same one, and it may be NULL.  `at' numbers the writes and stands for    *)
(* the other values of the row.  0 stands for NULL and for an absent        *)
(* bookmark, row or version.                                                *)
(***************************************************************************)
EXTENDS Naturals, FiniteSets

CONSTANTS
  Pks,               \* the primary key values
  Keys,              \* replication keys of the initial catalog
  Modes,             \* output formats: "record", "jsonl", "arrow"
  StatePeriod,       \* records between two STATE messages: 1000
  BatchSize,         \* rows of a batch file
  MAX_SYNC_RETRIES,  \* attempts at the query of one run
  MaxChanges,        \* bound: changes to the table
  MaxFaults,         \* bound: crashes and lost connections
  LoseBuffered,      \* the connection may be lost while rows are buffered
  MayChangeKey       \* the catalog may be edited between two runs

ASSUME IncrementalAssumption ==
  /\ IsFiniteSet(Pks)
  /\ Keys \subseteq {"id", "updated"}
  /\ Modes \subseteq {"record", "jsonl", "arrow"}
  /\ {StatePeriod, BatchSize, MAX_SYNC_RETRIES} \subseteq Nat \ {0}
  /\ {MaxChanges, MaxFaults} \subseteq Nat
  /\ {LoseBuffered, MayChangeKey} \subseteq BOOLEAN

VARIABLES
  rows,       \* the table
  now,        \* latest time of a row
  clock,      \* number of writes
  key,        \* replication-key in the catalog
  mode,       \* output format
  saved,      \* bookmark of the last STATE message
  target,     \* the target's table: version and `at' of each row
  pc,         \* the step the run takes next
  exit,       \* 0 when the last run reached its end
  since,      \* `clock' when the last run started
  versions,   \* history: versions made so far
  bm,         \* bookmark of the run's state dict
  todo,       \* rows of the query that are not fetched yet
  buffer,     \* rows of the batch file that is not emitted yet
  count,      \* rows_saved, modulo StatePeriod
  checkpoint, \* the last row written completed a checkpoint
  attempt,    \* attempt of the retry loop
  faults      \* crashes and lost connections so far

serverVars == <<rows, now, clock>>
configVars == <<key, mode>>
queryVars  == <<todo, buffer, count, checkpoint>>
vars == <<serverVars, configVars, saved, target, pc, exit, since, versions, bm, queryVars, attempt, faults>>

NoRow == [id |-> 0, updated |-> 0, at |-> 0]
Absent == [ver |-> 0, at |-> 0]
NoBookmark == [key |-> "none", value |-> 0, version |-> 0]
Live == {p \in Pks : rows[p] # NoRow}

-----------------------------------------------------------------------------
(* Other clients of the server.                                             *)

\* A write at time t, no earlier than the writes before it, or at NULL.
Write(p, t, row) ==
  /\ clock < MaxChanges
  /\ clock' = clock + 1 /\ now' = IF t = 0 THEN now ELSE t
  /\ rows' = [rows EXCEPT ![p] = row]
  /\ UNCHANGED <<configVars, saved, target, pc, exit, since, versions, bm, queryVars, attempt, faults>>

Insert(p, t) == p \notin Live /\ Write(p, t, [id |-> clock + 1, updated |-> t, at |-> clock + 1])
Update(p, t) == p \in Live /\ Write(p, t, [rows[p] EXCEPT !.updated = t, !.at = clock + 1])
Delete(p) == p \in Live /\ Write(p, now, NoRow)

ChangeKey ==
  /\ MayChangeKey /\ pc = "off"
  /\ key' \in {"id", "updated"} \ {key}
  /\ UNCHANGED <<serverVars, mode, saved, target, pc, exit, since, versions, bm, queryVars, attempt, faults>>

-----------------------------------------------------------------------------
(* The target: the latest row of a key wins, ACTIVATE_VERSION drops the rows *)
(* of every other version.                                                   *)

Deliver(t, R) ==
  [p \in Pks |-> IF \E r \in R : r.pk = p
                 THEN [ver |-> bm.version, at |-> (CHOOSE r \in R : r.pk = p).at]
                 ELSE t[p]]

ActivateVersion(t, v) == [p \in Pks |-> IF t[p].ver = v THEN t[p] ELSE Absent]

-----------------------------------------------------------------------------
(* incremental.sync_table.                                                  *)

\* Mutant: the value of the old key is kept under the new one.
KeyBookmarkKeepsValue(b) == [b EXCEPT !.key = key]

\* A new replication key starts without a value.
KeyBookmark(b) == IF b.key = key THEN b ELSE [b EXCEPT !.key = key, !.value = 0]

\* get_stream_version.
StreamVersion(b) == IF b.version # 0 THEN b.version ELSE versions + 1

\* Up to the retry loop: the key, the version and its ACTIVATE_VERSION.
StartRun ==
  /\ pc = "off"
  /\ bm' = [KeyBookmark(saved) EXCEPT !.version = StreamVersion(saved)]
  /\ versions' = IF bm'.version > versions THEN bm'.version ELSE versions
  /\ target' = ActivateVersion(target, bm'.version)
  /\ since' = clock
  /\ exit' = 1
  /\ pc' = "execute"
  /\ UNCHANGED <<serverVars, configVars, saved, queryVars, attempt, faults>>

\* Mutant: the WHERE clause is strict.
SelectedStrictly == {p \in Live : bm.value # 0 => rows[p][key] > bm.value}

\* Mutant: there is no WHERE clause.
SelectedAll == Live

\* The WHERE clause, which NULL never meets.
Selected == {p \in Live : bm.value # 0 => rows[p][key] >= bm.value}

\* The SELECT reads one snapshot.
Execute ==
  /\ pc = "execute"
  /\ todo' = {[pk |-> p, key |-> rows[p][key], at |-> rows[p].at] : p \in Selected}
  /\ buffer' = {} /\ count' = 0 /\ checkpoint' = FALSE
  /\ pc' = "rows"
  /\ UNCHANGED <<serverVars, configVars, saved, target, exit, since, versions, bm, attempt, faults>>

-----------------------------------------------------------------------------
(* sync_query and _sync_query_arrow for an INCREMENTAL stream.              *)

\* Rows come in the order of the replication key, NULL first, in Arrow by record batches.
Fetched(C) ==
  /\ C # {} /\ C \subseteq todo
  /\ mode # "arrow" => Cardinality(C) = 1
  /\ \A r \in C, q \in todo \ C : r.key <= q.key

\* The rows C complete a checkpoint: a thousand records, or a batch file.
Completes(C) ==
  IF mode = "record" THEN (count + 1) % StatePeriod = 0
                     ELSE Cardinality(buffer \cup C) >= BatchSize

\* The rows C go to the target, in a batch file with those that are buffered.
Emit(C) == target' = Deliver(target, buffer \cup C) /\ buffer' = {}

\* The rows are written, then the bookmark moves to the last of them.
FetchRows ==
  /\ pc = "rows"
  /\ \E C \in SUBSET todo :
       /\ Fetched(C)
       /\ todo' = todo \ C
       /\ checkpoint' = Completes(C)
       /\ IF mode = "record" \/ checkpoint'
          THEN Emit(C)
          ELSE target' = target /\ buffer' = buffer \cup C
       /\ \E r \in C : /\ \A q \in C : q.key <= r.key
                       /\ bm' = [bm EXCEPT !.value = r.key]
  /\ count' = IF mode = "record" THEN (count + 1) % StatePeriod ELSE count
  /\ pc' = IF checkpoint' THEN "state" ELSE "rows"
  /\ UNCHANGED <<serverVars, configVars, saved, exit, since, versions, attempt, faults>>

\* The STATE message of a checkpoint, or the one after the last row.
EmitState ==
  /\ pc \in {"state", "laststate"}
  /\ saved' = bm
  /\ pc' = IF pc = "state" THEN "rows" ELSE "exit"
  /\ UNCHANGED <<serverVars, configVars, target, exit, since, versions, bm, queryVars, attempt, faults>>

\* Mutant: a partial batch is not flushed at the end of the query.
EndQueryNoFlush ==
  /\ pc = "rows" /\ todo = {}
  /\ buffer' = {}
  /\ pc' = IF checkpoint THEN "exit" ELSE "laststate"
  /\ UNCHANGED <<serverVars, configVars, saved, target, exit, since, versions, bm, todo, count, checkpoint, attempt, faults>>

\* The last flush.
EndQuery ==
  /\ pc = "rows" /\ todo = {}
  /\ Emit({})
  /\ pc' = IF checkpoint THEN "exit" ELSE "laststate"
  /\ UNCHANGED <<serverVars, configVars, saved, exit, since, versions, bm, todo, count, checkpoint, attempt, faults>>

-----------------------------------------------------------------------------
(* The end of a run.                                                        *)

Stop(status, state) ==
  /\ pc' = "off" /\ exit' = status
  /\ saved' = state /\ bm' = state
  /\ attempt' = 0
  /\ todo' = {} /\ buffer' = {} /\ count' = 0 /\ checkpoint' = FALSE
  /\ UNCHANGED <<serverVars, configVars, target, since, versions>>

\* The STATE message of do_sync_incremental.
ExitState ==
  /\ pc = "exit"
  /\ Stop(0, bm)
  /\ UNCHANGED faults

\* Mutant: the last attempt is made again and again.
MayRetryAlways == TRUE

MayRetry == attempt < MAX_SYNC_RETRIES - 1

\* OperationalError: the query starts over from the bookmark of the state dict,
\* or the last attempt gives up.  The batch writer and its rows are gone.
ConnectionLost ==
  /\ pc \in {"execute", "rows"}
  /\ LoseBuffered \/ buffer = {}
  /\ faults < MaxFaults
  /\ faults' = faults + 1
  /\ IF MayRetry
     THEN /\ attempt' = attempt + 1
          /\ pc' = "execute"
          /\ todo' = {} /\ buffer' = {} /\ count' = 0 /\ checkpoint' = FALSE
          /\ UNCHANGED <<serverVars, configVars, saved, target, exit, since, versions, bm>>
     ELSE Stop(1, saved)

Crash ==
  /\ pc # "off"
  /\ faults < MaxFaults
  /\ faults' = faults + 1
  /\ Stop(1, saved)

-----------------------------------------------------------------------------
\* Times are of another scale than ids.
Init ==
  /\ rows = [p \in Pks |-> NoRow] /\ now = MaxChanges + 1 /\ clock = 0
  /\ key \in Keys /\ mode \in Modes
  /\ saved = NoBookmark /\ bm = NoBookmark
  /\ target = [p \in Pks |-> Absent]
  /\ pc = "off" /\ exit = 1 /\ since = 0 /\ versions = 0
  /\ todo = {} /\ buffer = {} /\ count = 0 /\ checkpoint = FALSE
  /\ attempt = 0 /\ faults = 0

ServerNext ==
  \E p \in Pks :
    \/ Delete(p)
    \/ \E t \in {now, now + 1} : Insert(p, t) \/ Update(p, t)
    \/ Insert(p, 0)

RunStep == StartRun \/ Execute \/ FetchRows \/ EmitState \/ EndQuery \/ ExitState

Next == ServerNext \/ ChangeKey \/ RunStep \/ ConnectionLost \/ Crash

Spec == Init /\ [][Next]_vars

\* The scheduler starts the tap again and again, and a started tap keeps going.
FairSpec == Spec /\ WF_vars(RunStep)

-----------------------------------------------------------------------------
(* Properties.                                                              *)

Bookmark == [key : {"none", "id", "updated"}, value : Nat, version : Nat]

\* Every variable has its type.
TypeOK ==
  /\ rows \in [Pks -> [id : Nat, updated : Nat, at : Nat]]
  /\ now \in Nat /\ clock \in Nat
  /\ key \in {"id", "updated"} /\ mode \in {"record", "jsonl", "arrow"}
  /\ saved \in Bookmark /\ bm \in Bookmark
  /\ target \in [Pks -> [ver : Nat, at : Nat]]
  /\ pc \in {"off", "execute", "rows", "state", "laststate", "exit"}
  /\ exit \in {0, 1} /\ since \in Nat /\ versions \in Nat
  /\ {todo, buffer} \subseteq SUBSET [pk : Pks, key : Nat, at : Nat]
  /\ count \in 0 .. StatePeriod - 1 /\ checkpoint \in BOOLEAN
  /\ attempt \in 0 .. MAX_SYNC_RETRIES - 1 /\ faults \in Nat

\* The target has row p, as far as replication key k tells: some state of it when
\* k is the id, which an update does not change, its last state otherwise.
Has(p, k) == target[p].ver # 0 /\ (k = "updated" => target[p].at = rows[p].at)

\* A row without a value of the key is read only while the bookmark has none either
\* (the WHERE clause of sync_table).
Within(p, b) == rows[p][b.key] # 0 \/ b.value = 0

\* No row lies behind the emitted bookmark without being at the target: the next
\* run will not select it (sync_table's WHERE clause, at every instant the
\* process may die, whichever key the rows behind the bookmark were read by).
NothingBehindBookmark ==
  saved.value # 0 =>
    \A p \in Live : Within(p, saved) /\ rows[p][saved.key] < saved.value => Has(p, saved.key)

\* After a run that exits normally the target has every row that did not change
\* since the run started, those with the time of the bookmark included, and while no
\* row had a value those with NULL.
CleanRunIsComplete ==
  pc = "off" /\ exit = 0 =>
    \A p \in Live : Within(p, saved) /\ rows[p].at <= since => Has(p, saved.key)

\* The high-water mark of a key never falls.
HighWaterMark ==
  [][saved'.key = saved.key => saved'.value >= saved.value]_vars

\* Once the clients stop and the catalog keeps its replication key, the target
\* gets every row that has a value of it, however the faults fall.
EventuallySynced ==
  (\E k \in {"id", "updated"} : <>[](key = k)) => <>[](\A p \in Live : rows[p][key] # 0 => Has(p, key))
=============================================================================
