-------------------------------- MODULE Tap ---------------------------------
(***************************************************************************)
(* One run after another of the tap: tap_mysql/__init__.py chooses and      *)
(* orders the streams from the state, syncs the SELECT-based ones, then     *)
(* reads the binlog.  What a sync does to a bookmark is reduced to the      *)
(* parts that the choice depends on; FullTable and BinlogSync have the rest. *)
(***************************************************************************)
EXTENDS Naturals, Sequences, FiniteSets

CONSTANTS
  Catalog,        \* the streams, in the order of the catalog
  NoStream,       \* no stream is being synced
  Methods,        \* replication methods a stream may have
  MaxFaults,      \* bound: crashes and dropped tables
  MayEdit         \* the catalog may be edited between two runs

ASSUME TapAssumption ==
  /\ Catalog \in Seq({Catalog[i] : i \in 1 .. Len(Catalog)})
  /\ \A i, j \in 1 .. Len(Catalog) : Catalog[i] = Catalog[j] => i = j
  /\ \A i \in 1 .. Len(Catalog) : Catalog[i] # NoStream
  /\ Methods \subseteq {"FULL_TABLE", "INCREMENTAL", "LOG_BASED"}
  /\ MaxFaults \in Nat /\ MayEdit \in BOOLEAN

Streams == {Catalog[i] : i \in 1 .. Len(Catalog)}

VARIABLES
  tables,    \* the streams whose table exists
  method,    \* replication-method of each stream
  auto,      \* streams whose primary key is auto_increment
  saved,     \* the last STATE message: bookmarks and currently_syncing
  state,     \* the run's state dict
  pc,        \* "off", "list", "select" or "binlog"
  exit,      \* 0 when the last run reached its end
  queue,     \* SELECT-based streams the run has yet to start
  binlog,    \* streams the run reads from the binlog
  syncing,   \* the stream whose SELECT is under way
  touched,   \* that stream has emitted a STATE message of its own
  chosen,    \* streams the catalog of the run selects
  synced,    \* history: streams the run has synced
  faults     \* crashes and dropped tables so far

configVars == <<tables, method, auto>>
listVars   == <<queue, binlog>>
syncVars   == <<syncing, touched>>
vars == <<configVars, saved, state, pc, exit, listVars, syncVars, chosen, synced, faults>>

\* entry: the stream has any bookmark; log: it has binlog coordinates; pk: it
\* has max_pk_values or last_pk_fetched.
Bookmark == [entry : BOOLEAN, log : BOOLEAN, pk : BOOLEAN]
NoBookmark == [entry |-> FALSE, log |-> FALSE, pk |-> FALSE]

-----------------------------------------------------------------------------
(* get_non_binlog_streams and get_binlog_streams.                           *)

RequiresHistorical(b) == ~b.log \/ b.pk

\* A stream that is synced by SELECT.
SelectBased(s, st) == method[s] # "LOG_BASED" \/ RequiresHistorical(st.bookmarks[s])

\* The streams of a list that are in S, in the order of the list.
Keep(list, S) ==
  LET kept[i \in 0 .. Len(list)] ==
        IF i = 0 THEN <<>>
        ELSE IF list[i] \in S THEN Append(kept[i - 1], list[i]) ELSE kept[i - 1]
  IN  kept[Len(list)]

\* streams_without_state and streams_with_state.
WithoutState(S, st) == Keep(Catalog, {s \in S : ~st.bookmarks[s].entry})
WithState(S, st) == Keep(Catalog, {s \in S : st.bookmarks[s].entry /\ SelectBased(s, st)})

\* Mutant: the stream that was being synced is not moved to the front.
NonBinlogStreamsInOrder(S, st) == WithoutState(S, st) \o WithState(S, st)

NonBinlogStreams(S, st) ==
  LET ordered == WithoutState(S, st) \o WithState(S, st)
      current == st.current
  IN  IF current = NoStream
      THEN ordered
      ELSE Keep(WithState(S, st), {current}) \o Keep(ordered, Streams \ {current})

\* Mutant: the key bookmarks of an unfinished snapshot are not looked at.
BinlogStreamsWithLog(S, st) ==
  {s \in S : method[s] = "LOG_BASED" /\ st.bookmarks[s].log}

BinlogStreams(S, st) ==
  {s \in S : method[s] = "LOG_BASED" /\ ~RequiresHistorical(st.bookmarks[s])}

-----------------------------------------------------------------------------
(* What a sync leaves in the bookmark b of stream s.                        *)

\* At its checkpoints.  max_pk_values stays out of it if the table is empty.
Checkpoints(s, b) ==
  LET key == IF s \in auto THEN {b.pk, TRUE} ELSE {b.pk} IN
  CASE method[s] = "FULL_TABLE" ->
         {[entry |-> b.entry \/ k, log |-> FALSE, pk |-> k] : k \in key}
    [] method[s] = "INCREMENTAL" ->
         {[entry |-> TRUE, log |-> FALSE, pk |-> FALSE]}
    [] method[s] = "LOG_BASED" ->
         {[entry |-> TRUE, log |-> b.log \/ s \in auto, pk |-> k] : k \in key}

\* At its end.
Completed(s) == [entry |-> TRUE, log |-> method[s] = "LOG_BASED", pk |-> FALSE]

-----------------------------------------------------------------------------
(* do_sync, sync_non_binlog_streams and sync_binlog_streams.                *)

EditMethod ==
  /\ MayEdit /\ pc = "off"
  /\ \E s \in Streams, m \in Methods : method' = [method EXCEPT ![s] = m]
  /\ UNCHANGED <<tables, auto, saved, state, pc, exit, listVars, syncVars, chosen, synced, faults>>

\* Another client drops a table and may create it again.
DropTable(s) ==
  /\ s \in tables /\ faults < MaxFaults
  /\ tables' = tables \ {s} /\ faults' = faults + 1
  /\ UNCHANGED <<method, auto, saved, state, pc, exit, listVars, syncVars, chosen, synced>>

CreateTable(s) ==
  /\ s \notin tables /\ tables' = tables \cup {s}
  /\ UNCHANGED <<method, auto, saved, state, pc, exit, listVars, syncVars, chosen, synced, faults>>

\* Mutant: streams without a table stay in the list.
ResolvedAll(list) == list

\* resolve_catalog drops the streams that a discovery did not find.
Resolved(list) == Keep(list, tables)

\* get_non_binlog_streams, with a discovery of its own.
StartRun ==
  /\ pc = "off"
  /\ \E S \in SUBSET Streams :
       /\ S = Streams \/ (MayEdit /\ S # {})
       /\ queue' = Resolved(NonBinlogStreams(S, saved))
       /\ chosen' = S
  /\ state' = saved
  /\ synced' = {}
  /\ pc' = "list" /\ exit' = 1
  /\ UNCHANGED <<configVars, saved, binlog, syncVars, faults>>

\* get_binlog_streams, with another one, before anything is synced.
ListBinlog ==
  /\ pc = "list"
  /\ binlog' = BinlogStreams(chosen, state) \cap tables
  /\ pc' = "select"
  /\ UNCHANGED <<configVars, saved, state, exit, queue, syncVars, chosen, synced, faults>>

\* The STATE message that names the stream comes before anything of the stream.
BeginStream ==
  /\ pc = "select" /\ syncing = NoStream /\ queue # <<>> /\ Head(queue) \in tables
  /\ syncing' = Head(queue) /\ queue' = Tail(queue)
  /\ touched' = FALSE
  /\ state' = [state EXCEPT !.current = Head(queue)]
  /\ saved' = state'
  /\ UNCHANGED <<configVars, pc, exit, binlog, chosen, synced, faults>>

\* The SELECT finds no table, and its error ends the run.
TableGone ==
  /\ pc = "select" /\ syncing = NoStream /\ queue # <<>> /\ Head(queue) \notin tables
  /\ state' = [state EXCEPT !.current = Head(queue)]
  /\ saved' = state'
  /\ pc' = "off" /\ queue' = <<>> /\ binlog' = {}
  /\ UNCHANGED <<configVars, exit, syncVars, chosen, synced, faults>>

\* A STATE message of sync_query, which emits at least one.
Checkpoint ==
  /\ syncing # NoStream
  /\ \E b \in Checkpoints(syncing, state.bookmarks[syncing]) :
       state' = [state EXCEPT !.bookmarks[syncing] = b]
  /\ saved' = state'
  /\ touched' = TRUE
  /\ UNCHANGED <<configVars, pc, exit, listVars, syncing, chosen, synced, faults>>

\* do_sync_historical_binlog leaves its last STATE message to the next stream.
FinishStream ==
  /\ syncing # NoStream /\ touched
  /\ state' = [state EXCEPT !.bookmarks[syncing] = Completed(syncing)]
  /\ saved' = IF method[syncing] = "LOG_BASED" THEN saved ELSE state'
  /\ synced' = synced \cup {syncing}
  /\ syncing' = NoStream /\ touched' = FALSE
  /\ UNCHANGED <<configVars, pc, exit, listVars, chosen, faults>>

\* Mutant: currently_syncing is reset to an empty name.
EndSelectEmptyName ==
  /\ pc = "select" /\ syncing = NoStream /\ queue = <<>>
  /\ state' = [state EXCEPT !.current = ""]
  /\ saved' = state'
  /\ pc' = "binlog"
  /\ UNCHANGED <<configVars, exit, listVars, syncVars, chosen, synced, faults>>

EndSelect ==
  /\ pc = "select" /\ syncing = NoStream /\ queue = <<>>
  /\ state' = [state EXCEPT !.current = NoStream]
  /\ saved' = state'
  /\ pc' = "binlog"
  /\ UNCHANGED <<configVars, exit, listVars, syncVars, chosen, synced, faults>>

\* The binlog of all its streams at once; it moves bookmarks, it adds none.
SyncBinlog ==
  /\ pc = "binlog"
  /\ synced' = synced \cup binlog
  /\ pc' = "off" /\ exit' = 0
  /\ queue' = <<>> /\ binlog' = {}
  /\ UNCHANGED <<configVars, saved, state, syncVars, chosen, faults>>

Crash ==
  /\ pc # "off" /\ faults < MaxFaults
  /\ faults' = faults + 1
  /\ state' = saved
  /\ pc' = "off"
  /\ queue' = <<>> /\ binlog' = {}
  /\ syncing' = NoStream /\ touched' = FALSE
  /\ UNCHANGED <<configVars, saved, exit, chosen, synced>>

Init ==
  /\ tables = Streams /\ method \in [Streams -> Methods] /\ auto \in SUBSET Streams
  /\ saved = [current |-> NoStream, bookmarks |-> [s \in Streams |-> NoBookmark]]
  /\ state = saved
  /\ pc = "off" /\ exit = 1
  /\ queue = <<>> /\ binlog = {}
  /\ syncing = NoStream /\ touched = FALSE
  /\ chosen = {} /\ synced = {}
  /\ faults = 0

RunStep ==
  StartRun \/ ListBinlog \/ BeginStream \/ TableGone \/ Checkpoint \/ FinishStream \/ EndSelect \/ SyncBinlog

Next == EditMethod \/ (\E s \in Streams : DropTable(s) \/ CreateTable(s)) \/ RunStep \/ Crash

Spec == Init /\ [][Next]_vars

\* The scheduler starts the tap again and again; a stream's query ends.
FairSpec == Spec /\ WF_vars(RunStep) /\ WF_vars(FinishStream)

-----------------------------------------------------------------------------
(* Properties.                                                              *)

\* Every variable has its type.
TypeOK ==
  /\ tables \subseteq Streams /\ method \in [Streams -> Methods] /\ auto \subseteq Streams
  /\ {saved, state} \subseteq
       [current : Streams \cup {NoStream}, bookmarks : [Streams -> Bookmark]]
  /\ pc \in {"off", "list", "select", "binlog"} /\ exit \in {0, 1}
  /\ queue \in Seq(Streams) /\ binlog \subseteq Streams
  /\ syncing \in Streams \cup {NoStream} /\ touched \in BOOLEAN
  /\ chosen \subseteq Streams /\ synced \subseteq Streams /\ faults \in Nat

\* The list of binlog streams, made before the SELECT-based syncs, still holds
\* when it is used: every stream on it has a finished snapshot and was not synced
\* in this run, so the binlog never moves the bookmark of an unfinished snapshot.
BinlogListStillHolds ==
  pc = "binlog" => \A s \in binlog : /\ ~RequiresHistorical(state.bookmarks[s])
                                     /\ s \notin synced

\* A stream that a crash interrupted after its first checkpoint is the first
\* that the next run syncs, and a run syncs no stream twice.
InterruptedStreamFirst ==
  [][\A s \in Streams :
       (/\ pc = "off" /\ pc' = "list"
        /\ s \in chosen' \cap tables /\ s = saved.current
        /\ saved.bookmarks[s].entry /\ SelectBased(s, saved))
       => /\ queue' # <<>> /\ Head(queue') = s
          /\ \A i \in 2 .. Len(queue') : queue'[i] # s]_vars

\* A run that exits normally has synced every stream the catalog selects.
CleanRunSyncsAll == pc = "off" /\ exit = 0 => chosen \cap tables \subseteq synced

\* However the crashes and drops fall, no stream that the catalog selects again and
\* again is put off forever while its table exists.
EveryStreamSynced ==
  \A s \in Streams :
    []<>(s \in chosen) /\ <>[](s \in tables) => []<>(s \in synced)
=============================================================================
