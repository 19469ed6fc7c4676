--------------------------- MODULE FullTableProofs ---------------------------
(***************************************************************************)
(* Theorems about FullTable, for any table, any number of runs, changes and *)
(* faults, any batch size and checkpoint period.                            *)
(***************************************************************************)
EXTENDS FullTable, FiniteSetTheorems, TLAPS

\* Where a snapshot resumes by key range, its catalog is not edited and no buffered
\* row is lost: RECORD output has none.  With buffered rows lost, the run batch_loss
\* finds a row missing; with the catalog edited, HandoffNoMissing fails likewise.
Dependable ==
  \A s \in Setups : s.auto => TRUE \notin Editable /\ (LoseBuffered => s.mode = "record")

-----------------------------------------------------------------------------
(* The inductive invariant.                                                 *)

\* A snapshot that a later run may resume.
Resumable == method = "LOG_BASED" /\ auto

\* A full copy whose catalog was never edited.
PlainCopy == method = "FULL_TABLE" /\ ~auto /\ ~edited

\* The position of the server as of which the run's snapshot has to be complete.
Limit == IF Resumable THEN bm.log ELSE since

\* The row of p as the table has it is at the target under version v.
Got(p, v) == target[p].ver = v /\ target[p].at = changed[p]
RowOf(p) == [pk |-> p, at |-> changed[p]]

\* Positions and versions are of the past.
Bounded ==
  /\ \A p \in Pks : changed[p] <= clock /\ target[p].ver <= runs
  /\ clock # 0 /\ since <= clock /\ {saved.log, bm.log} \subseteq 0 .. clock
  /\ {saved.version, bm.version} \subseteq 0 .. runs
  /\ pc # "off" => log0 = since /\ since # 0 /\ version \in 1 .. runs

\* What the setups allow, for the one that was installed.
SetupKept ==
  auto => auto \notin Editable /\ ~edited /\ (LoseBuffered => mode = "record")

\* The shape of a bookmark.
Shape(b) ==
  /\ ~auto => b.max = 0 /\ b.last = 0
  /\ b.max = 0 => b.last = 0
  /\ Resumable => (b.log = 0 <=> b.version = 0) /\ (b.version = 0 => b.max = 0) /\ ~b.complete

ShapeOK ==
  /\ Shape(saved) /\ Shape(bm)
  /\ ~edited /\ method = "FULL_TABLE" => {saved.version, bm.version, saved.log, bm.log} = {0}
  /\ method = "LOG_BASED" /\ pc # "off" => bm.version = version
  /\ method = "LOG_BASED" /\ ~auto /\ pc \notin {"off", "exit"} => bm.log = 0
  /\ method = "LOG_BASED" /\ ~auto /\ pc = "exit" => bm.log = since
  /\ method = "LOG_BASED" /\ ~auto /\ pc # "off" => saved.log = 0
  /\ pc = "off" => bm = saved

\* One row of a primary key is on its way.
OneEach == \A r, q \in todo \cup buffer : r.pk = q.pk => r = q

\* The rows on their way: one for each key, none outside a query.
RowsOK ==
  /\ \A r, q \in todo \cup buffer : r.pk = q.pk => r = q
  /\ \A r \in todo \cup buffer :
       changed[r.pk] <= Limit => r.pk \in live /\ r.at = changed[r.pk]
  /\ bm.max # 0 => \A r \in todo : bm.last < r.pk
  /\ pc # "rows" \/ mode = "record" => buffer = {}
  /\ pc \notin {"rows", "state"} => todo = {}

\* Every row that has not changed since the limit was read, or comes before the key
\* the query resumes from and is at the target or in the buffer.
Covered ==
  /\ (Resumable \/ ~auto) /\ pc \in {"rows", "state", "laststate", "finish", "exit"} =>
       \A p \in live : changed[p] <= Limit => RowOf(p) \in todo \cup buffer \/ Got(p, version)
  /\ Resumable /\ pc # "off" =>
       \A p \in live : changed[p] <= Limit /\ p <= bm.last => RowOf(p) \in buffer \/ Got(p, version)

\* The largest key is that of the rows that have not changed since the limit.
MaxCovers ==
  Resumable /\ pc # "off" =>
    /\ bm.max # 0 => \A p \in live : changed[p] <= bm.log => p <= bm.max
    /\ bm.max = 0 /\ pc \in {"execute", "rows", "state"} =>
         \A p \in live : changed[p] > bm.log

\* The target has no row of the run's version that was deleted before the limit.
NoGhost ==
  (Resumable \/ PlainCopy) /\ pc # "off" =>
    \A p \in Pks : target[p].ver = version /\ changed[p] <= Limit =>
                     p \in live /\ target[p].at = changed[p]

\* Nor rows of another version, when versions are activated at the start and the end.
OneVersion ==
  (Resumable /\ pc # "off") \/ (PlainCopy /\ pc = "exit") =>
    \A p \in Pks : target[p].ver \in {0, version}

\* What the emitted bookmark of a resumable snapshot promises.
SavedResumable ==
  Resumable /\ saved.version # 0 =>
    /\ pc # "off" => saved.version = version /\ saved.log = bm.log
    /\ saved.max # 0 => \A p \in live : changed[p] <= saved.log => p <= saved.max
    /\ \A p \in live : changed[p] <= saved.log /\ (saved.max = 0 \/ p <= saved.last) =>
                         Got(p, saved.version)
    /\ \A p \in Pks : /\ target[p].ver \in {0, saved.version}
                      /\ target[p].ver # 0 /\ changed[p] <= saved.log =>
                           p \in live /\ target[p].at = changed[p]

\* And of one that starts over when it is interrupted.
SavedRestarted ==
  method = "LOG_BASED" /\ ~auto /\ saved.log # 0 =>
    \A p \in live : changed[p] <= saved.log => Holds(p)

\* And of a full copy.
SavedCopy ==
  /\ exit = 0 => pc = "off"
  /\ PlainCopy /\ exit = 0 =>
       \A p \in Pks : changed[p] <= since => IF p \in live THEN Holds(p) ELSE Lacks(p)

Support == Bounded /\ SetupKept /\ ShapeOK
Snapshot == RowsOK /\ Covered /\ MaxCovers /\ NoGhost /\ OneVersion
Emitted == SavedResumable /\ SavedRestarted /\ SavedCopy
IInv == TypeOK /\ Support /\ Snapshot /\ Emitted

-----------------------------------------------------------------------------
(* The operators of FullTable.                                              *)

\* A nonempty finite set of numbers has a largest one: of the subsets without one,
\* a smallest would still lack one after losing an element.
LEMMA FiniteSetHasMax ==
  ASSUME NEW S, IsFiniteSet(S), S \subseteq Nat, S # {}
  PROVE  \E m \in S : \A x \in S : x <= m
<1> DEFINE Without == {T \in SUBSET S : T # {} /\ ~ \E m \in T : \A x \in T : x <= m}
<1> SUFFICES ASSUME Without # {} PROVE FALSE
  OBVIOUS
<1>1. Without \subseteq FiniteSubsetsOf(S)
  BY FS_Subset DEF FiniteSubsetsOf
<1>2. PICK T \in Without : \A U \in Without : <<U, T>> \notin StrictSubsetOrdering(S)
  BY <1>1, FS_StrictSubsetOrderingWellFounded, WFMin
<1>3. PICK y \in T : TRUE
  OBVIOUS
<1>4. T \ {y} \notin Without
  BY <1>2, <1>3 DEF StrictSubsetOrdering
<1>5. T # {y}
  OBVIOUS
<1>6. PICK m \in T \ {y} : \A x \in T \ {y} : x <= m
  BY <1>4, <1>5
<1>7. \E n \in T : \A x \in T : x <= n
  BY <1>3, <1>6
<1> QED
  BY <1>7

LEMMA MaxOfIsMax ==
  ASSUME NEW S \in SUBSET Pks
  PROVE  /\ MaxOf(S) \in S \cup {0}
         /\ S # {} => MaxOf(S) \in S
         /\ \A x \in S : x <= MaxOf(S)
<1>1. IsFiniteSet(S) /\ S \subseteq Nat \ {0}
  BY FS_Subset, FullTableAssumption
<1>2. \E m \in S \cup {0} : \A x \in S : x <= m
  BY <1>1, FiniteSetHasMax
<1>3. MaxOf(S) \in S \cup {0} /\ \A x \in S : x <= MaxOf(S)
  BY <1>2 DEF MaxOf
<1>4. ASSUME NEW x \in S PROVE MaxOf(S) \in S
  BY <1>1, <1>3, x \in Nat \ {0}, x <= MaxOf(S)
<1> QED
  BY <1>3, <1>4

\* A batch with one row for each key reaches the target row by row.
LEMMA DeliverRows ==
  ASSUME NEW R \in SUBSET Row, NEW t \in [Pks -> [ver : Nat, at : Nat]], version \in Nat,
         \A r, q \in R : r.pk = q.pk => r = q
  PROVE  /\ Deliver(t, R) \in [Pks -> [ver : Nat, at : Nat]]
         /\ \A r \in R : Deliver(t, R)[r.pk] = [ver |-> version, at |-> r.at]
         /\ \A p \in Pks : (\A r \in R : r.pk # p) => Deliver(t, R)[p] = t[p]
<1>1. ASSUME NEW p \in Pks, NEW r \in R, r.pk = p
      PROVE  (CHOOSE q \in R : q.pk = p) = r
  BY <1>1
<1>2. \A r \in R : r.pk \in Pks /\ r.at \in Nat
  BY DEF Row
<1>3. \A r \in R : Deliver(t, R)[r.pk] = [ver |-> version, at |-> r.at]
  BY <1>1, <1>2 DEF Deliver
<1>4. \A p \in Pks : (\A r \in R : r.pk # p) => Deliver(t, R)[p] = t[p]
  BY DEF Deliver
<1>5. Deliver(t, R) \in [Pks -> [ver : Nat, at : Nat]]
  <2>1. ASSUME NEW p \in Pks PROVE Deliver(t, R)[p] \in [ver : Nat, at : Nat]
    <3>1. ASSUME NEW r \in R, r.pk = p PROVE Deliver(t, R)[p] \in [ver : Nat, at : Nat]
      <4>1. Deliver(t, R)[p] = [ver |-> version, at |-> r.at]
        BY <3>1, <1>3
      <4> QED
        BY <4>1, <1>2
    <3>2. ASSUME \A r \in R : r.pk # p PROVE Deliver(t, R)[p] \in [ver : Nat, at : Nat]
      <4>1. Deliver(t, R)[p] = t[p]
        BY <3>2, <1>4
      <4> QED
        BY <4>1
    <3> QED
      BY <3>1, <3>2
  <2> QED
    BY <2>1 DEF Deliver
<1> QED
  BY <1>3, <1>4, <1>5

LEMMA ActivateVersionRows ==
  ASSUME NEW t \in [Pks -> [ver : Nat, at : Nat]], NEW v \in Nat
  PROVE  /\ ActivateVersion(t, v) \in [Pks -> [ver : Nat, at : Nat]]
         /\ \A p \in Pks : t[p].ver = v => ActivateVersion(t, v)[p] = t[p]
         /\ \A p \in Pks : t[p].ver # v => ActivateVersion(t, v)[p] = [ver |-> 0, at |-> 0]
         /\ \A p \in Pks : ActivateVersion(t, v)[p].ver \in {0, v}
<1>1. \A p \in Pks : ActivateVersion(t, v)[p] = IF t[p].ver = v THEN t[p] ELSE [ver |-> 0, at |-> 0]
  BY DEF ActivateVersion, Absent
<1>2. ActivateVersion(t, v) \in [Pks -> [ver : Nat, at : Nat]]
  BY DEF ActivateVersion, Absent
<1> QED
  BY <1>1, <1>2

-----------------------------------------------------------------------------
(* Types.                                                                   *)

LEMMA Bounds ==
  /\ 0 \in 0 .. StatePeriod - 1 /\ 0 \in 0 .. MAX_SYNC_RETRIES - 1
  /\ \A n \in Nat : (n + 1) % StatePeriod \in 0 .. StatePeriod - 1
<1>1. StatePeriod \in Nat \ {0} /\ MAX_SYNC_RETRIES \in Nat \ {0}
  BY FullTableAssumption
<1> QED
  BY <1>1

LEMMA TypeInit == Init => TypeOK
<1> SUFFICES ASSUME Init PROVE TypeOK
  OBVIOUS
<1>1. method \in {"FULL_TABLE", "LOG_BASED"} /\ auto \in BOOLEAN /\ mode \in {"record", "jsonl", "arrow"}
  BY FullTableAssumption DEF Init
<1>2. saved \in Bookmark /\ bm \in Bookmark
  BY DEF Init, NoBookmark, Bookmark
<1> QED
  BY <1>1, <1>2, Bounds DEF Init, TypeOK, Absent

\* The keys of rows that are fetched.
LEMMA KeysOfRows ==
  ASSUME NEW C \in SUBSET Row
  PROVE  /\ {r.pk : r \in C} \in SUBSET Pks
         /\ MaxOf({r.pk : r \in C}) \in Pks \cup {0}
         /\ C # {} => \E r \in C : r.pk = MaxOf({q.pk : q \in C})
         /\ \A r \in C : r.pk <= MaxOf({q.pk : q \in C})
<1> DEFINE K == {r.pk : r \in C}
<1>1. K \in SUBSET Pks
  BY DEF Row
<1>2. MaxOf(K) \in K \cup {0} /\ (K # {} => MaxOf(K) \in K) /\ \A x \in K : x <= MaxOf(K)
  BY <1>1, MaxOfIsMax
<1>3. \A r \in C : r.pk \in K
  OBVIOUS
<1>4. \A x \in K : \E r \in C : r.pk = x
  OBVIOUS
<1> HIDE DEF K
<1>5. MaxOf(K) \in Pks \cup {0} /\ (C # {} => \E r \in C : r.pk = MaxOf(K)) /\ \A r \in C : r.pk <= MaxOf(K)
  BY <1>1, <1>2, <1>3, <1>4
<1> QED
  BY <1>1, <1>5 DEF K

LEMMA BookmarkTypes ==
  ASSUME NEW b \in Bookmark, TypeOK
  PROVE  /\ StreamVersion(b) \in Nat
         /\ HistoricalBookmark(b) \in Bookmark
         /\ Cleared(b) \in Bookmark /\ Completed(b) \in Bookmark
<1>1. StreamVersion(b) \in Nat
  BY DEF TypeOK, Bookmark, StreamVersion
<1>2. HistoricalBookmark(b) \in Bookmark
  BY <1>1 DEF TypeOK, Bookmark, HistoricalBookmark
<1>3. Cleared(b) \in Bookmark
  BY DEF Bookmark, Cleared
<1>4. Completed(b) \in Bookmark
  BY DEF TypeOK, Bookmark, Completed
<1> QED
  BY <1>1, <1>2, <1>3, <1>4

LEMMA TypeStop ==
  ASSUME TypeOK, NEW status \in {0, 1}, NEW b \in Bookmark, Stop(status, b), faults' \in Nat
  PROVE  TypeOK'
  BY Bounds DEF TypeOK, Stop, serverVars, configVars

LEMMA TypeServer ==
  ASSUME TypeOK, NEW p \in Pks, Insert(p) \/ Update(p) \/ Delete(p)
  PROVE  TypeOK'
  BY DEF TypeOK, Insert, Update, Delete, Change, configVars, runVars, queryVars

\* No more rows are on their way than there are keys.
LEMMA RowsFinite ==
  ASSUME NEW R \in SUBSET Row, \A r, q \in R : r.pk = q.pk => r = q
  PROVE  IsFiniteSet(R)
<1> DEFINE f == [r \in R |-> r.pk]
<1>1. f \in Injection(R, Pks)
  BY DEF Injection, IsInjective, Row
<1> QED
  BY <1>1, FS_Injection, FullTableAssumption

LEMMA TypeFetchRows ==
  ASSUME TypeOK, OneEach, FetchRows
  PROVE  TypeOK'
<1>1. PICK C \in SUBSET todo :
        /\ todo' = todo \ C
        /\ checkpoint' = Completes(C)
        /\ IF mode = "record" \/ checkpoint'
           THEN Emit(C)
           ELSE target' = target /\ buffer' = buffer \cup C
        /\ bm' = IF bm.max # 0 THEN [bm EXCEPT !.last = MaxOf({r.pk : r \in C})] ELSE bm
  BY DEF FetchRows
<1>2. C \in SUBSET Row /\ buffer \cup C \in SUBSET Row
  BY DEF TypeOK
<1>3. bm' \in Bookmark
  BY <1>1, <1>2, KeysOfRows DEF TypeOK, Bookmark
<1>4. \A r, q \in buffer \cup C : r.pk = q.pk => r = q
  BY DEF OneEach
<1>5. Deliver(target, buffer \cup C) \in [Pks -> [ver : Nat, at : Nat]]
  BY <1>2, <1>4, DeliverRows DEF TypeOK
<1>6. target' \in [Pks -> [ver : Nat, at : Nat]] /\ buffer' \subseteq Row
  BY <1>1, <1>2, <1>5 DEF TypeOK, Emit
<1>7. count' \in 0 .. StatePeriod - 1
  BY Bounds DEF FetchRows, TypeOK
<1>8. checkpoint' \in BOOLEAN
  <2>1. CASE mode = "record"
    BY <1>1, <2>1, Zenon DEF Completes
  <2>2. CASE mode # "record"
    <3>1. Cardinality(buffer \cup C) \in Nat /\ BatchSize \in Nat
      BY <1>2, <1>4, RowsFinite, FS_CardinalityType, FullTableAssumption
    <3>2. checkpoint' = (Cardinality(buffer \cup C) >= BatchSize)
      BY <1>1, <2>2, Zenon DEF Completes
    <3> QED
      BY <3>1, <3>2
  <2> QED
    BY <2>1, <2>2
<1> QED
  BY <1>1, <1>2, <1>3, <1>6, <1>7, <1>8 DEF FetchRows, TypeOK, serverVars, configVars, runVars

LEMMA TypeStep ==
  ASSUME TypeOK, OneEach, [Next]_vars
  PROVE  TypeOK'
<1>1. CASE ServerNext
  BY <1>1, TypeServer DEF ServerNext
<1>2. CASE ChangeMethod
  BY <1>2 DEF ChangeMethod, TypeOK, serverVars, runVars, queryVars
<1>3. CASE StartRun
  <2>1. version' \in Nat /\ bm' \in Bookmark
    BY <1>3, BookmarkTypes DEF StartRun, TypeOK, Bookmark
  <2>2. target' \in [Pks -> [ver : Nat, at : Nat]]
    BY <1>3, <2>1, ActivateVersionRows DEF StartRun, TypeOK
  <2> QED
    BY <1>3, <2>1, <2>2, Bounds DEF StartRun, TypeOK, serverVars, configVars, queryVars
<1>4. CASE Connect
  <2>1. bm' \in Bookmark
    BY <1>4, MaxOfIsMax DEF Connect, TypeOK, Bookmark
  <2> QED
    BY <1>4, <2>1 DEF Connect, TypeOK, serverVars, configVars, runVars, queryVars
<1>5. CASE Execute
  <2>1. todo' \subseteq Row
    BY <1>5 DEF Execute, TypeOK, Row
  <2> QED
    BY <1>5, <2>1, Bounds DEF Execute, TypeOK, serverVars, configVars, runVars
<1>6. CASE FetchRows
  BY <1>6, TypeFetchRows
<1>7. CASE EmitState
  BY <1>7 DEF EmitState, TypeOK, serverVars, configVars, runVars, queryVars
<1>8. CASE EndQuery
  <2>1. target' \in [Pks -> [ver : Nat, at : Nat]]
    <3>1. target' = Deliver(target, buffer \cup {})
      BY <1>8 DEF EndQuery, Emit
    <3>2. buffer \cup {} \in SUBSET Row /\ \A r, q \in buffer \cup {} : r.pk = q.pk => r = q
      BY DEF TypeOK, OneEach
    <3> QED
      BY <3>1, <3>2, DeliverRows DEF TypeOK
  <2> QED
    BY <1>8, <2>1 DEF EndQuery, Emit, TypeOK, serverVars, configVars, runVars
<1>9. CASE Finish
  <2>1. bm' \in Bookmark
    BY <1>9, BookmarkTypes DEF Finish, TypeOK
  <2> QED
    BY <1>9, <2>1, ActivateVersionRows DEF Finish, TypeOK, serverVars, configVars, runVars, queryVars
<1>10. CASE ExitState
  BY <1>10, TypeStop DEF ExitState, TypeOK
<1>11. CASE ConnectionLost
  <2>1. CASE MayRetry
    <3>1. attempt' \in 0 .. MAX_SYNC_RETRIES - 1
      BY <1>11, <2>1, FullTableAssumption DEF ConnectionLost, MayRetry, TypeOK
    <3>2. faults' \in Nat
      BY <1>11 DEF ConnectionLost, TypeOK
    <3> QED
      BY <1>11, <2>1, <3>1, <3>2, Bounds DEF ConnectionLost, TypeOK, serverVars, configVars, runVars
  <2>2. CASE ~MayRetry
    BY <1>11, <2>2, TypeStop DEF ConnectionLost, TypeOK
  <2> QED
    BY <2>1, <2>2
<1>12. CASE Crash
  BY <1>12, TypeStop DEF Crash, TypeOK
<1>13. CASE UNCHANGED vars
  BY <1>13 DEF TypeOK, vars, serverVars, configVars, runVars, queryVars
<1> QED
  BY <1>1, <1>2, <1>3, <1>4, <1>5, <1>6, <1>7, <1>8, <1>9, <1>10, <1>11, <1>12, <1>13
     DEF Next, RunStep

LEMMA OneEachStep ==
  ASSUME OneEach, [Next]_vars
  PROVE  OneEach'
<1>1. todo' \cup buffer' \subseteq todo \cup buffer \/ Execute
  BY DEF Next, ServerNext, Insert, Update, Delete, Change, ChangeMethod, RunStep, StartRun, Connect, FetchRows, Emit,
         EmitState, EndQuery, Finish, ExitState, ConnectionLost, Crash, Stop, vars, queryVars
<1>2. CASE todo' \cup buffer' \subseteq todo \cup buffer
  BY <1>2 DEF OneEach
<1>3. CASE Execute
  BY <1>3 DEF Execute, OneEach
<1> QED
  BY <1>1, <1>2, <1>3

-----------------------------------------------------------------------------
(* The steps preserve the invariant.                                        *)

\* A change by another client is of a later position than every limit.
LEMMA ServerKeeps ==
  ASSUME IInv, NEW p \in Pks, Insert(p) \/ Update(p) \/ Delete(p)
  PROVE  Support' /\ Snapshot' /\ Emitted'
<1>1. /\ clock' = clock + 1 /\ changed' = [changed EXCEPT ![p] = clock + 1]
      /\ live' \subseteq live \cup {p} /\ live \ {p} \subseteq live'
      /\ UNCHANGED <<method, auto, mode, edited, saved, target, pc, exit, since, runs, version, log0, bm,
                     todo, buffer, count, checkpoint, attempt, faults>>
  BY DEF Insert, Update, Delete, Change, configVars, runVars, queryVars
<1>2. /\ changed'[p] = clock + 1
      /\ \A q \in Pks : q # p => changed'[q] = changed[q] /\ (q \in live' <=> q \in live)
  BY <1>1 DEF IInv, TypeOK
<1>3. saved.log <= clock /\ Limit <= clock /\ bm.log <= clock /\ since <= clock /\ Limit' = Limit
  BY <1>1 DEF IInv, Support, Bounded, Limit, Resumable
<1>4. clock \in Nat /\ saved.log \in Nat /\ bm.log \in Nat /\ since \in Nat /\ Limit \in Nat /\ live \subseteq Pks
      /\ live' \subseteq Pks /\ todo \cup buffer \subseteq Row
  BY <1>1 DEF IInv, TypeOK, Bookmark, Limit
<1>5. \A q \in Pks : \A l \in {saved.log, bm.log, since, Limit} :
        changed'[q] <= l => q # p /\ changed'[q] = changed[q] /\ changed[q] <= l /\ (q \in live' <=> q \in live)
  BY <1>2, <1>3, <1>4
<1>6. Support'
  <2>1. Bounded'
    BY <1>1, <1>2, <1>4 DEF IInv, TypeOK, Support, Bounded
  <2>2. SetupKept'
    BY <1>1 DEF IInv, Support, SetupKept
  <2>3. ShapeOK'
    BY <1>1 DEF IInv, Support, ShapeOK, Shape, Resumable
  <2> QED
    BY <2>1, <2>2, <2>3 DEF Support
<1>7. RowsOK'
  BY <1>1, <1>3, <1>4, <1>5 DEF IInv, Snapshot, RowsOK, Row
<1>8. Covered'
  BY <1>1, <1>3, <1>4, <1>5 DEF IInv, Snapshot, Covered, Resumable, RowOf, Got
<1>9. MaxCovers'
  BY <1>1, <1>2, <1>3, <1>4, <1>5 DEF IInv, Snapshot, MaxCovers, Resumable
<1>10. NoGhost' /\ OneVersion'
  BY <1>1, <1>3, <1>4, <1>5 DEF IInv, Snapshot, NoGhost, OneVersion, Resumable, PlainCopy
<1>11. Emitted'
  BY <1>1, <1>3, <1>4, <1>5
     DEF IInv, Emitted, SavedResumable, SavedRestarted, SavedCopy, Resumable, PlainCopy, Got, Holds, Lacks
<1> QED
  BY <1>6, <1>7, <1>8, <1>9, <1>10, <1>11 DEF Snapshot

\* The catalog is edited between runs, and only where no snapshot resumes.
LEMMA ChangeMethodKeeps ==
  ASSUME IInv, ChangeMethod
  PROVE  Support' /\ Snapshot' /\ Emitted'
<1>1. /\ ~auto /\ pc = "off" /\ edited' = TRUE
      /\ method' \in {"FULL_TABLE", "LOG_BASED"} \ {method} /\ ~edited
      /\ UNCHANGED <<live, changed, clock, auto, mode, saved, target, pc, exit, since, runs, version, log0, bm,
                     todo, buffer, count, checkpoint, attempt, faults>>
  BY DEF ChangeMethod, IInv, Support, SetupKept, serverVars, runVars, queryVars
<1>2. Support'
  <2>1. Bounded'
    BY <1>1 DEF IInv, Support, Bounded
  <2>2. SetupKept'
    BY <1>1 DEF SetupKept
  <2>3. ShapeOK'
    BY <1>1 DEF IInv, Support, ShapeOK, Shape, Resumable
  <2> QED
    BY <2>1, <2>2, <2>3 DEF Support
<1>3. Snapshot'
  BY <1>1 DEF IInv, Snapshot, RowsOK, Covered, MaxCovers, NoGhost, OneVersion, Resumable, PlainCopy, Limit
<1>4. Emitted'
  BY <1>1 DEF IInv, TypeOK, Support, ShapeOK, Emitted, SavedResumable, SavedRestarted, SavedCopy, Resumable, PlainCopy
<1> QED
  BY <1>2, <1>3, <1>4

\* A run ends: what is left is the bookmark that was emitted.
LEMMA StopKeeps ==
  ASSUME IInv, Stop(1, saved)
  PROVE  Support' /\ Snapshot' /\ Emitted'
<1>1. /\ pc' = "off" /\ exit' = 1 /\ saved' = saved /\ bm' = saved
      /\ todo' = {} /\ buffer' = {}
      /\ UNCHANGED <<live, changed, clock, method, auto, mode, edited, target, since, runs>>
  BY DEF Stop, serverVars, configVars
<1>2. Support'
  BY <1>1 DEF IInv, Support, Bounded, SetupKept, ShapeOK, Shape, Resumable
<1>3. Snapshot'
  BY <1>1 DEF Snapshot, RowsOK, Covered, MaxCovers, NoGhost, OneVersion
<1>4. Emitted'
  BY <1>1 DEF IInv, Emitted, SavedResumable, SavedRestarted, SavedCopy, Resumable, PlainCopy, Got, Holds, Lacks
<1> QED
  BY <1>2, <1>3, <1>4

\* A snapshot that starts over takes a version nothing at the target has; one that
\* resumes finds there what the emitted bookmark promises.
LEMMA StartRunKeeps ==
  ASSUME IInv, StartRun
  PROVE  Support' /\ Snapshot' /\ Emitted'
<1>1. /\ pc = "off" /\ pc' = "connect" /\ exit' = 1 /\ runs' = runs + 1 /\ since' = clock /\ log0' = clock
      /\ version' = StreamVersion(saved)
      /\ bm' = IF method = "LOG_BASED" THEN HistoricalBookmark(saved) ELSE [saved EXCEPT !.log = 0]
      /\ target' = IF saved.complete THEN target ELSE ActivateVersion(target, version')
      /\ UNCHANGED <<live, changed, clock, method, auto, mode, edited, saved, todo, buffer, count, checkpoint, faults>>
  BY DEF StartRun, serverVars, configVars, queryVars
<1>2. /\ saved.version \in Nat /\ saved.log \in Nat /\ runs \in Nat /\ clock \in Nat \ {0}
      /\ saved.version <= runs /\ saved.log <= clock /\ saved \in Bookmark
  BY DEF IInv, TypeOK, Bookmark, Support, Bounded
<1>3. version' = (IF saved.version # 0 THEN saved.version ELSE runs + 1) /\ version' \in 1 .. runs'
  BY <1>1, <1>2 DEF StreamVersion
<1>4. /\ target' \in [Pks -> [ver : Nat, at : Nat]]
      /\ \A p \in Pks : target'[p] = target[p] \/ target'[p] = [ver |-> 0, at |-> 0]
      /\ \A p \in Pks : target[p].ver = version' => target'[p] = target[p]
      /\ ~saved.complete => \A p \in Pks : target'[p].ver \in {0, version'}
  <2>1. target \in [Pks -> [ver : Nat, at : Nat]] /\ version' \in Nat
    BY <1>3 DEF IInv, TypeOK
  <2>2. CASE saved.complete
    BY <1>1, <2>1, <2>2
  <2>3. CASE ~saved.complete
    <3>1. target' = ActivateVersion(target, version')
      BY <1>1, <2>3
    <3>2. /\ \A p \in Pks : target[p].ver = version' => target'[p] = target[p]
          /\ \A p \in Pks : target[p].ver # version' => target'[p] = [ver |-> 0, at |-> 0]
          /\ \A p \in Pks : target'[p].ver \in {0, version'}
          /\ target' \in [Pks -> [ver : Nat, at : Nat]]
      BY <2>1, <3>1, ActivateVersionRows
    <3> QED
      BY <3>2
  <2> QED
    BY <2>2, <2>3
<1>5. /\ bm'.max = saved.max /\ bm'.last = saved.last /\ bm'.complete = saved.complete
      /\ method = "LOG_BASED" => bm'.version = version'
      /\ method # "LOG_BASED" => bm'.version = saved.version /\ bm'.log = 0
      /\ method = "LOG_BASED" /\ ~auto => bm'.log = saved.log
      /\ Resumable /\ saved.version # 0 => bm'.log = saved.log
      /\ Resumable /\ saved.version = 0 => bm'.log = clock
      /\ bm'.log \in 0 .. clock
  <2>1. CASE method # "LOG_BASED"
    BY <1>1, <1>2, <2>1 DEF Bookmark, Resumable
  <2>2. CASE method = "LOG_BASED" /\ saved.max # 0 /\ saved.log # 0
    <3>1. bm' = saved
      BY <1>1, <2>2 DEF HistoricalBookmark
    <3>2. Resumable /\ saved.version # 0
      BY <2>2 DEF IInv, Support, ShapeOK, Shape, Resumable
    <3> QED
      BY <1>2, <1>3, <2>2, <3>1, <3>2 DEF Resumable
  <2>3. CASE method = "LOG_BASED" /\ ~(saved.max # 0 /\ saved.log # 0)
    <3>1. bm' = [saved EXCEPT !.version = StreamVersion(saved), !.log = IF auto THEN clock ELSE saved.log]
      BY <1>1, <2>3 DEF HistoricalBookmark
    <3>2. Resumable /\ saved.version # 0 => saved.max # 0 /\ saved.log # 0
      BY DEF StartRun, RequiresHistorical, IInv, Support, ShapeOK, Shape, Resumable
    <3>3. /\ bm'.max = saved.max /\ bm'.last = saved.last /\ bm'.complete = saved.complete
          /\ bm'.version = version' /\ bm'.log = IF auto THEN clock ELSE saved.log
      BY <1>1, <1>2, <3>1 DEF Bookmark
    <3> QED
      BY <1>2, <2>3, <3>2, <3>3 DEF Resumable
  <2> QED
    BY <2>1, <2>2, <2>3
<1>6. method = "LOG_BASED" => RequiresHistorical(saved)
  BY DEF StartRun
<1>7. Resumable /\ saved.version # 0 => saved.max # 0
  BY <1>6 DEF RequiresHistorical, Resumable, IInv, Support, ShapeOK, Shape
<1>8. method = "LOG_BASED" /\ ~auto => saved.log = 0
  BY <1>6 DEF RequiresHistorical, IInv, Support, ShapeOK, Shape
<1>9. Support'
  <2>1. Bounded'
    BY <1>1, <1>2, <1>3, <1>4, <1>5 DEF IInv, TypeOK, Support, Bounded
  <2>2. SetupKept'
    BY <1>1 DEF IInv, Support, SetupKept
  <2>3. ShapeOK'
    BY <1>1, <1>2, <1>3, <1>5, <1>8 DEF IInv, Support, ShapeOK, Shape, Resumable
  <2> QED
    BY <2>1, <2>2, <2>3 DEF Support
<1>10. RowsOK'
  BY <1>1 DEF IInv, Snapshot, RowsOK
<1>11. Resumable => ~saved.complete /\ Limit' = bm'.log /\ Resumable'
  BY <1>1 DEF IInv, Support, ShapeOK, Shape, Resumable, Limit
<1>12. saved.version = 0 => \A p \in Pks : target[p].ver # version' /\ target'[p].ver # version'
  BY <1>2, <1>3, <1>4 DEF IInv, TypeOK, Support, Bounded
<1>13. Covered'
  <2>1. ASSUME Resumable, NEW p \in live, changed[p] <= bm'.log, p <= bm'.last
        PROVE  target'[p].ver = version' /\ target'[p].at = changed[p]
    <3>1. p \in Pks /\ saved.last # 0
      BY <1>5, <2>1, FullTableAssumption DEF IInv, TypeOK, Bookmark
    <3>2. saved.version # 0
      BY <2>1, <3>1 DEF IInv, Support, ShapeOK, Shape
    <3>3. target[p].ver = saved.version /\ target[p].at = changed[p]
      BY <1>5, <2>1, <3>2 DEF IInv, Emitted, SavedResumable, Got
    <3> QED
      BY <1>3, <1>4, <3>1, <3>2, <3>3
  <2> QED
    BY <1>1, <1>11, <2>1 DEF Covered, Got, Resumable
<1>14. MaxCovers'
  BY <1>1, <1>5, <1>7 DEF IInv, Support, ShapeOK, Shape, Emitted, SavedResumable, MaxCovers, Resumable
<1>15. NoGhost'
  <2>1. CASE saved.version = 0
    BY <1>1, <1>12, <2>1 DEF NoGhost
  <2>2. CASE saved.version # 0 /\ Resumable
    BY <1>1, <1>3, <1>4, <1>5, <1>11, <2>2 DEF IInv, Emitted, SavedResumable, NoGhost, Resumable, PlainCopy
  <2>3. CASE saved.version # 0 /\ ~Resumable
    BY <1>1, <2>3 DEF IInv, Support, ShapeOK, NoGhost, Resumable, PlainCopy
  <2> QED
    BY <2>1, <2>2, <2>3
<1>16. OneVersion'
  BY <1>1, <1>4, <1>11 DEF OneVersion, Resumable
<1>17. Emitted'
  <2>1. SavedResumable'
    <3>1. SUFFICES ASSUME Resumable, saved.version # 0 PROVE SavedResumable'
      BY <1>1 DEF SavedResumable, Resumable
    <3>2. \A p \in Pks : target[p].ver = saved.version => target'[p] = target[p]
      BY <1>3, <1>4, <3>1
    <3>3. \A p \in Pks : target[p].ver = 0 => target'[p].ver = 0
      BY <1>4
    <3> QED
      BY <1>1, <1>3, <1>5, <3>1, <3>2, <3>3 DEF IInv, TypeOK, Emitted, SavedResumable, Resumable, Got
  <2>2. SavedRestarted'
    BY <1>1, <1>8 DEF SavedRestarted
  <2> QED
    BY <1>1, <2>1, <2>2 DEF Emitted, SavedCopy
<1> QED
  BY <1>9, <1>10, <1>13, <1>14, <1>15, <1>16, <1>17 DEF Snapshot

\* The largest key is read no earlier than the limit, so it covers the rows of then.
LEMMA ConnectKeeps ==
  ASSUME IInv, Connect
  PROVE  Support' /\ Snapshot' /\ Emitted'
<1>1. /\ pc = "connect" /\ pc' = "execute"
      /\ bm' = IF auto /\ bm.max = 0 THEN [bm EXCEPT !.max = MaxOf(live)] ELSE bm
      /\ UNCHANGED <<live, changed, clock, method, auto, mode, edited, saved, target, exit, since, runs, version,
                     log0, todo, buffer, count, checkpoint, attempt, faults>>
  BY DEF Connect, serverVars, configVars, runVars, queryVars
<1>2. MaxOf(live) \in Pks \cup {0} /\ \A p \in live : p <= MaxOf(live) /\ p # 0
  BY MaxOfIsMax, FullTableAssumption DEF IInv, TypeOK
<1>3. /\ bm'.version = bm.version /\ bm'.log = bm.log /\ bm'.last = bm.last /\ bm'.complete = bm.complete
      /\ bm.max # 0 => bm'.max = bm.max
      /\ ~auto => bm'.max = bm.max
      /\ auto /\ bm.max = 0 => bm'.max = MaxOf(live)
  BY <1>1 DEF IInv, TypeOK, Bookmark
<1>4. Support'
  <2>1. Bounded'
    BY <1>1, <1>3 DEF IInv, Support, Bounded
  <2>2. SetupKept'
    BY <1>1 DEF IInv, Support, SetupKept
  <2>3. ShapeOK'
    BY <1>1, <1>3 DEF IInv, Support, Bounded, ShapeOK, Shape, Resumable
  <2> QED
    BY <2>1, <2>2, <2>3 DEF Support
<1>5. Limit' = Limit
  BY <1>1, <1>3 DEF Limit, Resumable
<1>6. RowsOK' /\ Covered' /\ NoGhost' /\ OneVersion'
  BY <1>1, <1>3, <1>5
     DEF IInv, Snapshot, RowsOK, Covered, NoGhost, OneVersion, Resumable, PlainCopy, RowOf, Got
<1>7. MaxCovers'
  <2>1. CASE bm.max = 0 /\ Resumable
    <3>1. bm'.max = MaxOf(live)
      BY <1>3, <2>1 DEF Resumable
    <3>2. bm'.max = 0 => live = {}
      BY <1>2, <3>1, FullTableAssumption DEF IInv, TypeOK
    <3> QED
      BY <1>1, <1>2, <3>1, <3>2 DEF MaxCovers
  <2>2. CASE bm.max # 0
    BY <1>1, <1>3, <2>2 DEF IInv, Snapshot, MaxCovers, Resumable
  <2>3. CASE ~Resumable
    BY <1>1, <2>3 DEF MaxCovers, Resumable
  <2> QED
    BY <2>1, <2>2, <2>3
<1>8. Emitted'
  BY <1>1, <1>3 DEF IInv, Emitted, SavedResumable, SavedRestarted, SavedCopy, Resumable, PlainCopy, Got, Holds, Lacks
<1> QED
  BY <1>4, <1>6, <1>7, <1>8 DEF Snapshot

\* Every row of the limit is in the query, or comes before the key it resumes from.
LEMMA ExecuteKeeps ==
  ASSUME IInv, Execute
  PROVE  Support' /\ Snapshot' /\ Emitted'
<1>1. /\ pc = "execute" /\ pc' = "rows" /\ buffer' = {} /\ buffer = {}
      /\ todo' = {RowOf(p) : p \in {q \in live : bm.max # 0 => bm.last < q /\ q <= bm.max}}
      /\ UNCHANGED <<live, changed, clock, method, auto, mode, edited, saved, target, exit, since, runs, version,
                     log0, bm, attempt, faults>>
  BY DEF Execute, RowOf, IInv, Snapshot, RowsOK, serverVars, configVars, runVars
<1>2. /\ live \subseteq Pks /\ \A p \in live : RowOf(p).pk = p /\ RowOf(p).at = changed[p]
      /\ \A p \in live : p \in Nat \ {0}
      /\ bm.last \in Nat /\ bm.max \in Nat
  <2>1. live \subseteq Pks /\ Pks \subseteq Nat \ {0}
    BY FullTableAssumption DEF IInv, TypeOK
  <2>2. bm.last \in Nat /\ bm.max \in Nat
    <3>1. bm.last \in Pks \cup {0} /\ bm.max \in Pks \cup {0}
      BY DEF IInv, TypeOK, Bookmark
    <3>2. \A x \in Pks \cup {0} : x \in Nat
      BY <2>1
    <3> QED
      BY <3>1, <3>2
  <2>3. \A p \in live : RowOf(p).pk = p /\ RowOf(p).at = changed[p]
    BY DEF RowOf
  <2> QED
    BY <2>1, <2>2, <2>3
<1>3. Support'
  <2>1. Bounded'
    BY <1>1 DEF IInv, Support, Bounded
  <2>2. SetupKept'
    BY <1>1 DEF IInv, Support, SetupKept
  <2>3. ShapeOK'
    BY <1>1 DEF IInv, Support, ShapeOK, Shape, Resumable
  <2> QED
    BY <2>1, <2>2, <2>3 DEF Support
<1>4. Limit' = Limit
  BY <1>1 DEF Limit, Resumable
<1>5. /\ \A r \in todo' : r.pk \in live /\ r.at = changed[r.pk] /\ r = RowOf(r.pk)
      /\ bm.max # 0 => \A r \in todo' : bm.last < r.pk
      /\ \A p \in live : (bm.max # 0 => bm.last < p /\ p <= bm.max) => RowOf(p) \in todo'
  BY <1>1, <1>2
<1>6. RowsOK'
  <2>1. \A r \in todo' \cup buffer' : r \in todo'
    BY <1>1
  <2>2. \A r, q \in todo' \cup buffer' : r.pk = q.pk => r = q
    BY <1>5, <2>1
  <2> QED
    BY <1>1, <1>5, <2>1, <2>2 DEF RowsOK
<1>7. Covered'
  <2>1. ASSUME Resumable, NEW p \in live, changed[p] <= Limit, p <= bm.last
        PROVE  Got(p, version)
    BY <1>1, <2>1 DEF IInv, Snapshot, Covered
  <2>2. ASSUME Resumable \/ ~auto, NEW p \in live, changed[p] <= Limit
        PROVE  RowOf(p) \in todo' \/ Got(p, version)
    <3>1. CASE bm.max = 0
      BY <1>5, <3>1
    <3>2. CASE bm.max # 0
      <4>1. Resumable
        BY <2>2, <3>2 DEF IInv, Support, ShapeOK, Shape
      <4>2. p <= bm.max
        BY <1>1, <2>2, <3>2, <4>1 DEF IInv, Snapshot, MaxCovers, Limit
      <4> QED
        BY <1>2, <1>5, <2>1, <2>2, <4>1, <4>2
    <3> QED
      BY <3>1, <3>2
  <2> QED
    BY <1>1, <1>4, <2>1, <2>2 DEF Covered, Resumable, RowOf, Got
<1>8. MaxCovers' /\ NoGhost' /\ OneVersion'
  BY <1>1, <1>4 DEF IInv, Snapshot, MaxCovers, NoGhost, OneVersion, Resumable, PlainCopy
<1>9. Emitted'
  BY <1>1 DEF IInv, Emitted, SavedResumable, SavedRestarted, SavedCopy, Resumable, PlainCopy, Got, Holds, Lacks
<1> QED
  BY <1>3, <1>6, <1>7, <1>8, <1>9 DEF Snapshot

\* What a batch with the rows R does to the target: nothing that was there for the
\* limit is lost, the rows of R are there, and no other is new.
LEMMA EmitRows ==
  ASSUME IInv, NEW R \in SUBSET (todo \cup buffer), target' = Deliver(target, R), pc # "off",
         UNCHANGED <<live, changed, version>>
  PROVE  /\ \A p \in Pks : changed[p] <= Limit /\ Got(p, version) => Got(p, version)'
         /\ \A p \in Pks : changed[p] <= Limit /\ RowOf(p) \in R => Got(p, version)'
         /\ \A p \in Pks : target'[p].ver \in {target[p].ver, version}
         /\ \A p \in Pks : target'[p] = target[p]
                              \/ (changed[p] <= Limit => p \in live /\ target'[p].at = changed[p])
<1>1. /\ R \in SUBSET Row /\ \A r, q \in R : r.pk = q.pk => r = q
      /\ \A r \in R : r.pk \in Pks /\ (changed[r.pk] <= Limit => r.pk \in live /\ r.at = changed[r.pk])
  BY DEF IInv, TypeOK, Snapshot, RowsOK, Row
<1>2. /\ \A r \in R : target'[r.pk] = [ver |-> version, at |-> r.at]
      /\ \A p \in Pks : (\A r \in R : r.pk # p) => target'[p] = target[p]
  <2>1. version \in Nat /\ target \in [Pks -> [ver : Nat, at : Nat]]
    BY DEF IInv, TypeOK
  <2>2. /\ \A r \in R : Deliver(target, R)[r.pk] = [ver |-> version, at |-> r.at]
        /\ \A p \in Pks : (\A r \in R : r.pk # p) => Deliver(target, R)[p] = target[p]
    BY <1>1, <2>1, DeliverRows
  <2> QED
    BY <2>2
<1>3. ASSUME NEW p \in Pks
      PROVE  \/ target'[p] = target[p] /\ \A r \in R : r.pk # p
             \/ /\ target'[p].ver = version
                /\ changed[p] <= Limit => p \in live /\ target'[p].at = changed[p]
  <2>1. ASSUME NEW r \in R, r.pk = p
        PROVE  /\ target'[p].ver = version
               /\ changed[p] <= Limit => p \in live /\ target'[p].at = changed[p]
    <3>1. target'[p] = [ver |-> version, at |-> r.at]
      BY <1>2, <2>1
    <3>2. changed[p] <= Limit => p \in live /\ r.at = changed[p]
      BY <1>1, <2>1
    <3> QED
      BY <3>1, <3>2
  <2> QED
    BY <1>2, <2>1
<1>4. \A p \in Pks : RowOf(p).pk = p
  BY DEF RowOf
<1>5. \A p \in Pks : Got(p, version)' <=> target'[p].ver = version /\ target'[p].at = changed[p]
  BY DEF Got
<1>6. \A p \in Pks : changed[p] <= Limit /\ Got(p, version) => Got(p, version)'
  BY <1>3, <1>5 DEF Got
<1>7. \A p \in Pks : changed[p] <= Limit /\ RowOf(p) \in R => Got(p, version)'
  BY <1>3, <1>4, <1>5
<1> QED
  BY <1>3, <1>6, <1>7

\* What the target keeps when only rows R of the run reach it.
LEMMA TargetKeeps ==
  ASSUME IInv, NEW R \in SUBSET (todo \cup buffer), pc # "off", pc' # "off", pc' # "exit",
         target' = Deliver(target, R) \/ target' = target, Limit' = Limit,
         UNCHANGED <<live, changed, method, auto, edited, saved, exit, since, version>>,
         bm'.log = bm.log
  PROVE  NoGhost' /\ OneVersion' /\ Emitted'
<1>1. CASE target' = target
  BY <1>1 DEF IInv, Snapshot, NoGhost, OneVersion, Resumable, PlainCopy, Emitted, SavedResumable, SavedRestarted,
              SavedCopy, Got, Holds, Lacks
<1>2. CASE target' = Deliver(target, R)
  <2>1. /\ \A p \in Pks : changed[p] <= Limit /\ Got(p, version) => Got(p, version)'
        /\ \A p \in Pks : target'[p].ver \in {target[p].ver, version}
        /\ \A p \in Pks : target'[p] = target[p]
                             \/ (changed[p] <= Limit => p \in live /\ target'[p].at = changed[p])
    BY <1>2, EmitRows
  <2>2. NoGhost'
    BY <2>1 DEF IInv, Snapshot, NoGhost, Resumable, PlainCopy
  <2>3. OneVersion'
    BY <2>1 DEF IInv, Snapshot, OneVersion, Resumable, PlainCopy
  <2>4. SavedResumable'
    <3>1. SUFFICES ASSUME Resumable, saved.version # 0 PROVE SavedResumable'
      BY DEF SavedResumable, Resumable
    <3>2. saved.version = version /\ saved.log = Limit
      BY <3>1 DEF IInv, Emitted, SavedResumable, Limit
    <3> QED
      BY <2>1, <3>1, <3>2 DEF IInv, TypeOK, Emitted, SavedResumable, Resumable, Got
  <2>5. SavedRestarted'
    BY DEF IInv, Support, ShapeOK, SavedRestarted
  <2>6. SavedCopy'
    BY DEF IInv, Emitted, SavedCopy
  <2> QED
    BY <2>2, <2>3, <2>4, <2>5, <2>6 DEF Emitted
<1> QED
  BY <1>1, <1>2

\* The rows before the new last key are at the target or in the buffer: the query
\* returns them in the order of the key.
LEMMA FetchRowsKeeps ==
  ASSUME IInv, FetchRows
  PROVE  Support' /\ Snapshot' /\ Emitted'
<1>1. PICK C \in SUBSET todo :
        /\ Fetched(C) /\ todo' = todo \ C
        /\ IF mode = "record" \/ checkpoint' THEN Emit(C) ELSE target' = target /\ buffer' = buffer \cup C
        /\ bm' = IF bm.max # 0 THEN [bm EXCEPT !.last = MaxOf({r.pk : r \in C})] ELSE bm
  BY DEF FetchRows
<1>2. /\ pc = "rows" /\ pc' = (IF checkpoint' THEN "state" ELSE "rows")
      /\ UNCHANGED <<live, changed, clock, method, auto, mode, edited, saved, exit, since, runs, version, log0,
                     attempt, faults>>
  BY DEF FetchRows, serverVars, configVars, runVars
<1>3. /\ bm'.version = bm.version /\ bm'.log = bm.log /\ bm'.max = bm.max /\ bm'.complete = bm.complete
      /\ bm.max = 0 => bm' = bm
      /\ bm.max # 0 => bm'.last = MaxOf({r.pk : r \in C})
  BY <1>1 DEF IInv, TypeOK, Bookmark
<1>4. Limit' = Limit
  BY <1>2, <1>3 DEF Limit, Resumable
<1>5. /\ todo \cup buffer \subseteq Row /\ C \subseteq Row /\ live \subseteq Pks /\ Pks \subseteq Nat \ {0}
      /\ \A r \in todo : r.pk \in Pks
  BY FullTableAssumption DEF IInv, TypeOK, Row
<1>6. /\ C # {} => \E r \in C : r.pk = MaxOf({q.pk : q \in C})
      /\ MaxOf({r.pk : r \in C}) \in Pks \cup {0}
  BY <1>5, KeysOfRows
<1>7. bm.max # 0 => \A q \in todo' : bm'.last < q.pk
  BY <1>1, <1>3, <1>5, <1>6 DEF Fetched
<1>8. \/ target' = Deliver(target, buffer \cup C) /\ buffer' = {}
      \/ target' = target /\ buffer' = buffer \cup C /\ mode # "record" /\ pc' = "rows"
  BY <1>1, <1>2 DEF Emit
<1>9. Support'
  <2>1. Bounded'
    <3>1. \A p \in Pks : target'[p].ver <= runs
      <4>1. target' = target \/ target' = Deliver(target, buffer \cup C)
        BY <1>8
      <4>2. \A p \in Pks : target'[p].ver \in {target[p].ver, version}
        BY <1>2, <4>1, EmitRows
      <4> QED
        BY <1>2, <4>2 DEF IInv, Support, Bounded
    <3> QED
      BY <1>2, <1>3, <3>1 DEF IInv, Support, Bounded
  <2>2. SetupKept'
    BY <1>2 DEF IInv, Support, SetupKept
  <2>3. ShapeOK'
    BY <1>2, <1>3 DEF IInv, Support, ShapeOK, Shape, Resumable
  <2> QED
    BY <2>1, <2>2, <2>3 DEF Support
<1>10. RowsOK'
  <2>1. todo' \cup buffer' \subseteq todo \cup buffer
    BY <1>1, <1>8
  <2>2. \A r, q \in todo' \cup buffer' : r.pk = q.pk => r = q
    BY <2>1 DEF IInv, Snapshot, RowsOK
  <2>3. \A r \in todo' \cup buffer' : changed[r.pk] <= Limit => r.pk \in live /\ r.at = changed[r.pk]
    BY <2>1 DEF IInv, Snapshot, RowsOK
  <2>4. pc' # "rows" \/ mode = "record" => buffer' = {}
    BY <1>8
  <2> QED
    BY <1>2, <1>3, <1>4, <1>7, <2>2, <2>3, <2>4 DEF RowsOK
<1>11. ASSUME NEW p \in live, changed[p] <= Limit
       PROVE  /\ Got(p, version) => Got(p, version)'
              /\ RowOf(p) \in buffer \cup C => RowOf(p) \in buffer' \/ Got(p, version)'
  <2>1. CASE target' = Deliver(target, buffer \cup C)
    BY <1>2, <1>5, <1>11, <2>1, EmitRows
  <2>2. CASE target' = target /\ buffer' = buffer \cup C
    BY <1>2, <2>2 DEF Got
  <2> QED
    BY <1>8, <2>1, <2>2
<1>12. ASSUME Resumable \/ ~auto, NEW p \in live, changed[p] <= Limit
       PROVE  RowOf(p) \in todo' \cup buffer' \/ Got(p, version)'
  <2>1. RowOf(p) \in todo \cup buffer \/ Got(p, version)
    BY <1>2, <1>12 DEF IInv, Snapshot, Covered
  <2> QED
    BY <1>1, <1>11, <1>12, <2>1
<1>13. ASSUME Resumable, NEW p \in live, changed[p] <= Limit, p <= bm'.last
       PROVE  RowOf(p) \in buffer' \/ Got(p, version)'
  <2>1. CASE bm.max = 0
    <3>1. RowOf(p) \in buffer \/ Got(p, version)
      BY <1>2, <1>3, <1>13, <2>1 DEF IInv, Snapshot, Covered
    <3> QED
      BY <1>11, <1>13, <3>1
  <2>2. CASE bm.max # 0
    <3>1. RowOf(p) \notin todo'
      <4>1. bm'.last \in Nat /\ p \in Nat
        <5>1. \A x \in Pks \cup {0} : x \in Nat
          BY <1>5
        <5>2. bm'.last \in Pks \cup {0} /\ p \in Pks \cup {0}
          BY <1>3, <1>5, <1>6, <2>2
        <5> QED
          BY <5>1, <5>2
      <4>2. RowOf(p).pk = p
        BY DEF RowOf
      <4>3. RowOf(p) \in todo' => bm'.last < p
        BY <1>7, <2>2, <4>2
      <4> QED
        BY <1>13, <4>1, <4>3
    <3> QED
      BY <1>12, <1>13, <3>1
  <2> QED
    BY <2>1, <2>2
<1>14. Covered'
  <2>1. \A p : RowOf(p)' = RowOf(p)
    BY <1>2 DEF RowOf
  <2> QED
    BY <1>2, <1>4, <1>12, <1>13, <2>1 DEF Covered, Resumable, Got, RowOf
<1>15. MaxCovers'
  BY <1>2, <1>3 DEF IInv, Snapshot, MaxCovers, Resumable
<1>16. NoGhost' /\ OneVersion' /\ Emitted'
  <2>1. target' = Deliver(target, buffer \cup C) \/ target' = target
    BY <1>8
  <2> QED
    BY <1>2, <1>3, <1>4, <2>1, TargetKeeps
<1> QED
  BY <1>9, <1>10, <1>14, <1>15, <1>16 DEF Snapshot

\* The last flush leaves nothing to lose.
LEMMA EndQueryKeeps ==
  ASSUME IInv, EndQuery
  PROVE  Support' /\ Snapshot' /\ Emitted'
<1>1. /\ pc = "rows" /\ pc' \in {"finish", "laststate"} /\ todo = {} /\ todo' = {} /\ buffer' = {}
      /\ target' = Deliver(target, buffer)
      /\ UNCHANGED <<live, changed, clock, method, auto, mode, edited, saved, exit, since, runs, version, log0, bm,
                     attempt, faults>>
  BY DEF EndQuery, Emit, serverVars, configVars, runVars
<1>2. Limit' = Limit
  BY <1>1 DEF Limit, Resumable
<1>3. /\ \A p \in Pks : changed[p] <= Limit /\ Got(p, version) => Got(p, version)'
      /\ \A p \in Pks : changed[p] <= Limit /\ RowOf(p) \in buffer => Got(p, version)'
      /\ \A p \in Pks : target'[p].ver \in {target[p].ver, version}
  BY <1>1, EmitRows
<1>4. live \subseteq Pks
  BY DEF IInv, TypeOK
<1>5. Support'
  <2>1. Bounded'
    BY <1>1, <1>3 DEF IInv, Support, Bounded
  <2>2. SetupKept'
    BY <1>1 DEF IInv, Support, SetupKept
  <2>3. ShapeOK'
    BY <1>1 DEF IInv, Support, ShapeOK, Shape, Resumable
  <2> QED
    BY <2>1, <2>2, <2>3 DEF Support
<1>6. RowsOK'
  BY <1>1 DEF RowsOK
<1>7. Covered'
  BY <1>1, <1>2, <1>3, <1>4 DEF IInv, Snapshot, Covered, Resumable, Got
<1>8. MaxCovers'
  BY <1>1 DEF IInv, Snapshot, MaxCovers, Resumable
<1>9. NoGhost' /\ OneVersion' /\ Emitted'
  <2>1. buffer \in SUBSET (todo \cup buffer)
    OBVIOUS
  <2> QED
    BY <1>1, <1>2, <2>1, TargetKeeps
<1> QED
  BY <1>5, <1>6, <1>7, <1>8, <1>9 DEF Snapshot

\* What a STATE message promises is what the run has done by then.
LEMMA EmitStateKeeps ==
  ASSUME IInv, EmitState
  PROVE  Support' /\ Snapshot' /\ Emitted'
<1>1. /\ pc \in {"state", "laststate"} /\ pc' \in {"rows", "finish"} /\ saved' = bm /\ buffer = {}
      /\ pc = "state" => pc' = "rows"
      /\ pc = "laststate" => pc' = "finish" /\ todo = {}
      /\ UNCHANGED <<live, changed, clock, method, auto, mode, edited, target, exit, since, runs, version,
                     log0, bm, todo, buffer, attempt, faults>>
  BY DEF EmitState, IInv, Snapshot, RowsOK, serverVars, configVars, runVars, queryVars
<1>2. Limit' = Limit
  BY <1>1 DEF Limit, Resumable
<1>3. Support'
  <2>1. Bounded'
    BY <1>1 DEF IInv, Support, Bounded
  <2>2. SetupKept'
    BY <1>1 DEF IInv, Support, SetupKept
  <2>3. ShapeOK'
    BY <1>1 DEF IInv, Support, ShapeOK, Shape, Resumable
  <2> QED
    BY <2>1, <2>2, <2>3 DEF Support
<1>4. Snapshot'
  BY <1>1, <1>2
     DEF IInv, Snapshot, RowsOK, Covered, MaxCovers, NoGhost, OneVersion, Resumable, PlainCopy, RowOf, Got
<1>5. SavedResumable'
  <2>1. SUFFICES ASSUME Resumable PROVE SavedResumable'
    BY <1>1 DEF SavedResumable, Resumable
  <2>2. bm.version = version /\ version # 0 /\ Limit = bm.log
    BY <1>1, <2>1 DEF IInv, Support, Bounded, ShapeOK, Resumable, Limit
  <2>3. ASSUME NEW p \in live, changed[p] <= bm.log, bm.max = 0 \/ p <= bm.last
        PROVE  Got(p, version)
    <3>1. CASE p <= bm.last
      BY <1>1, <2>1, <2>2, <2>3, <3>1 DEF IInv, Snapshot, Covered
    <3>2. CASE bm.max = 0 /\ pc = "state"
      <4>1. changed[p] > bm.log
        BY <2>1, <2>3, <3>2 DEF IInv, Snapshot, MaxCovers
      <4>2. changed[p] \in Nat /\ bm.log \in Nat
        BY <2>3 DEF IInv, TypeOK, Bookmark
      <4> QED
        BY <2>3, <4>1, <4>2
    <3>3. CASE pc = "laststate"
      BY <1>1, <2>1, <2>2, <2>3, <3>3 DEF IInv, Snapshot, Covered
    <3> QED
      BY <1>1, <2>3, <3>1, <3>2, <3>3
  <2>4. bm.max # 0 => \A p \in live : changed[p] <= bm.log => p <= bm.max
    BY <1>1, <2>1 DEF IInv, Snapshot, MaxCovers
  <2>5. \A p \in Pks : /\ target[p].ver \in {0, version}
                       /\ target[p].ver # 0 /\ changed[p] <= bm.log => p \in live /\ target[p].at = changed[p]
    BY <1>1, <2>1, <2>2 DEF IInv, Snapshot, NoGhost, OneVersion
  <2> QED
    <3>1. /\ pc' # "off" => saved'.version = version' /\ saved'.log = bm'.log
          /\ saved'.max # 0 => \A p \in live' : changed'[p] <= saved'.log => p <= saved'.max
      BY <1>1, <2>2, <2>4
    <3>2. \A p \in live' : changed'[p] <= saved'.log /\ (saved'.max = 0 \/ p <= saved'.last) =>
                             target'[p].ver = saved'.version /\ target'[p].at = changed'[p]
      BY <1>1, <2>2, <2>3 DEF Got
    <3>3. \A p \in Pks : /\ target'[p].ver \in {0, saved'.version}
                         /\ target'[p].ver # 0 /\ changed'[p] <= saved'.log =>
                              p \in live' /\ target'[p].at = changed'[p]
      BY <1>1, <2>2, <2>5
    <3> QED
      BY <3>1, <3>2, <3>3 DEF SavedResumable, Resumable, Got
<1>6. SavedRestarted'
  BY <1>1 DEF IInv, Support, ShapeOK, SavedRestarted
<1>7. SavedCopy'
  BY <1>1 DEF IInv, Emitted, SavedCopy
<1> QED
  BY <1>3, <1>4, <1>5, <1>6, <1>7 DEF Emitted

\* The end of a snapshot drops the rows of other versions and sets the bookmark.
LEMMA FinishKeeps ==
  ASSUME IInv, Finish
  PROVE  Support' /\ Snapshot' /\ Emitted'
<1>1. /\ pc = "finish" /\ pc' = "exit" /\ todo = {} /\ buffer = {}
      /\ target' = ActivateVersion(target, version) /\ bm' = Completed(Cleared(bm))
      /\ UNCHANGED <<live, changed, clock, method, auto, mode, edited, saved, exit, since, runs, version,
                     log0, todo, buffer, attempt, faults>>
  BY DEF Finish, IInv, Snapshot, RowsOK, serverVars, configVars, runVars, queryVars
<1>2. /\ bm'.max = 0 /\ bm'.last = 0
      /\ method = "LOG_BASED" => bm'.version = bm.version /\ bm'.complete = bm.complete
      /\ method = "LOG_BASED" /\ ~auto => bm'.log = since
      /\ Resumable => bm'.log = bm.log
      /\ method = "FULL_TABLE" => bm'.version = 0 /\ bm'.log = bm.log
      /\ method \in {"FULL_TABLE", "LOG_BASED"}
  <2>1. bm \in Bookmark /\ method \in {"FULL_TABLE", "LOG_BASED"} /\ log0 = since
    BY <1>1 DEF IInv, TypeOK, Support, Bounded
  <2>2. Cleared(bm) = [bm EXCEPT !.max = 0, !.last = 0]
    BY DEF Cleared
  <2>3. CASE method = "FULL_TABLE"
    BY <1>1, <2>1, <2>2, <2>3 DEF Completed, Bookmark, Resumable
  <2>4. CASE method = "LOG_BASED"
    BY <1>1, <2>1, <2>2, <2>4 DEF Completed, Bookmark, Resumable
  <2> QED
    BY <2>1, <2>3, <2>4
<1>3. /\ \A p \in Pks : target[p].ver = version => target'[p] = target[p]
      /\ \A p \in Pks : target[p].ver # version => target'[p] = [ver |-> 0, at |-> 0]
      /\ \A p \in Pks : target'[p].ver \in {0, version}
  <2>1. version \in Nat /\ target \in [Pks -> [ver : Nat, at : Nat]]
    BY DEF IInv, TypeOK
  <2> QED
    BY <1>1, <2>1, ActivateVersionRows
<1>4. Limit' = Limit /\ version # 0 /\ live \subseteq Pks /\ version \in 1 .. runs
  BY <1>1, <1>2 DEF Limit, Resumable, IInv, TypeOK, Support, Bounded
<1>5. Support'
  <2>1. Bounded'
    <3>1. \A p \in Pks : target'[p].ver <= runs
      BY <1>3, <1>4 DEF IInv, TypeOK
    <3>2. bm'.version \in 0 .. runs /\ bm'.log \in 0 .. clock
      <4>1. since \in 0 .. clock /\ bm.log \in 0 .. clock /\ bm.version \in 0 .. runs /\ runs \in Nat
        BY DEF IInv, TypeOK, Support, Bounded
      <4> QED
        BY <1>2, <4>1 DEF Resumable
    <3> QED
      BY <1>1, <3>1, <3>2 DEF IInv, Support, Bounded
  <2>2. SetupKept'
    BY <1>1 DEF IInv, Support, SetupKept
  <2>3. ShapeOK'
    BY <1>1, <1>2 DEF IInv, Support, ShapeOK, Shape, Resumable
  <2> QED
    BY <2>1, <2>2, <2>3 DEF Support
<1>6. RowsOK'
  BY <1>1, <1>2 DEF RowsOK
<1>7. ASSUME Resumable \/ ~auto, NEW p \in live, changed[p] <= Limit
      PROVE  Got(p, version)'
  BY <1>1, <1>3, <1>4, <1>7 DEF IInv, Snapshot, Covered, Got
<1>8. Covered' /\ MaxCovers'
  BY <1>1, <1>2, <1>4, <1>7 DEF Covered, MaxCovers, Resumable, Limit, Got
<1>9. NoGhost' /\ OneVersion'
  BY <1>1, <1>3, <1>4 DEF IInv, Snapshot, NoGhost, OneVersion, Resumable, PlainCopy
<1>10. Emitted'
  <2>1. SavedResumable'
    BY <1>1, <1>2, <1>3, <1>4 DEF IInv, Emitted, SavedResumable, Resumable, Got
  <2>2. SavedRestarted'
    BY <1>1 DEF IInv, Support, ShapeOK, SavedRestarted
  <2>3. SavedCopy'
    BY <1>1 DEF IInv, Emitted, SavedCopy
  <2> QED
    BY <2>1, <2>2, <2>3 DEF Emitted
<1> QED
  BY <1>5, <1>6, <1>8, <1>9, <1>10 DEF Snapshot

\* The STATE message after the snapshot hands the stream over.
LEMMA ExitStateKeeps ==
  ASSUME IInv, ExitState
  PROVE  Support' /\ Snapshot' /\ Emitted'
<1>1. /\ pc = "exit" /\ pc' = "off" /\ exit' = 0 /\ saved' = bm /\ bm' = bm
      /\ todo = {} /\ buffer = {} /\ todo' = {} /\ buffer' = {}
      /\ UNCHANGED <<live, changed, clock, method, auto, mode, edited, target, since, runs>>
  BY DEF ExitState, Stop, IInv, Snapshot, RowsOK, serverVars, configVars
<1>2. version # 0 /\ live \subseteq Pks
  BY <1>1 DEF IInv, TypeOK, Support, Bounded
<1>3. ASSUME Resumable \/ ~auto, NEW p \in live, changed[p] <= Limit
      PROVE  Got(p, version)
  BY <1>1, <1>3 DEF IInv, Snapshot, Covered
<1>4. Support'
  <2>1. Bounded'
    BY <1>1 DEF IInv, Support, Bounded
  <2>2. SetupKept'
    BY <1>1 DEF IInv, Support, SetupKept
  <2>3. ShapeOK'
    BY <1>1 DEF IInv, Support, ShapeOK, Shape, Resumable
  <2> QED
    BY <2>1, <2>2, <2>3 DEF Support
<1>5. Snapshot'
  BY <1>1 DEF Snapshot, RowsOK, Covered, MaxCovers, NoGhost, OneVersion
<1>6. SavedResumable'
  <2>1. SUFFICES ASSUME Resumable PROVE SavedResumable'
    BY <1>1 DEF SavedResumable, Resumable
  <2>2. bm.version = version /\ Limit = bm.log
    BY <1>1, <2>1 DEF IInv, Support, ShapeOK, Resumable, Limit
  <2>3. \A p \in Pks : /\ target[p].ver \in {0, version}
                       /\ target[p].ver # 0 /\ changed[p] <= bm.log => p \in live /\ target[p].at = changed[p]
    BY <1>1, <2>1, <2>2 DEF IInv, Snapshot, NoGhost, OneVersion
  <2>4. bm.max # 0 => \A p \in live : changed[p] <= bm.log => p <= bm.max
    BY <1>1, <2>1 DEF IInv, Snapshot, MaxCovers
  <2> QED
    <3>1. saved'.max # 0 => \A p \in live' : changed'[p] <= saved'.log => p <= saved'.max
      BY <1>1, <2>4
    <3>2. \A p \in live' : changed'[p] <= saved'.log =>
                             target'[p].ver = saved'.version /\ target'[p].at = changed'[p]
      BY <1>1, <1>3, <2>1, <2>2 DEF Got
    <3>3. \A p \in Pks : /\ target'[p].ver \in {0, saved'.version}
                         /\ target'[p].ver # 0 /\ changed'[p] <= saved'.log =>
                              p \in live' /\ target'[p].at = changed'[p]
      BY <1>1, <2>2, <2>3
    <3> QED
      BY <1>1, <3>1, <3>2, <3>3 DEF SavedResumable, Resumable, Got
<1>7. SavedRestarted'
  <2>1. SUFFICES ASSUME method = "LOG_BASED", ~auto PROVE SavedRestarted'
    BY <1>1 DEF SavedRestarted
  <2>2. bm.log = since /\ Limit = since
    BY <1>1, <2>1 DEF IInv, Support, ShapeOK, Limit, Resumable
  <2> QED
    BY <1>1, <1>2, <1>3, <2>1, <2>2 DEF SavedRestarted, Holds, Got
<1>8. SavedCopy'
  <2>1. SUFFICES ASSUME PlainCopy PROVE SavedCopy'
    BY <1>1 DEF SavedCopy, PlainCopy
  <2>2. Limit = since
    BY <2>1 DEF Limit, Resumable, PlainCopy
  <2>3. ASSUME NEW p \in Pks, changed[p] <= since
        PROVE  IF p \in live THEN Holds(p) ELSE Lacks(p)
    <3>1. CASE p \in live
      BY <1>2, <1>3, <2>1, <2>2, <2>3, <3>1 DEF PlainCopy, Holds, Got
    <3>2. CASE p \notin live
      BY <1>1, <2>1, <2>2, <2>3, <3>2 DEF IInv, Snapshot, NoGhost, OneVersion, Lacks
    <3> QED
      BY <3>1, <3>2
  <2> QED
    BY <1>1, <2>1, <2>3 DEF SavedCopy, PlainCopy, Holds, Lacks
<1> QED
  BY <1>4, <1>5, <1>6, <1>7, <1>8 DEF Emitted

\* A lost connection takes no row with it that lies behind the key the query
\* resumes from.
LEMMA ConnectionLostKeeps ==
  ASSUME IInv, ConnectionLost
  PROVE  Support' /\ Snapshot' /\ Emitted'
<1>1. CASE ~MayRetry
  BY <1>1, StopKeeps DEF ConnectionLost
<1>2. CASE MayRetry
  <2>1. /\ pc \in {"connect", "execute", "rows"} /\ pc' = "connect" /\ todo' = {} /\ buffer' = {}
        /\ LoseBuffered \/ buffer = {} \/ bm.max = 0
        /\ UNCHANGED <<live, changed, clock, method, auto, mode, edited, saved, target, exit, since, runs, version,
                       log0, bm>>
    BY <1>2 DEF ConnectionLost, serverVars, configVars, runVars
  <2>2. Limit' = Limit
    BY <2>1 DEF Limit, Resumable
  <2>3. Support'
    <3>1. Bounded'
      BY <2>1 DEF IInv, Support, Bounded
    <3>2. SetupKept'
      BY <2>1 DEF IInv, Support, SetupKept
    <3>3. ShapeOK'
      BY <2>1 DEF IInv, Support, ShapeOK, Shape, Resumable
    <3> QED
      BY <3>1, <3>2, <3>3 DEF Support
  <2>4. RowsOK'
    BY <2>1 DEF RowsOK
  <2>5. ASSUME Resumable, NEW p \in live, changed[p] <= Limit, p <= bm.last
        PROVE  Got(p, version)
    <3>1. p \in Nat \ {0}
      BY FullTableAssumption DEF IInv, TypeOK
    <3>2. bm.max # 0
      BY <2>5, <3>1 DEF IInv, Support, ShapeOK, Shape
    <3>3. buffer = {}
      BY <2>1, <2>5, <3>2 DEF IInv, Support, SetupKept, Snapshot, RowsOK, Resumable
    <3> QED
      BY <2>1, <2>5, <3>3 DEF IInv, Snapshot, Covered
  <2>6. Covered'
    BY <2>1, <2>2, <2>5 DEF Covered, Resumable, Got
  <2>7. MaxCovers' /\ NoGhost' /\ OneVersion'
    BY <2>1, <2>2 DEF IInv, Snapshot, MaxCovers, NoGhost, OneVersion, Resumable, PlainCopy
  <2>8. Emitted'
    BY <2>1 DEF IInv, Emitted, SavedResumable, SavedRestarted, SavedCopy, Resumable, PlainCopy, Got, Holds, Lacks
  <2> QED
    BY <2>3, <2>4, <2>6, <2>7, <2>8 DEF Snapshot
<1> QED
  BY <1>1, <1>2

LEMMA StutterKeeps ==
  ASSUME IInv, UNCHANGED vars
  PROVE  Support' /\ Snapshot' /\ Emitted'
<1>1. UNCHANGED <<live, changed, clock, method, auto, mode, edited, saved, target, pc, exit, since, runs, version,
                 log0, bm, todo, buffer, count, checkpoint, attempt, faults>>
  BY DEF vars, serverVars, configVars, runVars, queryVars
<1>2. Support'
  BY <1>1 DEF IInv, Support, Bounded, SetupKept, ShapeOK, Shape, Resumable
<1>3. Snapshot'
  BY <1>1 DEF IInv, Snapshot, RowsOK, Covered, MaxCovers, NoGhost, OneVersion, Resumable, PlainCopy, Limit, RowOf, Got
<1>4. Emitted'
  BY <1>1 DEF IInv, Emitted, SavedResumable, SavedRestarted, SavedCopy, Resumable, PlainCopy, Got, Holds, Lacks
<1> QED
  BY <1>2, <1>3, <1>4

-----------------------------------------------------------------------------
LEMMA InitHolds == Dependable /\ Init => IInv
<1> SUFFICES ASSUME Dependable, Init PROVE IInv
  OBVIOUS
<1>1. /\ clock = 1 /\ changed = [p \in Pks |-> 1] /\ target = [p \in Pks |-> [ver |-> 0, at |-> 0]]
      /\ saved = [version |-> 0, log |-> 0, max |-> 0, last |-> 0, complete |-> FALSE] /\ bm = saved
      /\ pc = "off" /\ exit = 1 /\ since = 0 /\ runs = 0 /\ todo = {} /\ buffer = {} /\ edited = FALSE
  BY DEF Init, NoBookmark, Absent
<1>2. Support
  <2>1. Bounded
    BY <1>1 DEF Bounded
  <2>2. SetupKept
    BY <1>1 DEF Init, Dependable, SetupKept
  <2>3. ShapeOK
    BY <1>1 DEF ShapeOK, Shape
  <2> QED
    BY <2>1, <2>2, <2>3 DEF Support
<1>3. Snapshot
  BY <1>1 DEF Snapshot, RowsOK, Covered, MaxCovers, NoGhost, OneVersion
<1>4. Emitted
  BY <1>1 DEF Emitted, SavedResumable, SavedRestarted, SavedCopy
<1> QED
  BY <1>2, <1>3, <1>4, TypeInit DEF IInv

LEMMA StepKeeps == IInv /\ [Next]_vars => IInv'
<1> SUFFICES ASSUME IInv, [Next]_vars PROVE IInv'
  OBVIOUS
<1>1. TypeOK'
  BY TypeStep DEF IInv, Snapshot, RowsOK, OneEach
<1>2. SUFFICES Support' /\ Snapshot' /\ Emitted'
  BY <1>1 DEF IInv
<1>3. CASE ServerNext
  BY <1>3, ServerKeeps DEF ServerNext
<1>4. CASE ChangeMethod
  BY <1>4, ChangeMethodKeeps
<1>5. CASE RunStep
  BY <1>5, StartRunKeeps, ConnectKeeps, ExecuteKeeps, FetchRowsKeeps, EmitStateKeeps, EndQueryKeeps, FinishKeeps,
     ExitStateKeeps DEF RunStep
<1>6. CASE ConnectionLost
  BY <1>6, ConnectionLostKeeps
<1>7. CASE Crash
  BY <1>7, StopKeeps DEF Crash
<1>8. CASE UNCHANGED vars
  BY <1>8, StutterKeeps
<1> QED
  BY <1>3, <1>4, <1>5, <1>6, <1>7, <1>8 DEF Next

LEMMA Invariance == Dependable /\ Spec => []IInv
  BY InitHolds, StepKeeps, PTL DEF Spec

-----------------------------------------------------------------------------
(* The theorems.                                                            *)

\* Every variable keeps its type, whatever the clients and the faults do.
THEOREM TypeCorrect == Spec => []TypeOK
<1>1. Init => TypeOK /\ OneEach
  BY TypeInit DEF Init, OneEach
<1>2. TypeOK /\ OneEach /\ [Next]_vars => TypeOK' /\ OneEach'
  BY TypeStep, OneEachStep
<1> QED
  BY <1>1, <1>2, PTL DEF Spec

\* An emitted last_pk_fetched has no row behind it that the target has yet to get
\* (generate_pk_clause resumes after it).
THEOREM ResumesBehindNothing == Dependable /\ Spec => []ResumeCovers
<1>1. IInv => ResumeCovers
  <2> SUFFICES ASSUME IInv, method = "LOG_BASED", saved.last # 0,
                      NEW p \in live, p <= saved.last, changed[p] <= saved.log
               PROVE  Holds(p)
    BY DEF ResumeCovers
  <2>1. Resumable /\ saved.version # 0
    BY DEF IInv, Support, ShapeOK, Shape, Resumable
  <2> QED
    BY <2>1 DEF IInv, Emitted, SavedResumable, Got, Holds
<1> QED
  BY <1>1, Invariance, PTL

\* A stream is handed to the binlog with every row the target would otherwise never
\* get, however the snapshot was interrupted, resumed or started over
\* (do_sync_historical_binlog).
THEOREM HandoffLosesNoRow == Dependable /\ Spec => []HandoffNoMissing
<1>1. IInv => HandoffNoMissing
  <2> SUFFICES ASSUME IInv, HandedOff, NEW p \in live, changed[p] <= saved.log
               PROVE  Holds(p)
    BY DEF HandoffNoMissing
  <2>1. method = "LOG_BASED" /\ saved.log # 0 /\ saved.max = 0
    BY DEF HandedOff, RequiresHistorical
  <2>2. CASE auto
    <3>1. Resumable /\ saved.version # 0
      BY <2>1, <2>2 DEF IInv, Support, ShapeOK, Shape, Resumable
    <3> QED
      BY <2>1, <3>1 DEF IInv, Emitted, SavedResumable, Got, Holds
  <2>3. CASE ~auto
    BY <2>1, <2>3 DEF IInv, Emitted, SavedRestarted
  <2> QED
    BY <2>2, <2>3
<1> QED
  BY <1>1, Invariance, PTL

\* Nor does the target keep a row, deleted before the position of a resumable
\* snapshot, that no later event would remove.
THEOREM HandoffKeepsNoGhost == Dependable /\ Spec => []HandoffNoGhost
<1>1. IInv => HandoffNoGhost
  <2> SUFFICES ASSUME IInv, HandedOff, auto, NEW p \in Pks \ live, changed[p] <= saved.log
               PROVE  Lacks(p)
    BY DEF HandoffNoGhost
  <2>1. Resumable /\ saved.version # 0
    BY DEF HandedOff, RequiresHistorical, IInv, Support, ShapeOK, Shape, Resumable
  <2> QED
    BY <2>1 DEF IInv, Emitted, SavedResumable, Lacks
<1> QED
  BY <1>1, Invariance, PTL

\* A FULL_TABLE run that exits normally leaves a copy of the table, whatever was
\* interrupted before it (do_sync_full_table).
THEOREM FullTableCopies == Dependable /\ Spec => []FullTableExact
<1>1. IInv => FullTableExact
  BY DEF IInv, Emitted, SavedCopy, PlainCopy, FullTableExact, FullTableIsCopy
<1> QED
  BY <1>1, Invariance, PTL

\* A resumed snapshot keeps the position it was started at, in every step.
THEOREM PositionKept == Dependable /\ Spec => SnapshotKeepsPosition
<1>1. IInv /\ [Next]_vars => [method = "LOG_BASED" /\ saved.last # 0 => saved'.log = saved.log]_vars
  <2> SUFFICES ASSUME IInv, [Next]_vars, method = "LOG_BASED", saved.last # 0
               PROVE  saved'.log = saved.log
    OBVIOUS
  <2>1. Resumable /\ saved.version # 0
    BY DEF IInv, Support, ShapeOK, Shape, Resumable
  <2>2. pc # "off" => saved.log = bm.log
    BY <2>1 DEF IInv, Emitted, SavedResumable
  <2>3. saved' = saved \/ (pc # "off" /\ saved' = bm)
    BY DEF Next, ServerNext, RunStep, Insert, Update, Delete, Change, ChangeMethod, StartRun, Connect, Execute,
           FetchRows, EmitState, EndQuery, Finish, ExitState, Stop, ConnectionLost, Crash, vars
  <2> QED
    BY <2>2, <2>3
<1> QED
  BY <1>1, Invariance, PTL DEF Spec, SnapshotKeepsPosition
=============================================================================
